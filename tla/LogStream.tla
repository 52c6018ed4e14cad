----------------------------- MODULE LogStream -----------------------------
(***************************************************************************)
(* The log of one run (engine/logs.py): the engine and the threads of its  *)
(* jobs append lines to a file, followers read it (tail_log, without       *)
(* inotify, which the engine's image does not have), and `forge run` asks  *)
(* for the run's status when its stream is over.                           *)
(*                                                                         *)
(* A line is a text and the line end; a reader may see the one without the *)
(* other.  The operating system keeps appends to one file apart.           *)
(***************************************************************************)
EXTENDS Naturals, Sequences

CONSTANTS Jobs, System,    \* who writes lines
          Clients,
          Marker, NL,      \* the text of the EOF marker; the line end
          Chunk,           \* how much one read returns, at most
          MaxLines,        \* bound: lines written, but for the marker
          Slow,            \* stages that may last longer than a follower waits
          Loops,           \* whether the jobs of the run block the event loop
          Faults           \* what may go wrong

Stages == {"setup", "jobs", "publish", "told", "closed", "stuck", "dead"}

ASSUME LogAssumption ==
    /\ Chunk \in Nat \ {0} /\ MaxLines \in Nat
    /\ System # Marker /\ System # NL /\ Marker # NL /\ Jobs \cap {System, Marker, NL} = {}
    /\ Slow \subseteq Stages /\ Loops \subseteq BOOLEAN
    /\ Faults \subseteq {"crash", "escape", "disk full", "disconnect"}

VARIABLES
    exists,    \* there is a log file
    file,      \* what it holds
    torn,      \* the last line is still being written
    stage,     \* how far execute_pipeline is: "told" when its status is final
    final,     \* whether the row has a terminal status
    quiet,     \* nothing was written for longer than a follower waits
    oneLoop,   \* jobs block the event loop
    kind,      \* client -> "run" (forge run), "follow" (forge logs --follow), "look" (forge logs)
    pc,        \* client -> where its tail_log is, or how it ended
    pos,       \* client -> its position in the file
    buf,       \* client -> what it has read and not yet sent
    got,       \* client -> what it was sent
    late,      \* client -> whether its deadline is past
    told       \* client -> what `forge run` prints as final status

run == <<exists, file, torn, stage, final>>
reading == <<pc, pos, buf, got>>
vars == <<exists, file, torn, stage, final, quiet, oneLoop, kind, pc, pos, buf, got, late, told>>

Over == {"marker", "gave up", "not found", "read", "broken"}
Units == Jobs \cup {System, Marker, NL}

Init == /\ exists = FALSE /\ file = <<>> /\ torn = FALSE /\ stage = "setup" /\ final = FALSE
        /\ quiet = FALSE /\ oneLoop \in Loops
        /\ kind \in [Clients -> {"run", "follow", "look"}]
        /\ pc = [c \in Clients |-> "idle"]
        /\ pos = [c \in Clients |-> 0]
        /\ buf = [c \in Clients |-> <<>>]
        /\ got = [c \in Clients |-> <<>>]
        /\ late = [c \in Clients |-> FALSE]
        /\ told = [c \in Clients |-> "none"]

-----------------------------------------------------------------------------
\* execute_pipeline and the threads of its jobs
Writers == CASE stage = "jobs" -> Jobs
             [] stage \in {"setup", "publish", "told"} -> {System}
             [] OTHER -> {}

\* LogWriter.__init__: the first of them creates the file.
Create ==
    /\ Writers # {} /\ ~exists /\ exists' = TRUE /\ quiet' = FALSE
    /\ UNCHANGED <<file, torn, stage, final, oneLoop, kind, reading, late, told>>

Begin(text) ==
    /\ exists /\ ~torn
    /\ file' = Append(file, text) /\ torn' = TRUE /\ quiet' = FALSE
    /\ UNCHANGED <<exists, final, oneLoop, kind, reading, late, told>>

\* LogWriter.write
Write ==
    /\ \E w \in Writers : Begin(w)
    /\ Len(file) < 2 * MaxLines
    /\ UNCHANGED stage

\* append_eof
AfterMarker == "closed"
WriteMarker == stage = "told" /\ Begin(Marker) /\ stage' = AfterMarker

Finish ==
    /\ torn /\ stage # "dead"
    /\ file' = Append(file, NL) /\ torn' = FALSE /\ quiet' = FALSE
    /\ UNCHANGED <<exists, stage, final, oneLoop, kind, reading, late, told>>

\* FileIO.write writes less than it is given, and nobody looks at what it returns.
WriteLess ==
    /\ torn /\ stage # "dead" /\ "disk full" \in Faults
    /\ torn' = FALSE
    /\ UNCHANGED <<exists, file, stage, final, quiet, oneLoop, kind, reading, late, told>>

SetLast(s) == s = "closed"                                        \* mutant: the marker before the status
StatusSet(s) == s = "told"

Advance ==
    /\ ~torn
    /\ \/ stage = "setup" /\ stage' \in {"jobs", "publish", "told"}   \* there may be no jobs
       \/ stage = "jobs" /\ exists /\ stage' \in {"publish", "told"}
       \/ stage = "publish" /\ stage' = "told"
    /\ final' = StatusSet(stage')
    /\ UNCHANGED <<exists, file, torn, quiet, oneLoop, kind, reading, late, told>>

\* A dependency's download or unpacking fails, and no clause of execute_pipeline catches
\* it: the engine goes on and the run does not, without a status or a marker.
Escape ==
    /\ "escape" \in Faults /\ stage = "setup" /\ ~torn /\ stage' = "stuck"
    /\ UNCHANGED <<exists, file, torn, final, quiet, oneLoop, kind, reading, late, told>>

\* The engine dies, and comes back without the run.
Crash ==
    /\ "crash" \in Faults /\ stage # "dead" /\ stage' = "dead"
    /\ pc' = [c \in Clients |-> IF pc[c] \in Over \cup {"idle"} THEN pc[c] ELSE "broken"]
    /\ UNCHANGED <<exists, file, torn, final, quiet, oneLoop, kind, pos, buf, got, late, told>>

\* Without a log, or without a new line, time passes until all who wait have waited
\* too long.
Linger ==
    /\ stage \in Slow \cup {"closed", "stuck", "dead"} /\ (torn => stage = "dead")
    /\ quiet' = TRUE
    /\ late' = [c \in Clients |-> late[c] \/ pc[c] \in {"waiting", "tail"}]
    /\ UNCHANGED <<run, oneLoop, kind, reading, told>>

Engine == Create \/ Write \/ WriteMarker \/ Finish \/ WriteLess \/ Advance

-----------------------------------------------------------------------------
\* tail_log, between two awaits.  What the engine writes itself, it writes in one step
\* of its event loop.
Served == oneLoop => stage # "jobs" /\ (torn => stage = "dead")

Goto(c, from, to) ==
    /\ Served /\ pc[c] = from /\ pc' = [pc EXCEPT ![c] = to]
    /\ UNCHANGED <<run, quiet, oneLoop, kind>>

\* stream_run_logs, and tail_log's wait for the file
Ask(c) ==
    /\ Goto(c, "idle", "waiting") /\ late' = [late EXCEPT ![c] = FALSE]
    /\ UNCHANGED <<pos, buf, got, told>>

Open(c) ==
    /\ exists /\ Goto(c, "waiting", "backlog")
    /\ UNCHANGED <<pos, buf, got, late, told>>

NotFound(c) ==
    /\ ~exists /\ late[c] /\ Goto(c, "waiting", "not found")
    /\ UNCHANGED <<pos, buf, got, late, told>>

Buffered(c) == \E i \in DOMAIN buf[c] : buf[c][i] = NL
Least(a, b) == IF a < b THEN a ELSE b

NotReset(c) == late[c]                                             \* mutant: last_data set once
Reset(c) == FALSE
OnlyLast(c) == <<>>                                                \* mutant: buf = chunk
Unsent(c) == buf[c]

\* fh.read, when no whole line is left
Read(c) ==
    /\ pc[c] \in {"backlog", "tail"} /\ Goto(c, pc[c], pc[c])
    /\ ~Buffered(c) /\ pos[c] < Len(file)
    /\ LET n == Least(pos[c] + Chunk, Len(file)) IN
         /\ buf' = [buf EXCEPT ![c] = Unsent(c) \o SubSeq(file, pos[c] + 1, n)]
         /\ pos' = [pos EXCEPT ![c] = n]
    /\ late' = [late EXCEPT ![c] = Reset(c)]
    /\ UNCHANGED <<got, told>>

IsEof(line) == line = <<Marker, NL>>

\* yield: one line of buf; the marker ends the tail, but not the backlog.
Yield(c) ==
    /\ \E n \in DOMAIN buf[c] :
         LET line == SubSeq(buf[c], 1, n) IN
         /\ buf[c][n] = NL /\ \A i \in 1..n - 1 : buf[c][i] # NL
         /\ got' = [got EXCEPT ![c] = @ \o line]
         /\ buf' = [buf EXCEPT ![c] = SubSeq(@, n + 1, Len(@))]
         /\ \/ Goto(c, "backlog", "backlog")
            \/ ~IsEof(line) /\ Goto(c, "tail", "tail")
            \/ IsEof(line) /\ Goto(c, "tail", "marker")
    /\ UNCHANGED <<pos, late, told>>

\* saw_eof
SawEof(c) == \E i \in 2..Len(got[c]) : /\ IsEof(SubSeq(got[c], i - 1, i))
                                       /\ i > 2 => got[c][i - 2] = NL

NoWalkBack(c) == pos[c]                                             \* mutant: no fh.seek
WalkBack(c) == pos[c] - Len(buf[c])

EndBacklog(c) ==
    /\ ~Buffered(c) /\ pos[c] = Len(file)
    /\ pos' = [pos EXCEPT ![c] = WalkBack(c)] /\ buf' = [buf EXCEPT ![c] = <<>>]
    /\ \/ SawEof(c) /\ Goto(c, "backlog", "marker") /\ UNCHANGED late
       \/ ~SawEof(c) /\ kind[c] = "look" /\ Goto(c, "backlog", "read") /\ UNCHANGED late
       \/ /\ ~SawEof(c) /\ kind[c] # "look" /\ Goto(c, "backlog", "tail")
          /\ late' = [late EXCEPT ![c] = FALSE]
    /\ UNCHANGED <<got, told>>

Unchecked(c) == TRUE                                                \* mutant: the deadline before the read
Drained(c) == pos[c] = Len(file)

NoDeadline(c) == FALSE                                              \* mutant: no idle timeout
PastDeadline(c) == late[c]

GiveUp(c) ==
    /\ Goto(c, "tail", "gave up") /\ ~Buffered(c) /\ Drained(c) /\ PastDeadline(c)
    /\ UNCHANGED <<pos, buf, got, late, told>>

\* The connection breaks, or the user presses Ctrl-C.
Disconnect(c) ==
    /\ "disconnect" \in Faults
    /\ pc[c] \in {"waiting", "backlog", "tail"} /\ pc' = [pc EXCEPT ![c] = "broken"]
    /\ UNCHANGED <<run, quiet, oneLoop, kind, pos, buf, got, late, told>>

\* cmd_run, after the stream: it asks once, and waits five seconds for the answer.  (A
\* stream that is answered with an HTTP error is empty for it, and over: httpx.stream
\* raises nothing for that.)
AskStatus(c) ==
    /\ kind[c] = "run" /\ pc[c] \in Over /\ told[c] = "none"
    /\ \/ Served /\ told' = [told EXCEPT ![c] = IF final THEN "final" ELSE "running"]
       \/ /\ (~Served /\ stage \in Slow) \/ stage = "dead"
          /\ told' = [told EXCEPT ![c] = "error"]
    /\ UNCHANGED <<run, quiet, oneLoop, kind, reading, late>>

Follower(c) == \/ Open(c) \/ NotFound(c) \/ Read(c) \/ Yield(c) \/ EndBacklog(c) \/ GiveUp(c)
               \/ AskStatus(c)

-----------------------------------------------------------------------------
Done(c) == pc[c] = "idle" \/ (pc[c] \in Over /\ (kind[c] = "run" => told[c] # "none"))
Idle == stage \in {"closed", "stuck", "dead"} /\ (\A c \in Clients : Done(c)) /\ UNCHANGED vars

Next == \/ Engine \/ Escape \/ Crash \/ Linger \/ Idle
        \/ \E c \in Clients : Ask(c) \/ Follower(c) \/ Disconnect(c)

Spec == Init /\ [][Next]_vars

\* The loop serves followers, runs go on, and time passes.
FairSpec == /\ Spec /\ WF_vars(Engine) /\ WF_vars(Linger)
            /\ \A c \in Clients : WF_vars(Follower(c))

-----------------------------------------------------------------------------
Streaming == {"backlog", "tail"}

\* The text of a line and its end alternate, but for lines cut short; the marker comes last.
FileInv ==
    /\ file \in Seq(Units)
    /\ ~exists => file = <<>>
    /\ torn => Len(file) > 0 /\ file[Len(file)] # NL
    /\ \A i \in DOMAIN file : file[i] = Marker =>
          /\ stage \in {"closed", "dead"} /\ final
          /\ i = Len(file) \/ (i + 1 = Len(file) /\ file[i + 1] = NL)
    /\ stage \in {"told", "closed"} => final
    /\ stage \in {"setup", "jobs", "publish", "stuck"} => ~final

\* What a follower was sent and what it has read are the log up to its position, and it
\* was sent whole lines.
ReaderInv(c) ==
    /\ pc[c] \in {"idle", "waiting", "not found"} => pos[c] = 0 /\ got[c] = <<>> /\ buf[c] = <<>>
    /\ pc[c] \in Streaming \cup {"marker", "gave up", "read"} => exists
    /\ pos[c] \in 0..Len(file)
    /\ got[c] \o buf[c] = SubSeq(file, 1, pos[c])
    /\ got[c] # <<>> => got[c][Len(got[c])] = NL
    /\ told[c] # "none" => kind[c] = "run" /\ pc[c] \in Over

LogInv ==
    /\ torn \in BOOLEAN /\ final \in BOOLEAN /\ quiet \in BOOLEAN /\ oneLoop \in BOOLEAN
    /\ stage \in Stages
    /\ kind \in [Clients -> {"run", "follow", "look"}]
    /\ pc \in [Clients -> {"idle", "waiting"} \cup Streaming \cup Over]
    /\ pos \in [Clients -> Nat]
    /\ buf \in [Clients -> Seq(Units)]
    /\ got \in [Clients -> Seq(Units)]
    /\ late \in [Clients -> BOOLEAN]
    /\ told \in [Clients -> {"none", "running", "final", "error"}]
    /\ FileInv /\ \A c \in Clients : ReaderInv(c)

\* Whoever meets the marker has the entire log; nothing is written after it.
MarkerMeansAll == \A c \in Clients : pc[c] = "marker" => got[c] = file

\* Whoever runs a pipeline and follows it to the marker is told how it ended.
ToldTruth == \A c \in Clients : pc[c] = "marker" /\ told[c] # "none" => told[c] # "running"

\* `forge run` prints a final status (cli/forge.py: "Submit a pipeline and poll until complete").
FinalStatusTold == \A c \in Clients : told[c] # "running"

\* A follower gives up only after a lull: nothing was written for as long as it waits.
GivesUpOnlyInLull ==
    [][\A c \in Clients : pc'[c] \in {"gave up", "not found"} /\ pc[c] # pc'[c] => quiet]_vars

\* When the engine ends a stream, by the marker, a deadline or the end of the file, every
\* whole line of the file has been sent.
Unseen(c) == {i \in DOMAIN file : i > Len(got'[c]) /\ file[i] = NL}
EndsWithoutLoss ==
    [][\A c \in Clients : pc'[c] \in {"marker", "gave up", "read"} /\ pc[c] # pc'[c] =>
          Unseen(c) = {}]_vars

\* Every stream ends, and then `forge run` has a status to print, or learns that there is
\* nobody to tell it: its request fails within five seconds ("error").
StreamsEnd ==
    \A c \in Clients : pc[c] = "waiting" ~> pc[c] \in Over /\ (kind[c] = "run" => told[c] # "none")

\* The streams are a reliable feed of the log.
Feed == INSTANCE LogFeed WITH log <- file,
                              seen <- got,
                              over <- {c \in Clients : pc[c] \in Over}
ImplementsFeed == Feed!Spec
=============================================================================
