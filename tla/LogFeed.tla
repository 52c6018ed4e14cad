------------------------------ MODULE LogFeed ------------------------------
(***************************************************************************)
(* What followers of a log are promised: each gets the log from its start, *)
(* whole line by whole line, nothing lost, repeated or out of order, until *)
(* its stream is over.                                                     *)
(***************************************************************************)
EXTENDS Naturals, Sequences

CONSTANTS Clients, Units, NL

VARIABLES log,      \* what has been written: beginnings of lines, and line ends
          seen,     \* client -> what it was sent
          over      \* the clients whose stream has ended

feed == <<log, seen, over>>

Init == log = <<>> /\ seen = [c \in Clients |-> <<>>] /\ over = {}

Write == \E u \in Units : log' = Append(log, u) /\ UNCHANGED <<seen, over>>

\* One line more, up to the next line end; it may be what ends the stream.
Deliver(c) ==
    /\ c \notin over /\ over' \in {over, over \cup {c}}
    /\ \E n \in Len(seen[c]) + 1 .. Len(log) :
         /\ log[n] = NL /\ \A i \in Len(seen[c]) + 1 .. n - 1 : log[i] # NL
         /\ seen' = [seen EXCEPT ![c] = SubSeq(log, 1, n)]
    /\ UNCHANGED log

\* Streams may end at any time, and all of them at once when the server dies.
End == over \subseteq over' /\ over' \subseteq Clients /\ UNCHANGED <<log, seen>>

Next == Write \/ End \/ \E c \in Clients : Deliver(c)

Spec == Init /\ [][Next]_feed
=============================================================================
