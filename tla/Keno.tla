-------------------------------- MODULE Keno --------------------------------
(***************************************************************************)
(* The server and one channel together: module Server with one slot, whose *)
(* child is the process of module Channel, and the pipe between them.      *)
(*                                                                         *)
(* What Server says of its children in general (they write, and end, at    *)
(* any time) is here what a channel does: it is `running` until Channel    *)
(* has it exit or crash, and it has written what Channel put on the wire.  *)
(* A chunk is a line.                                                      *)
(***************************************************************************)
EXTENDS Naturals, Sequences

CONSTANTS MaxFiles, MaxReports  \* see Channel

ASSUME KenoAssumption == MaxFiles \in Nat /\ MaxReports \in Nat

VARIABLES
    main, io, env, writers, pipe, stop, files, layers, reports,
    logged, stdbuf, queue, wire, reqs,                    \* the channel's, see Channel
    pc, next, hosts, nulls, process, out, forwarded, mesh, \* the server's, see Server
    started,  \* has the channel been spawned?
    killed    \* has the server been killed?

channel == <<main, io, env, writers, pipe, stop, files, layers, reports,
             logged, stdbuf, queue, wire, reqs>>
server == <<pc, next, hosts, nulls, process, out, forwarded, mesh>>
vars == <<channel, server, started, killed>>

C == INSTANCE Channel

ChildState ==
    IF ~started THEN "none" ELSE IF main \in C!Ended THEN "exited" ELSE "running"

S == INSTANCE Server WITH
         NumChannels <- 1, MaxChunks <- C!MaxLine,
         child <- [i \in {1} |-> ChildState], written <- [i \in {1} |-> Len(wire)]

\* Until it is spawned, the channel is what it will begin as.  Its standard output
\* is a pipe; waits that end without a signal are left to Channel.
Init ==
    /\ C!Init /\ "pipe" \in env /\ "spurious" \notin env
    /\ started = FALSE /\ killed = FALSE
    /\ S!Init

-----------------------------------------------------------------------------
\* The server does A, which does not concern the channel.
Serve(A) ==
    /\ ~killed
    /\ UNCHANGED <<channel, started, killed>>
    /\ A

\* uv_spawn succeeds: the channel's main begins.
Spawn ==
    /\ ~killed
    /\ UNCHANGED <<channel, killed>>
    /\ started' = TRUE
    /\ S!Spawned(1)

\* The channel does A; what it finds at the other end of the pipe is the server.
Run(A) ==
    /\ started
    /\ UNCHANGED <<server, started, killed>>
    /\ A
    /\ pipe' = "broken" => killed
    /\ pipe' = "open" => ~killed

\* Somebody kills the server, which leaves its channels behind: one that has not
\* ended writes to a broken pipe from now on.
Kill ==
    /\ ~killed
    /\ pc # "done"
    /\ killed' = TRUE
    /\ pipe' = IF pipe = "open" /\ main \notin C!Ended THEN "broken" ELSE pipe
    /\ UNCHANGED <<server, started, main, io, env, writers, stop, files, layers, reports,
                   logged, stdbuf, queue, wire, reqs>>

Next ==
    \/ Spawn \/ Serve(S!NoExePath(1) \/ S!SpawnFails(1) \/ S!OpenMesh \/ S!Exit)
    \/ Serve(S!Callback(1))
    \/ Run(C!Next)
    \/ Kill

\* Of what is fair in Server and in Channel, what it takes for a line to get from
\* one log into the other.
Fairness ==
    /\ WF_vars(Run(C!IoThread)) /\ WF_vars(Run(C!Flush \/ C!FlushBroken))
    /\ WF_vars(Serve(S!OpenMesh)) /\ WF_vars(Serve(S!OnRead(1)))

Spec == Init /\ [][Next]_vars
FairSpec == Spec /\ Fairness

-----------------------------------------------------------------------------
(***************************************************************************)
(* Properties.                                                             *)
(***************************************************************************)

\* To the server, a channel is a child as Server assumes it: it writes nothing
\* before it is spawned or after it has ended, takes nothing back, and ends
\* once.  So what holds of Server holds of it with this child.
ChannelIsChild == S!Spec

\* The channel's lines in the server's log.
Relayed == SubSeq(wire, 1, forwarded[1])

\* The server logs the channel's lines in the order the channel logged them,
\* and none twice.  Only line 1, which waits in the stdout buffer for the end of
\* the process, comes last.  While the channel runs and its loop was not
\* stopped, none is missing either; if its pipe could not be opened, there is none.
RelayedInOrder ==
    /\ \A j, k \in DOMAIN Relayed : j < k => Relayed[j] < Relayed[k] \/ Relayed[k] = 1
    /\ main \notin C!Ended /\ ~stop /\ pipe # "dead"
          => \A k \in DOMAIN Relayed : Relayed[k] = k + 1

Lines(s) == {s[k] : k \in DOMAIN s}

\* A line that is lost in the channel: the process has ended, or its loop has,
\* with the line in the loop's queue.
LeftInQueue(line) == line \in Lines(queue) /\ (main \in C!Ended \/ io = "returned")

\* From one log to the other: a line that the channel's main thread handed to
\* libuv gets into the server's log, through the channel's loop, the pipe and
\* the server's loop, unless the channel ends first or the server stops reading.
LineArrives ==
    \A line \in 2..C!MaxLine :
        line \in Lines(queue) \cup Lines(wire)
            ~> \/ line \in Lines(Relayed)
               \/ LeftInQueue(line)
               \/ killed \/ out[1] \in {"unread", "closing", "freed"}
=============================================================================
