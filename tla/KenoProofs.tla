----------------------------- MODULE KenoProofs -----------------------------
(***************************************************************************)
(* Theorems about Keno, for any number of startup files and of lines: what *)
(* ChannelProofs shows of a channel by itself also holds of the one that   *)
(* the server runs.                                                        *)
(***************************************************************************)
EXTENDS Keno, SequenceTheorems, TLAPS

P == INSTANCE ChannelProofs

\* ChannelProofs is about the channel that Keno contains.
LEMMA SameInit == C!Init <=> P!Init
BY DEF C!Init, P!Init, C!Env, P!Env

\* It takes the same steps.
LEMMA SameNext == C!Next <=> P!Next
BY DEF C!Next, C!MainStep, C!SpuriousWakeup, C!Render, C!Quit, C!IoThread, C!Flush, C!FlushBroken,
       C!AfterWrite, C!LoopStops, C!ServerGone, C!Unconfigured, C!CreateThread, C!Wait, C!Opening,
       C!Startup, C!CreateWindow, C!Note, C!Setup, C!Listing, C!Adding,
       C!Image, C!ImageFails, C!ImageWarns, C!HideLayer, C!Starting, C!Report, C!Closing, C!StopLoop,
       C!Shutdown, C!Return, C!Guess, C!ClearWriters, C!OpenPipe, C!AddWriter, C!Signal,
       C!StartIdler, C!IoStep, C!Looping, C!Log, C!UvWrite, C!UvWriteBroken, C!UvWriteFails, C!UvWriteDead,
       C!WritersRace, C!Queued, C!Ended, C!LogPoints, C!threads, C!scene, C!lines,
       P!Next, P!MainStep, P!SpuriousWakeup, P!Render, P!Quit, P!IoThread, P!Flush, P!FlushBroken,
       P!AfterWrite, P!LoopStops, P!ServerGone, P!Unconfigured, P!CreateThread, P!Wait, P!Opening,
       P!Startup, P!CreateWindow, P!Note, P!Setup, P!Listing, P!Adding,
       P!Image, P!ImageFails, P!ImageWarns, P!HideLayer, P!Starting, P!Report, P!Closing, P!StopLoop,
       P!Shutdown, P!Return, P!Guess, P!ClearWriters, P!OpenPipe, P!AddWriter, P!Signal,
       P!StartIdler, P!IoStep, P!Looping, P!Log, P!UvWrite, P!UvWriteBroken, P!UvWriteFails, P!UvWriteDead,
       P!WritersRace, P!Queued, P!Ended, P!LogPoints, P!threads, P!scene, P!lines

\* It ends the same way and logs as many lines.
LEMMA SameNames == C!Ended = P!Ended /\ C!MaxLine = P!MaxLine
BY DEF C!Ended, P!Ended, C!MaxLine, P!MaxLine

\* The one slot, and its child's output.
LEMMA OneSlot == S!Slots = {1}
BY DEF S!Slots

\* What the server has forwarded was on the pipe.
Forwarded == forwarded \in [{1} -> Nat] /\ forwarded[1] <= Len(wire)

IInv == P!Told /\ Forwarded

\* Nothing is said before the channel is spawned.
LEMMA InitInv == Init => IInv
<1> SUFFICES ASSUME Init PROVE IInv
  OBVIOUS
<1>1. P!Told
  BY KenoAssumption, SameInit, P!InitTold DEF Init
<1>2. wire = <<>> /\ forwarded = [i \in {1} |-> 0]
  BY OneSlot DEF Init, C!Init, S!Init
<1> QED BY <1>1, <1>2 DEF IInv, Forwarded

\* Whatever the server does, a step of Keno is a step of Channel, or none: to a
\* channel that has not ended, the end of the server is ServerGone.
LEMMA ChannelSteps == [Next]_vars => [C!Next]_(C!vars)
<1> SUFFICES ASSUME [Next]_vars PROVE [C!Next]_(C!vars)
  OBVIOUS
<1>1. CASE \/ Spawn \/ Serve(S!NoExePath(1) \/ S!SpawnFails(1) \/ S!OpenMesh \/ S!Exit)
           \/ Serve(S!Callback(1)) \/ UNCHANGED vars
  BY <1>1 DEF Spawn, Serve, vars, channel, C!vars
<1>2. CASE Run(C!Next)
  BY <1>2 DEF Run
<1>3. CASE Kill
  <2>1. CASE pipe = "open" /\ main \notin C!Ended
    <3>1. C!ServerGone
      BY <1>3, <2>1 DEF Kill, C!ServerGone, C!threads, C!scene, C!lines
    <3> QED BY <3>1 DEF C!Next
  <2>2. CASE ~(pipe = "open" /\ main \notin C!Ended)
    BY <1>3, <2>2 DEF Kill, C!vars
  <2> QED BY <2>1, <2>2
<1> QED BY <1>1, <1>2, <1>3 DEF Next

\* What such a step means for the lines on the pipe.
LEMMA ChannelStep ==
    ASSUME IInv, [Next]_vars
    PROVE  /\ P!Told' /\ P!WireStep /\ Len(wire') \in 0..C!MaxLine
           /\ UNCHANGED <<main, wire>> \/ (Run(C!Next) /\ UNCHANGED server)
<1>1. [P!Next]_(P!vars)
  BY ChannelSteps, SameNext DEF C!vars, P!vars
<1>2. P!Told' /\ P!WireStep /\ Len(wire') \in 0..C!MaxLine
  BY <1>1, KenoAssumption, SameNames, P!NextTold DEF IInv
<1>3. UNCHANGED <<main, wire>> \/ (Run(C!Next) /\ UNCHANGED server)
  BY DEF Next, Spawn, Serve, Run, Kill, vars, channel
<1> QED BY <1>2, <1>3

\* Every step preserves the invariant.
LEMMA NextInv == IInv /\ [Next]_vars => IInv'
<1> SUFFICES ASSUME IInv, [Next]_vars PROVE IInv'
  OBVIOUS
<1>1. P!Told'
  BY ChannelStep
<1>2. Len(wire) \in Nat /\ Len(wire') \in Nat /\ Len(stdbuf) \in Nat
  BY <1>1, KenoAssumption, P!ToldOrder DEF IInv
<1>3. Len(wire) <= Len(wire')
  BY <1>2, ChannelStep DEF P!WireStep
<1>4. CASE UNCHANGED forwarded
  <2>1. forwarded' = forwarded
    BY <1>4
  <2> QED BY <1>1, <1>2, <1>3, <2>1 DEF IInv, Forwarded
<1>5. CASE Serve(S!OnRead(1))
  <2>1. PICK n \in 1..C!MaxLine : /\ forwarded[1] + n <= Len(wire)
                                 /\ forwarded' = [forwarded EXCEPT ![1] = @ + n]
    BY <1>5 DEF Serve, S!OnRead
  <2>2. n \in Nat
    BY <2>1
  <2> QED BY <1>1, <1>2, <1>3, <2>1, <2>2 DEF IInv, Forwarded
<1>6. UNCHANGED forwarded \/ Serve(S!OnRead(1))
  <2>1. CASE Spawn \/ Serve(S!NoExePath(1) \/ S!SpawnFails(1) \/ S!OpenMesh \/ S!Exit)
    BY <2>1 DEF Spawn, Serve, S!Spawned, S!NoExePath, S!SpawnFails, S!OpenMesh, S!Exit, S!pipes
  <2>2. CASE Serve(S!Callback(1))
    BY <2>2 DEF Serve, S!Callback, S!OnEnd, S!OnExit, S!OnCloseProcess, S!OnClosePipe, S!pipes
  <2>3. CASE Run(C!Next) \/ Kill \/ UNCHANGED vars
    BY <2>3 DEF Run, Kill, server, vars
  <2> QED BY <2>1, <2>2, <2>3 DEF Next
<1> QED BY <1>4, <1>5, <1>6

\* The server's log has the channel's lines in order, none twice, and none
\* missing while the channel is well, whichever of the two ends first
\* (channel_host.cc, trace.cc, channel.cc).
THEOREM Relays == Spec => []RelayedInOrder
<1>1. IInv => RelayedInOrder
  <2> SUFFICES ASSUME IInv PROVE RelayedInOrder
    OBVIOUS
  <2>1. /\ wire \in Seq(1..C!MaxLine) /\ Len(wire) \in Nat
        /\ \A j, k \in 1..Len(wire) : j < k => wire[j] < wire[k] \/ wire[k] = 1
        /\ main \notin C!Ended /\ ~stop /\ pipe # "dead" => \A k \in 1..Len(wire) : wire[k] = k + 1
    BY KenoAssumption, SameNames, P!ToldOrder DEF IInv
  <2>2. forwarded[1] \in Nat /\ 1..forwarded[1] \subseteq 1..Len(wire)
    BY <2>1 DEF IInv, Forwarded
  <2>3. \A k \in 1..forwarded[1] : wire[k] \in 1..C!MaxLine
    BY <2>1, <2>2, ElementOfSeq
  <2>4. /\ DOMAIN Relayed = 1..forwarded[1]
        /\ \A k \in 1..forwarded[1] : Relayed[k] = wire[k]
    <3>1. /\ Relayed \in Seq(1..C!MaxLine)
          /\ Len(Relayed) = IF 1 <= forwarded[1] THEN forwarded[1] - 1 + 1 ELSE 0
          /\ \A i \in 1..forwarded[1]-1+1 : Relayed[i] = wire[1+i-1]
      BY <2>2, <2>3, SubSeqProperties DEF Relayed
    <3>2. DOMAIN Relayed = 1..Len(Relayed) /\ Len(Relayed) = forwarded[1]
      BY <2>2, <3>1
    <3> QED BY <2>2, <3>1, <3>2
  <2> QED BY <2>1, <2>2, <2>4 DEF RelayedInOrder
<1> QED BY <1>1, InitInv, NextInv, PTL DEF Spec

-----------------------------------------------------------------------------
(***************************************************************************)
(* The channel as a child of the server.                                   *)
(***************************************************************************)

\* A step of the channel is a step of Server's child, or none.
LEMMA RunIsChild ==
    ASSUME IInv, Run(C!Next), P!WireStep, UNCHANGED server, Len(wire') \in 0..C!MaxLine
    PROVE  [S!Next]_(S!vars)
<1>1. /\ Len(wire) \in 0..C!MaxLine /\ Len(stdbuf) \in Nat
      /\ C!MaxLine \in Nat
  BY KenoAssumption, SameNames, P!ToldOrder DEF IInv, C!MaxLine
<1>2. started /\ started' /\ C!Ended = P!Ended
  BY SameNames DEF Run
<1>3. CASE main \in C!Ended
  BY <1>2, <1>3 DEF P!WireStep, ChildState, server, S!vars
<1> DEFINE child == [i \in {1} |-> ChildState]
           written == [i \in {1} |-> Len(wire)]
<1>4. CASE main \notin C!Ended /\ main' \notin C!Ended
  <2>1. child = [i \in {1} |-> "running"] /\ child' = child
    BY <1>2, <1>4 DEF ChildState, C!Ended
  <2>2. Len(wire') = Len(wire) \/ Len(wire') = Len(wire) + 1
    BY <1>2, <1>4 DEF P!WireStep
  <2>3. CASE Len(wire') = Len(wire)
    BY <2>1, <2>3 DEF server, S!vars
  <2>4. CASE Len(wire') = Len(wire) + 1
    <3>1. written' = [written EXCEPT ![1] = @ + 1] /\ written[1] < C!MaxLine
      BY <1>1, <2>4
    <3>2. S!ChildWrites(1)
      BY <2>1, <3>1 DEF S!ChildWrites, S!run, S!handles, server
    <3> QED BY <3>2, OneSlot DEF S!Next
  <2> QED BY <2>2, <2>3, <2>4
<1>5. CASE main \notin C!Ended /\ main' \in C!Ended
  <2>1. child = [i \in {1} |-> "running"] /\ child' = [i \in {1} |-> "exited"]
    BY <1>2, <1>5 DEF ChildState, C!Ended
  <2>2. Len(wire') \in written[1]..C!MaxLine
    BY <1>1, <1>2, <1>5 DEF P!WireStep
  <2>3. child' = [child EXCEPT ![1] = "exited"] /\ written' = [written EXCEPT ![1] = Len(wire')]
    BY <2>1
  <2>4. S!ChildExits(1)
    BY <2>1, <2>2, <2>3 DEF S!ChildExits, S!run, S!handles, server
  <2> QED BY <2>4, OneSlot DEF S!Next
<1> QED BY <1>3, <1>4, <1>5

\* To the server, a channel is a child as module Server assumes it, so that what
\* ServerProofs shows of any children holds of this one.
THEOREM IsChild == Spec => ChannelIsChild
<1>1. Init => S!Init
  BY DEF Init
<1>2. IInv /\ [Next]_vars => [S!Next]_(S!vars)
  <2> SUFFICES ASSUME IInv, [Next]_vars PROVE [S!Next]_(S!vars)
    OBVIOUS
  <2>1. CASE Spawn
    BY <2>1, OneSlot DEF Spawn, S!Next, S!Create
  <2>2. CASE Serve(S!NoExePath(1) \/ S!SpawnFails(1) \/ S!OpenMesh \/ S!Exit)
    BY <2>2, OneSlot DEF Serve, S!Next, S!Create
  <2>3. CASE Serve(S!Callback(1))
    BY <2>3, OneSlot DEF Serve, S!Next
  <2>4. CASE Run(C!Next) /\ UNCHANGED server
    BY <2>4, ChannelStep, RunIsChild
  <2>5. CASE UNCHANGED <<main, wire>> /\ (Run(C!Next) \/ Kill \/ UNCHANGED vars)
    BY <2>5 DEF Run, Kill, ChildState, server, vars, S!vars
  <2> QED BY <2>1, <2>2, <2>3, <2>4, <2>5, ChannelStep DEF Next
<1> QED BY <1>1, <1>2, InitInv, NextInv, PTL DEF Spec, ChannelIsChild, S!Spec

-----------------------------------------------------------------------------
(***************************************************************************)
(* What was proved of the components holds of them together.               *)
(***************************************************************************)

Q == INSTANCE ServerProofs WITH
         NumChannels <- 1, MaxChunks <- C!MaxLine,
         child <- [i \in {1} |-> ChildState], written <- [i \in {1} |-> Len(wire)]

\* ServerProofs is about the server that Keno contains.
LEMMA SameServer == (S!Init <=> Q!Init) /\ ([S!Next]_(S!vars) <=> [Q!Next]_(Q!vars))
<1>1. S!Init <=> Q!Init
  BY DEF S!Init, Q!Init, S!Slots, Q!Slots
<1>2. S!Next <=> Q!Next
  BY DEF S!Next, S!OpenMesh, S!Exit, S!Create, S!Callback, S!ChildWrites, S!ChildExits, S!NoExePath,
         S!SpawnFails, S!Spawned, S!OnRead, S!OnEnd, S!OnExit, S!OnCloseProcess, S!OnClosePipe,
         S!NextBlock, S!LoopAlive, S!Slots, S!run, S!handles, S!pipes,
         Q!Next, Q!OpenMesh, Q!Exit, Q!Create, Q!Callback, Q!ChildWrites, Q!ChildExits, Q!NoExePath,
         Q!SpawnFails, Q!Spawned, Q!OnRead, Q!OnEnd, Q!OnExit, Q!OnCloseProcess, Q!OnClosePipe,
         Q!NextBlock, Q!LoopAlive, Q!Slots, Q!run, Q!handles, Q!pipes
<1> QED BY <1>1, <1>2 DEF S!vars, Q!vars

\* In the server's company a channel does only what Channel says.
THEOREM RunsChannel == Spec => C!Spec
<1>1. Init => C!Init
  BY DEF Init
<1> QED BY <1>1, ChannelSteps, PTL DEF Spec, C!Spec

\* So it hands over its log's writers without a race, the stream it writes to
\* lives until its loop is stopped, libuv's requests live until they are done,
\* and nothing it logs is lost or overtaken before the server ends.
THEOREM ChannelSafe ==
    Spec => [](C!WritersUnraced /\ C!StreamAliveUntilClosed /\ C!QueuedRequestsLive
               /\ C!NothingLostOrReordered)
<1>1. C!Spec => P!Spec
  BY SameInit, SameNext, PTL DEF C!Spec, P!Spec, C!vars, P!vars
<1>2. /\ P!Spec => []P!WritersUnraced
      /\ P!Spec => []P!StreamAliveUntilClosed
      /\ P!Spec => []P!QueuedRequestsLive
      /\ P!Spec => []P!NothingLostOrReordered
  BY KenoAssumption, P!Unraced, P!StreamLives, P!RequestsLive, P!NothingLost
<1>3. /\ P!WritersUnraced => C!WritersUnraced
      /\ P!StreamAliveUntilClosed => C!StreamAliveUntilClosed
      /\ P!QueuedRequestsLive => C!QueuedRequestsLive
      /\ P!NothingLostOrReordered => C!NothingLostOrReordered
  BY DEF P!WritersUnraced, C!WritersUnraced, P!WritersRace, C!WritersRace, P!LogPoints, C!LogPoints,
         P!StreamAliveUntilClosed, C!StreamAliveUntilClosed, P!HasStream, C!HasStream,
         P!QueuedRequestsLive, C!QueuedRequestsLive, P!Queued, C!Queued,
         P!NothingLostOrReordered, C!NothingLostOrReordered
<1> QED BY <1>1, <1>2, <1>3, RunsChannel, PTL

\* And with a channel for its child the server keeps the promise of Supervisor,
\* never follows a dangling pointer to its host, and leaves no handle open.
THEOREM ServerSafe ==
    Spec => S!Supervised /\ [](S!HostOutlivesProcess /\ S!NoHandleLeak)
<1>1. C!MaxLine \in Nat
  BY KenoAssumption DEF C!MaxLine
<1>2. Spec => Q!Spec
  BY IsChild, SameServer, PTL DEF ChannelIsChild, S!Spec, Q!Spec
<1>3. /\ Q!Spec => Q!Supervised
      /\ Q!Spec => []Q!HostOutlivesProcess
      /\ Q!Spec => []Q!NoHandleLeak
  BY <1>1, Q!KeepsPromise, Q!HostsOutlive, Q!NoLeak
<1>4. Q!HostOutlivesProcess => S!HostOutlivesProcess
  BY DEF Q!HostOutlivesProcess, S!HostOutlivesProcess, Q!Slots, S!Slots
<1>5. Q!NoHandleLeak => S!NoHandleLeak
  BY DEF Q!NoHandleLeak, S!NoHandleLeak, Q!Slots, S!Slots
<1>6. Q!Supervised => S!Supervised
  <2>1. Q!Promise!Init => S!Promise!Init
    BY DEF Q!Promise!Init, S!Promise!Init, Q!ChildStatus, S!ChildStatus, Q!Slots, S!Slots
  <2>2. [Q!Promise!Next]_(Q!Promise!vars) => [S!Promise!Next]_(S!Promise!vars)
    BY DEF Q!Promise!Next, S!Promise!Next, Q!Promise!vars, S!Promise!vars, Q!ChildStatus, S!ChildStatus,
           Q!Promise!Begin, S!Promise!Begin, Q!Promise!Say, S!Promise!Say, Q!Promise!Relay, S!Promise!Relay,
           Q!Promise!End, S!Promise!End, Q!Promise!Stop, S!Promise!Stop, Q!Promise!Status, S!Promise!Status,
           Q!Promise!Running, S!Promise!Running, Q!Slots, S!Slots
  <2> QED BY <2>1, <2>2, PTL DEF Q!Supervised, S!Supervised, Q!Promise!Spec, S!Promise!Spec
<1> QED BY <1>2, <1>3, <1>4, <1>5, <1>6, PTL
=============================================================================
