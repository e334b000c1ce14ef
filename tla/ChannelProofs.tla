---------------------------- MODULE ChannelProofs ----------------------------
(***************************************************************************)
(* Proofs about Channel, for any number of startup files and of lines that *)
(* depend on how things go.                                                *)
(*                                                                         *)
(* TypeOK needs a count of the lines each statement has behind it; the     *)
(* other theorems rest on the order of the two threads' statements.        *)
(***************************************************************************)
EXTENDS Channel, SequenceTheorems, TLAPS

\* Lines the main thread has logged when it is at a statement, not counting
\* those about startup files and those that depend on how things go.
Behind(m) ==
    CASE m \in {"start", "wait", "blocked", "opening"} -> 1
      [] m = "startup" -> 2
      [] m = "window" -> 3
      [] m \in {"setup", "note", "adding", "image", "failed", "warning", "layer", "starting"} -> 4
      [] m \in {"render", "report", "closing"} -> 5
      [] m \in {"stop", "shutdown"} -> 6
      [] OTHER -> 7

\* Lines about startup files, at most, and lines that depend on how things go.
Varying == (MaxFiles - files) + reports

\* The statements whose line depends on how things go.
Reporting == {"note", "report", "failed", "warning"}

\* The counters stay within their bounds.
Counted ==
    /\ logged <= Behind(main) + Varying
    /\ layers + files <= MaxFiles
    /\ main = "adding" => files > 0
    /\ main \in {"image", "failed", "warning"} => layers + files < MaxFiles
    /\ main \in Reporting => reports < MaxReports

TypeInv == TypeOK /\ Counted

\* The range of Varying.
LEMMA VaryingRange ==
    ASSUME NEW f \in 0..MaxFiles, NEW r \in 0..MaxReports
    PROVE  (MaxFiles - f) + r \in Nat /\ (MaxFiles - f) + r <= MaxFiles + MaxReports
BY ChannelAssumption

\* The values of Behind.
LEMMA BehindValues == ASSUME NEW m PROVE Behind(m) \in 1..7
BY DEF Behind

\* A process that crashes has no fewer lines behind it than any other.
LEMMA BehindCrash == ASSUME NEW m PROVE Behind(m) <= Behind("crashed")
BY DEF Behind

\* The type invariant holds when Channel::run starts.
LEMMA InitTypeInv == Init => TypeInv
<1> SUFFICES ASSUME Init PROVE TypeInv
  OBVIOUS
<1>1. MaxLine \in Nat /\ 1 \in 1..MaxLine
  BY ChannelAssumption DEF MaxLine
<1>2. <<1>> \in Seq(1..MaxLine) /\ <<>> \in Seq(1..MaxLine)
  BY <1>1
<1>3. main \in MainStates
  BY DEF Init, MainStates
<1>4. TypeOK
  <2>1. /\ io = "none" /\ env \subseteq Env /\ writers \subseteq {":stdout", ":pipe"}
        /\ pipe = "none" /\ stop \in BOOLEAN
    BY DEF Init
  <2>2. files \in 0..MaxFiles /\ layers \in 0..MaxFiles /\ reports \in 0..MaxReports
    BY ChannelAssumption DEF Init
  <2>3. /\ logged \in 1..MaxLine /\ stdbuf \in Seq(1..MaxLine) /\ queue \in Seq(1..MaxLine)
        /\ wire \in Seq(1..MaxLine) /\ reqs \subseteq 1..MaxLine
    BY <1>1, <1>2 DEF Init
  <2> QED BY <1>3, <2>1, <2>2, <2>3 DEF TypeOK
<1>5. Counted
  BY ChannelAssumption DEF Init, Counted, Behind, Varying, Reporting
<1> QED BY <1>4, <1>5 DEF TypeInv

\* What Log changes stays well typed, as long as there is a line left to log.
LEMMA LogTypes ==
    ASSUME TypeOK, logged < MaxLine, NEW next \in MainStates, Log(next)
    PROVE  /\ logged' = logged + 1 /\ logged' \in 1..MaxLine
           /\ stdbuf' \in Seq(1..MaxLine) /\ queue' \in Seq(1..MaxLine)
           /\ wire' \in Seq(1..MaxLine) /\ reqs' \subseteq 1..MaxLine
           /\ main' \in {next, "crashed"}
           /\ UNCHANGED <<io, env, writers, pipe, stop>>
<1>1. MaxLine \in Nat
  BY ChannelAssumption DEF MaxLine
<1>2. logged + 1 \in 1..MaxLine
  BY <1>1 DEF TypeOK
<1>3. Append(stdbuf, logged + 1) \in Seq(1..MaxLine) /\ Append(queue, logged + 1) \in Seq(1..MaxLine)
      /\ Append(wire, logged + 1) \in Seq(1..MaxLine)
  BY <1>2 DEF TypeOK
<1>4. stdbuf' \in Seq(1..MaxLine) /\ logged' = logged + 1 /\ UNCHANGED <<io, env, writers, pipe, stop>>
  BY <1>3 DEF Log, TypeOK
<1>5. /\ queue' \in {queue, Append(queue, logged + 1)}
      /\ wire' \in {wire, Append(wire, logged + 1)}
      /\ reqs' \in {reqs, reqs \cup {logged + 1}}
      /\ main' \in {next, "crashed"}
  BY DEF Log, UvWrite, UvWriteBroken, UvWriteFails, UvWriteDead
<1> QED BY <1>2, <1>3, <1>4, <1>5 DEF TypeOK

\* A statement of the main thread that logs preserves the type invariant.
LEMMA LogStepTypeInv ==
    ASSUME TypeInv, NEW next \in MainStates, Log(next),
           files' \in 0..MaxFiles, layers' \in 0..MaxFiles, reports' \in 0..MaxReports,
           Behind(main) + Varying < Behind(next) + Varying',
           layers' + files' <= MaxFiles,
           next = "adding" => files' > 0,
           next \in {"image", "failed", "warning"} => layers' + files' < MaxFiles,
           next \in Reporting => reports' < MaxReports
    PROVE  TypeInv'
<1> USE DEF TypeInv
<1>1. /\ Behind(main) \in Int /\ Behind(next) \in Int /\ Behind(main') \in Int
      /\ Behind(next) <= 7
  BY BehindValues
<1>2. logged \in Int /\ Varying \in Int
  BY VaryingRange DEF TypeOK, Varying
<1>3. Varying' \in Int /\ Varying' <= MaxFiles + MaxReports
  BY VaryingRange DEF Varying
<1>4. logged < Behind(next) + Varying'
  BY <1>1, <1>2, <1>3 DEF Counted
<1>5. logged < MaxLine
  BY <1>1, <1>2, <1>3, <1>4, ChannelAssumption DEF MaxLine
<1>6. /\ logged' = logged + 1 /\ logged' \in 1..MaxLine
      /\ stdbuf' \in Seq(1..MaxLine) /\ queue' \in Seq(1..MaxLine)
      /\ wire' \in Seq(1..MaxLine) /\ reqs' \subseteq 1..MaxLine
      /\ main' \in {next, "crashed"}
      /\ UNCHANGED <<io, env, writers, pipe, stop>>
  BY <1>5, LogTypes
<1>7. main' \in MainStates
  BY <1>6 DEF MainStates, Ended
<1>8. TypeOK'
  BY <1>6, <1>7 DEF TypeOK
<1>9. Behind(main') >= Behind(next)
  <2>1. CASE main' = next
    BY <2>1, <1>1
  <2>2. CASE main' = "crashed"
    BY <2>2, BehindCrash
  <2> QED BY <1>6, <2>1, <2>2
<1>10. Counted'
  <2>1. logged + 1 <= Behind(main') + Varying'
    BY <1>1, <1>2, <1>3, <1>4, <1>9
  <2> QED BY <2>1, <1>6 DEF Counted, Reporting
<1> QED BY <1>8, <1>10

\* Any other statement of the main thread: it goes on to one with no fewer
\* lines behind it.
LEMMA MoveTypeInv ==
    ASSUME TypeInv, NEW next \in MainStates, main' = next,
           Behind(main) <= Behind(next),
           next = "adding" => files > 0, next \in Reporting => reports < MaxReports,
           layers' \in 0..MaxFiles, layers' + files <= MaxFiles,
           next \in {"image", "failed", "warning"} => layers' + files < MaxFiles,
           UNCHANGED <<env, writers, pipe, files, reports, logged, queue, reqs>>,
           io' \in {io, "begin", "none"}, stop' \in BOOLEAN,
           stdbuf' \in Seq(1..MaxLine), wire' \in Seq(1..MaxLine)
    PROVE  TypeInv'
<1> USE ChannelAssumption DEF TypeInv
<1>1. /\ Behind(main) \in Int /\ Behind(next) \in Int
  BY BehindValues
<1>2. TypeOK'
  BY DEF TypeOK
<1>3. logged \in Int /\ Varying \in Int /\ Varying' = Varying
  BY DEF TypeOK, Varying
<1>4. logged' <= Behind(next) + Varying'
  BY <1>1, <1>3 DEF Counted
<1>5. Counted'
  BY <1>4 DEF Counted
<1> QED BY <1>2, <1>5

\* Every step of the main thread preserves the type invariant.
LEMMA MainTypeInv ==
    ASSUME TypeInv, MainStep \/ SpuriousWakeup \/ Render \/ Quit
    PROVE  TypeInv'
<1> USE DEF TypeInv
<1>0. /\ files \in 0..MaxFiles /\ layers \in 0..MaxFiles /\ reports \in 0..MaxReports
      /\ MaxFiles \in Nat /\ MaxReports \in Nat /\ layers + files <= MaxFiles
  BY ChannelAssumption DEF TypeOK, Counted
<1>1. CASE Unconfigured
  BY <1>0, <1>1, LogStepTypeInv DEF Unconfigured, scene, Behind, Varying, MainStates, Counted, Reporting
<1>2. CASE CreateThread \/ Wait \/ SpuriousWakeup \/ Quit \/ StopLoop
  <2>1. CASE CreateThread \/ Wait \/ SpuriousWakeup
    BY <1>0, <2>1, MoveTypeInv
       DEF CreateThread, Wait, SpuriousWakeup, scene, lines, Behind, MainStates, LogPoints, Reporting, TypeOK
  <2>2. CASE Quit
    BY <1>0, <2>2, MoveTypeInv
       DEF Quit, scene, lines, Behind, MainStates, LogPoints, Reporting, TypeOK
  <2>3. CASE StopLoop
    BY <1>0, <2>3, MoveTypeInv
       DEF StopLoop, scene, lines, Behind, MainStates, LogPoints, Reporting, TypeOK
  <2> QED BY <1>2, <2>1, <2>2, <2>3
<1>3. CASE Opening \/ Startup \/ CreateWindow
  BY <1>0, <1>3, LogStepTypeInv
     DEF Opening, Startup, CreateWindow, scene, Behind, Varying, MainStates, LogPoints, Counted, Reporting
<1>4. CASE Note
  <2>1. CASE main = "setup"
    BY <1>0, <1>4, <2>1, MoveTypeInv
       DEF Note, scene, lines, Behind, MainStates, LogPoints, Reporting, TypeOK
  <2>2. CASE main = "note"
    BY <1>0, <1>4, <2>2, LogStepTypeInv
       DEF Note, Behind, Varying, MainStates, LogPoints, Counted, Reporting
  <2> QED BY <1>4, <2>1, <2>2 DEF Note
<1>5. CASE Setup
  BY <1>0, <1>5, MoveTypeInv
     DEF Setup, Listing, scene, lines, Behind, MainStates, LogPoints, Ended, Reporting, TypeOK
<1>6. CASE Adding
  BY <1>0, <1>6, LogStepTypeInv DEF Adding, Behind, Varying, MainStates, LogPoints, Counted, Reporting
<1>7. CASE Image
  <2>1. layers + files < MaxFiles
    BY <1>7 DEF Image, Counted
  <2>2. CASE main' \in {"failed", "warning"} /\ reports < MaxReports /\ layers' = layers
    BY <1>0, <1>7, <2>1, <2>2, MoveTypeInv
       DEF Image, lines, Behind, MainStates, LogPoints, Reporting, TypeOK
  <2>3. CASE main' = Listing /\ layers' \in {layers, layers + 1}
    <3>1. Listing \in {"adding", "layer"} /\ (Listing = "adding" => files > 0)
      BY DEF Listing
    <3>2. layers' \in 0..MaxFiles /\ layers' + files <= MaxFiles
      <4>1. CASE layers' = layers
        BY <1>0, <4>1
      <4>2. CASE layers' = layers + 1
        BY <1>0, <2>1, <4>2
      <4> QED BY <2>3, <4>1, <4>2
    <3> QED BY <1>0, <1>7, <2>3, <3>1, <3>2, MoveTypeInv
            DEF Image, lines, Behind, MainStates, LogPoints, Reporting, TypeOK
  <2>4. CASE main' = "crashed" /\ layers' = layers
    BY <1>0, <1>7, <2>4, MoveTypeInv
       DEF Image, lines, Behind, MainStates, Ended, Reporting, TypeOK
  <2> QED BY <1>7, <2>2, <2>3, <2>4 DEF Image
<1>8. CASE ImageFails
  BY <1>0, <1>8, LogStepTypeInv
     DEF ImageFails, Listing, Behind, Varying, MainStates, LogPoints, Counted, Reporting
<1>9. CASE ImageWarns
  <2>1. layers + files < MaxFiles /\ reports < MaxReports
    BY <1>9 DEF ImageWarns, Counted, Reporting
  <2>2. CASE Log(Listing) /\ layers' = layers + 1
    BY <1>0, <1>9, <2>1, <2>2, LogStepTypeInv
       DEF ImageWarns, Listing, Behind, Varying, MainStates, LogPoints, Counted, Reporting
  <2>3. CASE Log("warning") /\ reports' < MaxReports /\ layers' = layers
    BY <1>0, <1>9, <2>1, <2>3, LogStepTypeInv
       DEF ImageWarns, Behind, Varying, MainStates, LogPoints, Counted, Reporting
  <2> QED BY <1>9, <2>2, <2>3 DEF ImageWarns
<1>10. CASE HideLayer
  BY <1>0, <1>10, MoveTypeInv
     DEF HideLayer, scene, lines, Behind, MainStates, LogPoints, Ended, Reporting, TypeOK
<1>11. CASE Starting \/ Closing \/ Shutdown
  BY <1>0, <1>11, LogStepTypeInv
     DEF Starting, Closing, Shutdown, scene, Behind, Varying, MainStates, LogPoints, Counted, Reporting
<1>12. CASE Render
  BY <1>0, <1>12, MoveTypeInv DEF Render, scene, lines, Behind, MainStates, LogPoints, Reporting, TypeOK
<1>13. CASE Report
  BY <1>0, <1>13, LogStepTypeInv DEF Report, Behind, Varying, MainStates, Counted, Reporting
<1>14. CASE Return
  <2>1. wire' \in Seq(1..MaxLine) /\ stdbuf' \in Seq(1..MaxLine)
    <3>1. wire \in Seq(1..MaxLine) /\ stdbuf \in Seq(1..MaxLine)
      BY DEF TypeOK
    <3>2. wire \o stdbuf \in Seq(1..MaxLine) /\ <<>> \in Seq(1..MaxLine)
      BY <3>1
    <3>3. wire' \in {wire, wire \o stdbuf} /\ stdbuf' = <<>>
      BY <1>14 DEF Return
    <3> QED BY <3>1, <3>2, <3>3
  <2> QED BY <1>0, <1>14, <2>1, MoveTypeInv
          DEF Return, scene, Behind, MainStates, Ended, Reporting, TypeOK
<1> QED BY <1>1, <1>2, <1>3, <1>4, <1>5, <1>6, <1>7, <1>8, <1>9, <1>10, <1>11, <1>12,
        <1>13, <1>14 DEF MainStep

\* Every step of the I/O thread and of its loop preserves the type invariant.
\* The one that moves the main thread wakes it to a statement with as many
\* lines behind it.
LEMMA IoTypeInv ==
    ASSUME TypeInv, IoThread \/ Flush \/ FlushBroken \/ AfterWrite \/ LoopStops \/ ServerGone
    PROVE  TypeInv'
<1> USE DEF TypeInv
<1>1. CASE IoThread
  <2>1. /\ UNCHANGED <<env, stop, scene, lines>>
        /\ main' \in {main, "opening"} /\ (main' # main => main = "blocked")
    BY <1>1 DEF IoThread, Guess, ClearWriters, OpenPipe, AddWriter, Signal, StartIdler, IoStep
  <2>2. TypeOK'
    BY <1>1, <2>1 DEF IoThread, Guess, ClearWriters, OpenPipe, AddWriter, Signal, StartIdler,
       IoStep, TypeOK, scene, lines, MainStates, LogPoints
  <2>3. Behind(main') = Behind(main)
    <3>1. CASE main' = main
      BY <3>1
    <3>2. CASE main' = "opening" /\ main = "blocked"
      BY <3>2 DEF Behind
    <3> QED BY <2>1, <3>1, <3>2
  <2> QED BY <2>1, <2>2, <2>3 DEF Counted, Varying, Reporting, scene, lines
<1>2. CASE Flush
  <2>1. /\ Head(queue) \in 1..MaxLine /\ Tail(queue) \in Seq(1..MaxLine)
        /\ Append(wire, Head(queue)) \in Seq(1..MaxLine)
    <3>1. queue \in Seq(1..MaxLine) /\ queue # <<>> /\ wire \in Seq(1..MaxLine)
      BY <1>2 DEF Flush, TypeOK
    <3>2. Head(queue) \in 1..MaxLine /\ Tail(queue) \in Seq(1..MaxLine)
      BY <3>1, HeadTailProperties
    <3> QED BY <3>1, <3>2
  <2> QED BY <1>2, <2>1 DEF Flush, TypeOK, Counted, Varying, Reporting, threads, scene
<1>3. CASE AfterWrite
  BY <1>3 DEF AfterWrite, TypeOK, Counted, Varying, Reporting, threads, scene
<1>4. CASE LoopStops
  BY <1>4 DEF LoopStops, TypeOK, Counted, Varying, Reporting, scene, lines
<1>5. CASE FlushBroken
  <2>1. Tail(queue) \in Seq(1..MaxLine)
    <3>1. queue \in Seq(1..MaxLine) /\ queue # <<>>
      BY <1>5 DEF FlushBroken, TypeOK
    <3> QED BY <3>1, HeadTailProperties
  <2>2. TypeOK'
    BY <1>5, <2>1 DEF FlushBroken, TypeOK, MainStates, Ended, scene
  <2>3. Behind(main) <= Behind(main')
    <3>1. CASE main' = main
      BY <3>1, BehindValues
    <3>2. CASE main' = "crashed"
      BY <3>2, BehindCrash
    <3> QED BY <1>5, <3>1, <3>2 DEF FlushBroken
  <2>4. /\ logged \in Int /\ Varying \in Int /\ Varying' = Varying
        /\ Behind(main) \in Int /\ Behind(main') \in Int
    <3>1. Varying' = Varying
      BY <1>5 DEF FlushBroken, scene, Varying
    <3>2. logged \in Int /\ Varying \in Int
      BY VaryingRange DEF TypeOK, Varying
    <3>3. Behind(main) \in Int /\ Behind(main') \in Int
      BY BehindValues
    <3> QED BY <3>1, <3>2, <3>3
  <2>5. Counted'
    BY <1>5, <2>3, <2>4 DEF FlushBroken, Counted, Reporting, scene
  <2> QED BY <2>2, <2>5
<1>6. CASE ServerGone
  BY <1>6 DEF ServerGone, TypeOK, Counted, Varying, Reporting, threads, scene, lines
<1> QED BY <1>1, <1>2, <1>3, <1>4, <1>5, <1>6

\* Every step preserves the type invariant.
LEMMA NextTypeInv == ASSUME TypeInv, [Next]_vars PROVE TypeInv'
<1>1. CASE UNCHANGED vars
  BY <1>1 DEF vars, TypeInv, TypeOK, Counted, Varying
<1>2. CASE Next
  BY <1>2, MainTypeInv, IoTypeInv DEF Next
<1> QED BY <1>1, <1>2

\* The type invariant, for every bound.
THEOREM TypeCorrect == Spec => []TypeOK
<1>1. TypeInv /\ [Next]_vars => TypeInv'
  BY NextTypeInv
<1>2. TypeInv => TypeOK
  BY DEF TypeInv
<1> QED BY <1>1, <1>2, InitTypeInv, PTL DEF Spec

-----------------------------------------------------------------------------
(***************************************************************************)
(* What the statements of the main thread have in common.                  *)
(***************************************************************************)

\* A statement that logs, and the one that comes next.
Logs(next) ==
    /\ Log(next)
    /\ main \in LogPoints \cup {"start"}
    /\ next \notin Ended \cup {"start", "wait", "blocked", "closing", "shutdown"}
    /\ (next = "return") <=> (main \in {"start", "shutdown"})
    /\ next = "stop" => main = "closing"

\* One that does not: only the wait for the I/O thread, the test of the window
\* and uv_stop lead to states that matter below.
Moves ==
    /\ UNCHANGED <<env, writers, pipe, lines>>
    /\ main \notin Ended \cup {"return", "shutdown"}
    /\ main' \notin {"start", "exited", "return", "stop"}
    /\ main' \in {"wait", "blocked"} => main \in {"start", "wait"}
    /\ main = "start" => main' = "wait"
    /\ main = "blocked" => "spurious" \in env
    /\ main = "wait" => main' = "blocked"
    /\ main' = "closing" => "quit" \in env
    /\ main' = "shutdown" => main = "stop"
    /\ main = "stop" => main' = "shutdown"
    /\ io' \in (IF main = "start" THEN {"begin", "none"} ELSE {io})
    /\ stop' = IF main = "stop" THEN TRUE ELSE stop

\* Every statement is of one of these kinds, or the process's last.
LEMMA MainKinds ==
    ASSUME MainStep \/ SpuriousWakeup \/ Render \/ Quit, stop \in BOOLEAN
    PROVE  Moves \/ Return \/ (\E next : Logs(next))
<1>1. CASE CreateThread \/ Wait \/ SpuriousWakeup
  BY <1>1 DEF CreateThread, Wait, SpuriousWakeup, Moves, lines, Ended
<1>2. CASE Render \/ Quit \/ StopLoop \/ HideLayer
  BY <1>2 DEF Render, Quit, StopLoop, HideLayer, Moves, lines, Ended
<1>3. CASE Setup \/ Image
  BY <1>3 DEF Setup, Image, Listing, Moves, lines, Ended
<1>4. CASE Note
  <2>1. CASE main = "setup"
    BY <1>4, <2>1 DEF Note, Moves, lines, Ended
  <2>2. CASE main = "note"
    BY <1>4, <2>2 DEF Note, Logs, LogPoints, Ended
  <2> QED BY <1>4, <2>1, <2>2 DEF Note
<1>5. CASE Unconfigured \/ Opening \/ Startup \/ CreateWindow \/ Adding
  BY <1>5 DEF Unconfigured, Opening, Startup, CreateWindow, Adding, Logs, LogPoints, Ended
<1>6. CASE ImageFails \/ ImageWarns
  BY <1>6 DEF ImageFails, ImageWarns, Listing, Logs, LogPoints, Ended
<1>7. CASE Starting \/ Report \/ Closing \/ Shutdown
  BY <1>7 DEF Starting, Report, Closing, Shutdown, Logs, LogPoints, Ended
<1> QED BY <1>1, <1>2, <1>3, <1>4, <1>5, <1>6, <1>7 DEF MainStep

\* Logging leads on to the next statement, unless it is the process's end.
LEMMA LogLeads ==
    ASSUME NEW next, Log(next)
    PROVE  main' \in {next, "crashed"} /\ UNCHANGED <<io, env, writers, pipe, stop>>
BY DEF Log, UvWrite, UvWriteBroken, UvWriteFails, UvWriteDead

-----------------------------------------------------------------------------
(***************************************************************************)
(* The hand-over of the log from one thread to the other.                  *)
(***************************************************************************)

\* Unless waits may end for no reason, the main thread is past its wait only
\* when the I/O thread is done with the writers, or was never made.
HandedOver ==
    \/ "spurious" \in env
    \/ main \in {"start", "wait", "blocked"} /\ (main = "start" => io = "none")
    \/ io \in {"none", "start", "run", "returned"}

\* Every step preserves HandedOver.
LEMMA NextHandedOver == ASSUME HandedOver, TypeInv, [Next]_vars PROVE HandedOver'
<1> USE DEF HandedOver
<1>1. CASE MainStep \/ SpuriousWakeup \/ Render \/ Quit
  <2>1. CASE Moves
    BY <2>1 DEF Moves
  <2>2. ASSUME NEW next, Logs(next) PROVE HandedOver'
    BY <2>2, LogLeads DEF Logs, LogPoints
  <2>3. CASE Return
    BY <2>3 DEF Return
  <2> QED BY <1>1, <2>1, <2>2, <2>3, MainKinds DEF TypeInv, TypeOK
<1>2. CASE IoThread
  BY <1>2 DEF IoThread, Guess, ClearWriters, OpenPipe, AddWriter, Signal, StartIdler, IoStep
<1>3. CASE Flush \/ FlushBroken \/ AfterWrite \/ LoopStops \/ ServerGone
  BY <1>3 DEF Flush, FlushBroken, AfterWrite, LoopStops, ServerGone, Looping, threads
<1>4. CASE UNCHANGED vars
  BY <1>4 DEF vars
<1> QED BY <1>1, <1>2, <1>3, <1>4 DEF Next

\* If waits do not end without a signal, no line is logged while the I/O
\* thread replaces the writers: the wait is all the synchronisation there is,
\* and it is enough although a signal may be lost.
THEOREM Unraced == Spec => []WritersUnraced
<1> DEFINE I == TypeInv /\ HandedOver
<1>1. Init => I
  BY InitTypeInv DEF Init, HandedOver
<1>2. I /\ [Next]_vars => I'
  BY NextTypeInv, NextHandedOver
<1>3. I => WritersUnraced
  BY DEF HandedOver, WritersUnraced, WritersRace, LogPoints
<1> QED BY <1>1, <1>2, <1>3, PTL DEF Spec

-----------------------------------------------------------------------------
(***************************************************************************)
(* The life of the pipe on the I/O thread's stack.                         *)
(***************************************************************************)

\* The main thread has called uv_stop: it logs once more, and ends.
Closed == main \in {"shutdown", "return"} \cup Ended

\* The loop is not stopped before that, and the pipe is open from before its
\* writer is registered until the loop is stopped.
PipeLives ==
    \/ Closed
    \/ /\ ~stop
       /\ pipe # "dead"
       /\ io = "add" => HasStream
       /\ ":pipe" \in writers => HasStream

\* Every step preserves PipeLives.
LEMMA NextPipeLives == ASSUME PipeLives, TypeInv, [Next]_vars PROVE PipeLives'
<1> USE DEF PipeLives, Closed, Ended, HasStream
<1>1. CASE MainStep \/ SpuriousWakeup \/ Render \/ Quit
  <2>1. CASE Moves
    BY <2>1 DEF Moves
  <2>2. ASSUME NEW next, Logs(next) PROVE PipeLives'
    <3>1. main' \in {next, "crashed"} /\ UNCHANGED <<io, env, writers, pipe, stop>>
      BY <2>2, LogLeads DEF Logs
    <3>2. main = "shutdown" => next = "return"
      BY <2>2 DEF Logs
    <3> QED BY <2>2, <3>1, <3>2 DEF Logs, LogPoints
  <2>3. CASE Return
    BY <2>3 DEF Return
  <2> QED BY <1>1, <2>1, <2>2, <2>3, MainKinds DEF TypeInv, TypeOK
<1>2. CASE IoThread
  BY <1>2 DEF IoThread, Guess, ClearWriters, OpenPipe, AddWriter, Signal, StartIdler, IoStep
<1>3. CASE Flush \/ FlushBroken \/ AfterWrite \/ LoopStops \/ ServerGone
  BY <1>3 DEF Flush, FlushBroken, AfterWrite, LoopStops, ServerGone, Looping, threads
<1>4. CASE UNCHANGED vars
  BY <1>4 DEF vars
<1> QED BY <1>1, <1>2, <1>3, <1>4 DEF Next

\* The log never writes to a pipe whose thread has ended before Channel::close
\* has stopped the loop, whether or not a wakeup was spurious.
THEOREM StreamLives == Spec => []StreamAliveUntilClosed
<1> DEFINE I == TypeInv /\ PipeLives
<1>1. Init => I
  BY InitTypeInv DEF Init, PipeLives
<1>2. I /\ [Next]_vars => I'
  BY NextTypeInv, NextPipeLives
<1>3. I => StreamAliveUntilClosed
  BY DEF PipeLives, Closed, Ended, StreamAliveUntilClosed, LogPoints
<1> QED BY <1>1, <1>2, <1>3, PTL DEF Spec

\* A window that cannot be closed is never left.
NeverLeft == "quit" \in env \/ main \notin {"closing", "stop", "shutdown"}

\* Without a closed window no step takes the main thread out of its loop.
LEMMA NextNeverLeft == ASSUME NeverLeft, TypeInv, [Next]_vars PROVE NeverLeft'
<1> USE DEF NeverLeft
<1>1. CASE MainStep \/ SpuriousWakeup \/ Render \/ Quit
  <2>1. CASE Moves
    BY <2>1 DEF Moves
  <2>2. ASSUME NEW next, Logs(next) PROVE NeverLeft'
    BY <2>2, LogLeads DEF Logs, Ended
  <2>3. CASE Return
    BY <2>3 DEF Return
  <2> QED BY <1>1, <2>1, <2>2, <2>3, MainKinds DEF TypeInv, TypeOK
<1>2. CASE IoThread
  BY <1>2 DEF IoThread, Guess, ClearWriters, OpenPipe, AddWriter, Signal, StartIdler, IoStep
<1>3. CASE Flush \/ FlushBroken \/ AfterWrite \/ LoopStops \/ ServerGone
  BY <1>3 DEF Flush, FlushBroken, AfterWrite, LoopStops, ServerGone, Looping, threads
<1>4. CASE UNCHANGED vars
  BY <1>4 DEF vars
<1> QED BY <1>1, <1>2, <1>3, <1>4 DEF Next

\* Where pump never returns -1 (window_x11.cc and window_bcm.cc), the stream
\* that a UvWriter writes to is alive whenever the main thread logs: what run
\* channel_quit finds happens on Windows only.
THEOREM StreamLivesOpen == Spec => []("quit" \notin env => StreamAlive)
<1> DEFINE I == TypeInv /\ NeverLeft
<1>1. Init => I
  BY InitTypeInv DEF Init, NeverLeft
<1>2. I /\ [Next]_vars => I'
  BY NextTypeInv, NextNeverLeft
<1>3. I /\ StreamAliveUntilClosed => ("quit" \notin env => StreamAlive)
  BY DEF NeverLeft, StreamAliveUntilClosed, StreamAlive
<1> QED BY <1>1, <1>2, <1>3, StreamLives, PTL DEF Spec

-----------------------------------------------------------------------------
(***************************************************************************)
(* What the log hands to libuv.                                            *)
(***************************************************************************)

\* A queued line's request and buffer are allocated, in every environment:
\* the queue only takes a line together with its request, and a request is
\* only freed once its line has left the queue.
THEOREM RequestsLive == Spec => []QueuedRequestsLive
<1> DEFINE I == TypeInv /\ QueuedRequestsLive
<1>1. Init => I
  BY InitTypeInv DEF Init, QueuedRequestsLive, Queued
<1>2. I /\ [Next]_vars => I'
  <2> SUFFICES ASSUME TypeInv, TypeInv', QueuedRequestsLive, [Next]_vars
               PROVE  QueuedRequestsLive'
    BY NextTypeInv
  <2>1. CASE UNCHANGED <<queue, reqs>>
    BY <2>1 DEF QueuedRequestsLive, Queued
  <2>2. ASSUME NEW next, Log(next) PROVE QueuedRequestsLive'
    <3>1. \/ UNCHANGED queue /\ reqs \subseteq reqs'
          \/ queue' = Append(queue, logged + 1) /\ reqs' = reqs \cup {logged + 1}
      BY <2>2 DEF Log, UvWrite, UvWriteBroken, UvWriteFails, UvWriteDead
    <3>2. queue \in Seq(1..MaxLine)
      BY DEF TypeInv, TypeOK
    <3> QED BY <3>1, <3>2 DEF QueuedRequestsLive, Queued
  <2>3. CASE Flush \/ FlushBroken
    <3>1. queue \in Seq(1..MaxLine) /\ queue # <<>> /\ queue' = Tail(queue) /\ reqs' = reqs
      BY <2>3 DEF Flush, FlushBroken, TypeInv, TypeOK
    <3>2. /\ Len(queue') = Len(queue) - 1
          /\ \A k \in 1..Len(queue') : queue'[k] = queue[k + 1]
      BY <3>1, HeadTailProperties
    <3>3. DOMAIN queue = 1..Len(queue) /\ DOMAIN queue' = 1..Len(queue') /\ Len(queue) \in Nat
      BY <3>1 DEF TypeInv, TypeOK
    <3> QED BY <3>1, <3>2, <3>3 DEF QueuedRequestsLive, Queued
  <2>4. CASE AfterWrite
    BY <2>4 DEF AfterWrite, QueuedRequestsLive, Queued
  <2>5. CASE MainStep \/ SpuriousWakeup \/ Render \/ Quit
    <3>1. CASE Moves
      BY <2>1, <3>1 DEF Moves, lines
    <3>2. CASE \E next : Logs(next)
      BY <2>2, <3>2 DEF Logs
    <3>3. CASE Return
      BY <2>1, <3>3 DEF Return
    <3> QED BY <2>5, <3>1, <3>2, <3>3, MainKinds DEF TypeInv, TypeOK
  <2>6. CASE IoThread \/ LoopStops \/ ServerGone \/ UNCHANGED vars
    BY <2>1, <2>6 DEF ServerGone, IoThread, Guess, ClearWriters, OpenPipe,
       AddWriter, Signal, StartIdler, IoStep, LoopStops, lines, vars
  <2> QED BY <2>3, <2>4, <2>5, <2>6 DEF Next
<1> QED BY <1>1, <1>2, PTL DEF Spec

-----------------------------------------------------------------------------
(***************************************************************************)
(* The order of the lines.                                                 *)
(***************************************************************************)

\* Appending to the second of two sequences appends to their concatenation.
LEMMA ConcatAppend ==
    ASSUME NEW S, NEW r \in Seq(S), NEW s \in Seq(S), NEW e \in S
    PROVE  r \o Append(s, e) = Append(r \o s, e)
<1>1. r \o s \in Seq(S) /\ <<e>> \in Seq(S)
  BY ConcatProperties
<1>2. Append(s, e) = s \o <<e>> /\ Append(r \o s, e) = (r \o s) \o <<e>>
  BY <1>1, AppendIsConcat
<1>3. (r \o s) \o <<e>> = r \o (s \o <<e>>)
  BY <1>1, ConcatAssociative
<1> QED BY <1>2, <1>3

\* The writers at every statement of the I/O thread, and the state of its pipe.
Phases ==
    /\ main = "start" => io = "none"
    /\ io \in {"none", "begin", "clear"} => writers = {":stdout"}
    /\ io \in {"open", "add"} => writers = {}
    /\ io \in {"signal", "start", "run", "returned"} => writers \in {{":stdout"}, {":pipe"}}
    /\ io \in {"none", "begin", "clear", "open"} => pipe = "none"
    /\ io = "add" => HasStream
    /\ ":pipe" \in writers => pipe # "none"
    /\ pipe = "dead" => io = "returned"

\* Every step preserves Phases.
LEMMA NextPhases == ASSUME Phases, TypeInv, [Next]_vars PROVE Phases'
<1> USE DEF Phases, HasStream
<1>1. CASE MainStep \/ SpuriousWakeup \/ Render \/ Quit
  <2>1. CASE Moves
    BY <2>1 DEF Moves
  <2>2. ASSUME NEW next, Logs(next) PROVE Phases'
    BY <2>2, LogLeads DEF Logs
  <2>3. CASE Return
    BY <2>3 DEF Return
  <2> QED BY <1>1, <2>1, <2>2, <2>3, MainKinds DEF TypeInv, TypeOK
<1>2. CASE UNCHANGED vars
  BY <1>2 DEF vars
<1>3. CASE IoThread
  BY <1>3 DEF IoThread, Guess, ClearWriters, OpenPipe, AddWriter, Signal, StartIdler, IoStep
<1>4. CASE Flush \/ FlushBroken \/ AfterWrite \/ LoopStops \/ ServerGone
  BY <1>4 DEF Flush, FlushBroken, AfterWrite, LoopStops, ServerGone, Looping, threads
<1> QED BY <1>1, <1>2, <1>3, <1>4 DEF Next

\* The lines that reached the stdout buffer, the wire and the queue, in order.
Ordered == stdbuf \o wire \o queue = [n \in 1..logged |-> n]

\* As long as the pipe's thread lives, the lines are in order until the process
\* has ended after a call of uv_stop; the wire and the queue are not used before
\* the pipe's writer is registered; and with it registered the main thread does
\* not leave its rendering loop without that call.
Journal ==
    \/ "spurious" \in env
    \/ pipe \in {"broken", "unopened", "dead"}
    \/ /\ Ordered \/ (main = "exited" /\ stop)
       /\ ":pipe" \notin writers => queue = <<>> /\ (wire = <<>> \/ main = "exited")
       /\ ":pipe" \in writers /\ main \in {"shutdown", "return"} => stop

\* A line that is logged goes to the one writer there is.
LEMMA LogJournal ==
    ASSUME TypeInv, TypeInv', Phases, HandedOver, Journal, Ordered,
           main \in LogPoints \/ main = "start",
           NEW next, Log(next), next # "exited",
           next \in {"shutdown", "return"} /\ ":pipe" \in writers => stop
    PROVE  Journal'
<1> SUFFICES ASSUME "spurious" \notin env, pipe \notin {"broken", "unopened", "dead"} PROVE Journal'
  BY DEF Journal, Log
<1> DEFINE S == 1..MaxLine
<1>1. stdbuf \in Seq(S) /\ wire \in Seq(S) /\ queue \in Seq(S) /\ logged' \in S /\ logged \in S
  BY DEF TypeInv, TypeOK
<1>2. logged' = logged + 1 /\ UNCHANGED <<io, env, writers, pipe, stop>>
  BY DEF Log
<1>3. writers = {":stdout"} \/ writers = {":pipe"}
  BY DEF Phases, HandedOver, LogPoints
<1>4. main' = next
  BY DEF Log, UvWrite, UvWriteBroken, UvWriteFails, UvWriteDead, WritersRace, HandedOver, LogPoints
<1>5. Append([n \in 1..logged |-> n], logged + 1) = [n \in 1..logged' |-> n]
  BY <1>1, <1>2
<1>6. CASE writers = {":stdout"}
  <2>1. /\ stdbuf' = Append(stdbuf, logged') /\ wire' = wire /\ queue' = queue
        /\ queue = <<>> /\ wire = <<>>
    BY <1>2, <1>6 DEF Log, Journal, Ended, LogPoints
  <2>2. \A q \in Seq(S) : q \o <<>> = q
    BY ConcatEmptySeq
  <2>3. stdbuf' \in Seq(S) /\ stdbuf' \o <<>> \o <<>> = stdbuf' /\ stdbuf \o <<>> \o <<>> = stdbuf
    BY <1>1, <2>1, <2>2
  <2>4. Ordered'
    BY <1>2, <1>5, <2>1, <2>3 DEF Ordered
  <2> QED BY <1>2, <1>4, <1>6, <2>1, <2>4 DEF Journal
<1>7. CASE writers = {":pipe"}
  <2>1. /\ stdbuf' = stdbuf
        /\ \/ queue = <<>> /\ wire' = Append(wire, logged') /\ queue' = queue
           \/ queue' = Append(queue, logged') /\ wire' = wire
    BY <1>2, <1>7 DEF Log, UvWrite, UvWriteBroken, UvWriteFails, UvWriteDead, WritersRace, Phases
  <2>2. stdbuf \o wire' \o queue' = Append(stdbuf \o wire \o queue, logged')
    <3>1. stdbuf \o wire \in Seq(S)
      BY <1>1, ConcatProperties
    <3>2. (stdbuf \o wire) \o Append(queue, logged') = Append((stdbuf \o wire) \o queue, logged')
      BY <1>1, <3>1, ConcatAppend
    <3>3. stdbuf \o Append(wire, logged') = Append(stdbuf \o wire, logged')
      BY <1>1, ConcatAppend
    <3>4. (stdbuf \o wire) \o <<>> = stdbuf \o wire
      BY <3>1, ConcatEmptySeq
    <3>5. Append(stdbuf \o wire, logged') \o <<>> = Append(stdbuf \o wire, logged')
      BY <1>1, <3>1, AppendProperties, ConcatEmptySeq
    <3> QED BY <2>1, <3>2, <3>3, <3>4, <3>5
  <2>3. Ordered'
    BY <1>2, <1>5, <2>1, <2>2 DEF Ordered
  <2> QED BY <1>2, <1>4, <1>7, <2>3 DEF Journal
<1> QED BY <1>3, <1>6, <1>7

\* The loop moves the head of the queue to the end of the wire: their
\* concatenation stays the same.
LEMMA FlushOrdered == ASSUME TypeInv, Flush, Ordered PROVE Ordered'
<1> DEFINE S == 1..MaxLine
<1>1. /\ stdbuf \in Seq(S) /\ wire \in Seq(S) /\ queue \in Seq(S) /\ queue # <<>>
      /\ wire' = Append(wire, Head(queue)) /\ queue' = Tail(queue)
      /\ UNCHANGED <<stdbuf, logged>>
  BY DEF TypeInv, TypeOK, Flush
<1>2. Head(queue) \in S /\ Tail(queue) \in Seq(S) /\ queue = <<Head(queue)>> \o Tail(queue)
  <2> HIDE DEF S
  <2>1. /\ Head(queue) \in S /\ Tail(queue) \in Seq(S)
        /\ Len(Tail(queue)) = Len(queue) - 1 /\ Head(queue) = queue[1]
        /\ \A k \in 1..Len(Tail(queue)) : Tail(queue)[k] = queue[k + 1]
    BY <1>1, HeadTailProperties
  <2>2. <<Head(queue)>> \in Seq(S) /\ Len(<<Head(queue)>>) = 1 /\ <<Head(queue)>>[1] = Head(queue)
    BY <2>1
  <2> DEFINE q == <<Head(queue)>> \o Tail(queue)
  <2>3. /\ q \in Seq(S) /\ Len(q) = 1 + Len(Tail(queue))
        /\ \A k \in 1..Len(q) :
              q[k] = IF k <= 1 THEN <<Head(queue)>>[k] ELSE Tail(queue)[k - 1]
    BY <2>1, <2>2, ConcatProperties
  <2>4. Len(queue) \in Nat /\ Len(q) = Len(queue)
    BY <1>1, <2>1, <2>3
  <2>5. \A k \in 1..Len(queue) : q[k] = queue[k]
    BY <2>1, <2>2, <2>3, <2>4
  <2> HIDE DEF q
  <2>6. q = queue
    BY <1>1, <2>3, <2>4, <2>5, SeqEqual
  <2> QED BY <2>1, <2>6 DEF q
<1> HIDE DEF S
<1>3. <<Head(queue)>> \in Seq(S) /\ stdbuf \o wire \in Seq(S) /\ Append(wire, Head(queue)) = wire \o <<Head(queue)>>
  BY <1>1, <1>2, ConcatProperties, AppendIsConcat
<1>4. stdbuf \o (wire \o <<Head(queue)>>) = (stdbuf \o wire) \o <<Head(queue)>>
  BY <1>1, <1>3, ConcatAssociative
<1>5. ((stdbuf \o wire) \o <<Head(queue)>>) \o Tail(queue) = (stdbuf \o wire) \o queue
  <2> DEFINE a == stdbuf \o wire
             h == <<Head(queue)>>
             q == Tail(queue)
  <2>1. a \in Seq(S) /\ h \in Seq(S) /\ q \in Seq(S) /\ queue = h \o q
    BY <1>2, <1>3
  <2> HIDE DEF a, h, q
  <2>2. (a \o h) \o q = a \o (h \o q)
    BY <2>1, ConcatAssociative
  <2> QED BY <2>1, <2>2 DEF a, h, q
<1> QED BY <1>1, <1>3, <1>4, <1>5 DEF Ordered

\* At the end of the process the standard writer's buffer is flushed: with
\* nothing on the wire yet, that keeps the lines in order.
LEMMA ReturnJournal ==
    ASSUME TypeInv, Phases, Journal, Return
    PROVE  Journal'
<1> SUFFICES ASSUME "spurious" \notin env, pipe \notin {"broken", "unopened", "dead"} PROVE Journal'
  BY DEF Journal, Return
<1>1. /\ main = "return" /\ main' = "exited" /\ wire' = wire \o stdbuf /\ stdbuf' = <<>>
      /\ UNCHANGED <<env, writers, pipe, stop, logged, queue>>
  BY DEF Return
<1>2. CASE ":pipe" \in writers
  BY <1>1, <1>2 DEF Journal
<1>3. CASE ":pipe" \notin writers
  <2>1. wire = <<>> /\ queue = <<>> /\ Ordered
    BY <1>1, <1>3 DEF Journal
  <2>2. stdbuf \in Seq(1..MaxLine)
    BY DEF TypeInv, TypeOK
  <2>3. /\ stdbuf \o wire \o queue = stdbuf
        /\ stdbuf' \o wire' \o queue' = stdbuf
    BY <1>1, <2>1, <2>2, ConcatEmptySeq
  <2> QED BY <1>1, <1>3, <2>1, <2>3 DEF Journal, Ordered
<1> QED BY <1>2, <1>3

\* Every step preserves Journal.
LEMMA NextJournal ==
    ASSUME TypeInv, TypeInv', Phases, HandedOver, Journal, [Next]_vars
    PROVE  Journal'
<1>1. CASE UNCHANGED <<main, env, writers, pipe, stop, logged, stdbuf, queue, wire>>
  BY <1>1 DEF Journal, Ordered
<1>2. ASSUME UNCHANGED <<env, writers, pipe, logged, stdbuf, queue, wire>>, stop' \in {stop, TRUE},
             main # "exited", main' # "exited",
             ":pipe" \in writers /\ main' \in {"shutdown", "return"} => stop'
      PROVE  Journal'
  BY <1>2 DEF Journal, Ordered
<1>3. ASSUME NEW next, Log(next), main \in LogPoints \/ main = "start", next # "exited",
             next \in {"shutdown", "return"} /\ ":pipe" \in writers => stop
      PROVE  Journal'
  <2>1. CASE "spurious" \in env \/ pipe \in {"broken", "unopened", "dead"}
    BY <1>3, <2>1 DEF Log, Journal
  <2>2. CASE Ordered
    BY <1>3, <2>2, LogJournal
  <2> QED BY <1>3, <2>1, <2>2 DEF Journal, LogPoints
<1>4. CASE MainStep \/ SpuriousWakeup \/ Render \/ Quit
  <2>1. CASE Moves
    BY <1>2, <2>1 DEF Moves, lines, Ended, Journal
  <2>2. ASSUME NEW next, Logs(next) PROVE Journal'
    <3>1. CASE "spurious" \in env \/ pipe \in {"broken", "unopened", "dead"}
      BY <2>2, <3>1 DEF Logs, Log, Journal
    <3>2. CASE next = "return" /\ main = "start"
      BY <1>3, <2>2, <3>2 DEF Logs, Phases
    <3>3. CASE next = "return" /\ main = "shutdown"
      BY <1>3, <2>2, <3>1, <3>3 DEF Logs, Journal
    <3>4. CASE next # "return"
      BY <1>3, <2>2, <3>4 DEF Logs, Ended
    <3> QED BY <2>2, <3>2, <3>3, <3>4 DEF Logs
  <2>3. CASE Return
    BY <2>3, ReturnJournal
  <2> QED BY <1>4, <2>1, <2>2, <2>3, MainKinds DEF TypeInv, TypeOK
<1>6. CASE Guess \/ StartIdler
  BY <1>1, <1>6 DEF Guess, StartIdler, IoStep, lines
<1>7. CASE ClearWriters \/ OpenPipe \/ AddWriter \/ Signal
  <2>1. /\ UNCHANGED <<env, stop, logged, stdbuf, queue, wire>>
        /\ main \notin Ended /\ main' \in {main, "opening"}
    BY <1>7 DEF ClearWriters, OpenPipe, AddWriter, Signal, IoStep, lines
  <2>2. CASE Signal
    BY <1>2, <2>1, <2>2 DEF Signal, Ended, Journal
  <2>3. CASE ClearWriters \/ OpenPipe \/ AddWriter
    <3>1. /\ "spurious" \in env \/ main \notin {"shutdown", "return"}
          /\ pipe # "dead" /\ ":pipe" \notin writers /\ main' = main /\ main # "exited"
          /\ pipe \in {"broken", "unopened"} => pipe' = pipe
      BY <2>1, <2>3 DEF ClearWriters, OpenPipe, AddWriter, IoStep, Phases, HandedOver, Ended
    <3> QED BY <2>1, <3>1 DEF Journal, Ordered
  <2> QED BY <1>7, <2>2, <2>3
<1>8. CASE AfterWrite \/ FlushBroken \/ ServerGone
  BY <1>1, <1>8 DEF AfterWrite, FlushBroken, ServerGone, threads, Journal
<1>9. CASE Flush
  <2>1. /\ UNCHANGED <<main, env, writers, pipe, stop>> /\ main # "exited" /\ queue # <<>>
    BY <1>9 DEF Flush, Looping, threads, Ended
  <2> QED BY <1>9, <2>1, FlushOrdered DEF Journal
<1>10. CASE LoopStops
  <2>1. /\ pipe' = IF pipe = "none" THEN pipe ELSE "dead"
        /\ UNCHANGED <<main, env, writers, logged, stdbuf, queue, wire>> /\ main # "exited"
    BY <1>10 DEF LoopStops, Looping, Ended, lines
  <2>2. pipe' = "dead" \/ (pipe' = pipe /\ ":pipe" \notin writers)
    BY <2>1 DEF Phases, TypeInv, TypeOK
  <2> QED BY <2>1, <2>2 DEF Journal, Ordered
<1> QED BY <1>1, <1>4, <1>6, <1>7, <1>8, <1>9, <1>10 DEF Next, IoThread, vars

\* Without spurious wakeups the log loses, duplicates and reorders nothing
\* until Channel::close has stopped the loop, for any number of lines.
THEOREM NothingLost == Spec => []NothingLostOrReordered
<1> DEFINE I == TypeInv /\ Phases /\ HandedOver /\ Journal
<1>1. Init => I
  <2> SUFFICES ASSUME Init PROVE I
    OBVIOUS
  <2>1. <<1>> \in Seq(Nat) /\ <<1>> = [n \in 1..1 |-> n]
    OBVIOUS
  <2>2. <<1>> \o <<>> \o <<>> = <<1>>
    BY <2>1, ConcatEmptySeq
  <2>3. Ordered
    BY <2>1, <2>2 DEF Init, Ordered
  <2> QED BY <2>3, InitTypeInv DEF Init, Phases, HandedOver, Journal
<1>2. I /\ [Next]_vars => I'
  BY NextTypeInv, NextPhases, NextHandedOver, NextJournal
<1>3. I => NothingLostOrReordered
  BY DEF Journal, Ordered, NothingLostOrReordered
<1> QED BY <1>1, <1>2, <1>3, PTL DEF Spec

-----------------------------------------------------------------------------
(***************************************************************************)
(* What the server finds in the pipe, also when it goes away or the loop   *)
(* is stopped.                                                             *)
(***************************************************************************)

Rising(s) == \A j, k \in 1..Len(s) : j < k => s[j] < s[k]

\* Line 1 stays in the stdout buffer, unless there is no pipe to write to.
First ==
    /\ main \in {"start", "wait", "blocked"} => logged = 1
    /\ ":pipe" \notin writers =>
          queue = <<>> /\ wire = <<>> /\ stdbuf = [n \in 1..logged |-> n]
    /\ ":pipe" \in writers => stdbuf = <<1>>
    /\ pipe = "unopened" => queue = <<>>

\* The others are in order, those in the queue behind those that were written.
InOrder ==
    /\ Rising(wire) /\ Rising(queue)
    /\ \A j \in 1..Len(wire) : wire[j] \in 2..logged
    /\ \A k \in 1..Len(queue) : queue[k] \in 2..logged
    /\ pipe # "dead" => \A j \in 1..Len(wire), k \in 1..Len(queue) : wire[j] < queue[k]

\* None of them is missing.
Complete ==
    /\ \A k \in 1..Len(wire) : wire[k] = k + 1
    /\ pipe = "open" =>
          /\ \A k \in 1..Len(queue) : queue[k] = Len(wire) + k + 1
          /\ ":pipe" \in writers => logged = Len(wire) + Len(queue) + 1

OneLast == \A j, k \in 1..Len(wire) : j < k => wire[j] < wire[k] \/ wire[k] = 1

\* The process's end flushes the stdout buffer.
Carried ==
    \/ "spurious" \in env
    \/ /\ main # "exited" /\ First /\ InOrder
       /\ main # "crashed" /\ ~stop /\ pipe # "dead" => Complete
    \/ main = "exited" /\ OneLast

\* A line that is logged comes behind all others.
LEMMA LogCarried ==
    ASSUME TypeInv, Phases, HandedOver, Carried, "spurious" \notin env,
           main \in LogPoints \/ main = "start",
           NEW next, next \notin {"start", "wait", "blocked", "exited"}, Log(next)
    PROVE  Carried'
<1> DEFINE S == 1..MaxLine
<1>1. stdbuf \in Seq(S) /\ wire \in Seq(S) /\ queue \in Seq(S) /\ logged \in S /\ S \subseteq Nat
  BY DEF TypeInv, TypeOK
<1>2. logged' = logged + 1 /\ UNCHANGED <<io, env, writers, pipe, stop>>
  BY DEF Log
<1>3. /\ main # "exited" /\ main # "crashed" /\ First /\ InOrder
      /\ ~stop /\ pipe # "dead" => Complete
  BY DEF Carried, LogPoints
<1>4. main' \in {next, "crashed"}
  BY DEF Log, UvWrite, UvWriteBroken, UvWriteFails, UvWriteDead
<1>5. main' \notin {"start", "wait", "blocked", "exited"}
  BY <1>4
<1>6. Len(wire) \in Nat /\ Len(queue) \in Nat
  BY <1>1, LenProperties
<1>7. writers = {":stdout"} \/ writers = {":pipe"}
  BY DEF Phases, HandedOver, LogPoints
<1>8. CASE writers = {":stdout"}
  <2>1. /\ stdbuf' = Append(stdbuf, logged + 1) /\ wire' = wire /\ queue' = queue
        /\ queue = <<>> /\ wire = <<>> /\ stdbuf = [n \in 1..logged |-> n]
    BY <1>3, <1>8 DEF Log, First
  <2>2. stdbuf' = [n \in 1..logged' |-> n]
    BY <1>1, <1>2, <2>1
  <2>3. First'
    BY <1>2, <1>5, <1>8, <2>1, <2>2 DEF First
  <2>4. InOrder'
    BY <2>1 DEF InOrder, Rising
  <2>5. Complete'
    BY <1>2, <1>8, <2>1 DEF Complete
  <2> QED BY <1>5, <2>3, <2>4, <2>5 DEF Carried
<1>9. CASE writers = {":pipe"}
  <2>1. stdbuf' = stdbuf /\ stdbuf = <<1>>
    BY <1>3, <1>9 DEF Log, First
  <2>2. First'
    <3>1. pipe = "unopened" => queue' = <<>>
      BY <1>3, <1>9 DEF Log, UvWrite, UvWriteBroken, UvWriteFails, UvWriteDead, WritersRace, First
    <3> QED BY <1>2, <1>5, <1>9, <2>1, <3>1 DEF First
  <2>3. \A j \in 1..Len(wire) : wire[j] \in S /\ wire[j] \in 2..logged
    BY <1>1, <1>3, ElementOfSeq DEF InOrder
  <2>4. \A k \in 1..Len(queue) : queue[k] \in S /\ queue[k] \in 2..logged
    BY <1>1, <1>3, ElementOfSeq DEF InOrder
  <2>5. CASE /\ (queue = <<>> /\ pipe = "open") \/ pipe = "dead"
           /\ wire' = Append(wire, logged + 1) /\ queue' = queue
    <3>1. /\ Len(wire') = Len(wire) + 1
          /\ \A j \in 1..Len(wire) : wire'[j] = wire[j]
          /\ wire'[Len(wire) + 1] = logged + 1
      BY <1>1, <2>5, AppendProperties
    <3>2. InOrder'
      <4>1. Rising(wire)
        BY <1>3 DEF InOrder
      <4>2. \A j, k \in 1..Len(wire') : j < k => wire'[j] < wire'[k]
        <5> SUFFICES ASSUME NEW j \in 1..Len(wire'), NEW k \in 1..Len(wire'), j < k
                     PROVE  wire'[j] < wire'[k]
          OBVIOUS
        <5>1. j \in 1..Len(wire) /\ wire'[j] = wire[j] /\ wire[j] \in 2..logged
          BY <1>6, <2>3, <3>1
        <5>2. CASE k \in 1..Len(wire)
          BY <3>1, <4>1, <5>1, <5>2 DEF Rising
        <5>3. CASE k = Len(wire) + 1
          BY <1>1, <3>1, <5>1, <5>3
        <5> QED BY <1>6, <3>1, <5>2, <5>3
      <4>3. \A j \in 1..Len(wire') : wire'[j] \in 2..logged'
        <5> SUFFICES ASSUME NEW j \in 1..Len(wire')  PROVE wire'[j] \in 2..logged'
          OBVIOUS
        <5>1. CASE j \in 1..Len(wire)
          BY <1>1, <1>2, <2>3, <3>1, <5>1
        <5>2. CASE j = Len(wire) + 1
          BY <1>1, <1>2, <3>1, <5>2
        <5> QED BY <1>6, <3>1, <5>1, <5>2
      <4>4. pipe' # "dead" => 1..Len(queue') = {}
        BY <1>2, <2>5
      <4>5. Rising(queue) /\ \A k \in 1..Len(queue) : queue[k] \in 2..logged'
        BY <1>1, <1>2, <1>3, <2>4 DEF InOrder
      <4> QED BY <2>5, <4>2, <4>3, <4>4, <4>5 DEF InOrder, Rising
    <3>3. ASSUME ~stop', pipe' # "dead"  PROVE Complete'
      <4>1. Complete /\ pipe = "open" /\ logged = Len(wire) + 1
        <5>1. Complete
          BY <1>2, <1>3, <3>3
        <5>2. pipe = "open" /\ Len(queue) = 0
          BY <1>2, <2>5, <3>3
        <5> QED BY <1>1, <1>6, <1>9, <5>1, <5>2 DEF Complete
      <4>2. \A k \in 1..Len(wire') : wire'[k] = k + 1
        BY <1>6, <3>1, <4>1 DEF Complete
      <4>3. Len(queue') = 0
        BY <1>2, <2>5, <3>3
      <4> QED BY <1>1, <1>2, <1>6, <3>1, <4>1, <4>2, <4>3 DEF Complete
    <3> QED BY <1>5, <2>2, <3>2, <3>3 DEF Carried
  <2>6. CASE queue' = Append(queue, logged + 1) /\ wire' = wire /\ pipe \in {"open", "broken"}
    <3>1. /\ Len(queue') = Len(queue) + 1
          /\ \A k \in 1..Len(queue) : queue'[k] = queue[k]
          /\ queue'[Len(queue) + 1] = logged + 1
      BY <1>1, <2>6, AppendProperties
    <3>2. InOrder'
      <4>1. Rising(queue)
        BY <1>3 DEF InOrder
      <4>2. \A j, k \in 1..Len(queue') : j < k => queue'[j] < queue'[k]
        <5> SUFFICES ASSUME NEW j \in 1..Len(queue'), NEW k \in 1..Len(queue'), j < k
                     PROVE  queue'[j] < queue'[k]
          OBVIOUS
        <5>1. j \in 1..Len(queue) /\ queue'[j] = queue[j] /\ queue[j] \in 2..logged
          BY <1>6, <2>4, <3>1
        <5>2. CASE k \in 1..Len(queue)
          BY <3>1, <4>1, <5>1, <5>2 DEF Rising
        <5>3. CASE k = Len(queue) + 1
          BY <1>1, <3>1, <5>1, <5>3
        <5> QED BY <1>6, <3>1, <5>2, <5>3
      <4>3. \A k \in 1..Len(queue') : queue'[k] \in 2..logged'
        <5> SUFFICES ASSUME NEW k \in 1..Len(queue')  PROVE queue'[k] \in 2..logged'
          OBVIOUS
        <5>1. CASE k \in 1..Len(queue)
          BY <1>1, <1>2, <2>4, <3>1, <5>1
        <5>2. CASE k = Len(queue) + 1
          BY <1>1, <1>2, <3>1, <5>2
        <5> QED BY <1>6, <3>1, <5>1, <5>2
      <4>4. pipe # "dead" => \A j \in 1..Len(wire), k \in 1..Len(queue') : wire[j] < queue'[k]
        <5> SUFFICES ASSUME pipe # "dead", NEW j \in 1..Len(wire), NEW k \in 1..Len(queue')
                     PROVE  wire[j] < queue'[k]
          OBVIOUS
        <5>1. CASE k \in 1..Len(queue)
          BY <1>3, <3>1, <5>1 DEF InOrder
        <5>2. CASE k = Len(queue) + 1
          BY <1>1, <2>3, <3>1, <5>2
        <5> QED BY <1>6, <3>1, <5>1, <5>2
      <4>5. Rising(wire) /\ \A j \in 1..Len(wire) : wire[j] \in 2..logged'
        BY <1>1, <1>2, <1>3, <2>3 DEF InOrder
      <4> QED BY <1>2, <2>6, <4>2, <4>3, <4>4, <4>5 DEF InOrder, Rising
    <3>3. ASSUME ~stop', pipe' # "dead"  PROVE Complete'
      <4>1. Complete
        BY <1>2, <1>3, <3>3
      <4>2. ASSUME pipe = "open"
            PROVE  /\ \A k \in 1..Len(queue') : queue'[k] = Len(wire) + k + 1
                   /\ logged' = Len(wire) + Len(queue') + 1
        <5>1. logged = Len(wire) + Len(queue) + 1
          BY <1>9, <4>1, <4>2 DEF Complete
        <5>2. \A k \in 1..Len(queue) : queue'[k] = Len(wire) + k + 1
          BY <3>1, <4>1, <4>2 DEF Complete
        <5>3. queue'[Len(queue) + 1] = Len(wire) + (Len(queue) + 1) + 1
          BY <1>1, <1>6, <3>1, <5>1
        <5>4. \A k \in 1..Len(queue') : k \in 1..Len(queue) \/ k = Len(queue) + 1
          BY <1>6, <3>1
        <5>5. logged' = Len(wire) + Len(queue') + 1
          BY <1>1, <1>2, <1>6, <3>1, <5>1
        <5> QED BY <5>2, <5>3, <5>4, <5>5
      <4> QED BY <1>2, <2>6, <4>1, <4>2 DEF Complete
    <3> QED BY <1>5, <2>2, <3>2, <3>3 DEF Carried
  <2>7. CASE queue' = queue /\ wire' = wire /\ pipe \in {"broken", "unopened", "dead"}
    <3>1. InOrder'
      <4>1. \A j \in 1..Len(wire) : wire[j] \in 2..logged'
        BY <1>1, <1>2, <2>3
      <4>2. \A k \in 1..Len(queue) : queue[k] \in 2..logged'
        BY <1>1, <1>2, <2>4
      <4> QED BY <1>2, <1>3, <2>7, <4>1, <4>2 DEF InOrder, Rising
    <3>2. ~stop' /\ pipe' # "dead" => Complete'
      BY <1>2, <1>3, <2>7 DEF Complete
    <3> QED BY <1>5, <2>2, <3>1, <3>2 DEF Carried
  <2>8. \/ /\ pipe = "open"
           /\ \/ queue = <<>> /\ wire' = Append(wire, logged + 1) /\ queue' = queue
              \/ queue' = Append(queue, logged + 1) /\ wire' = wire
        \/ /\ pipe = "broken" /\ wire' = wire
           /\ queue' = queue \/ queue' = Append(queue, logged + 1)
        \/ pipe = "unopened" /\ queue' = queue /\ wire' = wire
        \/ /\ pipe = "dead" /\ queue' = queue
           /\ wire' = wire \/ wire' = Append(wire, logged + 1)
    BY <1>7, <1>9 DEF Log, UvWrite, UvWriteBroken, UvWriteFails, UvWriteDead, WritersRace, Phases
  <2> QED BY <2>5, <2>6, <2>7, <2>8
<1> QED BY <1>7, <1>8, <1>9

\* The loop takes the head of the queue away, to the end of the wire if it can.
LEMMA DequeueCarried ==
    ASSUME TypeInv, Phases, Carried, "spurious" \notin env, Flush \/ FlushBroken
    PROVE  Carried'
<1> DEFINE S == 1..MaxLine
<1>1. wire \in Seq(S) /\ queue \in Seq(S) /\ logged \in S /\ S \subseteq Nat
  BY DEF TypeInv, TypeOK
<1>2. /\ UNCHANGED <<env, writers, pipe, stop, logged, stdbuf>> /\ queue # <<>>
      /\ main \notin Ended /\ main' \in {main, "crashed"} /\ io = "run"
      /\ queue' = Tail(queue)
      /\ \/ pipe # "broken" /\ wire' = Append(wire, Head(queue))
         \/ pipe = "broken" /\ wire' = wire
  BY DEF Flush, FlushBroken, Looping, threads
<1>3. /\ First /\ InOrder /\ main # "exited" /\ main' # "exited"
      /\ main' # "crashed" /\ ~stop /\ pipe # "dead" => Complete
  BY <1>2 DEF Carried, Ended
<1>4. First'
  BY <1>2, <1>3 DEF First
<1>5. /\ Len(wire) \in Nat /\ Len(queue) \in Nat /\ Len(queue) > 0
      /\ Len(queue') = Len(queue) - 1 /\ Head(queue) = queue[1]
      /\ \A k \in 1..Len(queue') : queue'[k] = queue[k + 1] /\ k + 1 \in 1..Len(queue)
  <2> HIDE DEF S
  <2>1. /\ Tail(queue) \in Seq(S) /\ Len(Tail(queue)) = Len(queue) - 1 /\ Head(queue) = queue[1]
        /\ \A k \in 1..Len(Tail(queue)) : Tail(queue)[k] = queue[k + 1]
    BY <1>1, <1>2, HeadTailProperties
  <2>2. Len(wire) \in Nat /\ Len(queue) \in Nat /\ Len(Tail(queue)) \in Nat
    BY <1>1, <2>1, LenProperties
  <2>3. 0 < Len(queue)
    BY <1>1, <1>2, <2>2, EmptySeq
  <2>4. \A k \in 1..Len(Tail(queue)) : k + 1 \in 1..Len(queue)
    BY <2>1, <2>2
  <2>5. \A k \in 1..Len(queue') : queue'[k] = queue[k + 1]
    BY <1>2, <2>1
  <2>6. Len(queue') = Len(queue) - 1 /\ Len(queue) > 0
    BY <1>2, <2>1, <2>2, <2>3
  <2> QED BY <1>2, <2>1, <2>2, <2>4, <2>5, <2>6
<1>6. /\ \A j \in 1..Len(wire) : wire[j] \in S /\ wire[j] \in 2..logged
      /\ \A k \in 1..Len(queue) : queue[k] \in S /\ queue[k] \in 2..logged
  BY <1>1, <1>3, ElementOfSeq DEF InOrder
<1>7. Rising(queue')
  <2> SUFFICES ASSUME NEW j \in 1..Len(queue'), NEW k \in 1..Len(queue'), j < k
               PROVE  queue'[j] < queue'[k]
    BY DEF Rising
  <2>1. j + 1 < k + 1
    BY <1>5
  <2> QED BY <1>3, <1>5, <2>1 DEF InOrder, Rising
<1>8. \A k \in 1..Len(queue') : queue'[k] \in 2..logged
  BY <1>5, <1>6
<1>9. CASE pipe = "broken" /\ wire' = wire
  <2>1. InOrder'
    BY <1>2, <1>3, <1>5, <1>7, <1>8, <1>9 DEF InOrder, Rising
  <2>2. Complete => Complete'
    BY <1>2, <1>9 DEF Complete
  <2> QED BY <1>2, <1>3, <1>4, <2>1, <2>2 DEF Carried
<1>10. CASE pipe # "broken" /\ wire' = Append(wire, queue[1])
  <2> pipe = "open"
    BY <1>2, <1>3, <1>10 DEF Phases, First, TypeInv, TypeOK
  <2>1. /\ Len(wire') = Len(wire) + 1 /\ wire'[Len(wire) + 1] = queue[1]
        /\ \A j \in 1..Len(wire) : wire'[j] = wire[j]
        /\ \A j \in 1..Len(wire') : j \in 1..Len(wire) \/ j = Len(wire) + 1
        /\ 1 \in 1..Len(queue)
    BY <1>1, <1>5, <1>6, <1>10, AppendProperties
  <2>2. queue[1] \in S /\ queue[1] \in 2..logged
    BY <1>6, <2>1
  <2>3. InOrder'
    <3>1. \A j \in 1..Len(wire') : wire'[j] \in 2..logged
      BY <1>6, <2>1, <2>2
    <3>2. Rising(wire')
      <4> SUFFICES ASSUME NEW j \in 1..Len(wire'), NEW k \in 1..Len(wire'), j < k
                   PROVE  wire'[j] < wire'[k]
        BY DEF Rising
      <4>1. j \in 1..Len(wire) /\ wire'[j] = wire[j]
        BY <1>5, <2>1
      <4>2. CASE k \in 1..Len(wire)
        BY <1>3, <2>1, <4>1, <4>2 DEF InOrder, Rising
      <4>3. CASE k = Len(wire) + 1 /\ pipe # "dead"
        BY <1>3, <2>1, <4>1, <4>3 DEF InOrder
      <4> QED BY <2>1, <4>2, <4>3
    <3>3. pipe # "dead" => \A j \in 1..Len(wire'), k \in 1..Len(queue') : wire'[j] < queue'[k]
      <4> SUFFICES ASSUME pipe # "dead", NEW j \in 1..Len(wire'), NEW k \in 1..Len(queue')
                   PROVE  wire'[j] < queue'[k]
        OBVIOUS
      <4>1. queue'[k] = queue[k + 1] /\ k + 1 \in 1..Len(queue) /\ 1 < k + 1
        BY <1>5
      <4>2. CASE j \in 1..Len(wire)
        BY <1>3, <2>1, <4>1, <4>2 DEF InOrder
      <4>3. CASE j = Len(wire) + 1
        BY <1>3, <2>1, <4>1, <4>3 DEF InOrder, Rising
      <4> QED BY <2>1, <4>2, <4>3
    <3> QED BY <1>2, <1>7, <1>8, <3>1, <3>2, <3>3 DEF InOrder, Rising
  <2>4. ASSUME Complete, pipe # "dead"  PROVE Complete'
    <3>1. \A k \in 1..Len(wire) : wire'[k] = k + 1
      BY <2>1, <2>4 DEF Complete
    <3>2. wire'[Len(wire) + 1] = (Len(wire) + 1) + 1
      BY <1>5, <2>1, <2>4 DEF Complete
    <3>3. \A k \in 1..Len(queue') : queue'[k] = Len(wire') + k + 1
      <4> SUFFICES ASSUME NEW k \in 1..Len(queue')  PROVE queue'[k] = Len(wire') + k + 1
        OBVIOUS
      <4>1. queue'[k] = queue[k + 1] /\ k + 1 \in 1..Len(queue)
        BY <1>5
      <4>2. queue[k + 1] = Len(wire) + (k + 1) + 1
        BY <2>4, <4>1 DEF Complete
      <4> QED BY <1>5, <2>1, <4>1, <4>2
    <3>4. Len(wire') + Len(queue') + 1 = Len(wire) + Len(queue) + 1
      BY <1>5, <2>1
    <3> QED BY <1>2, <2>1, <2>4, <3>1, <3>2, <3>3, <3>4 DEF Complete
  <2> QED BY <1>2, <1>3, <1>4, <2>3, <2>4 DEF Carried
<1> QED BY <1>2, <1>5, <1>9, <1>10

\* The process ends: line 1 comes last, or all lines at once.
LEMMA ReturnCarried ==
    ASSUME TypeInv, Carried, "spurious" \notin env, Return
    PROVE  Carried'
<1> DEFINE S == 1..MaxLine
<1>1. /\ stdbuf \in Seq(S) /\ wire \in Seq(S) /\ logged \in S /\ S \subseteq Nat /\ Len(wire) \in Nat
  BY LenProperties DEF TypeInv, TypeOK
<1>2. main' = "exited" /\ (wire' = wire \/ wire' = wire \o stdbuf)
  BY DEF Return
<1>3. First /\ InOrder
  BY DEF Carried, Return
<1>4. CASE wire' = wire
  BY <1>2, <1>3, <1>4 DEF Carried, OneLast, InOrder, Rising
<1>5. CASE wire' = wire \o stdbuf /\ ":pipe" \notin writers
  <2>1. wire' = [n \in 1..logged |-> n]
    BY <1>1, <1>3, <1>5, ConcatEmptySeq DEF First
  <2>2. Len(wire') = logged
    BY <1>1, <2>1
  <2> QED BY <1>1, <1>2, <2>1, <2>2 DEF Carried, OneLast
<1>6. CASE wire' = wire \o stdbuf /\ ":pipe" \in writers
  <2>1. stdbuf = <<1>> /\ Len(stdbuf) = 1
    BY <1>3, <1>6 DEF First
  <2>2. /\ Len(wire') = Len(wire) + 1 /\ wire'[Len(wire) + 1] = 1
        /\ \A j \in 1..Len(wire) : wire'[j] = wire[j]
    BY <1>1, <1>6, <2>1, ConcatProperties
  <2>3. \A j \in 1..Len(wire') : j \in 1..Len(wire) \/ j = Len(wire) + 1
    BY <1>1, <2>2
  <2>4. OneLast'
    <3> SUFFICES ASSUME NEW j \in 1..Len(wire'), NEW k \in 1..Len(wire'), j < k
                 PROVE  wire'[j] < wire'[k] \/ wire'[k] = 1
      BY DEF OneLast
    <3>1. CASE k \in 1..Len(wire)
      <4>1. j \in 1..Len(wire)
        BY <1>1, <2>3, <3>1
      <4> QED BY <1>3, <2>2, <3>1, <4>1 DEF InOrder, Rising
    <3> QED BY <2>2, <2>3, <3>1
  <2> QED BY <1>2, <2>4 DEF Carried
<1> QED BY <1>2, <1>4, <1>5, <1>6

\* Every step preserves Carried.
LEMMA NextCarried ==
    ASSUME TypeInv, Phases, HandedOver, Carried, [Next]_vars
    PROVE  Carried'
<1> SUFFICES ASSUME "spurious" \notin env PROVE Carried'
  <2>1. CASE MainStep \/ SpuriousWakeup \/ Render \/ Quit
    BY <2>1, MainKinds, LogLeads DEF Moves, Logs, Return, TypeInv, TypeOK, Carried
  <2>2. CASE ~(MainStep \/ SpuriousWakeup \/ Render \/ Quit)
    BY <2>2 DEF Next, IoThread, Guess, ClearWriters, OpenPipe, AddWriter, Signal, StartIdler,
           IoStep, Flush, FlushBroken, AfterWrite, LoopStops, ServerGone, vars, Carried
  <2> QED BY <2>1, <2>2
<1>1. ASSUME UNCHANGED <<writers, logged, stdbuf, queue, wire>>, main # "exited", main' # "exited",
             main' \in {"start", "wait", "blocked"} => main \in {"start", "wait", "blocked"},
             main = "crashed" => main' = "crashed",
             pipe' = pipe \/ (pipe # "dead" /\ pipe' \in {"broken", "dead"}),
             ~stop' => ~stop \/ pipe' = "dead" \/ ":pipe" \notin writers
      PROVE  Carried'
  <2>1. First /\ InOrder /\ (main # "crashed" /\ ~stop /\ pipe # "dead" => Complete)
    BY <1>1 DEF Carried
  <2>2. First'
    BY <1>1, <2>1 DEF First
  <2>3. InOrder'
    BY <1>1, <2>1 DEF InOrder, Rising
  <2>4. Complete => Complete'
    BY <1>1 DEF Complete
  <2>5. ":pipe" \notin writers => Complete'
    BY <1>1, <2>1 DEF First, Complete
  <2> QED BY <1>1, <2>1, <2>2, <2>3, <2>4, <2>5 DEF Carried
<1>2. CASE UNCHANGED vars
  BY <1>2 DEF vars, Carried, First, InOrder, Rising, Complete, OneLast
<1>3. CASE MainStep \/ SpuriousWakeup \/ Render \/ Quit
  <2>1. CASE Moves
    BY <1>1, <2>1 DEF Moves, lines, Ended, Phases
  <2>2. ASSUME NEW next, Logs(next) PROVE Carried'
    BY <2>2, LogCarried DEF Logs, Ended
  <2>3. CASE Return
    BY <2>3, ReturnCarried
  <2> QED BY <1>3, <2>1, <2>2, <2>3, MainKinds DEF TypeInv, TypeOK
<1>5. CASE IoThread
  <2>1. main # "exited" /\ First /\ InOrder /\ (main # "crashed" /\ ~stop /\ pipe # "dead" => Complete)
    BY <1>5 DEF IoThread, Guess, ClearWriters, OpenPipe, AddWriter, Signal, StartIdler, IoStep,
                Carried, Ended
  <2>2. CASE Guess \/ Signal \/ StartIdler
    BY <1>1, <2>1, <2>2 DEF Guess, Signal, StartIdler, IoStep, lines
  <2>3. CASE ClearWriters \/ OpenPipe
    <3>1. /\ UNCHANGED <<main, stop, logged, stdbuf, queue, wire>>
          /\ ":pipe" \notin writers /\ ":pipe" \notin writers'
      BY <2>3 DEF ClearWriters, OpenPipe, IoStep, lines, Phases
    <3>2. First' /\ InOrder'
      BY <2>1, <3>1 DEF First, InOrder, Rising
    <3>3. Complete'
      BY <2>1, <3>1 DEF First, Complete
    <3> QED BY <2>1, <3>1, <3>2, <3>3 DEF Carried
  <2>4. CASE AddWriter
    <3>1. /\ UNCHANGED <<main, pipe, stop, logged, stdbuf, queue, wire>> /\ writers' = {":pipe"}
          /\ logged = 1 /\ queue = <<>> /\ wire = <<>> /\ stdbuf = [n \in 1..1 |-> n]
      BY <2>1, <2>4 DEF AddWriter, IoStep, lines, Phases, First, HandedOver
    <3>2. [n \in 1..1 |-> n] = <<1>>
      OBVIOUS
    <3>3. First' /\ InOrder'
      BY <2>1, <3>1, <3>2 DEF First, InOrder, Rising
    <3>4. Complete'
      BY <3>1 DEF Complete
    <3> QED BY <2>1, <3>1, <3>3, <3>4 DEF Carried
  <2> QED BY <1>5, <2>2, <2>3, <2>4 DEF IoThread
<1>6. CASE Flush \/ FlushBroken
  BY <1>6, DequeueCarried
<1>7. CASE AfterWrite \/ LoopStops \/ ServerGone
  <2>1. /\ UNCHANGED <<main, writers, logged, stdbuf, queue, wire>> /\ main # "exited"
        /\ \/ pipe' = pipe /\ stop' = stop
           \/ pipe # "dead" /\ pipe' = "broken" /\ stop' = stop
           \/ pipe = "none" /\ pipe' = "none"
           \/ pipe # "dead" /\ pipe' = "dead"
    BY <1>7 DEF AfterWrite, LoopStops, ServerGone, Looping, threads, lines, Ended, Phases
  <2>2. pipe = "none" => ":pipe" \notin writers
    BY DEF Phases
  <2> QED BY <1>1, <2>1, <2>2
<1> QED BY <1>2, <1>3, <1>5, <1>6, <1>7 DEF Next

\* No line is in two places.
Room == "spurious" \in env \/ Len(stdbuf) + Len(wire) + Len(queue) <= logged

\* What a step does to the pipe: nothing after the process has ended; at its end,
\* what is left in the stdout buffer may follow; before, at most one line.
WireStep ==
    /\ main \in Ended => main' = main /\ wire' = wire
    /\ \/ Len(wire') = Len(wire)
       \/ Len(wire') = Len(wire) + 1
       \/ main' \in Ended /\ Len(wire') = Len(wire) + Len(stdbuf)

\* Every step is such a step, and preserves Room.
LEMMA NextRoom ==
    ASSUME TypeInv, Phases, HandedOver, Room, "spurious" \notin env, [Next]_vars
    PROVE  env' = env /\ Room' /\ WireStep
<1> DEFINE S == 1..MaxLine
<1>1. /\ stdbuf \in Seq(S) /\ wire \in Seq(S) /\ queue \in Seq(S) /\ logged \in Nat
  BY DEF TypeInv, TypeOK
<1>2. Len(stdbuf) \in Nat /\ Len(wire) \in Nat /\ Len(queue) \in Nat
  BY <1>1, LenProperties
<1>3. logged + 1 \in Nat /\ \A q \in Seq(S) : Len(Append(q, logged + 1)) = Len(q) + 1
  BY <1>1
<1>4. Len(stdbuf) + Len(wire) + Len(queue) <= logged
  BY DEF Room
<1>5. ASSUME UNCHANGED <<env, logged, stdbuf, queue, wire>>, main \in Ended => main' = main
      PROVE  env' = env /\ Room' /\ WireStep
  BY <1>5 DEF Room, WireStep
<1>6. ASSUME NEW next, Logs(next)
      PROVE  env' = env /\ Room' /\ WireStep
  <2>1. writers = {":stdout"} \/ writers = {":pipe"}
    BY <1>6 DEF Logs, Phases, HandedOver, LogPoints
  <2>2. /\ logged' = logged + 1 /\ env' = env /\ main \notin Ended
        /\ \/ stdbuf' = Append(stdbuf, logged + 1) /\ wire' = wire /\ queue' = queue
           \/ stdbuf' = stdbuf /\ wire' = Append(wire, logged + 1) /\ queue' = queue
           \/ stdbuf' = stdbuf /\ wire' = wire /\ queue' = Append(queue, logged + 1)
           \/ stdbuf' = stdbuf /\ wire' = wire /\ queue' = queue
    BY <1>6, <2>1 DEF Logs, Log, UvWrite, UvWriteBroken, UvWriteFails, UvWriteDead, Ended, LogPoints
  <2>3. /\ Len(wire') = Len(wire) \/ Len(wire') = Len(wire) + 1
        /\ Len(stdbuf') + Len(wire') + Len(queue') <= logged'
    BY <1>1, <1>2, <1>3, <1>4, <2>2
  <2> QED BY <2>2, <2>3 DEF Room, WireStep
<1>7. CASE UNCHANGED vars
  BY <1>5, <1>7 DEF vars
<1>8. CASE MainStep \/ SpuriousWakeup \/ Render \/ Quit
  <2>1. CASE Moves
    BY <1>5, <2>1 DEF Moves, lines
  <2>2. CASE Return
    <3>1. /\ UNCHANGED <<env, logged, queue>> /\ stdbuf' = <<>> /\ main' = "exited" /\ main \notin Ended
          /\ wire' = wire \/ wire' = wire \o stdbuf
      BY <2>2 DEF Return, Ended
    <3>2. Len(wire \o stdbuf) = Len(wire) + Len(stdbuf)
      <4> HIDE DEF S
      <4> QED BY <1>1, ConcatProperties
    <3>3. Len(stdbuf') = 0
      BY <3>1
    <3>4. Len(wire') = Len(wire) \/ Len(wire') = Len(wire) + Len(stdbuf)
      BY <3>1, <3>2
    <3>5. Len(stdbuf') + Len(wire') + Len(queue') <= logged'
      BY <1>1, <1>2, <1>4, <3>1, <3>3, <3>4
    <3> QED BY <3>1, <3>4, <3>5 DEF Room, WireStep, Ended
  <2> QED BY <1>6, <1>8, <2>1, <2>2, MainKinds DEF TypeInv, TypeOK
<1>10. CASE IoThread
  BY <1>5, <1>10 DEF IoThread, Guess, ClearWriters, OpenPipe, AddWriter, Signal, StartIdler, IoStep, lines
<1>11. CASE Flush \/ FlushBroken
  <2>1. /\ UNCHANGED <<env, logged, stdbuf>> /\ main \notin Ended /\ queue # <<>>
        /\ queue' = Tail(queue) /\ (wire' = wire \/ wire' = Append(wire, Head(queue)))
    BY <1>11 DEF Flush, FlushBroken, Looping, threads
  <2>2. Len(queue') = Len(queue) - 1 /\ Head(queue) \in S
    <3> HIDE DEF S
    <3> QED BY <1>1, <2>1, HeadTailProperties
  <2>3. Len(wire') = Len(wire) \/ Len(wire') = Len(wire) + 1
    <3> HIDE DEF S
    <3> QED BY <1>1, <2>1, <2>2, AppendProperties
  <2>4. Len(stdbuf') + Len(wire') + Len(queue') <= logged'
    BY <1>1, <1>2, <1>4, <2>1, <2>2, <2>3
  <2> QED BY <2>1, <2>3, <2>4 DEF Room, WireStep
<1>12. CASE AfterWrite \/ LoopStops \/ ServerGone
  BY <1>5, <1>12 DEF AfterWrite, LoopStops, ServerGone, Looping, threads, lines
<1> QED BY <1>7, <1>8, <1>10, <1>11, <1>12 DEF Next

\* All of this, in a process whose waits do not end for no reason.
Told == "spurious" \notin env /\ TypeInv /\ Phases /\ HandedOver /\ Carried /\ Room

\* It holds when Channel::run starts.
LEMMA InitTold == ASSUME Init, "spurious" \notin env PROVE Told
<1>1. <<1>> = [n \in 1..1 |-> n] /\ Len(<<1>>) = 1 /\ Len(<<>>) = 0
  OBVIOUS
<1>2. Carried
  BY <1>1 DEF Init, Carried, First, InOrder, Rising, Complete
<1>3. Room
  BY <1>1 DEF Init, Room
<1> QED BY <1>2, <1>3, InitTypeInv DEF Init, Phases, HandedOver, Told

\* Every step preserves it.
LEMMA NextTold ==
    ASSUME Told, [Next]_vars
    PROVE  Told' /\ WireStep /\ Len(wire') \in 0..MaxLine
<1>1. TypeInv' /\ Phases' /\ HandedOver' /\ Carried'
  BY NextTypeInv, NextPhases, NextHandedOver, NextCarried DEF Told
<1>2. env' = env /\ Room' /\ WireStep
  BY NextRoom DEF Told
<1>3. Len(wire') \in 0..MaxLine
  <2>1. /\ stdbuf' \in Seq(1..MaxLine) /\ wire' \in Seq(1..MaxLine) /\ queue' \in Seq(1..MaxLine)
        /\ logged' \in 1..MaxLine /\ MaxLine \in Nat
    BY <1>1, ChannelAssumption DEF TypeInv, TypeOK, MaxLine
  <2>2. Len(stdbuf') \in Nat /\ Len(wire') \in Nat /\ Len(queue') \in Nat
    BY <2>1, LenProperties
  <2> QED BY <1>2, <2>1, <2>2 DEF Room, Told
<1> QED BY <1>1, <1>2, <1>3 DEF Told

\* The order of the lines on the pipe.
LEMMA ToldOrder ==
    ASSUME Told
    PROVE  /\ wire \in Seq(1..MaxLine) /\ Len(wire) \in 0..MaxLine /\ Len(stdbuf) \in Nat
           /\ \A j, k \in 1..Len(wire) : j < k => wire[j] < wire[k] \/ wire[k] = 1
           /\ main \notin Ended /\ ~stop /\ pipe # "dead" => \A k \in 1..Len(wire) : wire[k] = k + 1
<1>1. /\ stdbuf \in Seq(1..MaxLine) /\ wire \in Seq(1..MaxLine) /\ queue \in Seq(1..MaxLine)
      /\ logged \in 1..MaxLine /\ MaxLine \in Nat
  BY ChannelAssumption DEF Told, TypeInv, TypeOK, MaxLine
<1>2. Len(stdbuf) \in Nat /\ Len(wire) \in Nat /\ Len(queue) \in Nat
  BY <1>1, LenProperties
<1>3. Len(wire) \in 0..MaxLine
  BY <1>1, <1>2 DEF Told, Room
<1>4. \A j, k \in 1..Len(wire) : j < k => wire[j] < wire[k] \/ wire[k] = 1
  BY DEF Told, Carried, InOrder, Rising, OneLast
<1>5. main \notin Ended /\ ~stop /\ pipe # "dead" => \A k \in 1..Len(wire) : wire[k] = k + 1
  BY DEF Told, Carried, Ended, Complete
<1> QED BY <1>1, <1>2, <1>3, <1>4, <1>5
=============================================================================
