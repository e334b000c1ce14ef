------------------------------ MODULE Channel ------------------------------
(***************************************************************************)
(* A channel process: Channel::run and Channel::iothread (channel.cc) and  *)
(* the log both threads write to (trace.cc).                               *)
(*                                                                         *)
(* The main thread starts the I/O thread, waits for its signal, sets the   *)
(* screen up and renders.  If standard output is a pipe (the channel was   *)
(* spawned by the server) the I/O thread replaces the log's writer by one  *)
(* that hands every line to libuv, and then runs the event loop.           *)
(*                                                                         *)
(* `main` and `io` name the statement each thread executes next; a step is *)
(* one statement that touches state the threads share.  A log line is its  *)
(* number, in the order the main thread logs them.                         *)
(***************************************************************************)
EXTENDS Naturals, Sequences

CONSTANTS MaxFiles,   \* bound: files in the startup directory
          MaxReports  \* bound: lines logged while rendering, or telling what failed

ASSUME ChannelAssumption == MaxFiles \in Nat /\ MaxReports \in Nat

VARIABLES
    main,     \* next statement of Channel::run
    io,       \* next statement of Channel::iothread
    env,      \* what the environment of this process is like, see Env
    writers,  \* the names registered in Log::_writers
    pipe,     \* the uv_pipe_t on the I/O thread's stack
    stop,     \* the loop's stop flag, set by uv_stop
    files,    \* startup files not listed yet
    layers,   \* layers the compositor has
    reports,  \* lines logged so far that depend on how things go
    logged,   \* lines logged so far
    stdbuf,   \* lines in the process's stdout buffer
    queue,    \* lines in libuv's write queue
    wire,     \* lines written to file descriptor 1
    reqs      \* lines whose write request and buffer are allocated

threads == <<main, io>>
scene == <<files, layers, reports>>
lines == <<logged, stdbuf, queue, wire, reqs>>
vars == <<main, io, env, writers, pipe, stop, files, layers, reports,
          logged, stdbuf, queue, wire, reqs>>

\* Whether standard output is a pipe, whether uv_cond_wait may return without
\* a signal, and whether Window::pump may return -1 (only window_win.cc does).
Env == {"pipe", "spurious", "quit"}

\* The statements of Channel::run that write to the log.
LogPoints == {"opening", "startup", "window", "note", "adding", "failed", "warning",
              "starting", "report", "closing", "shutdown"}
Ended == {"exited", "crashed"}
MainStates == LogPoints \cup Ended \cup
    {"start", "wait", "blocked", "setup", "image", "layer", "render", "stop", "return"}

\* Lines the executor logs before Channel::run, and every later one.
MaxLine == 7 + MaxFiles + MaxReports

TypeOK ==
    /\ main \in MainStates
    /\ io \in {"none", "begin", "clear", "open", "add", "signal", "start", "run", "returned"}
    /\ env \subseteq Env
    /\ writers \subseteq {":stdout", ":pipe"}
    /\ pipe \in {"none", "open", "broken", "unopened", "dead"}
    /\ stop \in BOOLEAN
    /\ files \in 0..MaxFiles /\ layers \in 0..MaxFiles
    /\ reports \in 0..MaxReports
    /\ logged \in 1..MaxLine
    /\ stdbuf \in Seq(1..MaxLine) /\ queue \in Seq(1..MaxLine) /\ wire \in Seq(1..MaxLine)
    /\ reqs \subseteq 1..MaxLine

\* The executor has logged line 1 and the only writer is the one of Log::Log.
Init ==
    /\ main = "start" /\ io = "none"
    /\ env \in SUBSET Env
    /\ writers = {":stdout"}
    /\ pipe = "none" /\ stop = FALSE
    /\ files \in 0..MaxFiles /\ layers = 0 /\ reports = 0
    /\ logged = 1 /\ stdbuf = <<1>>
    /\ queue = <<>> /\ wire = <<>> /\ reqs = {}

-----------------------------------------------------------------------------
(***************************************************************************)
(* The log.                                                                *)
(***************************************************************************)

\* Both threads are at a statement that uses Log::_writers, one of them to
\* change it: nothing orders the two.
WritersRace == main \in LogPoints /\ io \in {"clear", "add"}

\* A defect for the mutation check: the request is freed after a uv_write
\* that succeeded as well.
UvWriteFreesAlways(line, next) ==
    /\ pipe = "open"
    /\ UNCHANGED reqs
    /\ \/ queue = <<>> /\ wire' = Append(wire, line) /\ UNCHANGED queue
       \/ queue' = Append(queue, line) /\ UNCHANGED wire
    /\ main' = next

\* A defect for the mutation check: the line is written at once although others
\* are queued.
UvWriteOvertakes(line, next) ==
    /\ pipe = "open"
    /\ reqs' = reqs \cup {line}
    /\ \/ wire' = Append(wire, line) /\ UNCHANGED queue
       \/ queue' = Append(queue, line) /\ UNCHANGED wire
    /\ main' = next

\* UvWriter::writeLine on a live stream: a request and a buffer are allocated
\* and passed to uv_write, which writes at once if nothing is queued and the
\* descriptor takes it, and queues otherwise.  after_write frees both.
UvWrite(line, next) ==
    /\ pipe = "open"
    /\ reqs' = reqs \cup {line}
    /\ \/ queue = <<>> /\ wire' = Append(wire, line) /\ UNCHANGED queue
       \/ queue' = Append(queue, line) /\ UNCHANGED wire
    /\ main' = next

\* The server is gone.  libuv takes the line all the same, finds out when it
\* tries to write it, and tells after_write, which ignores it; unless the write
\* ends the process (SIGPIPE).
UvWriteBroken(line, next) ==
    /\ pipe = "broken"
    /\ reqs' = reqs \cup {line}
    /\ \/ queue = <<>> /\ main' \in {next, "crashed"} /\ UNCHANGED queue
       \/ queue' = Append(queue, line) /\ main' = next
    /\ UNCHANGED wire

\* uv_write refuses a stream that could not be opened: the request and the buffer
\* are freed at once, and the line is lost.
UvWriteFails(next) ==
    /\ pipe = "unopened"
    /\ main' = next
    /\ UNCHANGED <<queue, wire, reqs>>

\* The same on the stack of a thread that has ended: the write may still
\* work, go nowhere, or crash the process.
UvWriteDead(line, next) ==
    /\ pipe = "dead"
    /\ \/ wire' = Append(wire, line) /\ main' = next
       \/ wire' = wire /\ main' \in {next, "crashed"}
    /\ UNCHANGED <<queue, reqs>>

\* LOG(...), after which the main thread goes on at `next`: every registered
\* writer gets the line.  Iterating _writers while it changes may crash.
Log(next) ==
    LET line == logged + 1 IN
    /\ logged' = line
    /\ stdbuf' = IF ":stdout" \in writers THEN Append(stdbuf, line) ELSE stdbuf
    /\ \/ ":pipe" \in writers /\ (\/ UvWrite(line, next)
                                \/ UvWriteBroken(line, next)
                                \/ UvWriteFails(next)
                                \/ UvWriteDead(line, next))
       \/ ":pipe" \notin writers /\ main' = next /\ UNCHANGED <<queue, wire, reqs>>
       \/ WritersRace /\ main' = "crashed" /\ UNCHANGED <<queue, wire, reqs>>
    /\ UNCHANGED <<io, env, writers, pipe, stop>>

-----------------------------------------------------------------------------
(***************************************************************************)
(* The main thread: Channel::run.                                          *)
(***************************************************************************)

\* No configuration, or no block of that name in it: an error is logged, which
\* stands for that of Config::open too, and run returns -1.
Unconfigured ==
    /\ main = "start"
    /\ Log("return")
    /\ UNCHANGED scene

\* uv_thread_create, whose result is not checked.
CreateThread ==
    /\ main = "start"
    /\ main' = "wait"
    /\ io' \in {"begin", "none"}
    /\ UNCHANGED <<env, writers, pipe, stop, scene, lines>>

\* A defect for the mutation check: the thread is never waited for.
WaitSkipped ==
    /\ main = "wait"
    /\ main' = "opening"
    /\ UNCHANGED <<io, env, writers, pipe, stop, scene, lines>>

\* uv_cond_wait: neither the lock is held nor any condition tested, so the
\* thread blocks whether or not the signal was sent already.
Wait ==
    /\ main = "wait"
    /\ main' = "blocked"
    /\ UNCHANGED <<io, env, writers, pipe, stop, scene, lines>>

SpuriousWakeup ==
    /\ "spurious" \in env
    /\ main = "blocked"
    /\ main' = "opening"
    /\ UNCHANGED <<io, env, writers, pipe, stop, scene, lines>>

Opening == main = "opening" /\ Log("startup") /\ UNCHANGED scene

\* gfx::startup, which logs.
Startup == main = "startup" /\ Log("window") /\ UNCHANGED scene

\* Window::create, whose first line is logged on every platform.
CreateWindow == main = "window" /\ Log("setup") /\ UNCHANGED scene

\* The rest of it, Context::create and the compositor's program log what they find,
\* or what failed: how many lines, and which, depends on the platform.
Note ==
    \/ /\ main = "setup" /\ reports < MaxReports
       /\ main' = "note"
       /\ UNCHANGED <<io, env, writers, pipe, stop, scene, lines>>
    \/ /\ main = "note"
       /\ Log("setup")
       /\ reports' = reports + 1
       /\ UNCHANGED <<files, layers>>

Listing == IF files > 0 THEN "adding" ELSE "layer"

\* The window, the GL context and the compositor are there; or one of them is not,
\* and null is dereferenced.
Setup ==
    /\ main = "setup"
    /\ main' \in {"crashed", Listing}
    /\ UNCHANGED <<io, env, writers, pipe, stop, scene, lines>>

\* A defect for the mutation check: a file is never done with.
AddingStays ==
    /\ main = "adding"
    /\ Log("image")
    /\ UNCHANGED scene

\* One file of the startup directory.
Adding ==
    /\ main = "adding"
    /\ Log("image")
    /\ files' = files - 1
    /\ UNCHANGED <<layers, reports>>

\* Image::create: an image becomes a layer.  It logs why a file is no image, but
\* not that there is no memory for it, and warns of errors of GL, of which it
\* makes nothing; the pixels of an image that was not converted are null.  Where
\* the number of lines has reached its bound, it logs none.
Image ==
    /\ main = "image"
    /\ \/ reports < MaxReports /\ main' \in {"failed", "warning"} /\ UNCHANGED layers
       \/ main' = Listing /\ layers' \in {layers, layers + 1}
       \/ main' = "crashed" /\ UNCHANGED layers
    /\ UNCHANGED <<io, env, writers, pipe, stop, files, reports, lines>>

ImageFails ==
    /\ main = "failed"
    /\ Log(Listing)
    /\ reports' = reports + 1
    /\ UNCHANGED <<files, layers>>

\* One warning, or two.
ImageWarns ==
    /\ main = "warning"
    /\ reports' = reports + 1
    /\ \/ Log(Listing) /\ layers' = layers + 1
       \/ reports' < MaxReports /\ Log("warning") /\ UNCHANGED layers
    /\ UNCHANGED files

\* compositor.layer(1)->setVisible(false): null with fewer than two layers.
HideLayer ==
    /\ main = "layer"
    /\ main' = IF layers < 2 THEN "crashed" ELSE "starting"
    /\ UNCHANGED <<io, env, writers, pipe, stop, scene, lines>>

Starting == main = "starting" /\ Log("render") /\ UNCHANGED scene

\* A turn of the rendering loop that logs: the frame rate, the end of an
\* effect, a key press.
Render ==
    /\ main = "render"
    /\ reports < MaxReports
    /\ main' = "report"
    /\ UNCHANGED <<io, env, writers, pipe, stop, scene, lines>>

Report ==
    /\ main = "report"
    /\ Log("render")
    /\ reports' = reports + 1
    /\ UNCHANGED <<files, layers>>

\* window->pump() < 0.
Quit ==
    /\ "quit" \in env
    /\ main = "render"
    /\ main' = "closing"
    /\ UNCHANGED <<io, env, writers, pipe, stop, scene, lines>>

\* Channel::close logs, then stops the loop, and the rendering loop is left.
Closing == main = "closing" /\ Log("stop") /\ UNCHANGED scene

StopLoop ==
    /\ main = "stop"
    /\ stop' = TRUE
    /\ main' = "shutdown"
    /\ UNCHANGED <<io, env, writers, pipe, scene, lines>>

\* gfx::shutdown logs, too.
Shutdown == main = "shutdown" /\ Log("return") /\ UNCHANGED scene

\* run and main return: stdout's buffer is flushed and the process ends with
\* the I/O thread wherever it is.
Return ==
    /\ main = "return"
    /\ main' = "exited"
    /\ wire' = IF pipe = "broken" THEN wire ELSE wire \o stdbuf
    /\ stdbuf' = <<>>
    /\ UNCHANGED <<io, env, writers, pipe, stop, scene, logged, queue, reqs>>

-----------------------------------------------------------------------------
(***************************************************************************)
(* The I/O thread: Channel::iothread and the loop it runs.                 *)
(***************************************************************************)

IoStep(from, to) ==
    /\ main \notin Ended
    /\ io = from
    /\ io' = to
    /\ UNCHANGED <<env, stop, scene, lines>>

\* A defect for the mutation check: the thread signals as its first statement.
GuessSignalsFirst ==
    /\ IoStep("begin", IF "pipe" \in env THEN "clear" ELSE "signal")
    /\ main' = IF main = "blocked" THEN "opening" ELSE main
    /\ UNCHANGED <<writers, pipe>>

\* A defect for the mutation check: the signal is part of the pipe's set-up.
GuessSignalsPipeOnly ==
    /\ IoStep("begin", IF "pipe" \in env THEN "clear" ELSE "start")
    /\ UNCHANGED <<main, writers, pipe>>

\* uv_guess_handle(1).
Guess ==
    /\ IoStep("begin", IF "pipe" \in env THEN "clear" ELSE "signal")
    /\ UNCHANGED <<main, writers, pipe>>

\* A defect for the mutation check: the writer is registered before its pipe
\* is initialised.
ClearWritersAdds ==
    /\ IoStep("clear", "open")
    /\ writers' = {":pipe"}
    /\ UNCHANGED <<main, pipe>>

ClearWriters ==
    /\ IoStep("clear", "open")
    /\ writers' = {}
    /\ UNCHANGED <<main, pipe>>

\* uv_pipe_init, uv_pipe_open, whose result is ignored, and uv_unref.  The server
\* may be gone already.
OpenPipe ==
    /\ IoStep("open", "add")
    /\ pipe' \in {"open", "broken", "unopened"}
    /\ UNCHANGED <<main, writers>>

AddWriter ==
    /\ IoStep("add", "signal")
    /\ writers' = writers \cup {":pipe"}
    /\ UNCHANGED <<main, pipe>>

\* uv_cond_signal wakes the main thread if it is blocked, and is forgotten
\* otherwise.
Signal ==
    /\ IoStep("signal", "start")
    /\ main' = IF main = "blocked" THEN "opening" ELSE main
    /\ UNCHANGED <<writers, pipe>>

\* A defect for the mutation check: without an idler nothing keeps the loop
\* running, so that uv_run returns at once.
StartIdlerMissing ==
    /\ IoStep("start", "returned")
    /\ pipe' = IF pipe = "none" THEN pipe ELSE "dead"
    /\ UNCHANGED <<main, writers>>

\* uv_idle_start: from here on the loop has an active handle (the pipe does
\* not count, it was unref'd) and never sleeps, so it notices what the other
\* thread queued.
StartIdler == IoStep("start", "run") /\ UNCHANGED <<main, writers, pipe>>

Looping == main \notin Ended /\ io = "run"

\* A defect for the mutation check: the loop goes on when main has returned.
FlushOutlives ==
    /\ io = "run"
    /\ queue # <<>>
    /\ pipe # "broken"
    /\ wire' = Append(wire, Head(queue))
    /\ queue' = Tail(queue)
    /\ UNCHANGED <<threads, env, writers, pipe, stop, scene, logged, stdbuf, reqs>>

\* The loop writes the head of the queue.
Flush ==
    /\ Looping
    /\ queue # <<>>
    /\ pipe # "broken"
    /\ wire' = Append(wire, Head(queue))
    /\ queue' = Tail(queue)
    /\ UNCHANGED <<threads, env, writers, pipe, stop, scene, logged, stdbuf, reqs>>

\* The same without a reader.
FlushBroken ==
    /\ Looping
    /\ queue # <<>>
    /\ pipe = "broken"
    /\ queue' = Tail(queue)
    /\ main' \in {main, "crashed"}
    /\ UNCHANGED <<io, env, writers, pipe, stop, scene, logged, stdbuf, wire, reqs>>

Queued == {queue[k] : k \in DOMAIN queue}

\* UvWriter::after_write frees the request and the buffer of a line that was
\* written, or failed to be: the loop calls it in the order of the requests.
AfterWrite ==
    /\ Looping
    /\ \E line \in reqs \ Queued :
          /\ \A other \in reqs \ Queued : line <= other
          /\ reqs' = reqs \ {line}
    /\ UNCHANGED <<threads, env, writers, pipe, stop, scene, logged, stdbuf, queue, wire>>

\* The loop sees the stop flag, uv_run resets it and returns, and so does the
\* thread: its stack, with the pipe the log still writes to, is gone.
LoopStops ==
    /\ Looping
    /\ stop
    /\ io' = "returned"
    /\ stop' = FALSE
    /\ pipe' = IF pipe = "none" THEN pipe ELSE "dead"
    /\ UNCHANGED <<main, env, writers, scene, lines>>

\* The server ends: nobody will read the pipe any more.
ServerGone ==
    /\ main \notin Ended
    /\ pipe = "open"
    /\ pipe' = "broken"
    /\ UNCHANGED <<threads, env, writers, stop, scene, lines>>

-----------------------------------------------------------------------------
MainStep ==
    \/ Unconfigured \/ CreateThread \/ Wait \/ Opening \/ Startup
    \/ CreateWindow \/ Note \/ Setup \/ Adding \/ Image \/ ImageFails \/ ImageWarns
    \/ HideLayer \/ Starting \/ Report \/ Closing \/ StopLoop \/ Shutdown \/ Return

IoThread == Guess \/ ClearWriters \/ OpenPipe \/ AddWriter \/ Signal \/ StartIdler

Next ==
    \/ MainStep \/ SpuriousWakeup \/ Render \/ Quit
    \/ IoThread \/ Flush \/ FlushBroken \/ AfterWrite \/ LoopStops
    \/ ServerGone

\* Both threads are scheduled, the loop turns for as long as its thread does,
\* and the server, while it is there, reads the pipe.  Nothing obliges a line to
\* be logged while rendering, a window to be closed, the server to end, or a
\* wakeup to be spurious.
Fairness ==
    /\ WF_vars(MainStep) /\ WF_vars(IoThread)
    /\ WF_vars(Flush \/ FlushBroken) /\ WF_vars(AfterWrite) /\ WF_vars(LoopStops)

Spec == Init /\ [][Next]_vars
FairSpec == Spec /\ Fairness

-----------------------------------------------------------------------------
(***************************************************************************)
(* Properties.                                                             *)
(***************************************************************************)

\* The writers of the log are replaced without a lock: only the wait for the
\* signal keeps the main thread from logging meanwhile (trace.cc iterates the
\* map that clearWriters and addWriter change), if it ends with the signal.
WritersUnraced == "spurious" \notin env => ~WritersRace

\* Log::writeLine sends a line to all registered writers, and the change of
\* writers happens between two lines: what reached the stdout buffer, the
\* wire and the queue are, in this order, all the lines logged so far, none
\* lost, duplicated or overtaken, until Channel::close stops the loop or the
\* server is gone.  A pipe that could not be opened takes no line.
NothingLostOrReordered ==
    "spurious" \notin env /\ pipe \in {"none", "open"} /\ ~stop
        => stdbuf \o wire \o queue = [n \in 1..logged |-> n]

\* libuv refers to a request and its buffer until after_write: neither is
\* freed while the line is queued.
QueuedRequestsLive == Queued \subseteq reqs

HasStream == pipe \in {"open", "broken", "unopened"}

\* A UvWriter writes to the libuv stream it was given for as long as it is
\* registered, so that stream has to outlive its registration.
StreamAlive == main \in LogPoints /\ ":pipe" \in writers => HasStream

\* It does until Channel::close stops the loop, also if the wait for the I/O
\* thread ended without its signal.
StreamAliveUntilClosed ==
    main \in LogPoints \ {"shutdown"} /\ ":pipe" \in writers => HasStream

\* A main thread that was blocked before the signal is woken by it.
WaiterWakes == main = "blocked" /\ io \in {"begin", "clear", "open", "add", "signal"}
                    ~> main # "blocked"

\* Once the I/O thread is up and has signalled it, the main thread goes on.
SignalIsHeard == io = "run" ~> main \notin {"wait", "blocked"}

\* The main thread queues without telling the loop, which still writes every
\* line and frees its request, unless the process ends or Channel::close
\* stopped the loop.
QueuedIsWritten ==
    \A line \in 1..MaxLine :
        line \in reqs ~> line \notin reqs \/ main \in Ended \cup {"shutdown", "return"}
=============================================================================
