------------------------------- MODULE Server -------------------------------
(***************************************************************************)
(* The server process: Server::run and Server::removeHost (server.cc) and  *)
(* ChannelHost (channel_host.cc).                                          *)
(*                                                                         *)
(* The server reads the configuration, spawns one child process per        *)
(* channel block, opens the mesh node and then only reacts to callbacks    *)
(* of its event loop.  It has one thread, so every action of the server    *)
(* is one call of Server::run or one callback, run to completion.          *)
(*                                                                         *)
(* A channel block is a slot 1..NumChannels, in configuration order.  A    *)
(* ChannelHost owns two malloc'ed libuv handles: the process handle and    *)
(* the pipe `_out` that is the child's stdout.  libuv's rules for a handle *)
(* (it may be closed once, its memory is released by the close callback,   *)
(* the loop runs while a handle is active or closing) are modelled from    *)
(* the way channel_host.cc uses them.                                      *)
(***************************************************************************)
EXTENDS Naturals, FiniteSets

CONSTANTS NumChannels,  \* number of channel blocks in the configuration
          MaxChunks     \* bound: chunks of output one child may write

ASSUME ServerAssumption == NumChannels \in Nat /\ MaxChunks \in Nat

Slots == 1..NumChannels

VARIABLES
    pc,         \* where Server::run is: "create", "open", "loop", "done"
    next,       \* the slot whose host is created next
    hosts,      \* the non-null entries of Server::_hosts
    nulls,      \* the null entries of Server::_hosts
    process,    \* per slot, the uv_process_t `_process`
    out,        \* per slot, the uv_pipe_t `_out`
    child,      \* per slot, the operating system's process
    written,    \* per slot, chunks the child put into its stdout
    forwarded,  \* per slot, chunks on_read passed to trace::writeLine
    mesh        \* the mesh node's udp handle

run == <<pc, next, hosts, nulls>>
handles == <<process, out>>
pipes == <<child, written, forwarded>>
vars == <<pc, next, hosts, nulls, process, out, child, written, forwarded, mesh>>

\* A pipe is "active" while it is being read, "unread" (open, but inactive) if
\* uv_read_start failed and "ended" (the same) once libuv has reported the end
\* of the stream.
ProcessState == {"none", "active", "closing", "freed"}
PipeState == {"none", "active", "unread", "ended", "closing", "freed"}

TypeOK ==
    /\ pc \in {"create", "open", "loop", "done"}
    /\ next \in 1..NumChannels+1
    /\ hosts \subseteq Slots
    /\ nulls \in 0..NumChannels
    /\ process \in [Slots -> ProcessState]
    /\ out \in [Slots -> PipeState]
    /\ child \in [Slots -> {"none", "running", "exited"}]
    /\ written \in [Slots -> 0..MaxChunks]
    /\ forwarded \in [Slots -> 0..MaxChunks]
    /\ mesh \in {"none", "listening", "failed"}

Init ==
    /\ pc = IF NumChannels = 0 THEN "open" ELSE "create"
    /\ next = 1
    /\ hosts = {}
    /\ nulls = 0
    /\ process = [i \in Slots |-> "none"]
    /\ out = [i \in Slots |-> "none"]
    /\ child = [i \in Slots |-> "none"]
    /\ written = [i \in Slots |-> 0]
    /\ forwarded = [i \in Slots |-> 0]
    /\ mesh = "none"

-----------------------------------------------------------------------------
(***************************************************************************)
(* The startup loop of Server::run: one call of ChannelHost::create per    *)
(* block, and push_back of whatever it returned, null included.            *)
(***************************************************************************)

NextBlock(i) ==
    /\ pc = "create"
    /\ next = i
    /\ next' = i + 1
    /\ pc' = IF i = NumChannels THEN "open" ELSE "create"

\* uv_exepath failed: null is returned before any handle is made.
NoExePath(i) ==
    /\ NextBlock(i)
    /\ nulls' = nulls + 1
    /\ UNCHANGED <<hosts, process, out, child, written, forwarded, mesh>>

\* A defect for the mutation check: the early return after a failed spawn
\* forgets the pipe, which stays initialised and inactive.
SpawnFailsKeepsPipe(i) ==
    /\ NextBlock(i)
    /\ nulls' = nulls + 1
    /\ process' = [process EXCEPT ![i] = "closing"]
    /\ out' = [out EXCEPT ![i] = "ended"]
    /\ UNCHANGED <<hosts, child, written, forwarded, mesh>>

\* uv_spawn failed: both handles are closed and null is returned.
SpawnFails(i) ==
    /\ NextBlock(i)
    /\ nulls' = nulls + 1
    /\ process' = [process EXCEPT ![i] = "closing"]
    /\ out' = [out EXCEPT ![i] = "closing"]
    /\ UNCHANGED <<hosts, child, written, forwarded, mesh>>

\* A defect for the mutation check: the host is not pushed to _hosts.
SpawnedUnlisted(i) ==
    /\ NextBlock(i)
    /\ process' = [process EXCEPT ![i] = "active"]
    /\ out' = [out EXCEPT ![i] = "active"]
    /\ child' = [child EXCEPT ![i] = "running"]
    /\ UNCHANGED <<hosts, nulls, written, forwarded, mesh>>

\* The child runs, its handle's data is the host, the host is in the list and
\* the child's stdout is being read, unless uv_read_start fails unnoticed.
Spawned(i) ==
    /\ NextBlock(i)
    /\ hosts' = hosts \cup {i}
    /\ process' = [process EXCEPT ![i] = "active"]
    /\ \E o \in {"active", "unread"} : out' = [out EXCEPT ![i] = o]
    /\ child' = [child EXCEPT ![i] = "running"]
    /\ UNCHANGED <<nulls, written, forwarded, mesh>>

\* node.open(loop): its result is ignored and the loop is entered either way.
OpenMesh ==
    /\ pc = "open"
    /\ pc' = "loop"
    /\ mesh' \in {"listening", "failed"}
    /\ UNCHANGED <<next, hosts, nulls, handles, pipes>>

-----------------------------------------------------------------------------
(***************************************************************************)
(* Callbacks of the event loop.                                            *)
(***************************************************************************)

\* A defect for the mutation check: reading stops after the first chunk.
OnReadOnce(i) ==
    /\ pc = "loop"
    /\ out[i] = "active"
    /\ forwarded[i] < written[i]
    /\ forwarded' = [forwarded EXCEPT ![i] = @ + 1]
    /\ out' = [out EXCEPT ![i] = "ended"]
    /\ UNCHANGED <<run, process, child, written, mesh>>

\* A defect for the mutation check: the whole buffer is forwarded, not the n
\* bytes that were read into it.
OnReadWholeBuffer(i) ==
    /\ pc = "loop"
    /\ out[i] = "active"
    /\ forwarded[i] < written[i]
    /\ forwarded' = [forwarded EXCEPT ![i] = @ + MaxChunks + 1]
    /\ UNCHANGED <<run, handles, child, written, mesh>>

\* on_read with n > 0: some of what the pipe holds is forwarded, in order.
OnRead(i) ==
    /\ pc = "loop"
    /\ out[i] = "active"
    /\ \E n \in 1..MaxChunks :
          /\ forwarded[i] + n <= written[i]
          /\ forwarded' = [forwarded EXCEPT ![i] = @ + n]
    /\ UNCHANGED <<run, handles, child, written, mesh>>

\* A defect for the mutation check: the pipe is closed at end of stream, too.
OnEndCloses(i) ==
    /\ pc = "loop"
    /\ out[i] = "active"
    /\ child[i] = "exited"
    /\ forwarded[i] = written[i]
    /\ out' = [out EXCEPT ![i] = "closing"]
    /\ UNCHANGED <<run, process, pipes, mesh>>

\* on_read with n <= 0: the buffer is freed, nothing else.  libuv reports the
\* end of the stream once the child is gone and the pipe is drained, and
\* stops reading.
OnEnd(i) ==
    /\ pc = "loop"
    /\ out[i] = "active"
    /\ child[i] = "exited"
    /\ forwarded[i] = written[i]
    /\ out' = [out EXCEPT ![i] = "ended"]
    /\ UNCHANGED <<run, process, pipes, mesh>>

\* ChannelHost::onExit: both handles are closed, whatever is left in the pipe,
\* and Server::removeHost drops the list's reference to the host.
OnExit(i) ==
    /\ pc = "loop"
    /\ process[i] = "active"
    /\ child[i] = "exited"
    /\ process' = [process EXCEPT ![i] = "closing"]
    /\ out' = [out EXCEPT ![i] = "closing"]
    /\ hosts' = hosts \ {i}
    /\ UNCHANGED <<pc, next, nulls, pipes, mesh>>

\* on_close of the process handle.
OnCloseProcess(i) ==
    /\ pc = "loop"
    /\ process[i] = "closing"
    /\ process' = [process EXCEPT ![i] = "freed"]
    /\ UNCHANGED <<run, out, pipes, mesh>>

\* on_close of the pipe.
OnClosePipe(i) ==
    /\ pc = "loop"
    /\ out[i] = "closing"
    /\ out' = [out EXCEPT ![i] = "freed"]
    /\ UNCHANGED <<run, process, pipes, mesh>>

\* A defect for the mutation check: the loop is kept until _hosts is empty.
LoopAliveWhileListed ==
    \/ mesh = "listening"
    \/ hosts # {} \/ nulls > 0
    \/ \E i \in Slots : process[i] \in {"active", "closing"}
                        \/ out[i] \in {"active", "closing"}

\* A defect for the mutation check: only the mesh node keeps the loop running.
LoopAliveForMesh == mesh = "listening"

\* uv_run(UV_RUN_DEFAULT) goes on while a handle is active or closing.
LoopAlive ==
    \/ mesh = "listening"
    \/ \E i \in Slots : process[i] \in {"active", "closing"}
                        \/ out[i] \in {"active", "closing"}

\* uv_run returns; node.close() does nothing and the process ends.
Exit ==
    /\ pc = "loop"
    /\ ~LoopAlive
    /\ pc' = "done"
    /\ UNCHANGED <<next, hosts, nulls, handles, pipes, mesh>>

-----------------------------------------------------------------------------
(***************************************************************************)
(* The children, as the server sees them: each writes to its stdout and    *)
(* may end at any time.  Neither is ever certain to happen.                *)
(***************************************************************************)

ChildWrites(i) ==
    /\ child[i] = "running"
    /\ written[i] < MaxChunks
    /\ written' = [written EXCEPT ![i] = @ + 1]
    /\ UNCHANGED <<run, handles, child, forwarded, mesh>>

\* Whatever its stdout buffer still holds is flushed when it ends.
ChildExits(i) ==
    /\ child[i] = "running"
    /\ child' = [child EXCEPT ![i] = "exited"]
    /\ \E n \in written[i]..MaxChunks : written' = [written EXCEPT ![i] = n]
    /\ UNCHANGED <<run, handles, forwarded, mesh>>

Create(i) == NoExePath(i) \/ SpawnFails(i) \/ Spawned(i)

Callback(i) ==
    \/ OnRead(i) \/ OnEnd(i) \/ OnExit(i)
    \/ OnCloseProcess(i) \/ OnClosePipe(i)

Next ==
    \/ OpenMesh \/ Exit
    \/ \E i \in Slots : Create(i) \/ Callback(i) \/ ChildWrites(i) \/ ChildExits(i)

\* The server's thread never stops between two statements, and each turn of
\* the loop runs every callback that is due.  The children owe nothing.
Fairness ==
    /\ WF_vars(OpenMesh) /\ WF_vars(Exit)
    /\ \A i \in Slots :
          /\ WF_vars(Create(i))
          /\ WF_vars(OnRead(i)) /\ WF_vars(OnEnd(i)) /\ WF_vars(OnExit(i))
          /\ WF_vars(OnCloseProcess(i)) /\ WF_vars(OnClosePipe(i))

Spec == Init /\ [][Next]_vars
FairSpec == Spec /\ Fairness

-----------------------------------------------------------------------------
(***************************************************************************)
(* Properties.                                                             *)
(***************************************************************************)

\* onExit reaches the host through the raw pointer process->data, while the
\* only owner of a host is the list _hosts.  So the list holds a host for as
\* long as its process can still report an exit, and not longer: the pointer
\* never dangles and no ended channel stays listed.
HostOutlivesProcess == \A i \in Slots : process[i] = "active" <=> i \in hosts

\* uv_close is called at most once for a handle, and never for one whose
\* memory is gone: onExit does not test the state of the pipe it closes.
CloseStep ==
    \A i \in Slots :
        /\ process[i] = "closing" => process'[i] \in {"closing", "freed"}
        /\ process[i] = "freed" => process'[i] = "freed"
        /\ out[i] = "closing" => out'[i] \in {"closing", "freed"}
        /\ out[i] = "freed" => out'[i] = "freed"

\* Every step of the server keeps to that.
HandlesCloseOnce == [][CloseStep]_vars

\* When uv_run returns, every handle ChannelHost::create allocated has been
\* closed and freed, on the paths where creation failed as well.
NoHandleLeak ==
    pc = "done" =>
        \A i \in Slots : process[i] \in {"none", "freed"} /\ out[i] \in {"none", "freed"}

\* Whatever a child wrote is forwarded, unless its pipe was closed first by
\* onExit or never read: the only ways output gets lost.
ForwardedOrCut ==
    \A i \in Slots : \A n \in 1..MaxChunks :
        written[i] >= n ~> forwarded[i] >= n \/ out[i] \in {"unread", "closing", "freed"}

\* If the mesh node could not be opened, the server ends once every child has
\* ended, also when some hosts could not be created and left null entries.
StopsWithoutWork ==
    mesh = "failed" /\ (\A i \in Slots : child[i] # "running") ~> pc = "done"

\* A child as Supervisor sees it: it is up until onExit has noticed its end.
ChildStatus(i) ==
    CASE process[i] = "none" /\ i >= next -> "waiting"
      [] process[i] = "active" /\ out[i] = "unread" -> "deaf"
      [] process[i] = "active" /\ out[i] # "unread" -> "up"
      [] OTHER -> "gone"

Promise == INSTANCE Supervisor WITH
               Children <- Slots, status <- [i \in Slots |-> ChildStatus(i)],
               said <- written, relayed <- forwarded, over <- pc = "done"

\* The server keeps the promise of Supervisor: whatever order the callbacks
\* run in, nothing is forwarded that the child did not write, or after the
\* child's exit was handled, no host is created twice, and uv_run does not
\* return before every child that was started has been seen to end.
Supervised == Promise!Spec
=============================================================================
