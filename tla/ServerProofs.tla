---------------------------- MODULE ServerProofs ----------------------------
(***************************************************************************)
(* Proofs about Server, for any number of channels.                        *)
(*                                                                         *)
(* The inductive invariant adds to the invariants of the runs what they    *)
(* rest on: a slot that is not reached yet has no handles, a null entry    *)
(* was pushed for a slot passed, the two handles of a host live and are    *)
(* closed together, a running child has an active process handle, and the  *)
(* loop starts when every slot was reached.                                *)
(***************************************************************************)
EXTENDS Server, TLAPS

NullsAreSpent == nulls < next

Untouched == \A i \in Slots : i >= next => process[i] = "none" /\ out[i] = "none"

HandlesPaired ==
    \A i \in Slots : process[i] = "active" <=> out[i] \in {"active", "unread", "ended"}

RunningIsActive == \A i \in Slots : child[i] = "running" => process[i] = "active"

AllReached == pc # "create" => next = NumChannels + 1

IInv ==
    /\ TypeOK
    /\ NullsAreSpent
    /\ Untouched
    /\ HandlesPaired
    /\ HostOutlivesProcess
    /\ NoHandleLeak
    /\ RunningIsActive
    /\ AllReached

\* The invariant holds before Server::run creates the first host.
LEMMA InitIInv == Init => IInv
BY ServerAssumption DEF Init, IInv, TypeOK, NullsAreSpent, Untouched, HandlesPaired,
   HostOutlivesProcess, NoHandleLeak, RunningIsActive, AllReached, Slots, ProcessState,
   PipeState

\* Each call of ChannelHost::create preserves the invariant, whether it
\* returns a host or null.
LEMMA CreateIInv == ASSUME IInv, NEW i \in Slots, Create(i) PROVE IInv'
<1> USE ServerAssumption DEF IInv, NextBlock
<1>1. next' = i + 1 /\ i + 1 \in 1..NumChannels+1 /\ i \in Nat /\ next = i
  BY DEF Create, NoExePath, SpawnFails, Spawned, Slots
<1>2. process[i] = "none" /\ out[i] = "none" /\ i \notin hosts
  BY <1>1 DEF Untouched, HostOutlivesProcess
<1>3. pc' \in {"create", "open"}
  BY DEF Create, NoExePath, SpawnFails, Spawned
<1>4. \A j \in Slots : j >= next' => j >= next /\ j # i
  BY <1>1 DEF Slots
<1>5. nulls \in Nat /\ nulls < i /\ i <= NumChannels
  BY <1>1 DEF TypeOK, NullsAreSpent, Slots
<1>6. NoHandleLeak' /\ AllReached'
  BY <1>1, <1>3, ServerAssumption DEF NoHandleLeak, AllReached, Create, NoExePath,
     SpawnFails, Spawned, Slots
<1>7. CASE NoExePath(i)
  <2>1. TypeOK'
    BY <1>1, <1>3, <1>5, <1>7 DEF NoExePath, TypeOK
  <2>2. NullsAreSpent'
    BY <1>1, <1>5, <1>7 DEF NoExePath, NullsAreSpent
  <2>3. Untouched'
    BY <1>4, <1>7 DEF NoExePath, Untouched
  <2>4. HandlesPaired' /\ HostOutlivesProcess' /\ RunningIsActive'
    BY <1>7 DEF NoExePath, HandlesPaired, HostOutlivesProcess, RunningIsActive
  <2> QED BY <2>1, <2>2, <2>3, <2>4, <1>6
<1>8. CASE SpawnFails(i)
  <2>1. TypeOK'
    BY <1>1, <1>3, <1>5, <1>8 DEF SpawnFails, TypeOK, ProcessState, PipeState
  <2>2. NullsAreSpent'
    BY <1>1, <1>5, <1>8 DEF SpawnFails, NullsAreSpent
  <2>3. Untouched'
    BY <1>4, <1>8 DEF SpawnFails, Untouched, TypeOK
  <2>4. HandlesPaired' /\ HostOutlivesProcess' /\ RunningIsActive'
    BY <1>2, <1>8 DEF SpawnFails, HandlesPaired, HostOutlivesProcess,
       RunningIsActive, TypeOK
  <2> QED BY <2>1, <2>2, <2>3, <2>4, <1>6
<1>9. CASE Spawned(i)
  <2>1. TypeOK'
    BY <1>1, <1>3, <1>9 DEF Spawned, TypeOK, ProcessState, PipeState
  <2>2. NullsAreSpent'
    BY <1>1, <1>5, <1>9 DEF Spawned, NullsAreSpent
  <2>3. Untouched'
    BY <1>4, <1>9 DEF Spawned, Untouched, TypeOK
  <2>4. HandlesPaired' /\ HostOutlivesProcess' /\ RunningIsActive'
    BY <1>2, <1>9 DEF Spawned, HandlesPaired, HostOutlivesProcess,
       RunningIsActive, TypeOK
  <2> QED BY <2>1, <2>2, <2>3, <2>4, <1>6
<1> QED BY <1>7, <1>8, <1>9 DEF Create

\* Each callback of the loop preserves the invariant.
LEMMA CallbackIInv == ASSUME IInv, NEW i \in Slots, Callback(i) PROVE IInv'
<1> USE DEF IInv, run, handles, pipes, ProcessState, PipeState
<1>1. pc = "loop" /\ pc' = "loop" /\ next' = next /\ nulls' = nulls
  BY DEF Callback, OnRead, OnEnd, OnExit, OnCloseProcess, OnClosePipe
<1>2. NullsAreSpent' /\ NoHandleLeak' /\ AllReached'
  BY <1>1 DEF NullsAreSpent, NoHandleLeak, AllReached
<1>3. CASE OnRead(i)
  <2>1. TypeOK'
    <3>1. PICK n \in 1..MaxChunks : /\ forwarded[i] + n <= written[i]
                                    /\ forwarded' = [forwarded EXCEPT ![i] = @ + n]
      BY <1>3 DEF OnRead
    <3>2. forwarded[i] + n \in 0..MaxChunks
      BY <3>1, ServerAssumption DEF TypeOK
    <3> QED BY <1>1, <1>3, <3>1, <3>2 DEF OnRead, TypeOK
  <2> QED BY <1>1, <1>2, <1>3, <2>1 DEF OnRead, Untouched, HandlesPaired,
          HostOutlivesProcess, RunningIsActive
<1>4. CASE OnEnd(i)
  BY <1>1, <1>2, <1>4 DEF OnEnd, TypeOK, Untouched, HandlesPaired,
     HostOutlivesProcess, RunningIsActive
<1>5. CASE OnExit(i)
  BY <1>1, <1>2, <1>5 DEF OnExit, TypeOK, Untouched, HandlesPaired,
     HostOutlivesProcess, RunningIsActive
<1>6. CASE OnCloseProcess(i)
  BY <1>1, <1>2, <1>6 DEF OnCloseProcess, TypeOK, Untouched, HandlesPaired,
     HostOutlivesProcess, RunningIsActive
<1>7. CASE OnClosePipe(i)
  BY <1>1, <1>2, <1>7 DEF OnClosePipe, TypeOK, Untouched, HandlesPaired,
     HostOutlivesProcess, RunningIsActive
<1> QED BY <1>3, <1>4, <1>5, <1>6, <1>7 DEF Callback

\* Opening the mesh node, the end of the loop and the children's own steps
\* preserve the invariant.  The end is where HandlesPaired is needed: libuv
\* does not wait for a pipe that has ended, but it waits for its process.
LEMMA OtherIInv ==
    ASSUME IInv,
           OpenMesh \/ Exit \/ \E i \in Slots : ChildWrites(i) \/ ChildExits(i)
    PROVE  IInv'
<1> USE ServerAssumption DEF IInv, Slots, run, handles, pipes
<1>1. CASE OpenMesh
  BY <1>1 DEF OpenMesh, TypeOK, NullsAreSpent, Untouched, HandlesPaired,
     HostOutlivesProcess, NoHandleLeak, RunningIsActive, AllReached
<1>2. CASE Exit
  <2>1. NoHandleLeak'
    BY <1>2 DEF Exit, LoopAlive, TypeOK, HandlesPaired, NoHandleLeak, ProcessState, PipeState
  <2> QED BY <1>2, <2>1 DEF Exit, TypeOK, NullsAreSpent, Untouched, HandlesPaired,
          HostOutlivesProcess, RunningIsActive, AllReached
<1>3. ASSUME NEW i \in Slots, ChildWrites(i) PROVE IInv'
  <2>1. written[i] + 1 \in 0..MaxChunks
    BY <1>3 DEF ChildWrites, TypeOK
  <2> QED BY <1>3, <2>1 DEF ChildWrites, TypeOK, NullsAreSpent, Untouched, HandlesPaired,
          HostOutlivesProcess, NoHandleLeak, RunningIsActive, AllReached
<1>4. ASSUME NEW i \in Slots, ChildExits(i) PROVE IInv'
  <2>1. \A n \in written[i]..MaxChunks : n \in 0..MaxChunks
    BY <1>4 DEF TypeOK
  <2> QED BY <1>4, <2>1 DEF ChildExits, TypeOK, NullsAreSpent, Untouched, HandlesPaired,
          HostOutlivesProcess, NoHandleLeak, RunningIsActive, AllReached
<1> QED BY <1>1, <1>2, <1>3, <1>4

\* Every step preserves the invariant.
LEMMA NextIInv == IInv /\ [Next]_vars => IInv'
<1> SUFFICES ASSUME IInv, [Next]_vars PROVE IInv'
  OBVIOUS
<1>1. CASE UNCHANGED vars
  BY <1>1 DEF vars, IInv, TypeOK, NullsAreSpent, Untouched, HandlesPaired,
     HostOutlivesProcess, NoHandleLeak, RunningIsActive, AllReached
<1>2. CASE Next
  BY <1>2, CreateIInv, CallbackIInv, OtherIInv DEF Next
<1> QED BY <1>1, <1>2

\* IInv is an invariant of the server.
LEMMA AlwaysIInv == Spec => []IInv
BY InitIInv, NextIInv, PTL DEF Spec

\* The type invariant, for every number of channels and chunks.
THEOREM TypeCorrect == Spec => []TypeOK
BY AlwaysIInv, PTL DEF IInv

\* The list of hosts holds a host exactly as long as its process can report
\* its exit through the raw pointer in its handle.
THEOREM HostsOutlive == Spec => []HostOutlivesProcess
BY AlwaysIInv, PTL DEF IInv

\* When the server's loop ends, no handle of any channel is left open.
THEOREM NoLeak == Spec => []NoHandleLeak
BY AlwaysIInv, PTL DEF IInv

\* No step closes or revives a handle that is closing or freed.
LEMMA NextCloseStep == IInv /\ [Next]_vars => CloseStep
<1> SUFFICES ASSUME IInv, [Next]_vars PROVE CloseStep
  OBVIOUS
<1> USE DEF IInv, TypeOK, CloseStep, Slots, run, handles, pipes
<1>1. CASE UNCHANGED vars
  BY <1>1 DEF vars
<1>2. CASE OpenMesh \/ Exit
  BY <1>2 DEF OpenMesh, Exit
<1>3. ASSUME NEW i \in Slots, Create(i) PROVE CloseStep
  <2>1. process[i] = "none" /\ out[i] = "none"
    BY <1>3 DEF Create, NoExePath, SpawnFails, Spawned, NextBlock, Untouched
  <2>2. \A j \in Slots \ {i} : process'[j] = process[j] /\ out'[j] = out[j]
    BY <1>3 DEF Create, NoExePath, SpawnFails, Spawned
  <2> QED BY <2>1, <2>2
<1>4. ASSUME NEW i \in Slots, Callback(i) PROVE CloseStep
  BY <1>4 DEF Callback, OnRead, OnEnd, OnExit, OnCloseProcess, OnClosePipe, HandlesPaired,
     ProcessState, PipeState
<1>5. ASSUME NEW i \in Slots, ChildWrites(i) \/ ChildExits(i) PROVE CloseStep
  BY <1>5 DEF ChildWrites, ChildExits
<1> QED BY <1>1, <1>2, <1>3, <1>4, <1>5 DEF Next

\* uv_close is called at most once for every handle.
THEOREM ClosedOnce == Spec => HandlesCloseOnce
<1>1. IInv /\ [Next]_vars => [CloseStep]_vars
  BY NextCloseStep
<1> QED BY <1>1, AlwaysIInv, PTL DEF Spec, HandlesCloseOnce

\* The callbacks are steps of Supervisor or hidden from it.
LEMMA CallbackKeeps ==
    ASSUME IInv, NEW i \in Slots, Callback(i) PROVE [Promise!Next]_(Promise!vars)
<1> DEFINE S == [j \in Slots |-> ChildStatus(j)]
<1> USE DEF Callback, run, handles, pipes
<1>0. pc = "loop" /\ UNCHANGED <<pc, next, written>>
  BY DEF OnRead, OnEnd, OnExit, OnCloseProcess, OnClosePipe
<1>1. CASE OnRead(i)
  <2>1. UNCHANGED <<S, pc, written>>
    BY <1>1 DEF OnRead, ChildStatus
  <2>2. S[i] = "up"
    BY <1>1 DEF OnRead, ChildStatus, IInv, HandlesPaired
  <2>3. PICK n \in 1..MaxChunks : /\ forwarded[i] + n <= written[i]
                                  /\ forwarded' = [forwarded EXCEPT ![i] = @ + n]
    BY <1>1 DEF OnRead
  <2>4. forwarded[i] + n \in forwarded[i]+1..written[i]
    BY <2>3, ServerAssumption DEF IInv, TypeOK
  <2>5. Promise!Relay(i)
    BY <2>1, <2>2, <2>3, <2>4 DEF Promise!Relay
  <2> QED BY <2>5 DEF Promise!Next
<1>2. CASE OnEnd(i)
  <2>1. UNCHANGED <<S, forwarded>>
    BY <1>2 DEF OnEnd, ChildStatus, IInv, TypeOK
  <2> QED BY <1>0, <2>1 DEF Promise!vars
<1>3. CASE OnExit(i)
  <2>1. S[i] \in {"up", "deaf"}
    BY <1>3 DEF OnExit, ChildStatus
  <2>2. S' = [S EXCEPT ![i] = "gone"] /\ UNCHANGED forwarded
    BY <1>0, <1>3 DEF OnExit, ChildStatus, IInv, TypeOK
  <2>3. Promise!End(i)
    BY <1>0, <2>1, <2>2 DEF Promise!End, Promise!Running
  <2> QED BY <2>3 DEF Promise!Next
<1>4. CASE OnCloseProcess(i) \/ OnClosePipe(i)
  <2>1. UNCHANGED <<S, forwarded>>
    BY <1>0, <1>4 DEF OnCloseProcess, OnClosePipe, ChildStatus, IInv, TypeOK, HandlesPaired
  <2> QED BY <1>0, <2>1 DEF Promise!vars
<1> QED BY <1>1, <1>2, <1>3, <1>4

\* A call of ChannelHost::create is a step of Supervisor.
LEMMA CreateKeeps == ASSUME IInv, NEW i \in Slots, Create(i) PROVE Promise!Next
<1> DEFINE S == [j \in Slots |-> ChildStatus(j)]
<1>1. next = i /\ next' = i + 1 /\ i \in Nat /\ process[i] = "none"
  BY DEF Create, NoExePath, SpawnFails, Spawned, NextBlock, Slots, IInv, Untouched
<1>2. S[i] = "waiting"
  BY <1>1 DEF ChildStatus
<1>3. ChildStatus(i)' \in {"up", "deaf", "gone"}
  <2>1. next' = i + 1 /\ ~(i >= i + 1)
    BY <1>1
  <2> QED BY <2>1 DEF ChildStatus
<1>4. \A j \in Slots \ {i} : ChildStatus(j)' = ChildStatus(j)
  <2> SUFFICES ASSUME NEW j \in Slots, j # i PROVE ChildStatus(j)' = ChildStatus(j)
    OBVIOUS
  <2>1. process'[j] = process[j] /\ out'[j] = out[j]
    BY DEF Create, NoExePath, SpawnFails, Spawned, IInv, TypeOK
  <2>2. j >= next' <=> j >= next
    BY <1>1 DEF Slots
  <2> QED BY <2>1, <2>2 DEF ChildStatus
<1>5. S' = [S EXCEPT ![i] = ChildStatus(i)']
  BY <1>4
<1>6. UNCHANGED <<written, forwarded>> /\ pc # "done" /\ pc' # "done"
  BY DEF Create, NoExePath, SpawnFails, Spawned, NextBlock
<1>7. Promise!Begin(i)
  BY <1>2, <1>3, <1>5, <1>6 DEF Promise!Begin, Promise!Status
<1> QED BY <1>7 DEF Promise!Next

\* The other steps are steps of Supervisor or hidden from it; that uv_run
\* returns when every child has ended rests on AllReached and HandlesPaired.
LEMMA OtherKeeps ==
    ASSUME IInv,
           OpenMesh \/ Exit \/ \E i \in Slots : ChildWrites(i) \/ ChildExits(i)
    PROVE  [Promise!Next]_(Promise!vars)
<1> DEFINE S == [j \in Slots |-> ChildStatus(j)]
<1> USE DEF run, handles, pipes
<1>1. UNCHANGED S
  BY DEF OpenMesh, Exit, ChildWrites, ChildExits, ChildStatus
<1>2. CASE OpenMesh
  BY <1>1, <1>2 DEF OpenMesh, Promise!vars
<1>3. CASE Exit
  <2>1. \A j \in Slots : process[j] # "active"
    BY <1>3 DEF Exit, LoopAlive
  <2>2. \A j \in Slots : ~(j >= next)
    BY <1>3, ServerAssumption DEF Exit, IInv, AllReached, Slots
  <2>3. \A j \in Slots : S[j] = "gone"
    BY <2>1, <2>2 DEF ChildStatus
  <2>4. Promise!Stop
    BY <1>1, <1>3, <2>3 DEF Exit, Promise!Stop
  <2> QED BY <2>4 DEF Promise!Next
<1>4. ASSUME NEW i \in Slots, ChildWrites(i) PROVE Promise!Next
  <2>1. S[i] \in {"up", "deaf"}
    BY <1>4 DEF ChildWrites, ChildStatus, IInv, RunningIsActive
  <2>2. written' = [written EXCEPT ![i] = written'[i]] /\ written'[i] = written[i] + 1
    BY <1>4 DEF ChildWrites, IInv, TypeOK
  <2>3. written'[i] \in Nat /\ written'[i] > written[i]
    BY <2>2, ServerAssumption DEF IInv, TypeOK
  <2>4. Promise!Say(i)
    BY <1>1, <1>4, <2>1, <2>2, <2>3 DEF ChildWrites, Promise!Say, Promise!Running
  <2> QED BY <2>4 DEF Promise!Next
<1>5. ASSUME NEW i \in Slots, ChildExits(i) PROVE [Promise!Next]_(Promise!vars)
  <2>1. S[i] \in {"up", "deaf"}
    BY <1>5 DEF ChildExits, ChildStatus, IInv, RunningIsActive
  <2>2. PICK n \in written[i]..MaxChunks : written' = [written EXCEPT ![i] = n]
    BY <1>5 DEF ChildExits
  <2>3. UNCHANGED <<forwarded, pc>>
    BY <1>5 DEF ChildExits
  <2>4. CASE n = written[i]
    <3>1. UNCHANGED written
      BY <2>2, <2>4 DEF IInv, TypeOK
    <3> QED BY <1>1, <2>3, <3>1 DEF Promise!vars
  <2>5. CASE n > written[i]
    <3>1. written' = [written EXCEPT ![i] = written'[i]] /\ written'[i] = n /\ n \in Nat
      BY <2>2, ServerAssumption DEF IInv, TypeOK
    <3>2. Promise!Say(i)
      BY <1>1, <2>1, <2>3, <2>5, <3>1 DEF Promise!Say, Promise!Running
    <3> QED BY <3>2 DEF Promise!Next
  <2>6. written[i] \in Nat /\ n \in Nat /\ n >= written[i]
    BY <2>2, ServerAssumption DEF IInv, TypeOK
  <2> QED BY <2>4, <2>5, <2>6
<1> QED BY <1>2, <1>3, <1>4, <1>5

\* Every step of the server is a step of Supervisor or hidden from it.
LEMMA NextKeeps == IInv /\ [Next]_vars => [Promise!Next]_(Promise!vars)
<1> SUFFICES ASSUME IInv, [Next]_vars PROVE [Promise!Next]_(Promise!vars)
  OBVIOUS
<1>1. CASE UNCHANGED vars
  BY <1>1 DEF vars, Promise!vars, ChildStatus
<1>2. CASE Next
  BY <1>2, CreateKeeps, CallbackKeeps, OtherKeeps DEF Next
<1> QED BY <1>1, <1>2

\* The server implements Supervisor, for any number of channels.
THEOREM KeepsPromise == Spec => Supervised
<1>1. Init => Promise!Init
  BY ServerAssumption DEF Init, Promise!Init, ChildStatus, Slots
<1> QED BY <1>1, NextKeeps, AlwaysIInv, PTL DEF Spec, Supervised, Promise!Spec

-----------------------------------------------------------------------------
(***************************************************************************)
(* The slots do not depend on each other.                                  *)
(***************************************************************************)

\* A server that has slot i only: it waits for its turn and then goes on as if
\* the slots behind were there no more, until the loop starts.
Alone(i) == INSTANCE Server WITH
    NumChannels <- 1,
    pc <- IF pc = "create" /\ next > i THEN "open" ELSE pc,
    next <- IF next > i THEN 2 ELSE 1,
    hosts <- IF i \in hosts THEN {1} ELSE {},
    nulls <- IF next > i /\ child[i] = "none" THEN 1 ELSE 0,
    process <- [j \in {1} |-> process[i]], out <- [j \in {1} |-> out[i]],
    child <- [j \in {1} |-> child[i]], written <- [j \in {1} |-> written[i]],
    forwarded <- [j \in {1} |-> forwarded[i]]

\* A child is not there before its slot is reached.
Unborn == \A i \in Slots : i >= next => child[i] = "none"

\* No step makes one before.
LEMMA NextUnborn == IInv /\ Unborn /\ [Next]_vars => Unborn'
<1> SUFFICES ASSUME IInv, Unborn, [Next]_vars PROVE Unborn'
  OBVIOUS
<1> USE DEF Unborn, run, handles, pipes
<1>1. CASE UNCHANGED vars
  BY <1>1 DEF vars
<1>2. CASE OpenMesh \/ Exit
  BY <1>2 DEF OpenMesh, Exit
<1>3. ASSUME NEW j \in Slots, Create(j) PROVE Unborn'
  <2>1. next = j /\ next' = j + 1
    BY <1>3 DEF Create, NoExePath, SpawnFails, Spawned, NextBlock
  <2>2. \A i \in Slots : i >= next' => i >= next /\ i # j
    BY <2>1 DEF Slots
  <2>3. \A i \in Slots \ {j} : child'[i] = child[i]
    BY <1>3 DEF Create, NoExePath, SpawnFails, Spawned, IInv, TypeOK
  <2> QED BY <2>2, <2>3
<1>4. ASSUME NEW j \in Slots, Callback(j) PROVE Unborn'
  BY <1>4 DEF Callback, OnRead, OnEnd, OnExit, OnCloseProcess, OnClosePipe
<1>5. ASSUME NEW j \in Slots, ChildWrites(j) \/ ChildExits(j) PROVE Unborn'
  <2>1. next' = next /\ child[j] = "running" /\ \A i \in Slots \ {j} : child'[i] = child[i]
    BY <1>5 DEF ChildWrites, ChildExits, IInv, TypeOK
  <2> QED BY <2>1
<1> QED BY <1>1, <1>2, <1>3, <1>4, <1>5 DEF Next

\* A server that has not reached any slot has not reached slot i.
LEMMA InitAlone == ASSUME NEW i \in Slots, Init PROVE Alone(i)!Init
BY ServerAssumption DEF Init, Alone!Init, Alone!Slots, Slots

\* What Alone(i) sees stays as it is when no variable of slot i changes.
LEMMA AloneStutters ==
    ASSUME NEW i \in Slots, mesh' = mesh, (next' > i) = (next > i),
           pc' = pc \/ (next > i /\ pc = "create" /\ pc' = "open"),
           (i \in hosts') = (i \in hosts), process'[i] = process[i], out'[i] = out[i],
           child'[i] = child[i], written'[i] = written[i], forwarded'[i] = forwarded[i]
    PROVE  UNCHANGED Alone(i)!vars
BY DEF Alone!vars

\* One slot's own call of ChannelHost::create is the only one of the server that
\* has no other slot.
LEMMA AloneCreates ==
    ASSUME IInv, Unborn, NEW i \in Slots, Create(i)
    PROVE  Alone(i)!Create(1)
<1> USE DEF Alone!NextBlock, NextBlock
<1>1. next = i /\ i \in Nat /\ next' = i + 1 /\ next' > i /\ ~(next > i)
  BY DEF Create, NoExePath, SpawnFails, Spawned, Slots
<1>2. pc = "create" /\ pc' \in {"create", "open"} /\ child[i] = "none" /\ i \notin hosts
  BY <1>1 DEF Create, NoExePath, SpawnFails, Spawned, Unborn, IInv, HostOutlivesProcess, Untouched
<1>3. Alone(i)!NextBlock(1)
  BY <1>1, <1>2
<1>4. CASE NoExePath(i)
  <2>1. Alone(i)!NoExePath(1)
    BY <1>1, <1>2, <1>4 DEF NoExePath, Alone!NoExePath
  <2> QED BY <2>1 DEF Alone!Create
<1>5. CASE SpawnFails(i)
  <2>1. process'[i] = "closing" /\ out'[i] = "closing"
    BY <1>5 DEF SpawnFails, IInv, TypeOK
  <2>2. [j \in {1} |-> process'[i]] = [[j \in {1} |-> process[i]] EXCEPT ![1] = "closing"]
    BY <2>1
  <2>3. [j \in {1} |-> out'[i]] = [[j \in {1} |-> out[i]] EXCEPT ![1] = "closing"]
    BY <2>1
  <2>4. /\ hosts' = hosts /\ child' = child /\ written' = written
        /\ forwarded' = forwarded /\ mesh' = mesh
    BY <1>5 DEF SpawnFails
  <2> HIDE DEF Alone!NextBlock, NextBlock
  <2>5. Alone(i)!SpawnFails(1)
    BY <1>3, <1>1, <1>2, <2>2, <2>3, <2>4 DEF Alone!SpawnFails
  <2> QED BY <2>5 DEF Alone!Create
<1>6. CASE Spawned(i)
  <2>1. PICK o \in {"active", "unread"} : out' = [out EXCEPT ![i] = o]
    BY <1>6 DEF Spawned
  <2>2. process'[i] = "active" /\ out'[i] = o /\ child'[i] = "running" /\ i \in hosts'
    BY <1>6, <2>1 DEF Spawned, IInv, TypeOK
  <2>3. [j \in {1} |-> process'[i]] = [[j \in {1} |-> process[i]] EXCEPT ![1] = "active"]
    BY <2>2
  <2>4. [j \in {1} |-> out'[i]] = [[j \in {1} |-> out[i]] EXCEPT ![1] = o]
    BY <2>2
  <2>5. [j \in {1} |-> child'[i]] = [[j \in {1} |-> child[i]] EXCEPT ![1] = "running"]
    BY <2>2
  <2>6. written' = written /\ forwarded' = forwarded /\ mesh' = mesh
    BY <1>6 DEF Spawned
  <2>7. (IF i \in hosts' THEN {1} ELSE {}) = (IF i \in hosts THEN {1} ELSE {}) \cup {1}
    BY <2>2
  <2>8. (IF next' > i /\ child'[i] = "none" THEN 1 ELSE 0)
          = (IF next > i /\ child[i] = "none" THEN 1 ELSE 0)
    BY <1>1, <2>2
  <2> HIDE DEF Alone!NextBlock, NextBlock
  <2>9. Alone(i)!Spawned(1)
    BY <1>3, <2>3, <2>4, <2>5, <2>6, <2>7, <2>8 DEF Alone!Spawned
  <2> QED BY <2>9 DEF Alone!Create
<1> QED BY <1>4, <1>5, <1>6 DEF Create

\* So is a callback of its handles.
LEMMA AloneCallsBack ==
    ASSUME IInv, NEW i \in Slots, Callback(i)
    PROVE  Alone(i)!Callback(1)
<1> USE DEF run, handles, pipes, Alone!run, Alone!handles, Alone!pipes
<1>1. pc = "loop" /\ pc' = pc /\ next' = next
  BY DEF Callback, OnRead, OnEnd, OnExit, OnCloseProcess, OnClosePipe
<1>2. CASE OnRead(i)
  <2>1. PICK n \in 1..MaxChunks : /\ forwarded[i] + n <= written[i]
                                  /\ forwarded' = [forwarded EXCEPT ![i] = @ + n]
    BY <1>2 DEF OnRead
  <2>2. forwarded'[i] = forwarded[i] + n
    BY <2>1 DEF IInv, TypeOK
  <2>3. Alone(i)!OnRead(1)
    BY <1>1, <1>2, <2>1, <2>2 DEF OnRead, Alone!OnRead
  <2> QED BY <2>3 DEF Alone!Callback
<1>3. CASE OnEnd(i)
  <2>1. out'[i] = "ended"
    BY <1>3 DEF OnEnd, IInv, TypeOK
  <2>2. Alone(i)!OnEnd(1)
    BY <1>1, <1>3, <2>1 DEF OnEnd, Alone!OnEnd
  <2> QED BY <2>2 DEF Alone!Callback
<1>4. CASE OnExit(i)
  <2>1. process'[i] = "closing" /\ out'[i] = "closing" /\ i \notin hosts'
    BY <1>4 DEF OnExit, IInv, TypeOK
  <2>2. Alone(i)!OnExit(1)
    BY <1>1, <1>4, <2>1 DEF OnExit, Alone!OnExit
  <2> QED BY <2>2 DEF Alone!Callback
<1>5. CASE OnCloseProcess(i)
  <2>1. process'[i] = "freed"
    BY <1>5 DEF OnCloseProcess, IInv, TypeOK
  <2>2. Alone(i)!OnCloseProcess(1)
    BY <1>1, <1>5, <2>1 DEF OnCloseProcess, Alone!OnCloseProcess
  <2> QED BY <2>2 DEF Alone!Callback
<1>6. CASE OnClosePipe(i)
  <2>1. out'[i] = "freed"
    BY <1>6 DEF OnClosePipe, IInv, TypeOK
  <2>2. Alone(i)!OnClosePipe(1)
    BY <1>1, <1>6, <2>1 DEF OnClosePipe, Alone!OnClosePipe
  <2> QED BY <2>2 DEF Alone!Callback
<1> QED BY <1>2, <1>3, <1>4, <1>5, <1>6 DEF Callback

\* And so is what its child does.
LEMMA AloneChild ==
    ASSUME IInv, NEW i \in Slots
    PROVE  /\ ChildWrites(i) => Alone(i)!ChildWrites(1)
           /\ ChildExits(i) => Alone(i)!ChildExits(1)
<1> USE DEF run, handles, pipes, Alone!run, Alone!handles, Alone!pipes
<1>1. ASSUME ChildWrites(i) PROVE Alone(i)!ChildWrites(1)
  <2>1. written'[i] = written[i] + 1
    BY <1>1 DEF ChildWrites, IInv, TypeOK
  <2> QED BY <1>1, <2>1 DEF ChildWrites, Alone!ChildWrites
<1>2. ASSUME ChildExits(i) PROVE Alone(i)!ChildExits(1)
  <2>1. PICK n \in written[i]..MaxChunks : written' = [written EXCEPT ![i] = n]
    BY <1>2 DEF ChildExits
  <2>2. written'[i] = n /\ child'[i] = "exited" /\ child[i] = "running"
    BY <1>2, <2>1 DEF ChildExits, IInv, TypeOK
  <2> QED BY <1>2, <2>1, <2>2 DEF ChildExits, Alone!ChildExits
<1> QED BY <1>1, <1>2

\* A step of another slot changes nothing of slot i.
LEMMA OthersLeaveAlone ==
    ASSUME IInv, NEW i \in Slots, NEW j \in Slots \ {i},
           Create(j) \/ Callback(j) \/ ChildWrites(j) \/ ChildExits(j)
    PROVE  UNCHANGED Alone(i)!vars
<1> USE DEF run, handles, pipes
<1>1. CASE Create(j)
  <2>1. next = j /\ next' = j + 1 /\ pc = "create" /\ pc' = IF j = NumChannels THEN "open" ELSE "create"
    BY <1>1 DEF Create, NoExePath, SpawnFails, Spawned, NextBlock
  <2>2. (next' > i) = (next > i) /\ (pc' = pc \/ (next > i /\ pc = "create" /\ pc' = "open"))
    BY <2>1, ServerAssumption DEF Slots
  <2>3. /\ mesh' = mesh /\ (i \in hosts') = (i \in hosts)
        /\ process'[i] = process[i] /\ out'[i] = out[i] /\ child'[i] = child[i]
        /\ written' = written /\ forwarded' = forwarded
    BY <1>1 DEF Create, NoExePath, SpawnFails, Spawned, IInv, TypeOK
  <2> QED BY <2>2, <2>3, AloneStutters
<1>2. CASE Callback(j)
  <2>1. /\ pc' = pc /\ next' = next /\ mesh' = mesh /\ (i \in hosts') = (i \in hosts)
        /\ process'[i] = process[i] /\ out'[i] = out[i] /\ child'[i] = child[i]
        /\ written' = written /\ forwarded'[i] = forwarded[i]
    BY <1>2 DEF Callback, OnRead, OnEnd, OnExit, OnCloseProcess, OnClosePipe, IInv, TypeOK
  <2> QED BY <2>1, AloneStutters
<1>3. CASE ChildWrites(j) \/ ChildExits(j)
  <2>1. /\ pc' = pc /\ next' = next /\ mesh' = mesh /\ hosts' = hosts
        /\ process' = process /\ out' = out /\ child'[i] = child[i]
        /\ written'[i] = written[i] /\ forwarded' = forwarded
    BY <1>3 DEF ChildWrites, ChildExits, IInv, TypeOK
  <2> QED BY <2>1, AloneStutters
<1> QED BY <1>1, <1>2, <1>3

\* Every step of the server is, for each slot, one of the server that has this
\* slot only, or none at all.
LEMMA NextAlone ==
    ASSUME IInv, Unborn, NEW i \in Slots, [Next]_vars
    PROVE  [Alone(i)!Next]_(Alone(i)!vars)
<1> USE DEF run, handles, pipes
<1>1. CASE UNCHANGED vars
  BY <1>1, AloneStutters DEF vars
<1>2. CASE OpenMesh
  <2>1. next > i /\ next' = next
    BY <1>2, ServerAssumption DEF OpenMesh, IInv, AllReached, Slots
  <2>2. Alone(i)!OpenMesh
    BY <1>2, <2>1 DEF OpenMesh, Alone!OpenMesh, Alone!run, Alone!handles, Alone!pipes
  <2> QED BY <2>2 DEF Alone!Next
<1>3. CASE Exit
  <2>1. ~Alone(i)!LoopAlive
    BY <1>3 DEF Exit, LoopAlive, Alone!LoopAlive, Alone!Slots
  <2>2. Alone(i)!Exit
    BY <1>3, <2>1 DEF Exit, Alone!Exit, Alone!handles, Alone!pipes
  <2> QED BY <2>2 DEF Alone!Next
<1>4. ASSUME NEW j \in Slots, Create(j) \/ Callback(j) \/ ChildWrites(j) \/ ChildExits(j)
      PROVE  [Alone(i)!Next]_(Alone(i)!vars)
  <2>1. CASE j = i
    <3>1. Alone(i)!Create(1) \/ Alone(i)!Callback(1) \/ Alone(i)!ChildWrites(1) \/ Alone(i)!ChildExits(1)
      BY <1>4, <2>1, AloneCreates, AloneCallsBack, AloneChild
    <3> QED BY <3>1 DEF Alone!Next, Alone!Slots
  <2>2. CASE j # i
    BY <1>4, <2>2, OthersLeaveAlone
  <2> QED BY <2>1, <2>2
<1> QED BY <1>1, <1>2, <1>3, <1>4 DEF Next

\* The slots do not depend on each other: whatever the other children do, what
\* Server::run, the callbacks and the loop do with one slot is what they do in a
\* server whose configuration has one channel block.
THEOREM SlotsIndependent ==
    ASSUME NEW i \in Slots PROVE Spec => Alone(i)!Init /\ [][Alone(i)!Next]_(Alone(i)!vars)
<1>1. Init => IInv /\ Unborn /\ Alone(i)!Init
  BY InitIInv, InitAlone DEF Init, Unborn
<1>2. IInv /\ [Next]_vars => IInv'
  BY NextIInv
<1>3. IInv /\ Unborn /\ [Next]_vars => Unborn'
  BY NextUnborn
<1>4. IInv /\ Unborn /\ [Next]_vars => [Alone(i)!Next]_(Alone(i)!vars)
  BY NextAlone
<1> QED BY <1>1, <1>2, <1>3, <1>4, PTL DEF Spec
=============================================================================
