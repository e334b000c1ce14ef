---------------------------- MODULE ConfigProofs ----------------------------
(***************************************************************************)
(* Proofs about Config, for any names, sizes, number of blocks and number  *)
(* of changes the user makes to the file, and number of faults.            *)
(***************************************************************************)
EXTENDS Config, TLAPS, WellFoundedInduction

\* The part of the type invariant that the proofs use.
Shape ==
    /\ phase \in [Processes -> Phases]
    /\ DOMAIN block = Channels /\ block = [c \in Channels |-> block[c]]
    /\ next \in Nat \ {0}
    /\ faults \in Nat /\ owner \in Processes

\* Channels are spawned in order, by a server that has read its configuration.
Sequenced ==
    \A c \in Channels :
        /\ c >= next => phase[c] = "idle"
        /\ phase[c] # "idle" => phase[Server] = "runs"

\* The one who will write the rest of a partial text is the process that emptied
\* the file last, unless it was killed or failed to write.
OwnerWrites == file = Partial => faults > 0 \/ phase[owner] = "writes"

IInv == Shape /\ Sequenced /\ OwnerWrites /\ NamedBlock

\* The steps of Config::open in one process.
OpenSteps(p) ==
    \/ Exists(p) \/ Missing(p) \/ CreateDefault(p) \/ CreateFails(p)
    \/ WriteLine(p) \/ WriteDefault(p) \/ WriteFails(p)
    \/ ParseFails(p) \/ Killed(p)

\* The server is no channel.
LEMMA ServerApart ==
    /\ Server \in Processes /\ Server \notin Channels
    /\ Channels \subseteq Processes /\ Processes = {Server} \cup Channels
    /\ Channels \subseteq Nat \ {0}
BY ConfigAssumption DEF Server, Processes, Channels

\* A step that moves one process.
LEMMA GotoShape ==
    ASSUME IInv, NEW p \in Processes, NEW ph \in Phases, Goto(p, ph)
    PROVE  /\ phase' \in [Processes -> Phases]
           /\ phase'[p] = ph /\ \A q \in Processes \ {p} : phase'[q] = phase[q]
BY DEF IInv, Shape, Goto

\* The file a process empties or writes, and every file a user saves, is
\* told from the others by its kind.
LEMMA FileKinds ==
    /\ Absent.kind = "absent" /\ Partial.kind = "partial" /\ Bad.kind = "bad"
    /\ Generated.kind = "json" /\ \A t : Json(t).kind = "json"
BY DEF Absent, Partial, Bad, Generated, Json

\* A fault is counted.
LEMMA FaultCounted == ASSUME IInv, Fault PROVE faults' \in Nat /\ faults' > 0 /\ faults' > faults
BY DEF IInv, Shape, Fault

\* A step of Config::open changes at most the file and one process, that was
\* started and has not parsed the file yet.
LEMMA OpenStep ==
    ASSUME IInv, NEW p \in Processes, OpenSteps(p)
    PROVE  /\ UNCHANGED <<dir, edits, blocks, next, block>>
           /\ phase[p] \in {"opens", "creates", "writes", "parses"}
           /\ \E ph \in {"creates", "writes", "parses", "failed"} : Goto(p, ph)
           /\ faults' \in Nat /\ (faults' = faults \/ faults' > faults)
           /\ owner' \in Processes
           /\ file' \in {file, Absent, Partial, Bad, Generated}
<1>1. faults \in Nat /\ owner \in Processes
  BY DEF IInv, Shape
<1>2. CASE Exists(p)
  BY <1>1, <1>2 DEF Exists, Elsewhere
<1>3. CASE Missing(p)
  BY <1>1, <1>3 DEF Missing, Elsewhere
<1>4. CASE CreateDefault(p)
  BY <1>1, <1>4 DEF CreateDefault, Elsewhere
<1>5. CASE CreateFails(p)
  BY <1>1, <1>5, FaultCounted DEF CreateFails, Elsewhere
<1>6. CASE WriteLine(p)
  <2>1. phase' = [phase EXCEPT ![p] = "writes"]
    BY <1>6 DEF WriteLine, IInv, Shape
  <2> QED BY <1>1, <1>6, <2>1 DEF WriteLine, Elsewhere, Goto
<1>7. CASE WriteDefault(p)
  <2>1. file' \in {file, Absent, Partial, Bad, Generated}
    BY <1>7 DEF WriteDefault
  <2> QED BY <1>1, <1>7, <2>1 DEF WriteDefault, Elsewhere
<1>8. CASE WriteFails(p)
  BY <1>1, <1>8, FaultCounted DEF WriteFails, Elsewhere
<1>9. CASE ParseFails(p)
  BY <1>1, <1>9, FaultCounted DEF ParseFails, Elsewhere
<1>10. CASE Killed(p)
  BY <1>1, <1>10, FaultCounted DEF Killed, Elsewhere
<1> QED BY <1>2, <1>3, <1>4, <1>5, <1>6, <1>7, <1>8, <1>9, <1>10 DEF OpenSteps

\* Whoever goes on from "writes" without a fault has written all there is to
\* write, unless another one emptied the file since.
LEMMA OwnerInv ==
    ASSUME IInv, NEW p \in Processes, OpenSteps(p), faults' = faults
    PROVE  OwnerWrites'
<1> SUFFICES ASSUME file' = Partial PROVE faults > 0 \/ phase'[owner'] = "writes"
  BY DEF OwnerWrites
<1>1. phase \in [Processes -> Phases] /\ owner \in Processes
  BY DEF IInv, Shape
<1>2. ~Fault
  BY FaultCounted
<1>3. CASE CreateDefault(p)
  BY <1>1, <1>3 DEF CreateDefault, Goto
<1>4. CASE WriteLine(p)
  BY <1>4, FileKinds DEF WriteLine
<1>5. CASE WriteDefault(p)
  <2>1. file = Partial /\ owner # p /\ owner' = owner
    BY <1>5, FileKinds DEF WriteDefault
  <2> QED BY <1>1, <1>5, <2>1 DEF WriteDefault, Goto, IInv, OwnerWrites
<1>6. CASE Exists(p) \/ Missing(p) \/ CreateFails(p) \/ ParseFails(p)
  <2>1. /\ file = Partial /\ owner' = owner /\ phase[p] # "writes"
        /\ \E ph \in Phases : Goto(p, ph)
    BY <1>6 DEF Exists, Missing, CreateFails, ParseFails, Phases
  <2> QED BY <1>1, <2>1 DEF Goto, IInv, OwnerWrites
<1>7. CASE WriteFails(p) \/ Killed(p)
  BY <1>2, <1>7 DEF WriteFails, Killed
<1> QED BY <1>3, <1>4, <1>5, <1>6, <1>7 DEF OpenSteps

\* Such a step preserves the inductive invariant.
LEMMA OpenInv ==
    ASSUME IInv, NEW p \in Processes, OpenSteps(p)
    PROVE  IInv'
<1>1. PICK ph \in {"creates", "writes", "parses", "failed"} : Goto(p, ph)
  BY OpenStep
<1>2. /\ phase' \in [Processes -> Phases]
      /\ phase'[p] = ph /\ \A q \in Processes \ {p} : phase'[q] = phase[q]
  BY <1>1, GotoShape DEF Phases
<1>3. /\ UNCHANGED <<blocks, next, block>> /\ phase[p] \notin {"idle", "runs"}
      /\ faults' \in Nat /\ (faults' = faults \/ faults' > faults) /\ owner' \in Processes
  BY OpenStep
<1>4. Shape'
  BY <1>2, <1>3 DEF IInv, Shape
<1>5. Sequenced'
  <2>1. CASE p = Server
    BY <1>2, <1>3, <2>1, ServerApart DEF IInv, Sequenced
  <2>2. CASE p \in Channels
    BY <1>2, <1>3, <2>2, ServerApart DEF IInv, Sequenced
  <2> QED BY <2>1, <2>2, ServerApart
<1>6. OwnerWrites'
  <2>1. CASE faults' = faults
    BY <2>1, OwnerInv
  <2>2. CASE faults' > faults
    BY <1>3, <2>2 DEF OwnerWrites, IInv, Shape
  <2> QED BY <1>3, <2>1, <2>2
<1>7. NamedBlock'
  BY <1>2, <1>3, ServerApart DEF IInv, NamedBlock, Running
<1> QED BY <1>4, <1>5, <1>6, <1>7 DEF IInv

\* Selected returns a block of the name it was given, or NoName.
LEMMA SelectedName ==
    ASSUME NEW text, NEW name, Selected(text, name) # NoName
    PROVE  Selected(text, name).name = name
BY DEF Selected

\* Every step preserves the inductive invariant.
LEMMA NextInv == ASSUME IInv, [Next]_vars PROVE IInv'
<1>1. CASE UNCHANGED vars
  BY <1>1 DEF vars, IInv, Shape, Sequenced, OwnerWrites, NamedBlock, Running
<1>2. ASSUME NEW p \in Processes, OpenSteps(p) PROVE IInv'
  BY <1>2, OpenInv
<1>6. CASE Restart
  <2>1. phase[Server] = "failed" /\ Goto(Server, "opens") /\ UNCHANGED <<file, owner, faults, blocks, next, block>>
    BY <1>6 DEF Restart, Elsewhere
  <2>2. \A c \in Channels : phase[c] = "idle"
    BY <2>1 DEF IInv, Sequenced
  <2>3. /\ phase' \in [Processes -> Phases] /\ phase'[Server] = "opens"
        /\ \A q \in Processes \ {Server} : phase'[q] = phase[q]
    BY <2>1, GotoShape, ServerApart DEF Phases
  <2>4. OwnerWrites'
    BY <2>1, <2>3 DEF IInv, Shape, OwnerWrites
  <2> QED BY <2>1, <2>2, <2>3, <2>4, ServerApart DEF IInv, Shape, Sequenced, NamedBlock, Running
<1>7. CASE ServerParses
  <2>1. file # Partial /\ UNCHANGED <<file, owner, faults, next, block>>
    BY <1>7, FileKinds DEF ServerParses
  <2>2. \A c \in Channels : phase[c] = "idle"
    BY <1>7 DEF ServerParses, IInv, Sequenced
  <2>3. /\ phase' \in [Processes -> Phases] /\ phase'[Server] = "runs"
        /\ \A c \in Channels : phase'[c] = "idle"
    BY <1>7, <2>2, GotoShape, ServerApart DEF ServerParses, Phases
  <2> QED BY <2>1, <2>3 DEF IInv, Shape, Sequenced, OwnerWrites, NamedBlock, Running
<1>8. CASE Spawn
  <2>1. phase[Server] = "runs" /\ UNCHANGED <<file, owner, faults, blocks, block>> /\ next' = next + 1
    BY <1>8 DEF Spawn
  <2>2. CASE next \in Channels
    <3>1. phase[next] = "idle" /\ next # Server /\ next \in Processes /\ next \in Nat
      BY <2>2, ServerApart DEF IInv, Sequenced, Shape
    <3>2. /\ phase' \in [Processes -> Phases] /\ phase'[next] = "opens"
          /\ \A q \in Processes \ {next} : phase'[q] = phase[q]
      BY <1>8, <3>1, GotoShape DEF Spawn, Phases
    <3>3. Shape' /\ NamedBlock'
      BY <2>1, <3>1, <3>2, ServerApart DEF IInv, Shape, NamedBlock, Running
    <3>4. Sequenced'
      BY <2>1, <3>1, <3>2, ServerApart DEF IInv, Sequenced
    <3>5. OwnerWrites'
      BY <2>1, <3>1, <3>2 DEF IInv, Shape, OwnerWrites
    <3> QED BY <3>3, <3>4, <3>5 DEF IInv
  <2>3. CASE next \notin Channels
    <3>1. next \notin Processes /\ next \in Nat \ {0}
      BY <2>3, ServerApart DEF IInv, Shape, Server
    <3>2. phase' = phase
      BY <1>8, <3>1 DEF Spawn, Goto, IInv, Shape
    <3> QED BY <2>1, <3>1, <3>2, ServerApart
            DEF IInv, Shape, Sequenced, OwnerWrites, NamedBlock, Running
  <2> QED BY <2>2, <2>3
<1>9. ASSUME NEW c \in Channels, ChannelParses(c) PROVE IInv'
  <2> DEFINE mine == Selected(file.text, blocks[c].name)
  <2>1. /\ phase[c] = "parses" /\ file # Partial /\ UNCHANGED <<file, owner, faults, blocks, next>>
        /\ IF mine = NoName THEN Goto(c, "failed") /\ block' = block
                            ELSE Goto(c, "runs") /\ block' = [block EXCEPT ![c] = mine]
    BY <1>9, FileKinds DEF ChannelParses
  <2>2. mine # NoName => mine.name = blocks[c].name
    BY SelectedName
  <2> HIDE DEF mine
  <2>3. PICK ph \in {"failed", "runs"} : Goto(c, ph)
    BY <2>1
  <2>4. /\ phase' \in [Processes -> Phases] /\ phase'[c] = ph
        /\ \A q \in Processes \ {c} : phase'[q] = phase[q]
    BY <1>9, <2>3, GotoShape, ServerApart DEF Phases
  <2>5. /\ block' = block \/ block' = [block EXCEPT ![c] = mine]
        /\ phase'[c] = "runs" => mine # NoName /\ block' = [block EXCEPT ![c] = mine]
    <3>1. CASE mine = NoName
      <4>1. phase'[c] = "failed"
        BY <1>9, <2>1, <3>1, GotoShape, ServerApart DEF Phases
      <4> QED BY <2>1, <3>1, <4>1
    <3>2. CASE mine # NoName
      BY <2>1, <3>2
    <3> QED BY <3>1, <3>2
  <2>6. Shape' /\ OwnerWrites'
    BY <2>1, <2>4, <2>5 DEF IInv, Shape, OwnerWrites
  <2>7. Sequenced'
    BY <1>9, <2>1, <2>4, ServerApart DEF IInv, Sequenced
  <2>8. /\ \A d \in Channels \ {c} : block'[d] = block[d]
        /\ phase'[c] = "runs" => block'[c] = mine
    BY <1>9, <2>5 DEF IInv, Shape
  <2>9. NamedBlock'
    BY <2>1, <2>2, <2>4, <2>5, <2>8, ServerApart DEF IInv, NamedBlock, Running
  <2> QED BY <2>6, <2>7, <2>9 DEF IInv
<1>10. CASE UserEdits
  <2>1. file' # Partial /\ UNCHANGED <<owner, faults, blocks, next, phase, block>>
    BY <1>10, FileKinds DEF UserEdits
  <2> QED BY <2>1 DEF IInv, Shape, Sequenced, OwnerWrites, NamedBlock, Running
<1> QED BY <1>1, <1>2, <1>6, <1>7, <1>8, <1>9, <1>10 DEF Next, OpenSteps

\* The invariant holds when the server starts, whatever is installed.
LEMMA InitInv == Init => IInv
<1> SUFFICES ASSUME Init PROVE IInv
  OBVIOUS
<1>1. file # Partial
  BY FileKinds DEF Init
<1>2. /\ \A c \in Channels : phase[c] = "idle"
      /\ phase \in [Processes -> Phases]
  BY ServerApart DEF Init, Phases
<1>3. owner \in Processes
  BY ServerApart DEF Init
<1> QED BY <1>1, <1>2, <1>3 DEF Init, IInv, Shape, Sequenced, OwnerWrites, NamedBlock, Running

\* A channel runs with a block of its own name or not at all, whatever is
\* saved, deleted or generated between the server's parse and its own.
THEOREM BlockNamed == Spec => []NamedBlock
<1>1. IInv => NamedBlock
  BY DEF IInv
<1> QED BY <1>1, InitInv, NextInv, PTL DEF Spec

\* However many processes generate the file at once, and whoever empties it under
\* another's hands: of a partial text somebody is about to write the rest, as
\* long as no process is killed and no write fails.  After that it may stay.
THEOREM PartialHeals == Spec => []PartialIsTransient
<1>1. IInv => PartialIsTransient
  BY DEF IInv, Shape, OwnerWrites, PartialIsTransient
<1> QED BY <1>1, InitInv, NextInv, PTL DEF Spec

-----------------------------------------------------------------------------
(***************************************************************************)
(* The generated file.                                                     *)
(***************************************************************************)

\* What the server finds and leaves until it has parsed the file, if nobody
\* changes it: no channel runs yet, so the server is the only one who writes.
\* A partial text is left to be found by the next start only after a fault.
Installed ==
    /\ file \in {Absent, Partial, Bad} \/ file.kind = "json"
    /\ edits \in Nat
    /\ edits = 0 /\ faults = 0 /\ phase[Server] = "opens" => file # Partial
    /\ edits = 0 /\ phase[Server] = "creates" => file = Absent
    /\ edits = 0 /\ phase[Server] = "writes" => file = Partial /\ owner = Server
    /\ edits = 0 /\ faults = 0 /\ phase[Server] \in {"parses", "failed"} =>
          file # Partial /\ (dir => file # Absent)
    /\ faults = 0 /\ phase[Server] = "failed" => file.kind # "json" \/ edits > 0

\* Before the server runs, it is the only process that was started.
LEMMA ServerAlone ==
    ASSUME IInv, NEW p \in Processes, phase[p] # "idle", phase[Server] # "runs"
    PROVE  p = Server
BY ServerApart DEF IInv, Sequenced

\* A step of Config::open preserves what is installed.
LEMMA InstalledOpen ==
    ASSUME IInv, Installed, NEW p \in Processes, OpenSteps(p)
    PROVE  Installed'
<1>1. /\ UNCHANGED <<dir, edits>> /\ phase[p] # "idle" /\ faults \in Nat
      /\ faults' \in Nat /\ (faults' = 0 => faults = 0) /\ edits \in Nat
  BY OpenStep DEF IInv, Shape, Installed
<1>2. file' \in {Absent, Partial, Bad} \/ file'.kind = "json"
  BY OpenStep, FileKinds DEF Installed
<1>3. PICK ph \in {"creates", "writes", "parses", "failed"} : Goto(p, ph)
  BY OpenStep
<1>4. phase'[p] = ph /\ \A q \in Processes \ {p} : phase'[q] = phase[q]
  BY <1>3, GotoShape DEF Phases
<1>5. CASE p # Server
  <2>1. phase[Server] = "runs"
    <3>1. p \in Channels
      BY <1>5, ServerApart
    <3> QED BY <1>1, <3>1 DEF IInv, Sequenced
  <2>2. phase'[Server] = "runs"
    BY <1>4, <1>5, <2>1, ServerApart
  <2> QED BY <1>1, <1>2, <2>2 DEF Installed
<1>6. CASE p = Server
  <2>1. phase'[Server] = ph /\ phase' = [phase EXCEPT ![Server] = ph]
    BY <1>3, <1>4, <1>6 DEF Goto
  <2>2. \A w \in Phases : Goto(p, w) => phase'[Server] = w
    BY <1>6, GotoShape
  <2>3. Fault => faults' # 0
    BY FaultCounted
  <2>4. CASE Exists(p)
    <3>1. phase'[Server] = "parses" /\ file' = file /\ file # Absent /\ phase[Server] = "opens"
      BY <1>6, <2>2, <2>4 DEF Exists, Phases
    <3> QED BY <1>1, <1>2, <3>1 DEF Installed
  <2>5. CASE Missing(p)
    <3>1. phase'[Server] = "creates" /\ file' = Absent
      BY <1>6, <2>2, <2>5 DEF Missing, Phases
    <3> QED BY <1>1, <1>2, <3>1 DEF Installed
  <2>6. CASE CreateDefault(p)
    <3>1. phase'[Server] = "writes" /\ file' = Partial /\ owner' = Server
      BY <1>6, <2>2, <2>6 DEF CreateDefault, Phases
    <3> QED BY <1>1, <1>2, <3>1 DEF Installed
  <2>7. CASE CreateFails(p)
    <3>1. phase'[Server] = "parses" /\ file' = file /\ (dir => faults' # 0) /\ phase[Server] = "creates"
      BY <1>6, <2>2, <2>3, <2>7 DEF CreateFails, Phases
    <3>2. edits = 0 => file' = Absent
      BY <3>1 DEF Installed
    <3> QED BY <1>1, <1>2, <3>1, <3>2, FileKinds DEF Installed
  <2>8. CASE WriteLine(p)
    <3>1. phase'[Server] = "writes" /\ phase[Server] = "writes" /\ file.kind = "json"
      BY <1>6, <2>8 DEF WriteLine
    <3>2. edits # 0
      BY <3>1, FileKinds DEF Installed
    <3> QED BY <1>1, <1>2, <3>1, <3>2 DEF Installed
  <2>9. CASE WriteDefault(p)
    <3>1. phase'[Server] = "parses" /\ phase[Server] = "writes"
      BY <1>6, <2>2, <2>9 DEF WriteDefault, Phases
    <3>2. edits = 0 => file' = Generated
      <4>1. edits = 0 => file = Partial /\ owner = p
        BY <1>6, <3>1 DEF Installed
      <4> QED BY <2>9, <4>1, FileKinds DEF WriteDefault
    <3> QED BY <1>1, <1>2, <3>1, <3>2, FileKinds DEF Installed
  <2>10. CASE WriteFails(p)
    <3>1. phase'[Server] = "parses" /\ faults' # 0
      BY <1>6, <2>2, <2>3, <2>10 DEF WriteFails, Phases
    <3> QED BY <1>1, <1>2, <3>1 DEF Installed
  <2>11. CASE ParseFails(p)
    <3>1. /\ phase'[Server] = "failed" /\ file' = file /\ phase[Server] = "parses"
          /\ file.kind = "json" => faults' # 0
      BY <1>6, <2>2, <2>3, <2>11 DEF ParseFails, Phases
    <3> QED BY <1>1, <1>2, <3>1 DEF Installed
  <2>12. CASE Killed(p)
    <3>1. phase'[Server] = "failed" /\ faults' # 0
      BY <1>6, <2>2, <2>3, <2>12 DEF Killed, Phases
    <3> QED BY <1>1, <1>2, <3>1 DEF Installed
  <2> QED BY <2>4, <2>5, <2>6, <2>7, <2>8, <2>9, <2>10, <2>11, <2>12 DEF OpenSteps
<1> QED BY <1>5, <1>6

\* Every step preserves what is installed.
LEMMA InstalledInv == ASSUME IInv, Installed, [Next]_vars PROVE Installed'
<1>1. CASE UNCHANGED vars
  BY <1>1 DEF vars, Installed
<1>2. ASSUME NEW p \in Processes, OpenSteps(p) PROVE Installed'
  BY <1>2, InstalledOpen
<1>3. CASE Restart
  <2>1. phase[Server] = "failed" /\ UNCHANGED <<dir, file, edits, faults>>
    BY <1>3 DEF Restart, Elsewhere
  <2>2. phase'[Server] = "opens"
    BY <1>3, GotoShape, ServerApart DEF Restart, Phases
  <2> QED BY <2>1, <2>2 DEF Installed
<1>6. CASE ServerParses
  <2>1. phase'[Server] = "runs" /\ UNCHANGED <<dir, file, edits, faults>>
    BY <1>6, GotoShape, ServerApart DEF ServerParses, Phases
  <2> QED BY <2>1 DEF Installed
<1>7. CASE Spawn
  <2>1. /\ phase[Server] = "runs" /\ UNCHANGED <<dir, file, edits, faults>>
        /\ Goto(next, "opens") /\ next # Server
    BY <1>7 DEF Spawn, IInv, Shape, Server
  <2>2. phase'[Server] = "runs"
    BY <2>1, ServerApart DEF Goto, IInv, Shape
  <2> QED BY <2>1, <2>2 DEF Installed
<1>8. ASSUME NEW c \in Channels, ChannelParses(c) PROVE Installed'
  <2>1. c # Server /\ c \in Processes
    BY <1>8, ServerApart
  <2>2. phase[c] = "parses" /\ UNCHANGED <<file, edits, faults>>
    BY <1>8 DEF ChannelParses
  <2>3. Goto(c, "failed") \/ Goto(c, "runs")
    BY <1>8 DEF ChannelParses
  <2>4. phase[Server] = "runs"
    BY <1>8, <2>2 DEF IInv, Sequenced
  <2>5. phase'[Server] = "runs"
    BY <2>1, <2>3, <2>4, GotoShape, ServerApart DEF Phases
  <2> QED BY <2>2, <2>5 DEF Installed
<1>9. CASE UserEdits
  <2>1. edits' > 0 /\ edits' \in Nat
    BY <1>9 DEF UserEdits, Installed
  <2>2. file' \in {Absent, Partial, Bad} \/ file'.kind = "json"
    BY <1>9, FileKinds DEF UserEdits
  <2> QED BY <2>1, <2>2 DEF Installed
<1> QED BY <1>1, <1>2, <1>3, <1>6, <1>7, <1>8, <1>9 DEF Next, OpenSteps

\* Whatever the user has installed.
LEMMA InstalledInit == Init => Installed
<1> SUFFICES ASSUME Init PROVE Installed
  OBVIOUS
<1>1. (file \in {Absent, Bad} \/ file.kind = "json") /\ edits = 0
  BY FileKinds DEF Init
<1>2. phase[Server] = "opens"
  BY ServerApart DEF Init
<1> QED BY <1>1, <1>2, FileKinds DEF Installed

\* The server can read what it generated: unless its generator is interrupted or
\* refused, only a missing directory, or a text that somebody else put there,
\* makes its start fail.
THEOREM GeneratedUsable == Spec => []GeneratedIsUsable
<1>1. Installed => GeneratedIsUsable
  BY DEF Installed, GeneratedIsUsable
<1>2. IInv /\ Installed /\ [Next]_vars => IInv' /\ Installed'
  BY NextInv, InstalledInv
<1>3. Init => IInv /\ Installed
  BY InitInv, InstalledInit
<1> QED BY <1>1, <1>2, <1>3, PTL DEF Spec

-----------------------------------------------------------------------------
(***************************************************************************)
(* What parse computes.                                                    *)
(***************************************************************************)

\* Induction over 0..max, as the least number of a set.
LEMMA Least ==
    ASSUME NEW bad, bad \subseteq Nat, bad # {}
    PROVE  \E m \in bad : \A n \in bad : m <= n
<1> DEFINE R == OpToRel(<, Nat)
<1>1. IsWellFoundedOn(R, Nat)
  BY NatLessThanWellFounded
<1>2. \A x, y \in Nat : y < x => <<y, x>> \in R
  BY DEF OpToRel
<1> HIDE DEF R
<1>3. PICK m \in bad : \A n \in bad : ~ (<<n, m>> \in R)
  BY <1>1, WFMin
<1>4. \A n \in bad : ~ (n < m)
  BY <1>2, <1>3
<1> QED BY <1>4

\* What parse has after n blocks, given what it had before.
Then(text, f, n) ==
    IF n = 0 THEN <<>> ELSE IF text[n].name = NoName THEN f[n-1] ELSE Append(f[n-1], text[n])

Defines(text, f, max) == f = [n \in 0..max |-> Then(text, f, n)]

\* The recursion of Parsed defines a function.
LEMMA KeptExists ==
    ASSUME NEW text, NEW max \in Nat
    PROVE  \E f : Defines(text, f, max)
<1> DEFINE bad == {m \in Nat : ~ \E f : Defines(text, f, m)}
<1>1. SUFFICES ASSUME bad # {} PROVE FALSE
  OBVIOUS
<1>2. PICK m \in bad : \A n \in bad : m <= n
  <2> HIDE DEF bad
  <2>1. bad \subseteq Nat BY DEF bad
  <2> QED BY <1>1, <2>1, Least
<1>3. m \in Nat /\ ~ \E f : Defines(text, f, m)
  OBVIOUS
<1>4. CASE m = 0
  <2> DEFINE f == [n \in 0..0 |-> <<>>]
  <2>1. f = [n \in 0..0 |-> Then(text, f, n)]
    BY DEF Then
  <2> QED BY <1>3, <1>4, <2>1 DEF Defines
<1>5. CASE m # 0
  <2>1. m - 1 \in Nat /\ m - 1 \notin bad
    BY <1>2, <1>3, <1>5
  <2>2. PICK f : Defines(text, f, m - 1)
    BY <2>1
  <2> DEFINE g == [n \in 0..m |-> IF n = m THEN Then(text, f, m) ELSE f[n]]
  <2>3. \A n \in 0..m-1 : f[n] = Then(text, f, n)
    BY <2>2 DEF Defines
  <2>4. \A n \in 0..m-1 : g[n] = f[n]
    BY <1>3
  <2>5. g[m] = Then(text, f, m) /\ DOMAIN g = 0..m
    BY <1>3
  <2>9. g = [n \in 0..m |-> g[n]]
    OBVIOUS
  <2> HIDE DEF g
  <2>6. \A n \in 0..m : Then(text, g, n) = Then(text, f, n)
    BY <1>3, <2>4 DEF Then
  <2>7. \A n \in 0..m : g[n] = Then(text, g, n)
    <3> TAKE n \in 0..m
    <3>1. CASE n = m  BY <2>5, <2>6, <3>1
    <3>2. CASE n # m
      <4>1. n \in 0..m-1  BY <1>3, <3>2
      <4> QED BY <2>3, <2>4, <2>6, <4>1
    <3> QED BY <3>1, <3>2
  <2>8. Defines(text, g, m)
    BY <2>7, <2>9 DEF Defines
  <2> QED BY <1>3, <2>8
<1> QED BY <1>4, <1>5

\* What parse made of the first n blocks: those with a name, no other.
Keeps(text, n, seq) ==
    /\ seq \in Seq(Blocks) /\ Len(seq) <= n
    /\ \A k \in DOMAIN seq : \E j \in 1..n : seq[k] = text[j] /\ text[j].name # NoName
    /\ \A j \in 1..n : text[j].name # NoName => \E k \in DOMAIN seq : seq[k] = text[j]

\* What Parsed returns for a text has this of the whole text.
LEMMA ParsedKeeps ==
    ASSUME NEW text \in Seq(Blocks)
    PROVE  Keeps(text, Len(text), Parsed(text))
<1> DEFINE max == Len(text)
<1>1. max \in Nat  OBVIOUS
<1>2. \E f : Defines(text, f, max)
  BY <1>1, KeptExists
<1>3. \E f : Defines(text, f, max) /\ Parsed(text) = f[max]
  <2> DEFINE kept == CHOOSE f : Defines(text, f, max)
  <2>1. Parsed(text) = kept[max]
    BY DEF Parsed, Defines, Then
  <2> QED BY <1>2, <2>1
<1>4. PICK f : Defines(text, f, max) /\ Parsed(text) = f[max]
  BY <1>3
<1> HIDE DEF max
<1>5. \A n \in 0..max : f[n] = Then(text, f, n)
  BY <1>4 DEF Defines
<1> DEFINE bad == {n \in 0..max : ~ Keeps(text, n, f[n])}
<1>6. bad = {}
  <2> SUFFICES ASSUME bad # {} PROVE FALSE
    OBVIOUS
  <2>1. PICK m \in bad : \A n \in bad : m <= n
    <3>1. bad \subseteq Nat  BY <1>1
    <3> HIDE DEF bad
    <3> QED BY <3>1, Least
  <2>2. m \in 0..max /\ ~ Keeps(text, m, f[m]) /\ m \in Nat
    BY <1>1
  <2>3. CASE m = 0
    <3>1. f[m] = <<>>  BY <1>5, <2>2, <2>3 DEF Then
    <3>2. Keeps(text, 0, <<>>)  BY DEF Keeps
    <3> QED BY <2>2, <2>3, <3>1, <3>2
  <2>4. CASE m # 0
    <3> DEFINE old == f[m - 1]
               b == text[m]
    <3>1. m - 1 \in 0..max /\ m - 1 \notin bad /\ m - 1 \in Nat
      BY <1>1, <2>1, <2>2, <2>4
    <3>2. Keeps(text, m - 1, old)
      BY <3>1
    <3>3. b \in Blocks
      BY <1>1, <2>2, <2>4 DEF max
    <3>4. f[m] = IF b.name = NoName THEN old ELSE Append(old, b)
      BY <1>5, <2>2, <2>4 DEF Then
    <3>5. 1..m = (1..m-1) \cup {m} /\ m \in 1..m
      BY <2>2, <2>4
    <3> HIDE DEF old, bad
    <3>6. CASE b.name = NoName
      <4>1. Keeps(text, m, old)
        BY <2>2, <3>1, <3>2, <3>5, <3>6 DEF Keeps
      <4> QED BY <2>2, <3>4, <3>6, <4>1
    <3>7. CASE b.name # NoName
      <4> DEFINE new == Append(old, b)
      <4>1. old \in Seq(Blocks) /\ Len(old) <= m - 1 /\ Len(old) \in Nat
        BY <3>2 DEF Keeps
      <4>2. /\ new \in Seq(Blocks) /\ Len(new) = Len(old) + 1
            /\ DOMAIN new = DOMAIN old \cup {Len(old) + 1}
            /\ \A k \in DOMAIN old : new[k] = old[k]
            /\ new[Len(old) + 1] = b
        <5> HIDE DEF b
        <5> QED BY <3>3, <4>1
      <4> HIDE DEF new
      <4>3. ASSUME NEW k \in DOMAIN new
            PROVE  \E j \in 1..m : new[k] = text[j] /\ text[j].name # NoName
        <5>1. CASE k = Len(old) + 1
          BY <3>5, <3>7, <4>2, <5>1
        <5>2. CASE k \in DOMAIN old
          BY <3>2, <3>5, <4>2, <5>2 DEF Keeps
        <5> QED BY <4>2, <5>1, <5>2
      <4>4. ASSUME NEW j \in 1..m, text[j].name # NoName
            PROVE  \E k \in DOMAIN new : new[k] = text[j]
        <5>1. CASE j = m
          BY <4>2, <5>1
        <5>2. CASE j \in 1..m-1
          <6>1. PICK k \in DOMAIN old : old[k] = text[j]  BY <3>2, <4>4, <5>2 DEF Keeps
          <6> QED BY <4>2, <6>1
        <5> QED BY <3>5, <5>1, <5>2
      <4>5. Len(new) <= m
        BY <2>2, <4>1, <4>2
      <4>6. Keeps(text, m, new)
        BY <4>2, <4>3, <4>4, <4>5 DEF Keeps
      <4> QED BY <2>2, <3>4, <3>7, <4>6 DEF new
    <3> QED BY <3>6, <3>7
  <2> QED BY <2>3, <2>4
<1>7. max \in 0..max
  BY <1>1
<1> QED BY <1>4, <1>6, <1>7 DEF max

\* Texts are sequences of at most MaxBlocks blocks.
LEMMA TextsAreSeqs ==
    \A t : t \in Texts <=> t \in Seq(Blocks) /\ Len(t) <= MaxBlocks
<1>1. MaxBlocks \in Nat
  BY ConfigAssumption
<1>2. ASSUME NEW t \in Texts PROVE t \in Seq(Blocks) /\ Len(t) <= MaxBlocks
  <2>1. PICK n \in 0..MaxBlocks : t \in [1..n -> Blocks]  BY DEF Texts
  <2>2. n \in Nat /\ n <= MaxBlocks  BY <1>1
  <2> QED BY <2>1, <2>2
<1>3. ASSUME NEW t \in Seq(Blocks), Len(t) <= MaxBlocks PROVE t \in Texts
  <2>1. Len(t) \in 0..MaxBlocks /\ t \in [1..Len(t) -> Blocks]  BY <1>1, <1>3
  <2> QED BY <2>1 DEF Texts
<1> QED BY <1>2, <1>3

\* parse makes no text longer.
LEMMA ParsedType == ASSUME NEW text \in Texts PROVE Parsed(text) \in Texts
<1>1. text \in Seq(Blocks) /\ Len(text) <= MaxBlocks /\ Len(text) \in Nat /\ MaxBlocks \in Nat
  BY TextsAreSeqs, ConfigAssumption
<1>2. Parsed(text) \in Seq(Blocks) /\ Len(Parsed(text)) <= Len(text)
  BY <1>1, ParsedKeeps DEF Keeps
<1>3. Len(Parsed(text)) \in Nat
  BY <1>2
<1> QED BY <1>1, <1>2, <1>3, TextsAreSeqs

\* getChannel finds a block, and one of the text, if there is one of that name.
LEMMA SelectedIs ==
    ASSUME NEW text \in Seq(Blocks), NEW name, NEW n \in DOMAIN text, text[n].name = name
    PROVE  \E m \in DOMAIN text : Selected(text, name) = text[m] /\ text[m].name = name
<1> DEFINE first == {k \in DOMAIN text : text[k].name = name /\ \A m \in 1..k-1 : text[m].name # name}
           same == {k \in DOMAIN text : text[k].name = name}
<1>1. DOMAIN text = 1..Len(text) /\ Len(text) \in Nat
  OBVIOUS
<1>2. same \subseteq Nat /\ n \in same
  BY <1>1
<1>3. PICK k \in same : \A m \in same : k <= m
  <2> HIDE DEF same
  <2> QED BY <1>2, Least
<1>4. k \in first
  <2>1. \A m \in 1..k-1 : m \in DOMAIN text /\ ~(k <= m)
    BY <1>1
  <2> QED BY <1>3, <2>1
<1>5. (CHOOSE j \in first : TRUE) \in first
  BY <1>4
<1> QED BY <1>4, <1>5 DEF Selected

-----------------------------------------------------------------------------
(***************************************************************************)
(* Types, and what the server and its channels agree on.                   *)
(***************************************************************************)

\* While nobody changes the file, the server has what it says, and so has every
\* channel that got that far.
Agreed ==
    /\ phase[Server] # "runs" => next = 1
    /\ edits = 0 /\ phase[Server] = "runs" => file.kind = "json" /\ blocks = Parsed(file.text)
    /\ edits = 0 => \A c \in Channels :
          /\ phase[c] \in {"idle", "opens", "parses", "runs", "failed"}
          /\ phase[c] = "failed" => faults > 0
          /\ phase[c] = "runs" => block[c] = Selected(file.text, blocks[c].name)

Files == {Absent, Partial, Bad} \cup {Json(t) : t \in Texts}

\* A configuration file holds a text.
LEMMA FileText == ASSUME NEW f \in Files, f.kind = "json" PROVE f.text \in Texts
<1>1. f \notin {Absent, Partial, Bad}
  BY FileKinds
<1>2. PICK t \in Texts : f = Json(t)
  BY <1>1 DEF Files
<1> QED BY <1>2 DEF Json

\* What writeDefault writes is one.
LEMMA GeneratedIsFile == Generated \in Files
<1> DEFINE b == [name |-> Default, size |-> DefaultSize]
<1>1. b \in Blocks
  BY ConfigAssumption DEF Blocks
<1> HIDE DEF b
<1>2. <<b>> \in Seq(Blocks) /\ Len(<<b>>) = 1
  BY <1>1
<1>3. Len(<<b>>) <= MaxBlocks
  BY <1>2, ConfigAssumption
<1>4. <<b>> \in Texts
  BY <1>2, <1>3, TextsAreSeqs
<1> QED BY <1>4 DEF Files, Generated, b

\* A channel that was spawned has a block.
LEMMA Spawned ==
    ASSUME IInv, TypeOK, NEW c \in Channels, phase[c] # "idle"
    PROVE  c \in DOMAIN blocks /\ blocks \in Seq(Blocks)
<1>1. blocks \in Seq(Blocks) /\ next \in 1..Len(blocks)+1
  BY TextsAreSeqs DEF TypeOK
<1>2. Len(blocks) \in Nat /\ DOMAIN blocks = 1..Len(blocks)
  BY <1>1
<1>3. ~(c >= next) /\ c \in Nat \ {0}
  BY ServerApart DEF IInv, Sequenced
<1> QED BY <1>1, <1>2, <1>3

\* Types.
LEMMA TypedInv == ASSUME IInv, TypeOK, Agreed, [Next]_vars PROVE TypeOK'
<1> DEFINE Rest == /\ edits' \in 0..MaxEdits /\ faults' \in 0..MaxFaults /\ owner' \in Processes
                   /\ blocks' \in Texts
                   /\ next' \in 1..Len(blocks')+1
                   /\ block' \in [Channels -> Blocks \cup {NoName}]
<1>1. /\ file \in Files /\ edits \in 0..MaxEdits /\ blocks \in Texts
      /\ faults \in 0..MaxFaults /\ owner \in Processes
      /\ next \in 1..Len(blocks)+1 /\ block \in [Channels -> Blocks \cup {NoName}]
  BY DEF TypeOK, Files
<1>2. phase \in [Processes -> Phases]
  BY DEF TypeOK
<1>3. dir \in BOOLEAN
  BY DEF TypeOK
<1>4. SUFFICES dir' \in BOOLEAN /\ file' \in Files /\ phase' \in [Processes -> Phases] /\ Rest
  BY DEF TypeOK, Files
<1>5. CASE UNCHANGED vars
  BY <1>1, <1>2, <1>3, <1>5 DEF vars
<1>6. ASSUME NEW p \in Processes, OpenSteps(p)
      PROVE  dir' \in BOOLEAN /\ file' \in Files /\ phase' \in [Processes -> Phases] /\ Rest
  <2>1. UNCHANGED <<dir, edits, blocks, next, block>> /\ owner' \in Processes
    BY <1>6, OpenStep
  <2>2. file' \in {file, Absent, Partial, Bad, Generated}
    BY <1>6, OpenStep
  <2>3. file' \in Files
    BY <1>1, <2>2, GeneratedIsFile DEF Files
  <2>4. PICK ph \in Phases : Goto(p, ph)
    BY <1>6, OpenStep DEF Phases
  <2>5. phase' \in [Processes -> Phases]
    BY <2>4, GotoShape
  <2>6. dir' \in BOOLEAN
    BY <1>3, <2>1
  <2>7. faults' = faults \/ Fault
    BY <1>6 DEF OpenSteps, Exists, Missing, CreateDefault, CreateFails, WriteLine, WriteDefault,
                WriteFails, ParseFails, Killed
  <2>8. faults' \in 0..MaxFaults
    BY <1>1, <2>7, ConfigAssumption DEF Fault
  <2> QED BY <1>1, <2>1, <2>3, <2>5, <2>6, <2>8
<1>11. CASE Restart
  <2>1. UNCHANGED <<dir, file, owner, edits, faults, blocks, next, block>> /\ Goto(Server, "opens")
    BY <1>11 DEF Restart, Elsewhere
  <2>2. phase' \in [Processes -> Phases]
    BY <2>1, GotoShape, ServerApart DEF Phases
  <2>3. dir' \in BOOLEAN
    BY <1>3, <2>1
  <2> QED BY <1>1, <2>1, <2>2, <2>3
<1>7. ASSUME ServerParses
      PROVE  dir' \in BOOLEAN /\ file' \in Files /\ phase' \in [Processes -> Phases] /\ Rest
  <2>1. /\ phase[Server] = "parses" /\ file.kind = "json" /\ blocks' = Parsed(file.text)
        /\ Goto(Server, "runs") /\ UNCHANGED <<dir, file, owner, edits, faults, next, block>>
    BY <1>7 DEF ServerParses
  <2>2. blocks' \in Texts
    BY <1>1, <2>1, FileText, ParsedType
  <2>3. next' = 1 /\ Len(blocks') \in Nat
    BY <2>1, <2>2, TextsAreSeqs DEF Agreed
  <2>4. phase' \in [Processes -> Phases]
    BY <2>1, GotoShape, ServerApart DEF Phases
  <2>5. dir' \in BOOLEAN
    BY <1>3, <2>1
  <2> QED BY <1>1, <2>1, <2>2, <2>3, <2>4, <2>5
<1>8. ASSUME Spawn
      PROVE  dir' \in BOOLEAN /\ file' \in Files /\ phase' \in [Processes -> Phases] /\ Rest
  <2>1. /\ next <= Len(blocks) /\ next' = next + 1 /\ UNCHANGED <<dir, file, owner, edits, faults, blocks, block>>
    BY <1>8 DEF Spawn
  <2>2. phase' = [phase EXCEPT ![next] = "opens"]
    BY <1>8 DEF Spawn, Goto
  <2>3. phase' \in [Processes -> Phases]
    BY <1>2, <2>2 DEF Phases
  <2>4. Len(blocks) \in Nat
    BY <1>1, TextsAreSeqs
  <2>5. next' \in 1..Len(blocks')+1
    BY <1>1, <2>1, <2>4
  <2>6. dir' \in BOOLEAN
    BY <1>3, <2>1
  <2> QED BY <1>1, <2>1, <2>3, <2>5, <2>6
<1>9. ASSUME NEW c \in Channels, ChannelParses(c)
      PROVE  dir' \in BOOLEAN /\ file' \in Files /\ phase' \in [Processes -> Phases] /\ Rest
  <2> DEFINE mine == Selected(file.text, blocks[c].name)
  <2>1. /\ phase[c] = "parses" /\ file.kind = "json" /\ UNCHANGED <<file, edits, blocks, next>>
        /\ UNCHANGED <<owner, faults>>
        /\ IF mine = NoName
             THEN Goto(c, "failed") /\ UNCHANGED <<block, dir>>
             ELSE Goto(c, "runs") /\ block' = [block EXCEPT ![c] = mine] /\ dir' = TRUE
    BY <1>9 DEF ChannelParses
  <2>2. mine \in Blocks \cup {NoName}
    <3>1. file.text \in Seq(Blocks)
      BY <1>1, <2>1, FileText, TextsAreSeqs
    <3> QED BY <3>1 DEF Selected
  <2> HIDE DEF mine
  <2>3. phase' \in [Processes -> Phases]
    BY <1>9, <2>1, GotoShape, ServerApart DEF Phases
  <2>4. block' \in [Channels -> Blocks \cup {NoName}]
    BY <1>1, <2>1, <2>2
  <2>5. dir' \in BOOLEAN
    BY <1>3, <2>1
  <2> QED BY <1>1, <2>1, <2>3, <2>4, <2>5
<1>10. ASSUME UserEdits
       PROVE  dir' \in BOOLEAN /\ file' \in Files /\ phase' \in [Processes -> Phases] /\ Rest
  <2>1. /\ edits < MaxEdits /\ edits' = edits + 1 /\ file' \in {Absent, Bad} \cup {Json(t) : t \in Texts}
        /\ UNCHANGED <<dir, owner, faults, blocks, next, phase, block>>
    BY <1>10 DEF UserEdits
  <2>2. file' \in Files
    BY <2>1 DEF Files
  <2>3. edits' \in 0..MaxEdits
    BY <1>1, <2>1, ConfigAssumption
  <2>4. dir' \in BOOLEAN
    BY <1>3, <2>1
  <2> QED BY <1>1, <1>2, <2>1, <2>2, <2>3, <2>4
<1> HIDE DEF Rest
<1> QED BY <1>5, <1>6, <1>7, <1>8, <1>9, <1>10, <1>11 DEF Next, OpenSteps

\* A channel that parses the file as the server found it finds the name it has.
LEMMA FindsBlock ==
    ASSUME IInv, TypeOK, Agreed, edits = 0, NEW c \in Channels, phase[c] # "idle"
    PROVE  \E m \in DOMAIN file.text :
              /\ Selected(file.text, blocks[c].name) = file.text[m]
              /\ file.text[m].name = blocks[c].name /\ file.text[m].name # NoName
              /\ file.text[m] \in Blocks
<1>1. phase[Server] = "runs"
  BY DEF IInv, Sequenced
<1>2. file.kind = "json" /\ blocks = Parsed(file.text)
  BY <1>1 DEF Agreed
<1>3. file.text \in Seq(Blocks) /\ Len(file.text) \in Nat
  BY <1>2, FileText, TextsAreSeqs DEF TypeOK, Files
<1>4. c \in DOMAIN blocks
  BY Spawned
<1>5. PICK j \in 1..Len(file.text) : blocks[c] = file.text[j] /\ file.text[j].name # NoName
  BY <1>2, <1>3, <1>4, ParsedKeeps DEF Keeps
<1>6. j \in DOMAIN file.text
  BY <1>3
<1>7. PICK m \in DOMAIN file.text : /\ Selected(file.text, blocks[c].name) = file.text[m]
                                   /\ file.text[m].name = blocks[c].name
  BY <1>3, <1>5, <1>6, SelectedIs
<1>8. file.text[m] \in Blocks
  BY <1>3
<1> QED BY <1>5, <1>7, <1>8

\* The server and its channels go on agreeing.
LEMMA AgreedInv == ASSUME IInv, TypeOK, Agreed, [Next]_vars PROVE Agreed'
<1>1. CASE UNCHANGED vars
  BY <1>1 DEF vars, Agreed
<1>2. ASSUME NEW p \in Processes, OpenSteps(p)
      PROVE  Agreed'
  <2>1. UNCHANGED <<edits, blocks, next, block>> /\ faults' \in Nat
    BY <1>2, OpenStep
  <2>2. /\ phase[p] \in {"opens", "creates", "writes", "parses"}
        /\ faults \in Nat /\ (faults' = faults \/ faults' > faults)
    BY <1>2, OpenStep DEF IInv, Shape
  <2>3. PICK ph \in {"creates", "writes", "parses", "failed"} : Goto(p, ph)
    BY <1>2, OpenStep
  <2>4. phase'[p] = ph /\ \A q \in Processes \ {p} : phase'[q] = phase[q]
    BY <2>3, GotoShape DEF Phases
  <2>5. CASE p = Server
    <3>1. \A c \in Channels : phase[c] = "idle"
      BY <2>2, <2>5 DEF IInv, Sequenced
    <3>2. phase'[Server] # "runs" /\ \A c \in Channels : phase'[c] = "idle"
      BY <2>4, <2>5, <3>1, ServerApart
    <3> QED BY <2>1, <2>2, <2>5, <3>2 DEF Agreed
  <2>6. CASE p # Server
    <3>1. p \in Channels
      BY <2>6, ServerApart
    <3>2. phase[Server] = "runs"
      BY <2>2, <3>1 DEF IInv, Sequenced
    <3>3. phase'[Server] = "runs"
      BY <2>4, <2>6, <3>2, ServerApart
    <3>4. CASE edits = 0
      <4>1. file.kind = "json" /\ file # Absent
        BY <3>2, <3>4, FileKinds DEF Agreed
      <4>2. phase[p] \in {"opens", "parses"}
        BY <2>2, <3>1, <3>4 DEF Agreed
      <4>3. Exists(p) \/ ParseFails(p) \/ Killed(p)
        BY <1>2, <4>1, <4>2 DEF OpenSteps, Missing, CreateDefault, CreateFails, WriteLine,
                                WriteDefault, WriteFails
      <4>4. file' = file
        BY <4>3 DEF Exists, ParseFails, Killed
      <4>5. /\ phase'[p] = "parses" \/ phase'[p] = "failed"
            /\ phase'[p] = "failed" => faults' > 0
        <5>1. CASE Exists(p)
          BY <5>1, GotoShape DEF Exists, Phases
        <5>2. CASE ParseFails(p) \/ Killed(p)
          <6>1. Fault /\ Goto(p, "failed")
            BY <4>1, <5>2 DEF ParseFails, Killed
          <6> QED BY <6>1, FaultCounted, GotoShape DEF Phases
        <5> QED BY <4>3, <5>1, <5>2
      <4> QED BY <2>1, <2>2, <2>4, <3>1, <3>2, <3>3, <4>4, <4>5, ServerApart DEF Agreed
    <3>5. CASE edits # 0
      BY <2>1, <3>3, <3>5 DEF Agreed
    <3> QED BY <3>4, <3>5
  <2> QED BY <2>5, <2>6
<1>7. CASE Restart
  <2>1. phase[Server] = "failed" /\ UNCHANGED <<file, edits, faults, blocks, next, block>>
    BY <1>7 DEF Restart, Elsewhere
  <2>2. /\ phase'[Server] = "opens"
        /\ \A q \in Processes \ {Server} : phase'[q] = phase[q]
    BY <1>7, GotoShape, ServerApart DEF Restart, Phases
  <2>3. \A c \in Channels : phase'[c] = phase[c]
    BY <2>2, ServerApart
  <2> QED BY <2>1, <2>2, <2>3 DEF Agreed
<1>3. CASE ServerParses
  <2>1. /\ phase[Server] = "parses" /\ file.kind = "json" /\ blocks' = Parsed(file.text)
        /\ Goto(Server, "runs") /\ UNCHANGED <<file, edits, faults, next, block>>
    BY <1>3 DEF ServerParses
  <2>2. \A c \in Channels : phase[c] = "idle"
    BY <2>1 DEF IInv, Sequenced
  <2>3. phase'[Server] = "runs" /\ \A c \in Channels : phase'[c] = "idle"
    BY <2>1, <2>2, GotoShape, ServerApart DEF Phases
  <2> QED BY <2>1, <2>3 DEF Agreed
<1>4. CASE Spawn
  <2>1. /\ phase[Server] = "runs" /\ Goto(next, "opens") /\ UNCHANGED <<file, edits, faults, blocks, block>>
    BY <1>4 DEF Spawn
  <2>2. next \in Nat \ {0} /\ next # Server
    BY DEF IInv, Shape, Server
  <2>3. phase \in [Processes -> Phases]
    BY DEF TypeOK
  <2>4. phase'[Server] = "runs" /\ \A c \in Channels : phase'[c] \in {phase[c], "opens"}
    BY <2>1, <2>2, <2>3, ServerApart DEF Goto
  <2> QED BY <2>1, <2>4 DEF Agreed
<1>5. ASSUME NEW c \in Channels, ChannelParses(c) PROVE Agreed'
  <2> DEFINE mine == Selected(file.text, blocks[c].name)
  <2>1. /\ phase[c] = "parses" /\ UNCHANGED <<file, edits, faults, blocks, next>>
        /\ IF mine = NoName THEN Goto(c, "failed") /\ block' = block
                            ELSE Goto(c, "runs") /\ block' = [block EXCEPT ![c] = mine]
    BY <1>5 DEF ChannelParses
  <2>2. phase[Server] = "runs"
    BY <2>1 DEF IInv, Sequenced
  <2>3. \A ph \in Phases : Goto(c, ph) => /\ phase'[c] = ph /\ phase'[Server] = "runs"
                                          /\ \A d \in Channels \ {c} : phase'[d] = phase[d]
    BY <2>2, GotoShape, ServerApart
  <2>4. phase'[Server] = "runs"
    BY <2>1, <2>3 DEF Phases
  <2>5. CASE edits = 0
    <3>1. mine # NoName
      BY <2>1, <2>5, FindsBlock, ConfigAssumption
    <3>2. Goto(c, "runs") /\ block' = [block EXCEPT ![c] = mine]
      BY <2>1, <3>1
    <3> HIDE DEF mine
    <3>3. block'[c] = mine /\ \A d \in Channels \ {c} : block'[d] = block[d]
      BY <3>2 DEF IInv, Shape
    <3>4. phase'[c] = "runs" /\ \A d \in Channels \ {c} : phase'[d] = phase[d]
      BY <2>3, <3>2 DEF Phases
    <3> QED BY <2>1, <2>2, <2>4, <3>3, <3>4 DEF Agreed, mine
  <2>6. CASE edits # 0
    BY <2>1, <2>2, <2>4, <2>6 DEF Agreed
  <2> QED BY <2>5, <2>6
<1>6. CASE UserEdits
  <2>1. edits' = edits + 1 /\ UNCHANGED <<next, phase>> /\ edits \in Nat
    BY <1>6 DEF UserEdits, TypeOK
  <2> QED BY <2>1 DEF Agreed
<1> QED BY <1>1, <1>2, <1>3, <1>4, <1>5, <1>6, <1>7 DEF Next, OpenSteps

\* When the server starts, nothing is agreed on yet.
LEMMA AgreedInit == Init => TypeOK /\ Agreed
<1> SUFFICES ASSUME Init PROVE TypeOK /\ Agreed
  OBVIOUS
<1>1. phase[Server] = "opens" /\ \A c \in Channels : phase[c] = "idle"
  BY ServerApart DEF Init
<1>2. Agreed
  BY <1>1 DEF Init, Agreed
<1>3. blocks \in Texts /\ Len(blocks) = 0
  <2>1. blocks = <<>>  BY DEF Init
  <2>2. <<>> \in Seq(Blocks) /\ Len(<<>>) = 0  OBVIOUS
  <2>3. Len(<<>>) <= MaxBlocks  BY <2>2, ConfigAssumption
  <2> QED BY <2>1, <2>2, <2>3, TextsAreSeqs
<1>4. file \in Files /\ edits \in 0..MaxEdits /\ faults \in 0..MaxFaults
  BY ConfigAssumption DEF Init, Files
<1>5. next \in 1..Len(blocks)+1
  BY <1>3 DEF Init
<1>6. phase \in [Processes -> Phases] /\ block \in [Channels -> Blocks \cup {NoName}]
  BY DEF Init, Phases
<1>7. dir \in BOOLEAN /\ owner \in Processes
  BY ServerApart DEF Init
<1>8. TypeOK
  BY <1>3, <1>4, <1>5, <1>6, <1>7 DEF TypeOK, Files
<1> QED BY <1>2, <1>8

\* So the three hold in every behaviour.
LEMMA Agreement == Spec => [](IInv /\ TypeOK /\ Agreed)
<1>1. Init => IInv /\ TypeOK /\ Agreed
  BY InitInv, AgreedInit
<1>2. IInv /\ TypeOK /\ Agreed /\ [Next]_vars => IInv' /\ TypeOK' /\ Agreed'
  BY NextInv, TypedInv, AgreedInv
<1> QED BY <1>1, <1>2, PTL DEF Spec

\* Type correctness: what parse and getChannel return are blocks.
THEOREM TypeCorrect == Spec => []TypeOK
BY Agreement, PTL

\* Each channel the server spawns finds its configuration, the generated one
\* included, unless somebody changes the file in between, or it is killed or
\* refused the file.
THEOREM Configured == Spec => []ChannelsConfigured
<1>1. IInv /\ Agreed => ChannelsConfigured
  BY DEF IInv, Shape, Agreed, ChannelsConfigured
<1> QED BY <1>1, Agreement, PTL

\* It finds the very block it was spawned for if no two share a name, although
\* it looks among all blocks by name, and the server skipped those without one.
THEOREM FindsItsOwn == Spec => []OwnBlock
<1>1. IInv /\ TypeOK /\ Agreed => OwnBlock
  <2> SUFFICES ASSUME IInv, TypeOK, Agreed, edits = 0, Distinct(blocks),
                      NEW c \in Channels, phase[c] = "runs"
               PROVE  block[c] = blocks[c]
    BY DEF OwnBlock, Running
  <2>1. PICK m \in DOMAIN file.text :
              /\ Selected(file.text, blocks[c].name) = file.text[m]
              /\ file.text[m].name = blocks[c].name /\ file.text[m].name # NoName
    BY FindsBlock
  <2>2. block[c] = file.text[m]
    BY <2>1 DEF Agreed
  <2>3. phase[Server] = "runs"
    BY DEF IInv, Sequenced
  <2>4. file.kind = "json" /\ blocks = Parsed(file.text)
    BY <2>3 DEF Agreed
  <2>5. file.text \in Seq(Blocks) /\ DOMAIN file.text = 1..Len(file.text)
    BY <2>4, FileText, TextsAreSeqs DEF TypeOK, Files
  <2>6. PICK k \in DOMAIN blocks : blocks[k] = file.text[m]
    BY <2>1, <2>4, <2>5, ParsedKeeps DEF Keeps
  <2>7. c \in DOMAIN blocks
    BY Spawned
  <2>8. k = c
    BY <2>1, <2>6, <2>7 DEF Distinct
  <2> QED BY <2>2, <2>6, <2>8
<1> QED BY <1>1, Agreement, PTL

\* Between finding the file missing and creating it, nobody else does: a server
\* generates it before there are any channels, and they find it.  Only what a
\* user saves at that moment is emptied again (config.cc:48).
THEOREM KeepsFile == Spec => FileKept
<1> DEFINE Kept == edits' = 0 /\ file \notin {Absent, Partial} => file' = file
<1>1. IInv /\ TypeOK /\ Agreed /\ Installed /\ [Next]_vars => [Kept]_vars
  <2> SUFFICES ASSUME IInv, TypeOK, Agreed, Installed, Next, edits' = 0, file \notin {Absent, Partial}
               PROVE  file' = file
    OBVIOUS
  <2>1. CASE UserEdits
    BY <2>1 DEF UserEdits, Installed
  <2>2. CASE ServerParses \/ Spawn \/ \E c \in Channels : ChannelParses(c)
    BY <2>2 DEF ServerParses, Spawn, ChannelParses
  <2>3. CASE Restart
    BY <2>3 DEF Restart
  <2>4. ASSUME NEW p \in Processes, CreateDefault(p) \/ WriteLine(p) \/ WriteDefault(p) PROVE FALSE
    <3>1. edits = 0 /\ phase[p] \in {"creates", "writes"}
      BY <2>4 DEF CreateDefault, WriteLine, WriteDefault, Elsewhere
    <3>2. p = Server
      BY <3>1, ServerApart DEF Agreed
    <3> QED BY <3>1, <3>2 DEF Installed
  <2>5. ASSUME NEW p \in Processes,
               Exists(p) \/ Missing(p) \/ CreateFails(p) \/ WriteFails(p) \/ ParseFails(p) \/ Killed(p)
        PROVE  file' = file
    BY <2>5 DEF Exists, Missing, CreateFails, WriteFails, ParseFails, Killed
  <2> QED BY <2>1, <2>2, <2>3, <2>4, <2>5 DEF Next
<1>2. Init => IInv /\ Installed
  BY InitInv, InstalledInit
<1>3. IInv /\ Installed /\ [Next]_vars => IInv' /\ Installed'
  BY NextInv, InstalledInv
<1>4. Spec => [][Kept]_vars
  BY <1>1, <1>2, <1>3, Agreement, PTL DEF Spec
<1> QED BY <1>4 DEF FileKept
=============================================================================
