------------------------------- MODULE Config -------------------------------
(***************************************************************************)
(* The configuration file and the processes that read it: Config::open,    *)
(* writeDefault, parse, addChannel and getChannel (config.cc), as called   *)
(* by Server::run, which spawns one channel per block, and then again by   *)
(* Channel::run in each of those channels.                                 *)
(*                                                                         *)
(* The server passes a channel nothing but its name: every process opens   *)
(* the file for itself, at its own time, without locking, and generates    *)
(* it if it is not there: finding it missing, creating it empty, writing   *)
(* its text line by line and parsing it are steps of their own, and each   *)
(* may fail or be the process's last.                                      *)
(***************************************************************************)
EXTENDS Naturals, Sequences

CONSTANTS Names,     \* channel names, without NoName and Default
          NoName,    \* a block without a name
          Default,   \* the name in the generated file
          Sizes,     \* window sizes a block may ask for
          DefaultSize, \* the size in the generated file
          MaxBlocks, \* bound: blocks in the file
          MaxEdits,  \* bound: times the user changes the file
          MaxFaults  \* bound: times a process is killed or refused the file

Blocks == [name : Names \cup {NoName, Default}, size : Sizes]

\* NoName also stands for the absence of a block.
ASSUME ConfigAssumption ==
    /\ NoName \notin Names /\ Default \notin Names /\ NoName # Default
    /\ NoName \notin Blocks
    /\ DefaultSize \in Sizes /\ MaxBlocks \in Nat \ {0}
    /\ MaxEdits \in Nat /\ MaxFaults \in Nat

VARIABLES
    dir,     \* does the directory home/PRODUCT exist?
    file,    \* home/PRODUCT/PRODUCT.conf
    owner,   \* the process that emptied the file last
    edits,   \* changes the user made so far
    faults,  \* processes killed and files refused so far
    blocks,  \* the server's Config::channels
    next,    \* the block the server spawns a channel for next
    phase,   \* per process, how far it is
    block    \* per channel, the block it selected

vars == <<dir, file, owner, edits, faults, blocks, next, phase, block>>

Server == 0
Channels == 1..MaxBlocks
Processes == {Server} \cup Channels

Texts == UNION {[1..n -> Blocks] : n \in 0..MaxBlocks}

\* A file is missing, what is flushed so far of the generated text (nothing, or
\* all but its end: no JSON), something else that is not JSON, or a list of blocks.
Absent == [kind |-> "absent"]
Partial == [kind |-> "partial"]
Bad == [kind |-> "bad"]
Json(text) == [kind |-> "json", text |-> text]
Generated == Json(<<[name |-> Default, size |-> DefaultSize]>>)

\* A process is "idle" before it starts, "opens" the file, "creates" and
\* "writes" a missing one, "parses" it, and "runs", or has "failed" or was killed.
Phases == {"idle", "opens", "creates", "writes", "parses", "runs", "failed"}

TypeOK ==
    /\ dir \in BOOLEAN
    /\ file \in {Absent, Partial, Bad} \cup {Json(t) : t \in Texts}
    /\ owner \in Processes
    /\ edits \in 0..MaxEdits /\ faults \in 0..MaxFaults
    /\ blocks \in Texts
    /\ next \in 1..Len(blocks)+1
    /\ phase \in [Processes -> Phases]
    /\ block \in [Channels -> Blocks \cup {NoName}]

\* What a user may have installed: nothing, the directory, or a file in it.
Init ==
    /\ dir \in BOOLEAN
    /\ file \in {Absent} \cup IF dir THEN {Bad} \cup {Json(t) : t \in Texts} ELSE {}
    /\ owner = Server /\ edits = 0 /\ faults = 0
    /\ blocks = <<>> /\ next = 1
    /\ phase = [p \in Processes |-> IF p = Server THEN "opens" ELSE "idle"]
    /\ block = [c \in Channels |-> NoName]

-----------------------------------------------------------------------------
(***************************************************************************)
(* Config::open, in any process.                                           *)
(***************************************************************************)

Goto(p, ph) == phase' = [phase EXCEPT ![p] = ph]

\* What no step of a process's own start-up changes.
Elsewhere == <<dir, edits, blocks, next, block>>

\* Something the process does not control goes wrong: it is killed, or the
\* system refuses to open, write or read the file.
Fault == faults < MaxFaults /\ faults' = faults + 1

\* path.exists(): an existing file is parsed as it is.
Exists(p) ==
    /\ phase[p] = "opens"
    /\ file # Absent
    /\ Goto(p, "parses")
    /\ UNCHANGED <<file, owner, faults, Elsewhere>>

Missing(p) ==
    /\ phase[p] = "opens"
    /\ file = Absent
    /\ Goto(p, "creates")
    /\ UNCHANGED <<file, owner, faults, Elsewhere>>

\* writeDefault opens the file for writing, which empties one that has
\* appeared meanwhile.
CreateDefault(p) ==
    /\ phase[p] = "creates"
    /\ dir
    /\ file' = Partial /\ owner' = p
    /\ Goto(p, "writes")
    /\ UNCHANGED <<faults, Elsewhere>>

\* The file cannot be opened for writing, without its directory never: no one
\* makes it.  writeDefault gives up, and what is there is parsed.
CreateFails(p) ==
    /\ phase[p] = "creates"
    /\ IF dir THEN Fault ELSE UNCHANGED faults
    /\ Goto(p, "parses")
    /\ UNCHANGED <<file, owner, Elsewhere>>

\* Each std::endl flushes a line.  In the file the process emptied, or another
\* that writes the same text, nothing new is to be seen before the last one;
\* a text the user saved into it meanwhile is broken.
WriteLine(p) ==
    /\ phase[p] = "writes"
    /\ file.kind = "json" /\ file # Generated
    /\ file' = Bad
    /\ UNCHANGED <<owner, faults, phase, Elsewhere>>

\* A defect for the mutation check: the stream is still open, and its text not
\* in the file, when the file is parsed.
WriteDefaultUnflushed(p) ==
    /\ phase[p] = "writes"
    /\ Goto(p, "parses")
    /\ UNCHANGED <<file, owner, faults, Elsewhere>>

\* The last of the text is written when writeDefault returns.  Another process
\* may have emptied the file since and lack lines that this one wrote before;
\* or a user has deleted the file, replaced it, or saved another text into it,
\* of which the end may remain.
WriteDefault(p) ==
    /\ phase[p] = "writes"
    /\ file' \in CASE file = Absent -> {Absent}
                    [] file = Partial /\ owner = p -> {Generated}
                    [] file = Partial /\ owner # p -> {Partial, Generated}
                    [] OTHER -> {file, Bad, Generated}
    /\ Goto(p, "parses")
    /\ UNCHANGED <<owner, faults, Elsewhere>>

\* A write fails, which nobody checks: what was flushed is there.
WriteFails(p) ==
    /\ phase[p] = "writes"
    /\ Fault
    /\ Goto(p, "parses")
    /\ UNCHANGED <<file, owner, Elsewhere>>

\* addChannel skips a block without a name, and nothing else: kept[n] is what
\* parse has after n blocks.
Parsed(text) ==
    LET kept[n \in 0..Len(text)] ==
            IF n = 0 THEN <<>>
            ELSE IF text[n].name = NoName THEN kept[n-1] ELSE Append(kept[n-1], text[n])
    IN  kept[Len(text)]

\* The file is not JSON, or there is none; or it cannot be opened for reading.
ParseFails(p) ==
    /\ phase[p] = "parses"
    /\ IF file.kind = "json" THEN Fault ELSE UNCHANGED faults
    /\ Goto(p, "failed")
    /\ UNCHANGED <<file, owner, Elsewhere>>

\* The process is killed, at whatever point of its start-up.
Killed(p) ==
    /\ phase[p] \in {"opens", "creates", "writes", "parses"}
    /\ Fault
    /\ Goto(p, "failed")
    /\ UNCHANGED <<file, owner, Elsewhere>>

-----------------------------------------------------------------------------
(***************************************************************************)
(* The server and the channels.                                            *)
(***************************************************************************)

\* Server::run goes on with the channels of its configuration.
ServerParses ==
    /\ phase[Server] = "parses"
    /\ file.kind = "json"
    /\ blocks' = Parsed(file.text)
    /\ Goto(Server, "runs")
    /\ UNCHANGED <<dir, file, owner, edits, faults, next, block>>

\* Somebody starts the server again after it failed or was killed.
Restart ==
    /\ phase[Server] = "failed"
    /\ Goto(Server, "opens")
    /\ UNCHANGED <<file, owner, faults, Elsewhere>>

\* A defect for the mutation check: the loop runs one block too far.
SpawnOneMore ==
    /\ phase[Server] = "runs"
    /\ next <= Len(blocks) + 1
    /\ Goto(next, "opens")
    /\ next' = next + 1
    /\ UNCHANGED <<dir, file, owner, edits, faults, blocks, block>>

\* ChannelHost::create for the next block: the channel is given its name.
Spawn ==
    /\ phase[Server] = "runs"
    /\ next <= Len(blocks)
    /\ Goto(next, "opens")
    /\ next' = next + 1
    /\ UNCHANGED <<dir, file, owner, edits, faults, blocks, block>>

\* A defect for the mutation check: the first block is taken for any name.
SelectedFirst(text, name) ==
    IF Parsed(text) = <<>> THEN NoName ELSE Head(Parsed(text))

\* A defect for the mutation check: only the first entry is looked at, which
\* may be one without a name, that the server skipped.
SelectedAtHead(text, name) ==
    IF text # <<>> /\ Head(text).name = name THEN Head(text) ELSE NoName

\* getChannel: the first block of that name.  Those addChannel skips have no
\* name, and no channel is given that one.
Selected(text, name) ==
    LET first == {n \in DOMAIN text :
                    text[n].name = name /\ \A m \in 1..n-1 : text[m].name # name}
    IN  IF first = {} THEN NoName ELSE text[CHOOSE n \in first : TRUE]

\* Channel::run selects its block, and makes the directory on its way to the
\* startup images.
ChannelParses(c) ==
    /\ phase[c] = "parses"
    /\ file.kind = "json"
    /\ LET mine == Selected(file.text, blocks[c].name) IN
          IF mine = NoName
            THEN Goto(c, "failed") /\ UNCHANGED <<block, dir>>
            ELSE Goto(c, "runs") /\ block' = [block EXCEPT ![c] = mine] /\ dir' = TRUE
    /\ UNCHANGED <<file, owner, edits, faults, blocks, next>>

\* The user saves another text, or deletes the file, at any time.
UserEdits ==
    /\ edits < MaxEdits
    /\ dir
    /\ edits' = edits + 1
    /\ file' \in {Absent, Bad} \cup {Json(t) : t \in Texts}
    /\ UNCHANGED <<dir, owner, faults, blocks, next, phase, block>>

Next ==
    \/ \E p \in Processes :
          \/ Exists(p) \/ Missing(p) \/ CreateDefault(p) \/ CreateFails(p)
          \/ WriteLine(p) \/ WriteDefault(p) \/ WriteFails(p)
          \/ ParseFails(p) \/ Killed(p)
    \/ ServerParses \/ Restart \/ Spawn
    \/ \E c \in Channels : ChannelParses(c)
    \/ UserEdits

Spec == Init /\ [][Next]_vars

-----------------------------------------------------------------------------
(***************************************************************************)
(* Properties.                                                             *)
(***************************************************************************)

Running(c) == phase[c] = "runs"
Distinct(text) == \A m, n \in DOMAIN text : text[m].name = text[n].name => m = n

\* Server and channel parse the file independently, but as long as nobody
\* changes it and no two blocks share a name, the channel that was spawned
\* for a block runs with that very block.
OwnBlock ==
    edits = 0 /\ Distinct(blocks) => \A c \in Channels : Running(c) => block[c] = blocks[c]

\* As long as nobody changes the file and nothing goes wrong, no channel the
\* server spawned lacks its configuration, the generated one included.
ChannelsConfigured ==
    edits = 0 /\ faults = 0 => \A c \in Channels : phase[c] # "failed"

\* The server can use the file it generates itself: if nobody changes it and
\* nothing goes wrong, only a text that somebody else put there, or the lack of
\* a directory for the file, makes it fail.
GeneratedIsUsable ==
    edits = 0 /\ faults = 0 /\ phase[Server] = "failed" => file = Bad \/ (file = Absent /\ ~dir)

\* Whatever is saved, deleted or generated meanwhile, a channel runs with a
\* block of the name it was given, or not at all.
NamedBlock == \A c \in Channels : Running(c) => block[c].name = blocks[c].name

\* Part of the generated text is all there is only while some process is about
\* to write the rest, however many generate the file at the same time and
\* whatever the user does to it.  Nobody repairs it, though: once a generator
\* was killed or failed to write, the next start finds a file and fails.
PartialIsTransient ==
    file = Partial => faults > 0 \/ \E p \in Processes : phase[p] = "writes"

\* As long as nobody changes the file, no process does either once it is there:
\* a file is generated where there was none, and stays as it was written.
FileKept == [][edits' = 0 /\ file \notin {Absent, Partial} => file' = file]_vars

\* A missing configuration file is generated, so it makes no process fail.
MissingIsGenerated == edits = 0 /\ phase[Server] = "failed" => file # Absent

\* A running channel has the block that corresponds to it.
CorrespondingBlock ==
    edits = 0 => \A c \in Channels : Running(c) => block[c] = blocks[c]
=============================================================================
