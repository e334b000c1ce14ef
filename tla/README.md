# A TLA+ model of keno

keno is a video player for several screens. One **server** process reads a
configuration file and spawns one **channel** process per block in it; each
channel opens a window and mixes image layers into it. A channel's standard
output is a pipe that the server reads and copies into its own log. A **mesh**
node announces the server over multicast UDP. The program is C++ on libuv.

This directory specifies the program's behaviour: what its processes and threads
do to the state they share, what may go wrong between two of their steps, and
what the code can nevertheless promise. The specifications are checked on small
instances with TLC, and the most important promises are proved for all instances
with TLAPS.

All source paths below are relative to `src/` of the repository.

## 1. Inventory

| component | state | operations | correct if |
|---|---|---|---|
| Server, `server/server.cc` | list of hosts; the default loop | `run`, `removeHost` | ends when it has no work; keeps no host too long and drops none too early |
| Channel host, `server/channel_host.cc` | process handle, pipe handle | `create`, `on_read`, `onExit`, `on_close` | each handle is closed once and freed; output is forwarded in full |
| Channel, `server/channel.cc` | two threads; mutex and condition; a loop | `run`, `iothread`, `close` | the threads start in order; nothing outlives what it uses |
| Log, `core/trace.cc` | the global table of writers | `writeLine`, `addWriter`, `clearWriters`; `UvWriter` | no line is lost, duplicated or reordered; requests are freed after use |
| Configuration, `server/config.cc` | the file; a list of blocks per process | `open`, `writeDefault`, `parse`, `getChannel` | all processes agree; a missing file is made, whole |
| Compositor, `gfx/compositor.cc`, `layer.cc`, `effect.cc` | lists of layers and effects | `addLayer`, `addEffect`, `process`; `Fade::animate` | effects end, and leave their layer as they should |
| Mesh, `net/mesh.cc` | a UDP handle, send requests | `open`, `send`, `recv_packet`, `Frame::parse` | requests are freed; frames mean the same to every node |
| Uuid, `core/uuid.cc` | four words | `make`, `parse`, output | output parses back; made ids are of version 4 |
| Shaders, `gfx/shader.cc` | GL objects | `load`, `build` | nothing leaks when a step fails |
| Windows, `server/window_*.cc`, and GL contexts, `gfx/context_*.cc` | native handles | `create`, `pump` | a closed window ends the channel; the second layer fades in |
| Images, `gfx/image.cc` | one texture each | `create` | a texture is deleted with its layer |
| Clock, `core/clock_linux.cc`, `clock_win.cc` | none | `hires_time` | the effects and the timer of the loop survive its jumps |
| Matrices, paths, conversion, executor, client, stopwatch | little or none | | see section 8 |

The interactions:

- server → channel: `uv_spawn` with `--channel=<name>`. The configuration is not
  passed on; a channel reads the file again.
- channel → server: bytes on the pipe, and the process's exit. libuv reports the
  end of the pipe and the exit as separate callbacks, in either order.
- main thread ↔ I/O thread of a channel: a condition variable (once, at the
  start), the log's table of writers, the write queue of the pipe, the loop's
  stop flag.
- server ↔ server: one multicast frame each, over a network that loses,
  duplicates and reorders, between machines of either byte order.
- window → rendering loop: on Windows, messages that are dispatched between two
  frames.
- rendering loop → compositor → effects → layers: plain calls, once per frame,
  driven by the clock.

What is hard to test here is listed with its line in `PROJECT.json` under
`hazards`: a wait without a predicate, shared tables without a lock, a pointer
to another thread's stack, raw pointers in handles, the order of exit and end of
stream, failures whose result is ignored, processes that generate the same file,
time that is late or runs backwards.

## 2. Modules

| module | models | steps |
|---|---|---|
| `Supervisor` | what the server promises, abstractly | |
| `Server` | `server.cc`, `channel_host.cc`; implements `Supervisor` | one call of `ChannelHost::create`, or one callback |
| `Channel` | `channel.cc`, and the log as channels use it | one statement that touches what the threads share |
| `Keno` | composes `Server`, one `Channel` and the pipe between them | those of the two |
| `Config` | `config.cc` in the server and all channels | one access to the file, which may fail or be the last |
| `Compositor` | `compositor.cc`, `effect.cc`, `layer.cc` | one call; one turn of a frame's loop over the effects |
| `Screen` | what `Channel::run` acquires and releases: `window_*.cc`, `context_*.cc`, `shader.cc`, `image.cc`; its rendering loop | one call |
| `Uuid` | `uuid.cc` as operators | |
| `Mesh` | `mesh.cc` on several servers, and the network | one call or callback |
| `ServerProofs`, `ChannelProofs`, `ConfigProofs`, `CompositorProofs`, `ScreenProofs`, `UuidProofs`, `MeshProofs`, `KenoProofs` | theorems about the module in their name | |
| `MC...` | instances for TLC | |

Operators whose comment begins "A defect for the mutation check" are not part of
the model. Each is a plausible mistake in the operator it precedes; put in its
place, it makes TLC find one of the properties violated. They show that the
properties can fail.

### Server

A configuration block is a slot. `process[i]` and `out[i]` are the two malloc'ed
handles of slot `i`: `none` before `uv_pipe_init`/`uv_spawn`, `active`,
`closing` between `uv_close` and its callback, `freed` after it. A pipe whose
end has been reported is `ended`: open, but no longer active. `hosts` and
`nulls` are the two kinds of entries in `Server::_hosts`: `push_back` is called
with whatever `create` returned. `LoopAlive` is libuv's rule for when
`uv_run` returns. Output is counted in chunks, `written` by the child and
`forwarded` by `on_read`. `OnEnd` and `OnExit` are independent, as they are in
libuv, so the exit may come first and close a pipe that still holds output.

`Supervisor` says the same without handles and callbacks: a child is started at
most once, may come up without being listened to ("deaf": the result of
`uv_read_start` is ignored), what it says is passed on in order, never twice and
never after it is gone, and the server stops only when no child is left.
`Supervised` in `Server` is the refinement mapping: a child is gone when its
process handle is no longer active, that is, when the server has been told and
not when the child has ended.

### Channel

`main` and `io` are the statements the two threads execute next. A `LOG` is an
action that hands a line to every writer registered *at that moment*: the
standard one puts it into the stdio buffer, `UvWriter` passes it to `uv_write`,
which writes at once or queues. Lines are numbered, so that losing, duplicating
or reordering one is visible. `MaxReports` bounds the lines whose number depends
on how things go, on all platforms: what window, context and program say of
themselves or of their failure (`Note`), why a file is no image (`ImageFails`), what
GL objects to in one (`ImageWarns`), and what is logged while rendering
(`Report`). The line of `Config::open` about a file it cannot parse is one with the
line of `run` that follows it. `Wait` blocks whether or not the signal was sent,
`Signal` wakes only a blocked thread. `LoopStops` ends the I/O thread and with it the
pipe on its stack; writing to it afterwards may work, do nothing, or crash
(`UvWriteDead`). A crash is a state, not an omission: null windows and missing
layers, and the pixels of an image that could not be converted, lead to
`"crashed"`. If `uv_pipe_open` fails, whose result is ignored, the pipe stays
`unopened`: `uv_write` refuses every line, and `writeLine` frees its request and
forgets it (`UvWriteFails`). A `malloc` that fails drops a line in the same way;
it is left out, as it may happen at any line.

`env` is the environment of the process, chosen in `Init` and never changed:
whether standard output is a pipe (it is if the server spawned the channel),
whether `uv_cond_wait` may return without a signal (`SpuriousWakeup`; POSIX
allows it and libuv passes it on), and whether the window can be closed (only
`window_win.cc` ever returns -1 from `pump`; X11 and the Raspberry Pi never do).
A property that needs a kind of environment says so: `WritersUnraced` and
`NothingLostOrReordered` are about processes without spurious wakeups.

The server at the other end of the pipe may go away at any time
(`ServerGone`): the pipe is then `broken`, an immediate write fails or ends the
process (`UvWriteBroken`; the program does not ignore SIGPIPE), and queued
requests fail in the loop, which frees them (`FlushBroken`).

### Keno

The specifications of the server and of a channel are written without each
other: `Server` lets a child write and end whenever it likes, `Channel` lets the
server be gone at any time. `Keno` puts an instance of each on one pipe. What
`Server` calls `child` and `written` is computed here from the channel's
variables, and the pipe breaks when, and only when, the server is killed while
the channel still runs. That
the channel is a child as `Server` assumes it is a property (`ChannelIsChild`),
so that what was shown of `Server` holds of it with this child. Killing the
server leaves its channel running: nothing in the code ends it. `Keno` has no
type invariant of its own, as all but two of its variables are those of the
instances.

### Config

A file is missing, a part of the generated text, something else that is not
JSON, or a list of blocks. Every process runs `Config::open` as steps of their own:
does the file exist, create it, write it, parse it. `writeDefault` ends each line
with `std::endl`, which flushes it, so others see the file grow. Nothing new is to
be seen before the last line, unless the text is written into a file that a user has
saved meanwhile (`WriteLine`), or several processes write at once (`owner` is the
one that emptied the file last). The file may be refused to a process that opens it,
for want of a directory or for any other reason (`CreateFails`, `ParseFails`), a
write may fail, which nobody checks (`WriteFails`), and a process may be killed at
any of these steps (`Killed`); `MaxFaults` bounds how often. A server that failed is
started again (`Restart`), and finds what its predecessor left. The server's list
decides which channels are spawned; each finds its block for itself. `UserEdits`
replaces or deletes the file at any moment, up to `MaxEdits` times.

### Compositor

An effect carries its age instead of `_start`, since only the difference to the
clock is used; this keeps the state space finite without a bound on time. All
effects of one frame see one time, where the code reads the clock for each.
Opacity is scaled so that the parabola of `easeOutQuad` is exact in integers.
`Frame(g)` begins `process()` a time `g` after the last one, and `Animate` is one
turn of its loop: the effect at the iterator (`cursor`) sets the opacity of its
layer, and is erased from the list or left behind. `SetClockBack` is
somebody setting the time of day, which is the clock on Linux
(`core/clock_linux.cc:10`). The program itself adds one effect ("fadein",
"slow", on the second layer, `channel.cc:146`); the model lets any effect be
added to any layer, which is what the interface offers. The GL calls that draw
visible layers change nothing the properties see.

### Screen

`at` is what `Channel::run` does next between opening the window and returning. Each
platform has its own way of failing: null, which the caller dereferences; a handle
that looks good and is not (a faulty dispmanx element, a context without a current
GL context); or an X error, which ends the process. The model keeps them apart. GL
objects are names in a set, with those that are deleted but still in use `marked`.
What is in a texture or a buffer is not modelled: whether GL could fill it is logged
(`image.cc:96-118`) or not even looked at (`layer.cc:56`), and changes nothing of
what is done with the object. The window and the context are acquired but, to the
model, never released: the loop ends on Windows only, where the window is gone by
then and `~WglContext` is empty. `time` is the loop's timer for the fade-in: on the
Raspberry Pi `hires_time` is computed in 32 bits and wraps (`Wrap`); elsewhere it
does not, and the model stops counting when the fade-in is due.

### Uuid and Mesh

`Uuid` writes a byte as two hexadecimal digits, so that parsing, printing and the
order of bytes in a word are what the code does, without bit arithmetic. `==` and
`!=` have no caller and are left out.
`Mesh` gives each node a byte order and an id, made or parsed by `Uuid`. A
datagram, once sent, stays in the `air`: receiving one any number of times, in
any order or never covers loss, duplication and reordering. A receive error is
a datagram too (`recv_packet` passes a negative length on as a large one).

## 3. Runs

Passing runs:

| run | bounds | what it shows |
|---|---|---|
| `server` | 2 channels, 2 chunks | `HostOutlivesProcess`: the raw pointer in `process->data` is valid whenever the exit callback can run. `HandlesCloseOnce`, `NoHandleLeak`: each handle is closed exactly once and freed, also after a failed spawn. `ForwardedOrCut`: output is forwarded unless `onExit` closed the pipe first. `StopsWithoutWork`: a null entry in the list of hosts does not keep the server alive. `Supervised`: the server implements `Supervisor` |
| `channel` | 2 files, 1 line that depends on how things go, all environments, a pipe that may not open, a server that may be gone | `WritersUnraced`, `NothingLostOrReordered`: the change of writers falls between two lines. `QueuedRequestsLive`, `StreamAliveUntilClosed`: what libuv refers to is alive, spurious wakeups or not. `WaiterWakes`: a thread that waits in time is woken. `QueuedIsWritten`: the loop notices what the other thread queued, thanks to the idler |
| `keno` | 1 channel, 2 files, no line that depends on how things go | `RelayedInOrder`: the channel's lines are in the server's log in their order and none twice. `ChannelIsChild`: the channel refines what `Server` assumes of a child. `LineArrives`: a line gets from one log into the other, through two loops, unless one of the two processes ends first |
| `config` | 2 blocks, 2 names, 2 sizes, 1 edit, 1 fault; all initial files | `OwnBlock`: all processes agree while nobody edits. `ChannelsConfigured`, `GeneratedIsUsable`: they find a configuration if, besides, nothing goes wrong. `NamedBlock`: never a block of another name. `PartialIsTransient`: unless a generator was killed or could not write, a partial file is about to be completed, however many write it |
| `compositor` | 2 layers, 2 effects, durations 2, 4 and 6, frames up to 2 apart, clock set back by up to 2 | `ExpiredRemoved`: the loop that erases while it iterates skips no effect. `OpacityInRange`: the opacity needs no clamp while frames come in time. `FadeInEndsOpaque`: what the last frame leaves is nearly opaque. `EffectsEnd` |
| `screen` | 3 platforms, 3 files, a second of 2, frames up to 2 apart, a clock that wraps at 10 | `ObjectsReleased`: GL objects are deleted after a program that could not be built, and after the loop. `ClosedWindowEnds`: unless its WM_QUIT is discarded. `FadeInComes`: the second layer appears, unless the clock wraps too early |
| `mesh` | 2 nodes, 4 texts, 2 random ids, 3 foreign datagrams, both byte orders | `HeardWasSent`: between machines of one byte order, an id in a log is that of a node which sent it, or was in a foreign frame. `PrintsBack`, `MadeIdsAreVersion4`: on a little-endian machine an id prints as the bytes it was parsed from, and as the very text if that had its dashes; what is printed parses to the same id; and a made id prints as one of version 4.  `RequestReleased` |

Why the bounds are enough: two slots let one host fail or end while the other runs,
and no action of `Server` changes more than one slot; with two chunks a pipe is
closed empty, half read or full. Two startup files are the number `HideLayer`
distinguishes; `screen` has three, so that one can be no image. A line that depends
on how things go may come anywhere between those that are always logged; the two
runs that find a violation have two, one behind the other. `keno` has none, as
nothing in the composition tells such a line from others. `keno` needs one channel
only, since the server's slots do not depend on each other (theorem
`SlotsIndependent`). Two blocks can share a name, or one can be nameless and shift
the other. Two effects can share a layer, or end in the same frame one behind the
other, which is what erasing during iteration can get wrong. The durations have the
proportion of the code's 200 ms ("fast"), 400 ms and 600 ms, and a frame may take as
long as the shortest. One fault is enough to leave a partial file for the server
that is started again and its channels. With a clock that wraps at 10 and a fade-in
due after 4, the loop starts both early enough for it and too late. Of two nodes
each hears itself and the other, of the same byte order or not; the foreign
datagrams are one that is too short, one of another version, and one that passes.

Runs that find a property violated, each a place where the code does something
else than it says:

| run | what happens |
|---|---|
| `channel_lost_wakeup` | The I/O thread signals before the main thread waits. The channel blocks for ever (`channel.cc:74`, "signal the thread is up and running", `channel.cc:218`) |
| `channel_quit` | After the window is closed, `gfx::shutdown` logs through a pipe on the stack of a thread that has returned (`channel.cc:180`, `201`) |
| `config_missing` | On a fresh installation no configuration is generated: its directory is made only by a channel, later (`config.cc:47`, `channel.cc:101`) |
| `config_duplicate` | Two blocks share a name; both channels run with the first (`channel.cc:58`) |
| `compositor_stall` | One frame comes a fade's length late; the effect is removed with its layer invisible (`effect.cc:97`, `compositor.cc:215`) |

Deadlock is not checked where the system may stop: the server ends, channels end
or render without logging, configured processes have nothing left to do. The
`compositor` run checks it: the rendering loop has no way to stop.

What the properties' conditions say, besides the violations:

- On the Raspberry Pi the fade-in never comes if the loop is entered less than
  two seconds before the 32-bit clock wraps, every 71 minutes
  (`FadeInComes`, `core/clock_linux.cc:11`).
- Between machines of different byte order, an id arrives with its four words
  turned around (`net/mesh.cc:122`), and a receive error is parsed as if a
  frame had come, so that an id nobody sent may be logged (`net/mesh.cc:23`):
  `HeardWasSent` exempts both. As `server.cc` uses one constant id, all
  servers announce the same one.
- A generator that is killed, or cannot write, leaves a partial file. It exists, so
  no process generates it again, and each start fails until a user repairs it
  (`PartialIsTransient`, `server/config.cc:71`).
- A channel whose pipe cannot be opened loses every line that it hands to it
  (`NothingLostOrReordered`, `server/channel.cc:210`).
- The WM_QUIT that ends a channel is posted to the window that is being
  destroyed, and may be discarded with it (`ClosedWindowEnds`,
  `server/window_win.cc:250`).
- A channel's first line, which the executor logged to the stdout buffer, is the
  last on its pipe (`RelayedInOrder`).
- A server that is killed leaves its channels running (`Keno!Kill`).

## 4. Fairness

- `Server`: the thread runs, and a turn of libuv's loop runs every callback that
  is due, so each action of the server is weakly fair. Children owe nothing:
  they may write or exit, or never.
- `Channel`: the operating system schedules both threads; the loop turns as long
  as its thread lives, its idler keeping it from sleeping; the server reads the
  pipe. Logging while rendering, closing the window, and spurious wakeups are
  never obliged to happen.
- `Compositor`: the rendering loop has no way to stop, so `Animate` is weakly fair.
  Not all of its frames are at one time; as some may be, frames with `g > 0` are not
  always possible when one is due, and their fairness is strong.
- `Screen`: `Channel::run` is one thread that goes on; time passes between frames.
  The user owes nothing.
- `Mesh`: each server's thread runs, and its loop sends what is queued and calls
  back. The network owes nothing.
- `Keno`: only what a line needs to get from one log into the other: the channel's
  I/O thread and its writes, the server opening its node (after which its loop
  runs) and reading the pipe. All of it is also assumed in `Server` and `Channel`.

`Config` states safety only.

## 5. Proofs

`ServerProofs` proves, for any number of channels and chunks:

- `TypeCorrect`, `HostsOutlive`, `NoLeak` (`Spec => []...`) and `ClosedOnce`
  (`Spec => HandlesCloseOnce`).
- The argument is one inductive invariant, `IInv`. `HostOutlivesProcess` is not
  inductive alone: a spawn makes a process active, so the slot must not be in
  use before (`Untouched`). `NoHandleLeak` needs `HandlesPaired`: libuv does not
  wait for a pipe that has `ended`, but it waits for the process of the same
  host, and that handle is closed together with the pipe. `HandlesPaired` is
  also why `onExit` may close a pipe without looking at its state.
- `KeepsPromise` (`Spec => Supervised`): under `IInv`, each step of the server is one
  step of `Supervisor` as mapped, or none.
- `SlotsIndependent`: what the server does with slot `i` is what it does in a server
  that has one block. The other server is `Alone(i)`, an instance of `Server` with
  one slot, whose variables are read off those of slot `i`. It waits while the slots
  before `i` are created, and stands before `OpenMesh` while those behind are; a
  step of another slot changes none of its variables (`OthersLeaveAlone`). Its loop
  may be free to end while the real one goes on for another slot's handles.
- Assumption: `ServerAssumption` (the constants are natural numbers).

`ChannelProofs` proves, for any number of startup files and lines:

- `TypeCorrect`. The number of lines is bounded because every statement has a
  fixed number of lines behind it (`Behind`) besides those about files and those
  that depend on how things go (`Varying`).
- To the other theorems, a statement of the main thread is one that logs (`Logs`), one
  that does not (`Moves`), or the process's last (`MainKinds`).
- `Unraced` (`Spec => []WritersUnraced`). The invariant `HandedOver` says that,
  unless waits end for no reason, a main thread past its wait has been signalled.
  Losing the signal costs progress, not safety.
- `StreamLives` (`Spec => []StreamAliveUntilClosed`), with spurious wakeups or
  without; the invariant is `PipeLives`. The statement that is left out, the
  `LOG` in `gfx::shutdown`, is the one that run `channel_quit` finds unsafe.
  `StreamLivesOpen` shows that it is unsafe only if the window was closed: where
  windows cannot be closed, the property that run refutes holds at every statement.
- `RequestsLive` (`Spec => []QueuedRequestsLive`), inductive as it stands.
- `NothingLost` (`Spec => []NothingLostOrReordered`). `Phases` says which writers
  are registered at each statement of the I/O thread and how far its pipe is;
  with `HandedOver`, a line is only ever logged with exactly one writer. `Journal`
  then carries the order: the wire is empty until the pipe's writer is there, so
  nothing overtakes the line the executor left in the stdout buffer, and that
  buffer is flushed last only if the pipe was never used or `uv_stop` was called.
- `NextTold`, a lemma for `KenoProofs`: what is on the pipe stays in order also when
  the server goes away or the loop is stopped. Its invariant `Told` adds `Carried`
  (lines on the wire rise, those in the queue come behind them, none is missing until
  one of the two happens, and line 1 comes last) and `Room` (no line is in
  two places).
- Assumption: `ChannelAssumption` (the bounds are natural numbers).

`ConfigProofs` proves, for any names, sizes, number of blocks, of edits and of faults:

- `BlockNamed` (`Spec => []NamedBlock`) and `PartialHeals` (`Spec =>
  []PartialIsTransient`): without a fault, the process that emptied the file last is
  about to write (`OwnerWrites`). The invariant also needs that a channel is spawned
  once and only by a server that has parsed (`Sequenced`): the server's list does
  not change under a running channel, and no process is started over while it is
  writing the file.
- `GeneratedUsable` (`Spec => []GeneratedIsUsable`), from `Installed`: what the file
  may be at each step of the server while nobody edits it. Its promise ends with the
  first fault, as does that of `Configured`.
- `KeepsFile` (`Spec => FileKept`): a configuration that is there stays as it is
  while no user edits it, although `Config::open` looks first and creates afterwards.
  It holds because a process that is about to create the file found none, and there is
  still none (`Installed`): until the server's file is written there is no channel
  that could generate another. It is stated by this theorem only, not by a run.
- `TypeCorrect`, `Configured` (`Spec => []ChannelsConfigured`) and `FindsItsOwn`
  (`Spec => []OwnBlock`). The invariant `Agreed` says that, once the server has
  parsed and while nobody edits, its list is `Parsed` of the text in the file.
  What `Parsed` returns is then shown of every text: its blocks are those with a
  name, each of them is kept, and it is no longer than the text. `Parsed` is a
  recursive function; its defining equation and these facts are proved by
  taking the least length at which they fail (`Least`), as the induction theorems
  of the library cannot be instantiated here.
- Assumption: `ConfigAssumption`.

`CompositorProofs` proves, for any number of layers and effects, any durations,
gaps and clock changes:

- `TypeCorrect`, `NoneOver` (`Spec => []ExpiredRemoved`) and `InRange` (`Spec =>
  []OpacityInRange`), by the invariant `IInv`: in the middle of a frame, the effects
  that the iterator has passed go on, and the others were over by less than a frame
  when it began (`Passed`); and no effect is from the future unless the clock was
  set (`Begun`).
- `EndsOpaque` (`Spec => FadeInEndsOpaque`), an action property. An effect that is
  erased is past its duration by less than a frame, because
  none was over between frames; what it leaves on its layer is in `LastFrame`.
- `ShowsInTime`: if no gap between frames is longer than any duration, then
  `Spec => CompletedFadeInShows`, the property that run `compositor_stall` refutes
  with a frame that is late by a whole fade. The parabola is above 0 between its two
  zeros (`EasingPositive`), and the second of them is at two durations. The durations
  are 200, 400 and 600 ms (`compositor.cc:325-331`), so a rendering loop whose frames
  are never more than 200 ms apart satisfies the hypothesis.
- The arithmetic of `easeOutQuad` is in two lemmas: within two durations the
  parabola stays in range (`EasingRange`), and a time past the end loses the square
  of its share of the duration (`EasingPastEnd`). Of several effects on a layer the
  latest decides; that there is a latest is `Latest`.
- Assumption: `CompositorAssumption`.

`ScreenProofs` proves, for any set of platforms, number of files and clock:

- `TypeCorrect` and `Released` (`Spec => []ObjectsReleased`). The invariant is
  `Ownership` (which objects there are at each statement, and which of them are
  deleted) and `Sequenced` (there is no layer before there is a program).
- Assumption: `ScreenAssumption`.

`UuidProofs` proves, for any text and any words:

- `PrintIsAccepted`: `parse` accepts what an id prints as and reads its bytes, in
  either byte order. `RoundTrip` and `ParsePrintsBack`, on a little-endian machine:
  a printed id parses to itself, and a parsed text prints as the same bytes, with its
  dashes also as the same characters. A printed text is a concatenation of sixteen
  pairs of digits and four dashes: `Parts` takes it apart, `OutputShows` says which
  byte stands where, and `ParsedBytes` what `parse` makes of the characters there.
- `MadeIsVersion4`: what `make` returns prints with the digits of version 4, whatever
  the random bytes.

`MeshProofs` proves, for any set of nodes, texts, random bytes and foreign
datagrams:

- `TypeCorrect`: `make` and `parse` return ids, on machines of either byte order.
- `HeardSent` (`Spec => []HeardWasSent`). The invariant adds `AirIsAnnounced`: what
  is in the air was announced by a node that has sent it (`Sent`). Between machines of one
  byte order, what the sender does to the words is undone by the receiver (`SwapTwice`,
  `FrameFromNode`).
- `Prints` (`Spec => []PrintsBack`) and `Version4` (`Spec => []MadeIdsAreVersion4`).
  A node's id is set once, before it is opened, and is what `make` or `parse`
  returned (`MadeOnce`); the rest is said by `UuidProofs`.
- Assumption: `MeshAssumption`.

`KenoProofs` proves, for any number of startup files and lines:

- `Relays` (`Spec => []RelayedInOrder`). `ChannelProofs` is instantiated for the
  channel that `Keno` contains (`SameInit`, `SameNext`), every step of `Keno` is shown
  to be a step of it or none (`ChannelSteps`), and the server forwards no more than
  there is (`Forwarded`).
- `RunsChannel` (`Spec => C!Spec`) and `ChannelSafe`: the channel in `Keno` is one of
  `Channel`, so that every safety theorem of `ChannelProofs` holds of it. Being killed
  is, to a channel, the loss of its reader, which `Channel` allows at any time.
- `IsChild` (`Spec => ChannelIsChild`), a refinement: a step of the channel is
  `ChildWrites`, `ChildExits` or none. That it never writes more than `MaxLine`
  lines, which is the bound that `Server` knows, is `Room`.
- `ServerSafe`: with this child the server in `Keno` keeps the promise of
  `Supervisor`, and its list of hosts and its handles are in order. `ServerProofs`
  is instantiated for it (`SameServer`).
- Assumption: `KenoAssumption`.

Model-checked only:

- all liveness (it rests on fairness, which the prover does not handle):
  `StopsWithoutWork`, `ForwardedOrCut`, `WaiterWakes`, `QueuedIsWritten`,
  `EffectsEnd`, `ClosedWindowEnds`, `FadeInComes`, `RequestReleased`, `LineArrives`;
- the violations, which are single behaviours. For two of them a theorem says what
  they depend on: `StreamLivesOpen` and `ShowsInTime`.

Every safety property that a passing run checks is proved.

## 6. How to run

    tlc -config MCServer.cfg MCServer.tla
    tlapm ServerProofs.tla

`PROJECT.json` lists every run with its configuration, the definitions with the
source lines they model, the mutants, the findings and the theorems.

## 7. Plan

Done: all modules of section 2 and the proofs of section 5. What is left, in this
order:

1. `UvWriter::writeLine`: a `malloc` that fails drops the line
   (`trace.cc:222-231`), at any line and at any time, which multiplies the states of
   `Channel`; `NothingLostOrReordered` would need to name it.
2. A chunk that is part of a line: `on_read` forwards what it got, so lines of
   several channels may be torn. Today a chunk is a line.

## 8. Not modelled

- V8 and the executor's script (one fixed line of JavaScript), FreeImage, GL
  drawing, the window systems: external, seen only through their results.
- `matrix.h`, `convert.cc`: functions on floating point and text, no state.
- `stopwatch.cc` and most of `clock.cc`: commented out.
- Code without a caller: `Server::close`, `Window::fullScreen`, `Context::bind`,
  `unbind` and `finish`, `FileWriter`, `Program::build` from a stream,
  `Uuid::empty`, and `==` and `!=` of ids, which are not each other's negation
  (`core/uuid.cc:43`).
- What GL objects contain, and whether GL was able to fill them.
- `client/main.cc`: listens on a multicast group and ignores what it receives.
- `gfx/glew`: vendored, and nine tenths of the repository's lines.
- libuv's internals. In particular `uv_write` from another thread than the
  loop's (`trace.cc:236`) is modelled as if it were atomic, which libuv does not
  promise; the runs of `Channel` show what holds if it happens to be.
