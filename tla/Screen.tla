------------------------------- MODULE Screen -------------------------------
(***************************************************************************)
(* What Channel::run (channel.cc) acquires and releases to show pictures:  *)
(* a window (window_*.cc), a GL context (context_*.cc), the compositor's   *)
(* program (shader.cc), and per startup file an image (image.cc) and a     *)
(* layer (layer.cc).  All of it happens on the main thread.  The window    *)
(* and the context differ per platform.                                    *)
(*                                                                         *)
(* GL objects are <<kind, file>>, with file 0 where there is one only.  GL *)
(* keeps a shader that is deleted while it is attached, and a program that *)
(* is deleted while it is in use: `marked` holds the deleted ones that are *)
(* still there.  What an object contains is not modelled: glTexImage2D may *)
(* fail, which is logged only, and glBufferData, which is not looked at.   *)
(* Neither changes what is done next, or who owns the object.              *)
(***************************************************************************)
EXTENDS Integers, Sequences

CONSTANTS Platforms,  \* those built for: "x11", "raspi", "win32"
          MaxFiles,   \* bound: files in the startup directory
          Second,     \* hires_frequency()
          MaxGap,     \* longest time between two frames
          Wrap        \* hires_time() on "raspi" is modulo Wrap

Files == 1..MaxFiles

ASSUME ScreenAssumption ==
    /\ Platforms \subseteq {"x11", "raspi", "win32"}
    /\ MaxFiles \in Nat
    /\ Second \in Nat \ {0} /\ MaxGap \in Nat \ {0} /\ Wrap \in Nat \ {0}

VARIABLES
    platform,  \* where this is; never changes
    empty,     \* whether the block's width or height is 0; never changes
    at,        \* what Channel::run does next
    window,    \* the native window
    context,   \* gfx::Context: "void" is one without a current GL context
    objects,   \* the GL objects there are
    marked,    \* those of them that are deleted
    files,     \* startup files not read yet
    layers,    \* the files the compositor has layers for
    hidden,    \* whether the second layer is hidden
    quit,      \* Win32: WM_CLOSE is underway, WM_QUIT was discarded
    fx,        \* Channel::run's flag: the fade-in has been added
    timer,     \* hires_time() at the start of the loop
    now        \* hires_time() at the last frame

gl == <<objects, marked>>
scene == <<files, layers, hidden>>
time == <<fx, timer, now>>
vars == <<platform, empty, at, window, context, objects, marked, files, layers, hidden,
          quit, fx, timer, now>>

Vertex == <<"vertex", 0>>
Fragment == <<"fragment", 0>>
Program == <<"program", 0>>
Texture(f) == <<"texture", f>>
Buffer(f) == <<"buffer", f>>
Objects == {Vertex, Fragment, Program} \cup {"texture", "buffer"} \X Files

\* Elsewhere time does not wrap, but only how much has passed since the loop
\* was entered matters, and only up to the point where the fade-in is due.
Cap == 2 * Second + 1

TypeOK ==
    /\ platform \in Platforms
    /\ empty \in BOOLEAN
    /\ at \in {"window", "context", "vertex", "fragment", "link", "use", "unbuilt",
               "files", "show", "loop", "closing", "leaving", "done", "crashed"}
    /\ window \in {"none", "open", "faulty", "destroyed"}
    /\ context \in {"none", "null", "void", "current"}
    /\ objects \subseteq Objects /\ marked \subseteq objects
    /\ files \subseteq Files
    /\ layers \in Seq(Files)
    /\ hidden \in BOOLEAN
    /\ quit \in {"none", "close", "lost"}
    /\ fx \in BOOLEAN
    /\ timer \in 0..Wrap-1 /\ now \in 0..Wrap+Cap

Init ==
    /\ platform \in Platforms
    /\ empty \in BOOLEAN
    /\ at = "window" /\ window = "none" /\ context = "none"
    /\ objects = {} /\ marked = {}
    /\ files \in {1..n : n \in 0..MaxFiles} /\ layers = <<>> /\ hidden = FALSE
    /\ quit = "none"
    /\ fx = FALSE /\ timer \in 0..Wrap-1 /\ now = timer

-----------------------------------------------------------------------------
(***************************************************************************)
(* The window and the context.  A null window is dereferenced at once.     *)
(***************************************************************************)

WindowStep(w, next) ==
    /\ at = "window"
    /\ window' = w
    /\ at' = next
    /\ UNCHANGED <<platform, empty, context, gl, scene, quit, time>>

\* X11Window::create: without a display, GLX 1.3 or a configuration the
\* process crashes; a window of size 0 is an X error, which ends it.
CreateX11 ==
    /\ platform = "x11"
    /\ \/ WindowStep("none", "crashed")
       \/ ~empty /\ WindowStep("open", "context")

\* BcmWindow::create: null without a display size; a display element that could
\* not be added is logged, but used.
CreateBcm ==
    /\ platform = "raspi"
    /\ \/ WindowStep("none", "crashed")
       \/ ~empty /\ WindowStep("open", "context")
       \/ WindowStep("faulty", "context")

\* Win32Window::create: null without a window.
CreateWin32 ==
    /\ platform = "win32"
    /\ WindowStep("none", "crashed") \/ WindowStep("open", "context")

ContextStep(c, next) ==
    /\ at = "context"
    /\ context' = c
    /\ at' = next
    /\ UNCHANGED <<platform, empty, window, gl, scene, quit, time>>

\* GlxContext::create.  Binding no context is an X error; without GLEW the
\* functions of GL are null pointers.
CreateGlx ==
    /\ platform = "x11"
    /\ ContextStep("null", "crashed") \/ ContextStep("current", "vertex")

\* EglContext::create: null if any step fails, as the surface on a faulty window
\* does.  The compositor is constructed all the same.
CreateEgl ==
    /\ platform = "raspi"
    /\ \/ ContextStep("null", "vertex")
       \/ window = "open" /\ ContextStep("current", "vertex")

\* WglContext::create: null if there is no pixel format or no GLEW (and then no
\* function of GL), and a context without effect if creating it failed.
CreateWgl ==
    /\ platform = "win32"
    /\ \/ ContextStep("null", "crashed")
       \/ ContextStep("void", "vertex")
       \/ ContextStep("current", "vertex")

-----------------------------------------------------------------------------
(***************************************************************************)
(* The compositor's program.  Nothing can be created without a context.    *)
(***************************************************************************)

BuildStep(from, to) ==
    /\ at = from
    /\ at' = to
    /\ UNCHANGED <<platform, empty, window, context, scene, quit, time>>

\* Shader::load of the vertex shader; one that does not compile is deleted.
LoadVertex ==
    \/ BuildStep("vertex", "unbuilt") /\ UNCHANGED gl
    \/ /\ BuildStep("vertex", "fragment")
       /\ context = "current"
       /\ objects' = objects \cup {Vertex}
       /\ UNCHANGED marked

\* A defect for the mutation check: the vertex shader is forgotten.
LoadFragmentForgets ==
    \/ BuildStep("fragment", "unbuilt") /\ UNCHANGED gl
    \/ /\ BuildStep("fragment", "link")
       /\ objects' = objects \cup {Fragment}
       /\ UNCHANGED marked

\* The same of the fragment shader.  If it fails, ~Shader deletes the other.
LoadFragment ==
    \/ /\ BuildStep("fragment", "unbuilt")
       /\ objects' = objects \ {Vertex}
       /\ UNCHANGED marked
    \/ /\ BuildStep("fragment", "link")
       /\ objects' = objects \cup {Fragment}
       /\ UNCHANGED marked

\* A defect for the mutation check: the shaders are deleted once more after a
\* program that did not link.
LinkDeletesTwice ==
    \/ /\ BuildStep("link", "unbuilt")
       /\ objects' = {}
       /\ marked' = {Vertex, Fragment}
    \/ /\ BuildStep("link", "use")
       /\ objects' = objects \cup {Program}
       /\ marked' = {Vertex, Fragment}

\* Program::build of two shaders.  A program that does not link is deleted, and
\* the shaders with it; otherwise they are deleted, but stay attached.
Link ==
    \/ /\ BuildStep("link", "unbuilt")
       /\ objects' = {}
       /\ UNCHANGED marked
    \/ /\ BuildStep("link", "use")
       /\ objects' = objects \cup {Program}
       /\ marked' = {Vertex, Fragment}

\* The compositor's constructor dereferences the program it got.
UseProgram ==
    /\ BuildStep("use", "files") \/ BuildStep("unbuilt", "crashed")
    /\ UNCHANGED gl

-----------------------------------------------------------------------------
(***************************************************************************)
(* The startup files.                                                      *)
(***************************************************************************)

\* Image::create and addLayer.  The directory has no order; what is no image, or
\* finds no memory, is skipped.  A texture that GL could not fill is kept: its error
\* is only logged.
AddFile(f) ==
    /\ at = "files"
    /\ f \in files
    /\ files' = files \ {f}
    /\ \/ UNCHANGED <<layers, objects>>
       \/ /\ layers' = Append(layers, f)
          /\ objects' = objects \cup {Texture(f), Buffer(f)}
    /\ UNCHANGED <<platform, empty, at, window, context, marked, hidden, quit, time>>

\* FreeImage_ConvertTo32Bits returns null, and its bits are read.
ConversionFails ==
    /\ at = "files"
    /\ files # {}
    /\ at' = "crashed"
    /\ UNCHANGED <<platform, empty, window, context, gl, scene, quit, time>>

\* compositor.layer(1)->setVisible(false): null with fewer than two layers.
HideLayer ==
    /\ at = "files"
    /\ files = {}
    /\ at' = IF Len(layers) < 2 THEN "crashed" ELSE "show"
    /\ hidden' = (Len(layers) >= 2)
    /\ UNCHANGED <<platform, empty, window, context, gl, files, layers, quit, time>>

-----------------------------------------------------------------------------
(***************************************************************************)
(* The rendering loop.                                                     *)
(***************************************************************************)

\* The loop is entered: the timer is read.
Show ==
    /\ at = "show"
    /\ at' = "loop"
    /\ UNCHANGED <<platform, empty, window, context, gl, scene, quit, time>>

\* hires_time(), a time g after the last frame.
Later(g) ==
    IF platform = "raspi" THEN (now + g) % Wrap
    ELSE IF now + g > timer + Cap THEN timer + Cap ELSE now + g

\* A defect for the mutation check: the timer is restarted by every frame.
FrameRestarts(g) ==
    /\ at = "loop"
    /\ quit # "close"
    /\ now' = Later(g)
    /\ timer' = now' % Wrap
    /\ IF ~fx /\ now' - timer > 2 * Second
       THEN fx' = TRUE /\ hidden' = FALSE ELSE UNCHANGED <<fx, hidden>>
    /\ UNCHANGED <<platform, empty, at, window, context, gl, files, layers, quit>>

\* A turn of the loop.  After two seconds the fade-in is added, which shows
\* the second layer.
Frame(g) ==
    /\ at = "loop"
    /\ quit # "close"
    /\ now' = Later(g)
    /\ IF ~fx /\ now' - timer > 2 * Second
       THEN fx' = TRUE /\ hidden' = FALSE ELSE UNCHANGED <<fx, hidden>>
    /\ UNCHANGED <<platform, empty, at, window, context, gl, files, layers, quit, timer>>

\* The user closes the window, or presses Escape in it.  X11Window asks for no
\* such event and looks at none, BcmWindow has none.
UserCloses ==
    /\ platform = "win32"
    /\ at = "loop"
    /\ window = "open"
    /\ quit' = "close"
    /\ UNCHANGED <<platform, empty, at, window, context, gl, scene, time>>

\* A defect for the mutation check: nobody posts WM_QUIT.
PumpNoQuit ==
    /\ at = "loop"
    /\ quit = "close"
    /\ window' = "destroyed"
    /\ quit' = "none"
    /\ UNCHANGED <<platform, empty, at, context, gl, scene, time>>

\* Win32Window::pump dispatches WM_CLOSE, and the window is destroyed.  WM_QUIT,
\* which it posts to itself on the way, ends the loop, unless it is discarded
\* with the window.
Pump ==
    /\ at = "loop"
    /\ quit = "close"
    /\ window' = "destroyed"
    /\ \/ at' = "closing" /\ quit' = "none"
       \/ at' = "loop" /\ quit' = "lost"
    /\ UNCHANGED <<platform, empty, context, gl, scene, time>>

\* A defect for the mutation check: layers do not own their images.
ReleaseCompositorKeepsTextures ==
    /\ at = "closing"
    /\ at' = "leaving"
    /\ objects' = objects \ {Buffer(f) : f \in Files}
    /\ marked' = marked \cup {Program}
    /\ UNCHANGED <<platform, empty, window, context, scene, quit, time>>

\* The end of the block: ~Compositor releases the program, which is still in
\* use, and its layers, and with them the images.
ReleaseCompositor ==
    /\ at = "closing"
    /\ at' = "leaving"
    /\ objects' = objects \ ({Buffer(f) : f \in Files} \cup {Texture(f) : f \in Files})
    /\ marked' = marked \cup {Program}
    /\ UNCHANGED <<platform, empty, window, context, scene, quit, time>>

\* Then ~Win32Window, which finds no window, and ~WglContext, which is empty: the
\* context stays as it is to the end of the process.
ReleaseWindow ==
    /\ at = "leaving"
    /\ at' = "done"
    /\ UNCHANGED <<platform, empty, window, context, gl, scene, quit, time>>

-----------------------------------------------------------------------------
SetUp ==
    \/ CreateX11 \/ CreateBcm \/ CreateWin32
    \/ CreateGlx \/ CreateEgl \/ CreateWgl
    \/ LoadVertex \/ LoadFragment \/ Link \/ UseProgram
    \/ (\E f \in Files : AddFile(f)) \/ ConversionFails \/ HideLayer \/ Show

TearDown == ReleaseCompositor \/ ReleaseWindow

Next == SetUp \/ (\E g \in 0..MaxGap : Frame(g)) \/ UserCloses \/ Pump \/ TearDown

\* One thread, which goes on; time passes between frames.
Fairness ==
    /\ WF_vars(SetUp) /\ WF_vars(\E g \in 1..MaxGap : Frame(g))
    /\ WF_vars(Pump) /\ WF_vars(TearDown)

Spec == Init /\ [][Next]_vars
FairSpec == Spec /\ Fairness

-----------------------------------------------------------------------------
(***************************************************************************)
(* Properties.                                                             *)
(***************************************************************************)

\* If a shader does not compile or the program does not link, what was made
\* before is deleted: nothing depends on the crash that follows.  After the loop,
\* every GL object has been deleted.  Only what is still in use is left to the
\* end of the process.
ObjectsReleased ==
    /\ at = "unbuilt" => objects = {}
    /\ at = "done" => objects = marked

\* A channel whose window was closed ends, unless its WM_QUIT was discarded.
ClosedWindowEnds == window = "destroyed" ~> at = "done" \/ quit = "lost"

\* The second layer fades in, while the window is open.  On the Raspberry Pi it
\* does if the loop is not entered less than two seconds (and a frame) before
\* hires_time wraps around; otherwise the difference never gets large enough.
FadeInComes ==
    at = "loop" /\ (platform = "raspi" => timer + 2 * Second + MaxGap < Wrap)
        ~> ~hidden \/ at # "loop"
=============================================================================
