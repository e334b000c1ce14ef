---------------------------- MODULE ScreenProofs ----------------------------
(***************************************************************************)
(* Theorems about Screen, for any platforms, number of startup files and   *)
(* clock.                                                                  *)
(***************************************************************************)
EXTENDS Screen, TLAPS

Shaders == {Vertex, Fragment}
OfLayers == {Texture(layers[k]) : k \in DOMAIN layers} \cup {Buffer(layers[k]) : k \in DOMAIN layers}

\* Which GL objects there are, and which of them are deleted, at each statement.
Ownership ==
    /\ at \in {"window", "context", "vertex", "unbuilt"} => objects = {} /\ marked = {}
    /\ at = "fragment" => objects = {Vertex} /\ marked = {}
    /\ at = "link" => objects = Shaders /\ marked = {}
    /\ at \in {"use", "files", "show", "loop", "closing"} => marked = Shaders
    /\ at = "use" => objects = Shaders \cup {Program}
    /\ at \in {"files", "show", "loop", "closing"}
          => objects = Shaders \cup {Program} \cup OfLayers
    /\ at \in {"leaving", "done"} => objects = Shaders \cup {Program} /\ marked = objects

\* Before the first program, nothing is a layer.
Sequenced ==
    /\ layers \in Seq(Files)
    /\ at \in {"window", "context", "vertex", "fragment", "link", "use", "unbuilt"}
          => layers = <<>>

IInv == Ownership /\ Sequenced

\* The invariant holds before the window is opened.
LEMMA InitInv == Init => IInv
  BY DEF Init, IInv, Ownership, Sequenced

\* Setting up the window and the context.
LEMMA WindowInv == IInv /\ (CreateX11 \/ CreateBcm \/ CreateWin32) => IInv'
  <1> SUFFICES ASSUME IInv, CreateX11 \/ CreateBcm \/ CreateWin32  PROVE IInv'
    OBVIOUS
  <1>1. Ownership'
    BY DEF IInv, Ownership, OfLayers, Shaders, CreateX11, CreateBcm, CreateWin32, WindowStep, gl, scene
  <1>2. Sequenced'
    BY DEF IInv, Sequenced, CreateX11, CreateBcm, CreateWin32, WindowStep, gl, scene
  <1> QED  BY <1>1, <1>2 DEF IInv

\* Creating a context preserves it, whether it fails or not.
LEMMA ContextInv == IInv /\ (CreateGlx \/ CreateEgl \/ CreateWgl) => IInv'
  <1> SUFFICES ASSUME IInv, CreateGlx \/ CreateEgl \/ CreateWgl  PROVE IInv'
    OBVIOUS
  <1>1. Ownership'
    BY DEF IInv, Ownership, OfLayers, Shaders, CreateGlx, CreateEgl, CreateWgl, ContextStep, gl, scene
  <1>2. Sequenced'
    BY DEF IInv, Sequenced, CreateGlx, CreateEgl, CreateWgl, ContextStep, gl, scene
  <1> QED  BY <1>1, <1>2 DEF IInv

\* Building the program.
LEMMA BuildInv == IInv /\ (LoadVertex \/ LoadFragment \/ Link \/ UseProgram) => IInv'
  <1> SUFFICES ASSUME IInv, LoadVertex \/ LoadFragment \/ Link \/ UseProgram  PROVE IInv'
    OBVIOUS
  <1>1. Sequenced'
    BY DEF IInv, Sequenced, LoadVertex, LoadFragment, Link, UseProgram, BuildStep, scene
  <1>2. Ownership'
    <2>1. CASE LoadVertex
      BY <2>1 DEF IInv, Ownership, LoadVertex, BuildStep, scene, gl
    <2>2. CASE LoadFragment
      BY <2>2 DEF IInv, Ownership, Shaders, LoadFragment, BuildStep, scene, gl
    <2>3. CASE Link
      BY <2>3 DEF IInv, Ownership, Shaders, Link, BuildStep, scene, gl
    <2>4. CASE UseProgram
      <3>1. at = "use" => OfLayers' = {}
        BY <2>4 DEF IInv, Sequenced, OfLayers, UseProgram, BuildStep, scene
      <3> QED  BY <2>4, <3>1 DEF IInv, Ownership, UseProgram, BuildStep, scene, gl
    <2> QED  BY <2>1, <2>2, <2>3, <2>4
  <1> QED  BY <1>1, <1>2 DEF IInv

\* A layer more has a texture and a buffer more.
LEMMA AddFileInv == ASSUME IInv, NEW f \in Files, AddFile(f)  PROVE IInv'
  <1>1. /\ at = "files" /\ at' = "files"
        /\ UNCHANGED marked
    BY DEF AddFile
  <1>2. layers \in Seq(Files)  BY DEF IInv, Sequenced
  <1>3. CASE UNCHANGED <<layers, objects>>
    BY <1>1, <1>3 DEF IInv, Ownership, OfLayers, Sequenced
  <1>4. CASE layers' = Append(layers, f) /\ objects' = objects \cup {Texture(f), Buffer(f)}
    <2>1. layers' \in Seq(Files)  BY <1>2, <1>4
    <2>2. /\ DOMAIN layers' = DOMAIN layers \cup {Len(layers) + 1}
          /\ \A k \in DOMAIN layers : layers'[k] = layers[k]
          /\ layers'[Len(layers) + 1] = f
      BY <1>2, <1>4
    <2>3. OfLayers' = OfLayers \cup {Texture(f), Buffer(f)}
      BY <2>2 DEF OfLayers
    <2>4. Ownership'  BY <1>1, <1>4, <2>3 DEF IInv, Ownership
    <2>5. Sequenced'  BY <1>1, <2>1 DEF IInv, Sequenced
    <2> QED  BY <2>4, <2>5 DEF IInv
  <1> QED  BY <1>3, <1>4 DEF AddFile

\* The rest of the set-up, and the loop, own what they find.
LEMMA LoopInv ==
    ASSUME IInv,
           ConversionFails \/ HideLayer \/ Show \/ (\E g \in 0..MaxGap : Frame(g))
              \/ UserCloses \/ Pump
    PROVE  IInv'
  <1>1. UNCHANGED <<objects, marked, layers>>
    BY DEF ConversionFails, HideLayer, Show, Frame, UserCloses, Pump, gl, scene
  <1>2. OfLayers' = OfLayers  BY <1>1 DEF OfLayers
  <1>3. \/ at = "files" /\ at' \in {"crashed", "show"}
        \/ at = "show" /\ at' = "loop"
        \/ at = "loop" /\ at' \in {"loop", "closing"}
    BY DEF ConversionFails, HideLayer, Show, Frame, UserCloses, Pump
  <1>4. Ownership'  BY <1>1, <1>2, <1>3 DEF IInv, Ownership
  <1>5. Sequenced'  BY <1>1, <1>3 DEF IInv, Sequenced
  <1> QED  BY <1>4, <1>5 DEF IInv

\* Every layer's texture and buffer goes with the compositor, nothing else does.
LEMMA ReleaseInv == IInv /\ TearDown => IInv'
  <1> DEFINE Gone == {Buffer(f) : f \in Files} \cup {Texture(f) : f \in Files}
  <1> SUFFICES ASSUME IInv, TearDown  PROVE IInv'
    OBVIOUS
  <1>1. CASE ReleaseCompositor
    <2>1. \A k \in DOMAIN layers : layers[k] \in Files
      <3>1. layers \in Seq(Files)  BY DEF IInv, Sequenced
      <3> QED  BY <3>1
    <2>2. OfLayers \subseteq Gone  BY <2>1 DEF OfLayers
    <2>3. Vertex \notin Gone /\ Fragment \notin Gone /\ Program \notin Gone
      BY DEF Vertex, Fragment, Program, Buffer, Texture
    <2>4. objects = Shaders \cup {Program} \cup OfLayers /\ marked = Shaders
      BY <1>1 DEF ReleaseCompositor, IInv, Ownership
    <2>5. /\ objects' = objects \ Gone /\ marked' = marked \cup {Program} /\ at' = "leaving"
      BY <1>1 DEF ReleaseCompositor
    <2> HIDE DEF Gone
    <2>6. objects' = Shaders \cup {Program} /\ marked' = objects'
      BY <2>2, <2>3, <2>4, <2>5 DEF Shaders
    <2>7. Ownership'  BY <2>5, <2>6 DEF Ownership
    <2>8. Sequenced'  BY <1>1 DEF IInv, Sequenced, ReleaseCompositor, scene
    <2> QED  BY <2>7, <2>8 DEF IInv
  <1>2. CASE ReleaseWindow
    <2>1. Ownership'  BY <1>2 DEF IInv, Ownership, OfLayers, ReleaseWindow, gl, scene
    <2>2. Sequenced'  BY <1>2 DEF IInv, Sequenced, ReleaseWindow, gl, scene
    <2> QED  BY <2>1, <2>2 DEF IInv
  <1> QED  BY <1>1, <1>2 DEF TearDown

\* So does every step.
LEMMA NextInv == IInv /\ [Next]_vars => IInv'
  <1> SUFFICES ASSUME IInv, [Next]_vars  PROVE IInv'
    OBVIOUS
  <1>1. CASE SetUp
    BY <1>1, WindowInv, ContextInv, BuildInv, AddFileInv, LoopInv DEF SetUp
  <1>2. CASE (\E g \in 0..MaxGap : Frame(g)) \/ UserCloses \/ Pump
    BY <1>2, LoopInv
  <1>3. CASE TearDown
    BY <1>3, ReleaseInv
  <1>4. CASE UNCHANGED vars
    <2>1. OfLayers' = OfLayers  BY <1>4 DEF OfLayers, vars
    <2> QED  BY <1>4, <2>1 DEF vars, IInv, Ownership, Sequenced
  <1> QED  BY <1>1, <1>2, <1>3, <1>4 DEF Next

\* So the invariant holds in every behaviour.
LEMMA Invariance == Spec => []IInv
  BY InitInv, NextInv, PTL DEF Spec

-----------------------------------------------------------------------------
(***************************************************************************)
(* What follows.                                                           *)
(***************************************************************************)

\* Shader::load, Program::build and their destructors delete what was made before
\* the step that failed (shader.cc); ~Compositor, ~Layer and ~Image delete every
\* GL object the channel made, those of every file the directory had (channel.cc,
\* compositor.cc, layer.cc, image.cc).
THEOREM Released == Spec => []ObjectsReleased
  <1>1. IInv => ObjectsReleased
    BY DEF IInv, Ownership, ObjectsReleased
  <1> QED  BY <1>1, Invariance, PTL

-----------------------------------------------------------------------------
(***************************************************************************)
(* Types.                                                                  *)
(***************************************************************************)

\* What does not depend on GL.
Native ==
    /\ platform \in Platforms
    /\ empty \in BOOLEAN
    /\ at \in {"window", "context", "vertex", "fragment", "link", "use", "unbuilt",
               "files", "show", "loop", "closing", "leaving", "done", "crashed"}
    /\ window \in {"none", "open", "faulty", "destroyed"}
    /\ context \in {"none", "null", "void", "current"}
    /\ files \subseteq Files
    /\ hidden \in BOOLEAN
    /\ quit \in {"none", "close", "lost"}
    /\ fx \in BOOLEAN

Clock == timer \in 0..Wrap-1 /\ now \in 0..Wrap+Cap

GlTyped == objects \subseteq Objects /\ marked \subseteq objects

\* The time of a frame, wrapped or capped.
LEMMA LaterType ==
    ASSUME Clock, NEW g \in 0..MaxGap
    PROVE  Later(g) \in 0..Wrap+Cap
  <1>1. Wrap \in Nat \ {0} /\ MaxGap \in Nat /\ Cap \in Nat
    BY ScreenAssumption DEF Cap
  <1>2. now \in Nat /\ g \in Nat /\ timer \in 0..Wrap-1
    BY <1>1 DEF Clock
  <1>3. (now + g) % Wrap \in 0..Wrap-1
    BY <1>1, <1>2
  <1> QED  BY <1>1, <1>2, <1>3 DEF Later

\* No step breaks what is said of the clock.
LEMMA ClockInv == ASSUME Clock, [Next]_vars  PROVE Clock'
  <1>1. ASSUME NEW g \in 0..MaxGap, Frame(g)  PROVE Clock'
    <2>1. now' = Later(g) /\ timer' = timer  BY <1>1 DEF Frame
    <2> QED  BY <2>1, LaterType DEF Clock
  <1>2. CASE SetUp \/ UserCloses \/ Pump \/ TearDown \/ UNCHANGED vars
    <2>1. UNCHANGED <<timer, now>>
      BY <1>2 DEF SetUp, CreateX11, CreateBcm, CreateWin32, WindowStep,
         CreateGlx, CreateEgl, CreateWgl, ContextStep, LoadVertex, LoadFragment, Link,
         UseProgram, BuildStep, AddFile, ConversionFails, HideLayer, Show, UserCloses, Pump,
         TearDown, ReleaseCompositor, ReleaseWindow, vars, time
    <2> QED  BY <2>1 DEF Clock
  <1> QED  BY <1>1, <1>2 DEF Next

\* Nor what is said of the native handles.
LEMMA NativeInv == ASSUME Native, [Next]_vars  PROVE Native'
  <1>1. CASE CreateX11 \/ CreateBcm \/ CreateWin32
    BY <1>1 DEF Native, CreateX11, CreateBcm, CreateWin32, WindowStep, scene, time
  <1>2. CASE CreateGlx \/ CreateEgl \/ CreateWgl
    BY <1>2 DEF Native, CreateGlx, CreateEgl, CreateWgl, ContextStep, scene, time
  <1>3. CASE LoadVertex \/ LoadFragment \/ Link \/ UseProgram
    BY <1>3 DEF Native, LoadVertex, LoadFragment, Link, UseProgram, BuildStep, scene, time
  <1>4. CASE (\E f \in Files : AddFile(f)) \/ ConversionFails \/ Show
    BY <1>4 DEF Native, AddFile, ConversionFails, Show, scene, time
  <1>5. CASE HideLayer
    BY <1>5 DEF Native, HideLayer, time
  <1>6. ASSUME NEW g \in 0..MaxGap, Frame(g)  PROVE Native'
    BY <1>6 DEF Native, Frame
  <1>7. CASE UserCloses \/ Pump \/ TearDown
    BY <1>7 DEF Native, UserCloses, Pump, TearDown, ReleaseCompositor, ReleaseWindow, scene, time
  <1>8. CASE UNCHANGED vars
    BY <1>8 DEF Native, vars
  <1> QED  BY <1>1, <1>2, <1>3, <1>4, <1>5, <1>6, <1>7, <1>8 DEF Next, SetUp

\* Only an object there is can be deleted.
LEMMA GlInv == ASSUME IInv, GlTyped, [Next]_vars  PROVE GlTyped'
  <1>1. ASSUME NEW f \in Files, AddFile(f)  PROVE GlTyped'
    <2>1. {Texture(f), Buffer(f)} \subseteq Objects  BY DEF Texture, Buffer, Objects
    <2> QED  BY <1>1, <2>1 DEF AddFile, GlTyped
  <1>2. CASE LoadVertex \/ LoadFragment \/ Link \/ UseProgram
    <2>1. {Vertex, Fragment, Program} \subseteq Objects  BY DEF Objects
    <2>2. CASE LoadVertex
      BY <2>1, <2>2 DEF GlTyped, LoadVertex, BuildStep, gl
    <2>3. CASE LoadFragment
      <3>1. marked = {}  BY <2>3 DEF IInv, Ownership, LoadFragment, BuildStep
      <3> QED  BY <2>1, <2>3, <3>1 DEF GlTyped, LoadFragment, BuildStep, gl
    <2>4. CASE Link
      <3>1. objects = Shaders /\ marked = {}  BY <2>4 DEF IInv, Ownership, Link, BuildStep
      <3> QED  BY <2>1, <2>4, <3>1 DEF GlTyped, Shaders, Link, BuildStep, gl
    <2>5. CASE UseProgram
      BY <2>5 DEF GlTyped, UseProgram, gl
    <2> QED  BY <1>2, <2>2, <2>3, <2>4, <2>5
  <1>3. CASE ReleaseCompositor
    <2>1. at' = "leaving" /\ objects' \subseteq objects
      BY <1>3 DEF ReleaseCompositor
    <2>2. Ownership'  BY <1>3, ReleaseInv DEF TearDown, IInv
    <2> QED  BY <2>1, <2>2 DEF GlTyped, Ownership
  <1>4. CASE \/ CreateX11 \/ CreateBcm \/ CreateWin32 \/ CreateGlx \/ CreateEgl \/ CreateWgl
             \/ ConversionFails \/ HideLayer \/ Show \/ (\E g \in 0..MaxGap : Frame(g))
             \/ UserCloses \/ Pump \/ ReleaseWindow \/ UNCHANGED vars
    <2>1. UNCHANGED gl
      BY <1>4 DEF CreateX11, CreateBcm, CreateWin32, WindowStep, CreateGlx, CreateEgl, CreateWgl,
         ContextStep, ConversionFails, HideLayer, Show, Frame, UserCloses, Pump, ReleaseWindow,
         vars, gl
    <2> QED  BY <2>1 DEF GlTyped, gl
  <1> QED  BY <1>1, <1>2, <1>3, <1>4 DEF Next, SetUp, TearDown

\* Type correctness: only an object there is gets deleted, whatever fails.
THEOREM TypeCorrect == Spec => []TypeOK
  <1>1. Init => Native /\ Clock /\ GlTyped
    <2> SUFFICES ASSUME Init  PROVE Native /\ Clock /\ GlTyped
      OBVIOUS
    <2>1. Clock
      <3>1. Wrap \in Nat \ {0} /\ Cap \in Nat  BY ScreenAssumption DEF Cap
      <3> QED  BY <3>1 DEF Init, Clock
    <2>2. files \subseteq Files
      BY ScreenAssumption DEF Init, Files
    <2> QED  BY <2>1, <2>2 DEF Init, Native, GlTyped
  <1>2. IInv /\ Native /\ Clock /\ GlTyped => TypeOK
    BY DEF IInv, Sequenced, Native, Clock, GlTyped, TypeOK
  <1>3. IInv /\ (Native /\ Clock /\ GlTyped) /\ [Next]_vars => Native' /\ Clock' /\ GlTyped'
    BY NativeInv, ClockInv, GlInv
  <1> QED  BY <1>1, <1>2, <1>3, InitInv, NextInv, PTL DEF Spec
=============================================================================
