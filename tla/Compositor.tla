----------------------------- MODULE Compositor -----------------------------
(***************************************************************************)
(* The video mixer of a channel: gfx::Compositor (compositor.cc), its      *)
(* layers (layer.cc) and the fades on them (effect.cc).                    *)
(*                                                                         *)
(* Only the difference between the clock and an effect's _start matters,   *)
(* so an effect carries its age instead, in units of time that the runs    *)
(* choose.  Opacity is the code's float times Scale; Scale is a multiple   *)
(* of the square of every duration, so that the easing is exact.  Layers   *)
(* are numbered from 1 here and from 0 in the code.                        *)
(*                                                                         *)
(* process() goes through the list of effects with an iterator and erases  *)
(* from it on the way: a step for each effect.  What is abstracted is that *)
(* all effects see the same time in one frame.                             *)
(***************************************************************************)
EXTENDS Integers, SequencesExt

CONSTANTS Durations,  \* the durations addEffect maps "slow", "fast", ... to
          Scale,      \* the opacity 1.0
          MaxGap,     \* longest time between two frames
          MaxBack,    \* how far the clock may be set back, once
          MaxLayers,  \* bound: layers
          MaxAdds     \* bound: effects added

ASSUME CompositorAssumption ==
    /\ Durations \subseteq Nat \ {0}
    /\ Scale \in Nat \ {0}
    /\ \A d \in Durations : Scale % (d * d) = 0
    /\ MaxGap \in Nat \ {0} /\ MaxBack \in Nat /\ MaxLayers \in Nat /\ MaxAdds \in Nat

VARIABLES
    layers,   \* Compositor::_layers
    effects,  \* Compositor::_effects
    cursor,   \* process()'s iterator fx, at the list's end between frames
    adds,     \* effects added so far
    set       \* has the clock been set back?

vars == <<layers, effects, cursor, adds, set>>

Kinds == {"fadein", "fadeout"}

\* Every effect the compositor makes has one layer, selected by addEffect.
Effects == [kind : Kinds, layer : 1..MaxLayers, duration : Durations, age : Int]

TypeOK ==
    /\ layers \in Seq([visible : BOOLEAN, opacity : Int])
    /\ Len(layers) <= MaxLayers
    /\ effects \in Seq(Effects)
    /\ \A n \in DOMAIN effects :
          effects[n].layer \in DOMAIN layers /\ effects[n].age >= -MaxBack
    /\ Len(effects) <= adds /\ adds \in 0..MaxAdds
    /\ cursor \in 1..Len(effects)+1
    /\ set \in BOOLEAN

Init ==
    /\ layers = <<>>
    /\ effects = <<>> /\ cursor = 1
    /\ adds = 0
    /\ set = FALSE

-----------------------------------------------------------------------------
(***************************************************************************)
(* Setting the scene up, before and between the frames: one thread does    *)
(* all of this.                                                            *)
(***************************************************************************)

Idle == cursor = Len(effects) + 1

\* addLayer: a new layer is visible and opaque.
AddLayer ==
    /\ Idle
    /\ Len(layers) < MaxLayers
    /\ layers' = Append(layers, [visible |-> TRUE, opacity |-> Scale])
    /\ UNCHANGED <<effects, cursor, adds, set>>

\* Layer::setVisible(false), on a layer that exists.
Hide(n) ==
    /\ Idle
    /\ n \in DOMAIN layers
    /\ layers' = [layers EXCEPT ![n].visible = FALSE]
    /\ UNCHANGED <<effects, cursor, adds, set>>

\* The list with a new effect, and the iterator at its end again.
Push(kind, d, n) ==
    /\ adds < MaxAdds
    /\ adds' = adds + 1
    /\ effects' = Append(effects, [kind |-> kind, layer |-> n, duration |-> d, age |-> 0])
    /\ cursor' = cursor + 1

\* A defect for the mutation check: the layer is not checked.
AddEffectUnchecked(kind, d, n) ==
    /\ Idle
    /\ Push(kind, d, n)
    /\ UNCHANGED <<layers, set>>

\* addEffect on a layer that exists (otherwise it does nothing): the effect
\* selects it, and Fade::reset shows it with the opacity to begin with.
AddEffect(kind, d, n) ==
    /\ Idle
    /\ n \in DOMAIN layers
    /\ Push(kind, d, n)
    /\ layers' = [layers EXCEPT ![n] =
                    [visible |-> TRUE, opacity |-> IF kind = "fadeout" THEN Scale ELSE 0]]
    /\ UNCHANGED set

-----------------------------------------------------------------------------
(***************************************************************************)
(* A frame.                                                                *)
(***************************************************************************)

\* A defect for the mutation check: t is not divided by d first.
EasingWithoutDivision(t, d) == Scale * t * (2 - t)

\* tween::easeOutQuad: from 0 at t = 0 up to Scale at t = d, and down again.
Easing(t, d) == t * (2 * d - t) * (Scale \div (d * d))

\* The opacity Fade::animate gives to the effect's layer.
Opacity(e) ==
    IF e.kind = "fadeout" THEN Scale - Easing(e.age, e.duration) ELSE Easing(e.age, e.duration)

\* A defect for the mutation check: no effect is ever over.
GoesOnForever(e) == TRUE

\* What Fade::animate returns.
GoesOn(e) == e.age < e.duration

\* A defect for the mutation check: each frame resets the effects' _start.
AgedByFrame(g) == [n \in DOMAIN effects |-> [effects[n] EXCEPT !.age = g]]

\* The effects as they are after time g.
Aged(g) == [n \in DOMAIN effects |-> [effects[n] EXCEPT !.age = @ + g]]

\* process() begins, at time g after the last frame.
Frame(g) ==
    /\ Idle
    /\ effects' = Aged(g)
    /\ cursor' = 1
    /\ UNCHANGED <<layers, adds, set>>

\* A defect for the mutation check: the iterator is advanced after an erase,
\* too, past the effect behind the one that was erased.
AnimateUnseen ==
    /\ cursor \in DOMAIN effects
    /\ LET e == effects[cursor] IN
          /\ layers' = [layers EXCEPT ![e.layer].opacity = Opacity(e)]
          /\ effects' = IF GoesOn(e) THEN effects ELSE RemoveAt(effects, cursor)
          /\ cursor' = IF cursor <= Len(effects') THEN cursor + 1 ELSE cursor
    /\ UNCHANGED <<adds, set>>

\* The effect at the iterator animates its layer; if it is over, it is erased,
\* and the iterator is at the next one already.
Animate ==
    /\ cursor \in DOMAIN effects
    /\ LET e == effects[cursor] IN
          /\ layers' = [layers EXCEPT ![e.layer].opacity = Opacity(e)]
          /\ IF GoesOn(e) THEN effects' = effects /\ cursor' = cursor + 1
                          ELSE effects' = RemoveAt(effects, cursor) /\ cursor' = cursor
    /\ UNCHANGED <<adds, set>>

\* The clock is the time of day on Linux: someone sets it back.
SetClockBack(b) ==
    /\ ~set
    /\ set' = TRUE
    /\ effects' = Aged(-b)
    /\ UNCHANGED <<layers, cursor, adds>>

Next ==
    \/ AddLayer
    \/ \E n \in 1..MaxLayers : Hide(n)
    \/ \E kind \in Kinds, d \in Durations, n \in 1..MaxLayers : AddEffect(kind, d, n)
    \/ \E g \in 0..MaxGap : Frame(g)
    \/ Animate
    \/ \E b \in 1..MaxBack : SetClockBack(b)

\* The rendering loop never stops, and not all of its frames are at one time.
Fairness == WF_vars(Animate) /\ SF_vars(\E g \in 1..MaxGap : Frame(g))

Spec == Init /\ [][Next]_vars
FairSpec == Spec /\ Fairness

-----------------------------------------------------------------------------
(***************************************************************************)
(* Properties.                                                             *)
(***************************************************************************)

\* When process() has been through the list no effect is left in it that is
\* over, wherever in the list effects ended: the loop that erases while it
\* iterates skips none.
ExpiredRemoved == Idle => \A n \in DOMAIN effects : GoesOn(effects[n])

\* Although animate does not clamp the elapsed time, no opacity leaves the
\* range of 0 to 1, if frames are no further apart than the shortest duration
\* and until the clock is set back.
OpacityInRange ==
    (\A d \in Durations : MaxGap <= d) /\ ~set
        => \A n \in DOMAIN layers : layers[n].opacity \in 0..Scale

\* This step erases an effect, and no other is on its layer: the opacity that it
\* gives to the layer is there to stay.
Completes(e) ==
    /\ Len(effects') < Len(effects)
    /\ e = effects[cursor]
    /\ \A n \in DOMAIN effects : effects[n].layer = e.layer => n = cursor

\* A fade-in is erased in the first frame past its end, and what that frame
\* sets is final: it is opaque up to the square of the frame's share of the
\* duration.
FadeInEndsOpaque ==
    [][\A n \in DOMAIN effects : LET e == effects[n] d == e.duration IN
          Completes(e) /\ e.kind = "fadein" /\ MaxGap <= d =>
             layers'[e.layer].opacity * (d * d) >= Scale * (d * d - MaxGap * MaxGap)]_vars

\* A fade-in that is complete has made its layer visible.
CompletedFadeInShows ==
    [][\A n \in DOMAIN effects : LET e == effects[n] IN
          Completes(e) /\ e.kind = "fadein" => layers'[e.layer].opacity > 0]_vars

\* Every effect ends, if the clock is set back only once.
EffectsEnd == effects # <<>> ~> effects = <<>>
=============================================================================
