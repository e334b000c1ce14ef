-------------------------- MODULE CompositorProofs --------------------------
(***************************************************************************)
(* Theorems about Compositor, for any durations, number of layers and      *)
(* effects, and time between frames.                                       *)
(***************************************************************************)
EXTENDS Compositor, TLAPS

-----------------------------------------------------------------------------
(***************************************************************************)
(* Arithmetic.                                                             *)
(***************************************************************************)

\* A product of naturals is one.
LEMMA Product == ASSUME NEW a \in Nat, NEW b \in Nat  PROVE a * b \in Nat
  OBVIOUS

\* Multiplying by a natural keeps the order.
LEMMA Monotone ==
    ASSUME NEW a \in Int, NEW b \in Int, a <= b, NEW k \in Nat
    PROVE  a * k <= b * k
  <1> DEFINE c == b - a
  <1>1. c \in Nat /\ b = a + c  OBVIOUS
  <1> HIDE DEF c
  <1>2. c * k \in Nat  BY <1>1, Product
  <1>3. (a + c) * k = a * k + c * k  BY <1>1
  <1> QED  BY <1>1, <1>2, <1>3

\* Scale is a multiple of the square of a duration.
LEMMA Unit ==
    ASSUME NEW q \in Nat \ {0}, NEW s \in Nat, s % q = 0
    PROVE  s \div q \in Nat /\ q * (s \div q) = s
  OBVIOUS

\* The easing runs from 0 to Scale and back to 0 while t goes from 0 to 2 * d.
LEMMA EasingRange ==
    ASSUME NEW d \in Durations, NEW t \in 0..2*d
    PROVE  Easing(t, d) \in 0..Scale
  <1> DEFINE q == d * d
             k == Scale \div q
             a == t * (2 * d - t)
             r == (d - t) * (d - t)
  <1>1. d \in Nat \ {0} /\ Scale \in Nat \ {0} /\ Scale % q = 0
    BY CompositorAssumption
  <1>2. q \in Nat \ {0}  BY <1>1, Product
  <1>3. k \in Nat /\ q * k = Scale
    <2> HIDE DEF q
    <2> QED  BY <1>1, <1>2, Unit
  <1>4. a \in Nat
    <2>1. t \in Nat /\ 2 * d - t \in Nat  BY <1>1
    <2> QED  BY <2>1, Product
  <1>5. r \in Nat
    <2>1. CASE d - t >= 0  BY <1>1, <2>1, Product
    <2>2. CASE t - d >= 0
      <3>1. r = (t - d) * (t - d)  BY <1>1
      <3>2. t - d \in Nat  BY <1>1, <2>2
      <3> QED  BY <3>1, <3>2, Product
    <2> QED  BY <1>1, <2>1, <2>2
  <1>6. a + r = q
    BY <1>1
  <1>7. Easing(t, d) = a * k
    BY DEF Easing
  <1> HIDE DEF q, k, a, r
  <1>8. a * k \in Nat  BY <1>3, <1>4, Product
  <1>9. a * k <= q * k  BY <1>2, <1>3, <1>4, <1>5, <1>6, Monotone
  <1> QED  BY <1>1, <1>3, <1>7, <1>8, <1>9

\* A time x past its end, the easing has lost the square of x / d.
LEMMA EasingPastEnd ==
    ASSUME NEW d \in Durations, NEW t \in Nat, NEW x \in Nat, t = d + x, x <= MaxGap
    PROVE  Easing(t, d) * (d * d) >= Scale * (d * d - MaxGap * MaxGap)
  <1> DEFINE q == d * d
             k == Scale \div q
             y == x * x
             z == MaxGap * MaxGap
  <1>1. d \in Nat \ {0} /\ Scale \in Nat \ {0} /\ Scale % q = 0 /\ MaxGap \in Nat
    BY CompositorAssumption
  <1>2. q \in Nat \ {0} /\ y \in Nat /\ z \in Nat  BY <1>1, Product
  <1>3. k \in Nat /\ q * k = Scale
    <2> HIDE DEF q
    <2> QED  BY <1>1, <1>2, Unit
  <1>4. y <= z
    <2>1. x * x <= MaxGap * x /\ x * MaxGap <= MaxGap * MaxGap  BY <1>1, Monotone
    <2>2. MaxGap * x = x * MaxGap  BY <1>1
    <2>3. x * x \in Nat /\ x * MaxGap \in Nat /\ MaxGap * MaxGap \in Nat  BY <1>1, Product
    <2> QED  BY <2>1, <2>2, <2>3
  <1>5. t * (2 * d - t) = q - y
    BY <1>1
  <1>6. Easing(t, d) = (q - y) * k
    BY <1>5 DEF Easing
  <1> HIDE DEF q, k, y, z
  <1>7. Scale * (q - z) = (q - z) * (k * q)
    BY <1>2, <1>3
  <1>8. k * q \in Nat  BY <1>2, <1>3, Product
  <1>9. (q - z) * (k * q) <= (q - y) * (k * q)
    BY <1>2, <1>4, <1>8, Monotone
  <1>10. ((q - y) * k) * q = (q - y) * (k * q)
    BY <1>2, <1>3
  <1>11. Easing(t, d) * q >= Scale * (q - z)
    <2>1. (q - y) * (k * q) \in Int /\ (q - z) * (k * q) \in Int
      BY <1>2, <1>8
    <2> QED  BY <1>6, <1>7, <1>9, <1>10, <2>1
  <1> QED  BY <1>11 DEF q, z

-----------------------------------------------------------------------------
(***************************************************************************)
(* The inductive invariant.                                                *)
(***************************************************************************)

Layer == [visible : BOOLEAN, opacity : Int]
AllShort == \A d \in Durations : MaxGap <= d

\* Unless the clock was set back, no effect began in the future.
Begun == ~set => \A n \in DOMAIN effects : effects[n].age >= 0

\* The effects the iterator has passed go on, and those before it ended in this
\* frame at the earliest.
Passed ==
    \A n \in DOMAIN effects :
        /\ n < cursor => GoesOn(effects[n])
        /\ effects[n].age < effects[n].duration + MaxGap

IInv == TypeOK /\ Begun /\ Passed /\ OpacityInRange

\* What the invariant says of the effects and of the layers, taken apart.
EffectsOK(es, ls) ==
    /\ es \in Seq(Effects)
    /\ \A n \in DOMAIN es : es[n].layer \in DOMAIN ls /\ es[n].age >= -MaxBack

LayersOK(ls) == ls \in Seq(Layer) /\ Len(ls) <= MaxLayers

Counted(es, c, a) == Len(es) <= a /\ a \in 0..MaxAdds /\ c \in 1..Len(es)+1

\* What the type invariant says, one variable at a time.
LEMMA TypeParts ==
    TypeOK <=> /\ LayersOK(layers) /\ EffectsOK(effects, layers)
               /\ Counted(effects, cursor, adds) /\ set \in BOOLEAN
  BY DEF TypeOK, LayersOK, EffectsOK, Counted, Layer

\* What an effect consists of.
LEMMA EffectParts ==
    ASSUME NEW e \in Effects
    PROVE  /\ e.duration \in Durations /\ e.duration \in Nat \ {0} /\ e.age \in Int
           /\ e.layer \in 1..MaxLayers
  BY CompositorAssumption DEF Effects

\* The opacity that an effect gives to its layer.
LEMMA OpacityRange ==
    ASSUME NEW e \in Effects
    PROVE  /\ Opacity(e) \in Int
           /\ e.age \in 0..2*e.duration => Opacity(e) \in 0..Scale
  <1>1. e.duration \in Durations /\ e.duration \in Nat \ {0} /\ Scale \in Nat \ {0} /\ e.age \in Int
    BY CompositorAssumption DEF Effects
  <1>2. Easing(e.age, e.duration) \in Int
    <2>1. e.duration * e.duration \in Nat \ {0}  BY <1>1, Product
    <2>2. Scale \div (e.duration * e.duration) \in Int  BY <1>1, <2>1
    <2>3. e.age * (2 * e.duration - e.age) \in Int  BY <1>1
    <2> QED  BY <2>2, <2>3 DEF Easing
  <1>3. e.age \in 0..2*e.duration => Easing(e.age, e.duration) \in 0..Scale
    BY <1>1, EasingRange
  <1> QED  BY <1>1, <1>2, <1>3 DEF Opacity

\* The invariant holds of a compositor without layers.
LEMMA InitInv == Init => IInv
  <1> SUFFICES ASSUME Init  PROVE IInv
    OBVIOUS
  <1>1. layers = <<>> /\ effects = <<>> /\ cursor = 1 /\ adds = 0 /\ set = FALSE  BY DEF Init
  <1>2. Len(layers) = 0 /\ DOMAIN layers = {} /\ Len(effects) = 0 /\ DOMAIN effects = {}
    BY <1>1
  <1>3. MaxLayers \in Nat /\ MaxAdds \in Nat  BY CompositorAssumption
  <1>4. LayersOK(layers)
    <2>1. layers \in Seq(Layer)  BY <1>1
    <2> QED  BY <1>2, <1>3, <2>1 DEF LayersOK
  <1>5. EffectsOK(effects, layers)
    <2>1. effects \in Seq(Effects)  BY <1>1
    <2> QED  BY <1>2, <2>1 DEF EffectsOK
  <1>6. Counted(effects, cursor, adds) /\ set \in BOOLEAN
    <2>1. cursor \in 1..Len(effects)+1  BY <1>1, <1>2
    <2>2. adds \in 0..MaxAdds /\ Len(effects) <= adds
      <3>1. 0 \in 0..MaxAdds  BY <1>3
      <3>2. adds = 0 /\ Len(effects) = 0  BY <1>1, <1>2
      <3> QED  BY <3>1, <3>2
    <2>3. set \in BOOLEAN  BY <1>1
    <2> QED  BY <2>1, <2>2, <2>3 DEF Counted
  <1>7. Begun /\ Passed /\ OpacityInRange
    BY <1>2 DEF Begun, Passed, OpacityInRange
  <1> QED  BY <1>4, <1>5, <1>6, <1>7, TypeParts DEF IInv

\* Two layer lists that agree in length and opacities.
LEMMA SameOpacities ==
    ASSUME OpacityInRange, set' = set, DOMAIN layers' = DOMAIN layers,
           \A n \in DOMAIN layers : layers'[n].opacity = layers[n].opacity
    PROVE  OpacityInRange'
  BY DEF OpacityInRange

\* The effects keep what the invariant says of them when they do not change.
LEMMA SameEffects ==
    ASSUME IInv, UNCHANGED <<effects, cursor, adds, set>>, DOMAIN layers \subseteq DOMAIN layers'
    PROVE  EffectsOK(effects', layers') /\ Counted(effects', cursor', adds') /\ set' \in BOOLEAN
           /\ Begun' /\ Passed'
  <1>1. Begun' /\ Passed'
    BY DEF IInv, Begun, Passed, GoesOn
  <1> QED  BY <1>1, TypeParts DEF IInv, EffectsOK

\* A new layer is opaque, and leaves the others as they are.
LEMMA AddLayerInv == IInv /\ AddLayer => IInv'
  <1> SUFFICES ASSUME IInv, AddLayer  PROVE IInv'
    OBVIOUS
  <1>1. LayersOK(layers)  BY TypeParts DEF IInv
  <1> DEFINE new == [visible |-> TRUE, opacity |-> Scale]
  <1>3. /\ Len(layers) < MaxLayers /\ layers' = Append(layers, new)
        /\ UNCHANGED <<effects, cursor, adds, set>>
    BY DEF AddLayer
  <1>4. Scale \in Nat /\ MaxLayers \in Nat  BY CompositorAssumption
  <1>5. new \in Layer /\ new.opacity = Scale  BY <1>4 DEF Layer
  <1> HIDE DEF new
  <1>6. layers \in Seq(Layer)  BY <1>1 DEF LayersOK
  <1>7. /\ layers' \in Seq(Layer) /\ Len(layers') = Len(layers) + 1
        /\ DOMAIN layers' = DOMAIN layers \cup {Len(layers) + 1}
        /\ \A n \in DOMAIN layers : layers'[n] = layers[n]
        /\ layers'[Len(layers) + 1] = new
    BY <1>3, <1>5, <1>6
  <1>8. LayersOK(layers')
    <2>1. Len(layers) \in Nat  BY <1>6
    <2> QED  BY <1>3, <1>4, <1>7, <2>1 DEF LayersOK
  <1>9. OpacityInRange'
    <2>1. OpacityInRange  BY DEF IInv
    <2> QED  BY <1>3, <1>4, <1>5, <1>7, <2>1 DEF OpacityInRange
  <1>20. TypeOK'
    BY <1>3, <1>7, <1>8, <1>9, SameEffects DEF TypeOK, LayersOK, EffectsOK, Counted, Layer
  <1> QED  BY <1>3, <1>7, <1>8, <1>9, SameEffects, <1>20 DEF IInv

\* Hiding a layer preserves the invariant.
LEMMA HideInv == ASSUME IInv, NEW n \in 1..MaxLayers, Hide(n)  PROVE IInv'
  <1>1. LayersOK(layers)  BY TypeParts DEF IInv
  <1>3. n \in DOMAIN layers /\ UNCHANGED <<effects, cursor, adds, set>>
    BY DEF Hide
  <1>5. layers \in Seq(Layer)  BY <1>1 DEF LayersOK
  <1>6. layers[n] \in Layer  BY <1>3, <1>5
  <1> DEFINE new == [layers[n] EXCEPT !.visible = FALSE]
  <1>7. new \in Layer /\ new.opacity = layers[n].opacity  BY <1>6 DEF Layer
  <1>8. layers' = [layers EXCEPT ![n] = new]  BY DEF Hide
  <1> HIDE DEF new
  <1>9. /\ layers' \in Seq(Layer) /\ Len(layers') = Len(layers) /\ DOMAIN layers' = DOMAIN layers
        /\ \A m \in DOMAIN layers : layers'[m].opacity = layers[m].opacity
    <2>1. /\ layers' \in Seq(Layer) /\ Len(layers') = Len(layers) /\ DOMAIN layers' = DOMAIN layers
          /\ \A m \in DOMAIN layers : layers'[m] = IF m = n THEN new ELSE layers[m]
      BY <1>3, <1>5, <1>7, <1>8
    <2> QED  BY <1>7, <2>1
  <1>10. LayersOK(layers')  BY <1>1, <1>9 DEF LayersOK
  <1>11. OpacityInRange'
    BY <1>3, <1>9, SameOpacities DEF IInv
  <1>20. TypeOK'
    BY <1>3, <1>9, <1>10, <1>11, SameEffects DEF TypeOK, LayersOK, EffectsOK, Counted, Layer
  <1> QED  BY <1>3, <1>9, <1>10, <1>11, SameEffects, <1>20 DEF IInv

\* A new effect has its whole duration before it.
LEMMA AddEffectInv ==
    ASSUME IInv, NEW kind \in Kinds, NEW d \in Durations, NEW n \in 1..MaxLayers,
           AddEffect(kind, d, n)
    PROVE  IInv'
  <1>1. /\ LayersOK(layers) /\ EffectsOK(effects, layers)
        /\ Counted(effects, cursor, adds) /\ set \in BOOLEAN
    BY TypeParts DEF IInv
  <1>2. Begun /\ Passed /\ OpacityInRange  BY DEF IInv
  <1> DEFINE e == [kind |-> kind, layer |-> n, duration |-> d, age |-> 0]
             new == [visible |-> TRUE, opacity |-> IF kind = "fadeout" THEN Scale ELSE 0]
  <1>3. /\ n \in DOMAIN layers /\ effects' = Append(effects, e) /\ layers' = [layers EXCEPT ![n] = new]
        /\ adds < MaxAdds /\ adds' = adds + 1 /\ cursor = Len(effects) + 1 /\ cursor' = cursor + 1
    BY DEF AddEffect, Push, Idle
  <1>4. set' = set  BY DEF AddEffect
  <1>5. d \in Nat \ {0} /\ Scale \in Nat /\ MaxAdds \in Nat /\ MaxBack \in Nat /\ MaxGap \in Nat
    BY CompositorAssumption
  <1>6. e \in Effects /\ e.layer = n /\ e.duration = d /\ e.age = 0
    BY DEF Effects
  <1>7. new \in Layer /\ new.opacity \in 0..Scale  BY <1>5 DEF Layer
  <1> HIDE DEF e, new
  <1>8. layers \in Seq(Layer) /\ effects \in Seq(Effects) /\ Len(effects) \in Nat
    BY <1>1 DEF LayersOK, EffectsOK
  <1>9. /\ layers' \in Seq(Layer) /\ Len(layers') = Len(layers) /\ DOMAIN layers' = DOMAIN layers
        /\ \A m \in DOMAIN layers : layers'[m] = IF m = n THEN new ELSE layers[m]
    BY <1>3, <1>7, <1>8
  <1>10. /\ effects' \in Seq(Effects) /\ Len(effects') = Len(effects) + 1
         /\ DOMAIN effects' = DOMAIN effects \cup {Len(effects) + 1}
         /\ \A m \in DOMAIN effects : effects'[m] = effects[m]
         /\ effects'[Len(effects) + 1] = e
    BY <1>3, <1>6, <1>8
  <1>11. LayersOK(layers')  BY <1>1, <1>9 DEF LayersOK
  <1>12. EffectsOK(effects', layers')
    BY <1>1, <1>3, <1>5, <1>6, <1>9, <1>10 DEF EffectsOK
  <1>13. Counted(effects', cursor', adds')
    BY <1>1, <1>3, <1>5, <1>8, <1>10 DEF Counted
  <1>14. Begun'
    BY <1>2, <1>4, <1>6, <1>10 DEF Begun
  <1>15. Passed'
    <2>1. \A m \in DOMAIN effects : m < cursor
      BY <1>3, <1>8
    <2>2. \A m \in DOMAIN effects : GoesOn(effects'[m]) /\ effects'[m].age < effects'[m].duration + MaxGap
      BY <1>2, <1>10, <2>1 DEF Passed
    <2>3. GoesOn(effects'[Len(effects) + 1])
          /\ effects'[Len(effects) + 1].age < effects'[Len(effects) + 1].duration + MaxGap
      BY <1>5, <1>6, <1>10 DEF GoesOn
    <2> QED  BY <1>10, <2>2, <2>3 DEF Passed, GoesOn
  <1>16. OpacityInRange'
    BY <1>2, <1>4, <1>7, <1>9 DEF OpacityInRange
  <1>20. TypeOK'
    BY <1>1, <1>4, <1>11, <1>12, <1>13, <1>14, <1>15, <1>16 DEF TypeOK, LayersOK, EffectsOK, Counted, Layer
  <1> QED  BY <1>1, <1>4, <1>11, <1>12, <1>13, <1>14, <1>15, <1>16, <1>20 DEF IInv

\* Time passing, or the clock set back, leaves an effect all but its age.
LEMMA AgedIsEffects ==
    ASSUME effects \in Seq(Effects), NEW g \in Int
    PROVE  /\ Aged(g) \in Seq(Effects) /\ Len(Aged(g)) = Len(effects)
           /\ DOMAIN Aged(g) = DOMAIN effects
           /\ \A n \in DOMAIN effects :
                 /\ Aged(g)[n].layer = effects[n].layer
                 /\ Aged(g)[n].duration = effects[n].duration
                 /\ Aged(g)[n].age = effects[n].age + g
  <1> DEFINE Older(n) == [effects[n] EXCEPT !.age = @ + g]
  <1>1. ASSUME NEW n \in DOMAIN effects
        PROVE  /\ Older(n) \in Effects /\ Older(n).layer = effects[n].layer
               /\ Older(n).duration = effects[n].duration /\ Older(n).age = effects[n].age + g
    <2>1. effects[n] \in Effects  OBVIOUS
    <2> QED  BY <2>1 DEF Effects
  <1>2. Aged(g) = [n \in DOMAIN effects |-> Older(n)]
    BY DEF Aged
  <1> HIDE DEF Older
  <1>3. DOMAIN effects = 1..Len(effects) /\ Len(effects) \in Nat
    OBVIOUS
  <1>4. Aged(g) \in [1..Len(effects) -> Effects]
    BY <1>1, <1>2, <1>3
  <1>5. Aged(g) \in Seq(Effects) /\ Len(Aged(g)) = Len(effects)
    BY <1>3, <1>4
  <1> QED  BY <1>1, <1>2, <1>5

\* A frame finds no effect further past its end than the frame is long.
LEMMA FrameInv == ASSUME IInv, NEW g \in 0..MaxGap, Frame(g)  PROVE IInv'
  <1>1. /\ LayersOK(layers) /\ EffectsOK(effects, layers)
        /\ Counted(effects, cursor, adds) /\ set \in BOOLEAN
    BY TypeParts DEF IInv
  <1>2. Begun /\ Passed /\ OpacityInRange  BY DEF IInv
  <1>3. /\ cursor = Len(effects) + 1 /\ effects' = Aged(g) /\ cursor' = 1
        /\ UNCHANGED <<layers, adds, set>>
    BY DEF Frame, Idle
  <1>4. g \in Nat /\ g <= MaxGap /\ MaxGap \in Nat /\ MaxBack \in Nat
    BY CompositorAssumption
  <1>5. effects \in Seq(Effects) /\ Len(effects) \in Nat /\ DOMAIN effects = 1..Len(effects)
    BY <1>1 DEF EffectsOK
  <1>6. /\ effects' \in Seq(Effects) /\ Len(effects') = Len(effects) /\ DOMAIN effects' = DOMAIN effects
        /\ \A n \in DOMAIN effects :
              /\ effects'[n].layer = effects[n].layer
              /\ effects'[n].duration = effects[n].duration
              /\ effects'[n].age = effects[n].age + g
    BY <1>3, <1>4, <1>5, AgedIsEffects
  <1>7. ASSUME NEW n \in DOMAIN effects
        PROVE  /\ effects[n].age \in Int /\ effects[n].duration \in Nat
               /\ effects[n].age < effects[n].duration /\ effects[n].age >= -MaxBack
    <2>1. effects[n] \in Effects  BY <1>5
    <2>2. GoesOn(effects[n])  BY <1>2, <1>3, <1>5 DEF Passed
    <2>3. effects[n].age >= -MaxBack  BY <1>1 DEF EffectsOK
    <2> QED  BY <2>1, <2>2, <2>3, EffectParts DEF GoesOn
  <1>8. EffectsOK(effects', layers')
    BY <1>1, <1>3, <1>4, <1>6, <1>7 DEF EffectsOK
  <1>9. Counted(effects', cursor', adds')
    BY <1>1, <1>3, <1>5, <1>6 DEF Counted
  <1>10. Begun'
    BY <1>2, <1>3, <1>4, <1>6, <1>7 DEF Begun
  <1>11. Passed'
    <2>1. \A n \in DOMAIN effects' : ~(n < cursor')
      BY <1>3, <1>5, <1>6
    <2>2. \A n \in DOMAIN effects' : effects'[n].age < effects'[n].duration + MaxGap
      BY <1>4, <1>6, <1>7
    <2> QED  BY <2>1, <2>2 DEF Passed
  <1>12. LayersOK(layers') /\ set' \in BOOLEAN /\ OpacityInRange'
    BY <1>1, <1>2, <1>3 DEF OpacityInRange
  <1>20. TypeOK'
    BY <1>8, <1>9, <1>10, <1>11, <1>12 DEF TypeOK, LayersOK, EffectsOK, Counted, Layer
  <1> QED  BY <1>8, <1>9, <1>10, <1>11, <1>12, <1>20 DEF IInv

\* The list without one of its members.
LEMMA Erased ==
    ASSUME NEW S, NEW s \in Seq(S), NEW i \in DOMAIN s
    PROVE  /\ RemoveAt(s, i) \in Seq(S) /\ Len(RemoveAt(s, i)) = Len(s) - 1
           /\ DOMAIN RemoveAt(s, i) = 1..Len(s)-1
           /\ \A n \in 1..Len(s)-1 :
                 RemoveAt(s, i)[n] = IF n < i THEN s[n] ELSE s[n+1]
  <1>1. i \in 1..Len(s) /\ Len(s) \in Nat
    OBVIOUS
  <1> DEFINE a == SubSeq(s, 1, i-1)
             b == SubSeq(s, i+1, Len(s))
  <1>2. a \in Seq(S) /\ Len(a) = i - 1 /\ \A n \in 1..i-1 : a[n] = s[n]
    BY <1>1
  <1>3. b \in Seq(S) /\ Len(b) = Len(s) - i /\ \A n \in 1..Len(s)-i : b[n] = s[i + n]
    BY <1>1
  <1>4. RemoveAt(s, i) = a \o b
    BY DEF RemoveAt
  <1> HIDE DEF a, b
  <1>5. a \o b \in Seq(S) /\ Len(a \o b) = Len(s) - 1
    BY <1>1, <1>2, <1>3
  <1>6. ASSUME NEW n \in 1..Len(s)-1
        PROVE  (a \o b)[n] = IF n < i THEN s[n] ELSE s[n+1]
    <2>1. CASE n < i
      BY <1>1, <1>2, <1>3, <1>6, <2>1
    <2>2. CASE ~(n < i)
      <3>1. n - (i - 1) \in 1..Len(s)-i /\ i + (n - (i - 1)) = n + 1
        BY <1>1, <2>2
      <3>2. (a \o b)[n] = b[n - (i - 1)]
        BY <1>1, <1>2, <1>3, <2>2
      <3> QED  BY <1>3, <2>2, <3>1, <3>2
    <2> QED  BY <2>1, <2>2
  <1> QED  BY <1>4, <1>5, <1>6

\* What Animate does to the list: it erases the effect at the iterator, or passes it.
LEMMA AnimateEffects ==
    ASSUME IInv, Animate
    PROVE  /\ cursor \in DOMAIN effects /\ cursor \in Nat \ {0}
           /\ effects' \in Seq(Effects) /\ Len(effects') <= Len(effects)
           /\ cursor' \in 1..Len(effects')+1
           /\ \A n \in DOMAIN effects' : \E m \in DOMAIN effects :
                 /\ effects'[n] = effects[m]
                 /\ n < cursor' => m < cursor \/ (m = cursor /\ GoesOn(effects[m]))
           /\ Len(effects') < Len(effects) => ~GoesOn(effects[cursor])
  <1>1. EffectsOK(effects, layers) /\ Counted(effects, cursor, adds)
    BY TypeParts DEF IInv
  <1>2. /\ effects \in Seq(Effects) /\ Len(effects) \in Nat /\ DOMAIN effects = 1..Len(effects)
    BY <1>1 DEF EffectsOK
  <1>3. cursor \in DOMAIN effects /\ cursor \in Nat \ {0}
    BY <1>2 DEF Animate
  <1>4. CASE GoesOn(effects[cursor])
    <2>1. effects' = effects /\ cursor' = cursor + 1
      BY <1>4 DEF Animate
    <2>2. \A n \in DOMAIN effects : n < cursor' => n < cursor \/ n = cursor
      BY <1>2, <1>3, <2>1
    <2> QED  BY <1>2, <1>3, <1>4, <2>1, <2>2
  <1>5. CASE ~GoesOn(effects[cursor])
    <2>1. effects' = RemoveAt(effects, cursor) /\ cursor' = cursor
      BY <1>5 DEF Animate
    <2>2. /\ effects' \in Seq(Effects) /\ Len(effects') = Len(effects) - 1
          /\ DOMAIN effects' = 1..Len(effects)-1
          /\ \A n \in 1..Len(effects)-1 :
                effects'[n] = IF n < cursor THEN effects[n] ELSE effects[n+1]
      BY <1>2, <1>3, <2>1, Erased
    <2>3. ASSUME NEW n \in DOMAIN effects'
          PROVE  \E m \in DOMAIN effects :
                    effects'[n] = effects[m] /\ (n < cursor' => m < cursor)
      <3>1. n \in 1..Len(effects)-1
        BY <2>2
      <3>2. CASE n < cursor
        <4>1. n \in DOMAIN effects /\ effects'[n] = effects[n]
          BY <1>2, <2>2, <3>1, <3>2
        <4> QED  BY <3>2, <4>1
      <3>3. CASE ~(n < cursor)
        <4>1. n+1 \in DOMAIN effects /\ effects'[n] = effects[n+1]
          BY <1>2, <2>2, <3>1, <3>3
        <4> QED  BY <2>1, <3>3, <4>1
      <3> QED  BY <3>2, <3>3
    <2>4. cursor' \in 1..Len(effects')+1
      BY <1>2, <1>3, <2>1, <2>2
    <2> QED  BY <1>2, <1>3, <1>5, <2>2, <2>3, <2>4
  <1> QED  BY <1>4, <1>5

\* What Animate does to the layers.
LEMMA AnimateLayers ==
    ASSUME IInv, Animate
    PROVE  LET e == effects[cursor] IN
           /\ e \in Effects /\ e.layer \in DOMAIN layers
           /\ LayersOK(layers') /\ DOMAIN layers' = DOMAIN layers
           /\ layers'[e.layer].opacity = Opacity(e)
           /\ \A n \in DOMAIN layers : n # e.layer => layers'[n] = layers[n]
  <1> DEFINE e == effects[cursor]
  <1>1. LayersOK(layers) /\ EffectsOK(effects, layers)
    BY TypeParts DEF IInv
  <1>2. e \in Effects /\ e.layer \in DOMAIN layers /\ layers \in Seq(Layer)
    <2>1. cursor \in DOMAIN effects  BY DEF Animate
    <2> QED  BY <1>1, <2>1 DEF EffectsOK, LayersOK
  <1>3. layers' = [layers EXCEPT ![e.layer].opacity = Opacity(e)]
    BY DEF Animate
  <1> DEFINE n == e.layer
             new == [layers[n] EXCEPT !.opacity = Opacity(e)]
  <1>4. layers[n] \in Layer  BY <1>2
  <1>5. Opacity(e) \in Int  BY <1>2, OpacityRange
  <1>6. new \in Layer /\ new.opacity = Opacity(e)
    BY <1>4, <1>5 DEF Layer
  <1>7. layers' = [layers EXCEPT ![n] = new]
    BY <1>3
  <1> HIDE DEF new, n
  <1>8. /\ layers' \in Seq(Layer) /\ Len(layers') = Len(layers) /\ DOMAIN layers' = DOMAIN layers
        /\ \A m \in DOMAIN layers : layers'[m] = IF m = n THEN new ELSE layers[m]
    BY <1>2, <1>6, <1>7 DEF n
  <1> QED  BY <1>1, <1>2, <1>6, <1>8 DEF LayersOK, n

\* An effect at the iterator sets an opacity in range as long as it is not further
\* past its end than the length of a frame.
LEMMA AnimateInv == ASSUME IInv, Animate  PROVE IInv'
  <1>1. /\ EffectsOK(effects, layers) /\ Counted(effects, cursor, adds) /\ set \in BOOLEAN
    BY TypeParts DEF IInv
  <1>2. Begun /\ Passed /\ OpacityInRange  BY DEF IInv
  <1>3. adds' = adds /\ set' = set  BY DEF Animate
  <1>4. /\ effects' \in Seq(Effects) /\ Len(effects') <= Len(effects) /\ cursor' \in 1..Len(effects')+1
        /\ \A n \in DOMAIN effects' : \E m \in DOMAIN effects :
              /\ effects'[n] = effects[m]
              /\ n < cursor' => m < cursor \/ (m = cursor /\ GoesOn(effects[m]))
    BY AnimateEffects
  <1>5. LayersOK(layers') /\ DOMAIN layers' = DOMAIN layers
    BY AnimateLayers
  <1>6. EffectsOK(effects', layers')
    BY <1>1, <1>4, <1>5 DEF EffectsOK
  <1>7. Counted(effects', cursor', adds')
    <2>1. Len(effects') \in Nat /\ Len(effects) \in Nat  BY <1>1, <1>4 DEF EffectsOK
    <2> QED  BY <1>1, <1>3, <1>4, <2>1 DEF Counted
  <1>8. Begun'
    BY <1>2, <1>3, <1>4 DEF Begun
  <1>9. Passed'
    <2> SUFFICES ASSUME NEW n \in DOMAIN effects'
                 PROVE  /\ n < cursor' => GoesOn(effects'[n])
                        /\ effects'[n].age < effects'[n].duration + MaxGap
      BY DEF Passed, GoesOn
    <2>1. PICK m \in DOMAIN effects :
              /\ effects'[n] = effects[m]
              /\ n < cursor' => m < cursor \/ (m = cursor /\ GoesOn(effects[m]))
      BY <1>4
    <2> QED  BY <1>2, <2>1 DEF Passed
  <1>10. OpacityInRange'
    <2> DEFINE e == effects[cursor]
    <2>1. /\ e \in Effects /\ layers'[e.layer].opacity = Opacity(e)
          /\ \A n \in DOMAIN layers : n # e.layer => layers'[n] = layers[n]
      BY AnimateLayers
    <2>2. ASSUME AllShort, ~set  PROVE Opacity(e) \in 0..Scale
      <3>1. cursor \in DOMAIN effects  BY DEF Animate
      <3>2. e.age >= 0 /\ e.age < e.duration + MaxGap
        BY <1>2, <2>2, <3>1 DEF Begun, Passed
      <3>3. e.duration \in Nat /\ e.age \in Int /\ MaxGap \in Nat /\ MaxGap <= e.duration
        BY <2>1, <2>2, EffectParts, CompositorAssumption DEF AllShort
      <3> HIDE DEF e
      <3>4. e.age \in 0..2*e.duration
        BY <3>2, <3>3
      <3> QED  BY <2>1, <3>4, OpacityRange
    <2> HIDE DEF e
    <2> QED  BY <1>2, <1>3, <1>5, <2>1, <2>2 DEF OpacityInRange, AllShort
  <1>20. TypeOK'
    BY <1>1, <1>3, <1>5, <1>6, <1>7, <1>8, <1>9, <1>10 DEF TypeOK, LayersOK, EffectsOK, Counted, Layer
  <1> QED  BY <1>1, <1>3, <1>5, <1>6, <1>7, <1>8, <1>9, <1>10, <1>20 DEF IInv

\* Setting the clock back takes age from the effects.
LEMMA SetClockBackInv == ASSUME IInv, NEW b \in 1..MaxBack, SetClockBack(b)  PROVE IInv'
  <1>1. /\ LayersOK(layers) /\ EffectsOK(effects, layers) /\ Counted(effects, cursor, adds)
    BY TypeParts DEF IInv
  <1>2. Begun /\ Passed  BY DEF IInv
  <1>3. /\ ~set /\ set' = TRUE /\ effects' = Aged(-b) /\ UNCHANGED <<layers, cursor, adds>>
    BY DEF SetClockBack
  <1>4. b \in Nat /\ -b \in Int /\ b <= MaxBack /\ MaxBack \in Nat /\ MaxGap \in Nat
    BY CompositorAssumption
  <1>5. effects \in Seq(Effects)
    BY <1>1 DEF EffectsOK
  <1>6. /\ effects' \in Seq(Effects) /\ Len(effects') = Len(effects) /\ DOMAIN effects' = DOMAIN effects
        /\ \A n \in DOMAIN effects :
              /\ effects'[n].layer = effects[n].layer
              /\ effects'[n].duration = effects[n].duration
              /\ effects'[n].age = effects[n].age + (-b)
    BY <1>3, <1>4, <1>5, AgedIsEffects
  <1>7. ASSUME NEW n \in DOMAIN effects
        PROVE  /\ effects[n].age \in Int /\ effects[n].duration \in Nat /\ effects[n].age >= 0
               /\ effects[n].layer \in DOMAIN layers
    <2>1. effects[n] \in Effects  BY <1>5
    <2> QED  BY <1>1, <1>2, <1>3, <2>1, EffectParts DEF Begun, EffectsOK
  <1>8. EffectsOK(effects', layers')
    BY <1>3, <1>4, <1>6, <1>7 DEF EffectsOK
  <1>9. Counted(effects', cursor', adds') /\ set' \in BOOLEAN
    BY <1>1, <1>3, <1>6 DEF Counted
  <1>10. Passed'
    <2> SUFFICES ASSUME NEW n \in DOMAIN effects
                 PROVE  /\ n < cursor' => GoesOn(effects'[n])
                        /\ effects'[n].age < effects'[n].duration + MaxGap
      BY <1>6 DEF Passed, GoesOn
    <2>1. /\ n < cursor => effects[n].age < effects[n].duration
          /\ effects[n].age < effects[n].duration + MaxGap
      BY <1>2 DEF Passed, GoesOn
    <2> QED  BY <1>3, <1>4, <1>6, <1>7, <2>1 DEF GoesOn
  <1>11. Begun' /\ OpacityInRange'
    BY <1>3 DEF Begun, OpacityInRange
  <1>20. TypeOK'
    BY <1>1, <1>3, <1>8, <1>9, <1>10, <1>11 DEF TypeOK, LayersOK, EffectsOK, Counted, Layer
  <1> QED  BY <1>1, <1>3, <1>8, <1>9, <1>10, <1>11, <1>20 DEF IInv

\* So does every step.
LEMMA NextInv == IInv /\ [Next]_vars => IInv'
  <1> SUFFICES ASSUME IInv, [Next]_vars  PROVE IInv'
    OBVIOUS
  <1>1. CASE Next
    BY <1>1, AddLayerInv, HideInv, AddEffectInv, FrameInv, AnimateInv, SetClockBackInv DEF Next
  <1>2. CASE UNCHANGED vars
    <2>1. UNCHANGED <<layers, effects, cursor, adds, set>>  BY <1>2 DEF vars
    <2>2. TypeOK'  BY <2>1 DEF IInv, TypeOK
    <2>3. Begun' /\ Passed' /\ OpacityInRange'
      BY <2>1 DEF IInv, Begun, Passed, GoesOn, OpacityInRange
    <2> QED  BY <2>2, <2>3 DEF IInv
  <1> QED  BY <1>1, <1>2

\* So the invariant holds in every behaviour.
LEMMA Invariance == Spec => []IInv
  BY InitInv, NextInv, PTL DEF Spec

-----------------------------------------------------------------------------
(***************************************************************************)
(* What follows.                                                           *)
(***************************************************************************)

\* Type correctness.
THEOREM TypeCorrect == Spec => []TypeOK
  <1>1. IInv => TypeOK  BY DEF IInv
  <1> QED  BY <1>1, Invariance, PTL

\* Compositor::process erases from the list of effects while it iterates, and
\* has looked at every effect of the list when it ends (compositor.cc).
THEOREM NoneOver == Spec => []ExpiredRemoved
  <1>1. IInv => ExpiredRemoved
    <2> SUFFICES ASSUME IInv, Idle, NEW n \in DOMAIN effects  PROVE GoesOn(effects[n])
      BY DEF ExpiredRemoved
    <2>1. effects \in Seq(Effects)  BY DEF IInv, TypeOK
    <2>2. n < cursor  BY <2>1 DEF Idle
    <2> QED  BY <2>2 DEF IInv, Passed
  <1> QED  BY <1>1, Invariance, PTL

\* animate and easeOutQuad do not clamp the elapsed time (effect.cc); frames that
\* are no further apart than the shortest effect keep every opacity in range.
THEOREM InRange == Spec => []OpacityInRange
  <1>1. IInv => OpacityInRange  BY DEF IInv
  <1> QED  BY <1>1, Invariance, PTL

\* A fade-in that is erased is less than a frame past its duration, and the step
\* that erases it sets its layer's opacity to the easing at that time.
LEMMA LastFrame ==
    ASSUME IInv, Next, NEW n \in DOMAIN effects, Completes(effects[n]), effects[n].kind = "fadein"
    PROVE  /\ effects[n].duration \in Durations
           /\ \E x \in Nat : /\ x < MaxGap
                             /\ layers'[effects[n].layer].opacity
                                  = Easing(effects[n].duration + x, effects[n].duration)
  <1> DEFINE e == effects[n]
  <1>1. Len(effects') < Len(effects) /\ e = effects[cursor]
    BY DEF Completes
  <1>2. effects \in Seq(Effects) /\ Len(effects) \in Nat
    BY DEF IInv, TypeOK
  <1>3. Animate
    <2>1. ASSUME NEW g \in Int, effects' = Aged(g)  PROVE FALSE
      BY <1>1, <1>2, <2>1, AgedIsEffects
    <2>2. ASSUME NEW g \in 0..MaxGap, Frame(g)  PROVE FALSE
      BY <2>1, <2>2, CompositorAssumption DEF Frame
    <2>3. ASSUME NEW b \in 1..MaxBack, SetClockBack(b)  PROVE FALSE
      <3>1. -b \in Int  BY CompositorAssumption
      <3> QED  BY <2>1, <2>3, <3>1 DEF SetClockBack
    <2>4. ASSUME NEW kind \in Kinds, NEW d \in Durations, NEW m \in 1..MaxLayers,
                 AddEffect(kind, d, m)
          PROVE  FALSE
      <3> DEFINE f == [kind |-> kind, layer |-> m, duration |-> d, age |-> 0]
      <3>1. effects' = Append(effects, f)  BY <2>4 DEF AddEffect, Push
      <3> HIDE DEF f
      <3>2. Len(effects') = Len(effects) + 1  BY <1>2, <3>1
      <3> QED  BY <1>1, <1>2, <3>2
    <2>5. ~AddLayer /\ \A m \in 1..MaxLayers : ~Hide(m)
      BY <1>1, <1>2 DEF AddLayer, Hide
    <2> QED  BY <2>2, <2>3, <2>4, <2>5 DEF Next
  <1>4. ~GoesOn(e) /\ cursor \in DOMAIN effects
    BY <1>1, <1>3, AnimateEffects
  <1>5. e \in Effects /\ layers'[e.layer].opacity = Opacity(e)
    BY <1>1, <1>3, AnimateLayers
  <1>6. e.age < e.duration + MaxGap
    BY DEF IInv, Passed
  <1>7. e.duration \in Durations /\ e.duration \in Nat /\ e.age \in Int /\ MaxGap \in Nat
    BY <1>5, EffectParts, CompositorAssumption
  <1>8. layers'[e.layer].opacity = Easing(e.age, e.duration)
    BY <1>5 DEF Opacity
  <1> HIDE DEF e
  <1> DEFINE x == e.age - e.duration
  <1>9. x \in Nat /\ x < MaxGap /\ e.age = e.duration + x
    BY <1>4, <1>6, <1>7 DEF GoesOn
  <1> HIDE DEF x
  <1> QED  BY <1>7, <1>8, <1>9 DEF e

\* What the last frame of a fade-in sets is opaque up to the square of the frame's
\* share of the duration.
THEOREM EndsOpaque == Spec => FadeInEndsOpaque
  <1> DEFINE Ends == \A n \in DOMAIN effects : LET e == effects[n] d == e.duration IN
          Completes(e) /\ e.kind = "fadein" /\ MaxGap <= d =>
             layers'[e.layer].opacity * (d * d) >= Scale * (d * d - MaxGap * MaxGap)
  <1>1. IInv /\ [Next]_vars => [Ends]_vars
    <2> SUFFICES ASSUME IInv, Next, NEW n \in DOMAIN effects, Completes(effects[n]),
                        effects[n].kind = "fadein", MaxGap <= effects[n].duration
                 PROVE  layers'[effects[n].layer].opacity * (effects[n].duration * effects[n].duration)
                          >= Scale * (effects[n].duration * effects[n].duration - MaxGap * MaxGap)
      OBVIOUS
    <2> DEFINE d == effects[n].duration
    <2>1. PICK x \in Nat : x < MaxGap /\ layers'[effects[n].layer].opacity = Easing(d + x, d)
      BY LastFrame
    <2>2. d \in Durations
      BY LastFrame
    <2> HIDE DEF d
    <2>3. d \in Nat /\ x <= MaxGap /\ d + x \in Nat
      <3>1. d \in Nat /\ MaxGap \in Nat
        BY <2>2, CompositorAssumption
      <3> QED  BY <2>1, <3>1
    <2>4. layers'[effects[n].layer].opacity * (d * d) >= Scale * (d * d - MaxGap * MaxGap)
      BY <2>1, <2>2, <2>3, EasingPastEnd
    <2> QED  BY <2>4 DEF d
  <1>2. Spec => [][Ends]_vars
    BY <1>1, Invariance, PTL DEF Spec
  <1> QED  BY <1>2 DEF FadeInEndsOpaque

\* Less than a duration past its end, the easing is not down at zero.
LEMMA EasingPositive ==
    ASSUME NEW d \in Durations, NEW x \in Nat, x < d
    PROVE  Easing(d + x, d) > 0
  <1> DEFINE q == d * d
             k == Scale \div q
             a == (d + x) * (2 * d - (d + x))
  <1>1. d \in Nat \ {0} /\ Scale \in Nat \ {0} /\ Scale % q = 0
    BY CompositorAssumption
  <1>2. q \in Nat \ {0}  BY <1>1, Product
  <1>3. k \in Nat /\ q * k = Scale
    <2> HIDE DEF q
    <2> QED  BY <1>1, <1>2, Unit
  <1>4. k # 0
    <2> HIDE DEF k, q
    <2> QED  BY <1>1, <1>2, <1>3
  <1>5. a \in Nat /\ a # 0
    <2> DEFINE b == d + x
               c == d - x
    <2>1. b \in Nat \ {0} /\ c \in Nat \ {0} /\ 2 * d - (d + x) = c
      BY <1>1
    <2> HIDE DEF b, c
    <2>2. b * c \in Nat /\ b * c # 0
      BY <2>1, Product
    <2> QED  BY <2>1, <2>2 DEF b
  <1>6. Easing(d + x, d) = a * k
    BY DEF Easing
  <1> HIDE DEF a, k
  <1>7. a * k \in Nat /\ a * k # 0
    BY <1>3, <1>4, <1>5, Product
  <1> QED  BY <1>6, <1>7

\* A fade-in that is complete has made its layer visible, if no frame comes more
\* than an effect's duration after the last: run compositor_stall needs one that
\* does.
THEOREM ShowsInTime ==
    ASSUME \A d \in Durations : MaxGap <= d
    PROVE  Spec => CompletedFadeInShows
  <1> DEFINE Shows == \A n \in DOMAIN effects : LET e == effects[n] IN
          Completes(e) /\ e.kind = "fadein" => layers'[e.layer].opacity > 0
  <1>1. IInv /\ [Next]_vars => [Shows]_vars
    <2> SUFFICES ASSUME IInv, Next, NEW n \in DOMAIN effects, Completes(effects[n]),
                        effects[n].kind = "fadein"
                 PROVE  layers'[effects[n].layer].opacity > 0
      OBVIOUS
    <2> DEFINE d == effects[n].duration
    <2>1. PICK x \in Nat : x < MaxGap /\ layers'[effects[n].layer].opacity = Easing(d + x, d)
      BY LastFrame
    <2>2. d \in Durations
      BY LastFrame
    <2> HIDE DEF d
    <2>3. x < d
      <3>1. d \in Nat /\ MaxGap \in Nat /\ MaxGap <= d
        BY <2>2, CompositorAssumption
      <3> QED  BY <2>1, <3>1
    <2> QED  BY <2>1, <2>2, <2>3, EasingPositive
  <1>2. Spec => [][Shows]_vars
    BY <1>1, Invariance, PTL DEF Spec
  <1> QED  BY <1>2 DEF CompletedFadeInShows
=============================================================================
