---------------------------- MODULE MCCompositor ----------------------------
\* Model checking of Compositor: two layers and two effects let effects share a
\* layer or end in the same frame.  The durations keep the code's proportions
\* of 200 ("fast"), 400 and 600 ("slow"), and a frame may take a whole fast fade
\* or, in the stalled run, two.
EXTENDS Compositor
=============================================================================
