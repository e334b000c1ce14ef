----------------------------- MODULE MCChannel -----------------------------
\* Model checking of Channel: two startup files are enough to render (the code
\* needs two layers) and, one of them not being an image, not to.  One line in
\* addition to those always logged tells how the set-up went, what became of a
\* file, or what happened while rendering; runs with two let one be followed by
\* another.
EXTENDS Channel
=============================================================================
