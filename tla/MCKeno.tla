------------------------------- MODULE MCKeno -------------------------------
\* Model checking of Keno: two startup files let a channel get as far as its
\* rendering loop.  The lines that depend on how things go add nothing to the
\* others here; module Channel has them.
EXTENDS Keno
=============================================================================
