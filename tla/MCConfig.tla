------------------------------ MODULE MCConfig ------------------------------
\* Model checking of Config: two blocks are enough for a nameless one to shift
\* the other, for two to share a name and for two channels to generate the file
\* at the same time.
EXTENDS Config
=============================================================================
