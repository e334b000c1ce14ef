------------------------------ MODULE MCScreen ------------------------------
\* Model checking of Screen: up to three startup files, so that one can be
\* skipped, and a clock of ten units that wraps during the first two seconds or not.
EXTENDS Screen
=============================================================================
