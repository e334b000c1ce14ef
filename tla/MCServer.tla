------------------------------ MODULE MCServer ------------------------------
\* Model checking of Server: with two channel blocks one host can fail, run or
\* end while the other does; with two chunks a pipe can be read in part.
EXTENDS Server
=============================================================================
