----------------------------- MODULE Supervisor -----------------------------
(***************************************************************************)
(* What the server process promises, without handles, callbacks or a       *)
(* loop: it runs each child at most once, passes on what a child says, in  *)
(* order and nothing else, for as long as that child is running, and stops *)
(* only when no child is left.  Module Server implements it.               *)
(***************************************************************************)
EXTENDS Naturals

CONSTANT Children

VARIABLES
    status,   \* per child, see Status
    said,     \* per child, how much it has said
    relayed,  \* per child, how much of that was passed on
    over      \* has the server stopped?

vars == <<status, said, relayed, over>>

\* A child is to be started, up, up without being listened to, or gone for
\* good: either ended, or never started.
Status == {"waiting", "up", "deaf", "gone"}

Running == {"up", "deaf"}

Init ==
    /\ status = [c \in Children |-> "waiting"]
    /\ said = [c \in Children |-> 0]
    /\ relayed = [c \in Children |-> 0]
    /\ over = FALSE

Begin(c) ==
    /\ status[c] = "waiting"
    /\ \E s \in Status \ {"waiting"} : status' = [status EXCEPT ![c] = s]
    /\ UNCHANGED <<said, relayed, over>>

Say(c) ==
    /\ status[c] \in Running
    /\ said' = [said EXCEPT ![c] = said'[c]]
    /\ said'[c] \in Nat /\ said'[c] > said[c]
    /\ UNCHANGED <<status, relayed, over>>

Relay(c) ==
    /\ status[c] = "up"
    /\ \E n \in relayed[c]+1..said[c] : relayed' = [relayed EXCEPT ![c] = n]
    /\ UNCHANGED <<status, said, over>>

End(c) ==
    /\ status[c] \in Running
    /\ status' = [status EXCEPT ![c] = "gone"]
    /\ UNCHANGED <<said, relayed, over>>

Stop ==
    /\ \A c \in Children : status[c] = "gone"
    /\ over' = TRUE
    /\ UNCHANGED <<status, said, relayed>>

Next == Stop \/ \E c \in Children : Begin(c) \/ Say(c) \/ Relay(c) \/ End(c)

Spec == Init /\ [][Next]_vars
=============================================================================
