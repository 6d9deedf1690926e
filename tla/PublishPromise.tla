--------------------------- MODULE PublishPromise ---------------------------
(***************************************************************************)
(* What PublishController.h promises its host: at most one flow at a time, *)
(* and for each accepted start() exactly one of succeeded() and failed(),  *)
(* eventually.                                                             *)
(***************************************************************************)
EXTENDS Naturals

CONSTANTS MaxStarts, Terminal

VARIABLES running, started, result

vars == <<running, started, result>>

Init == running = FALSE /\ started = 0 /\ result = [n \in 1..MaxStarts |-> "pending"]

\* start() accepted; a start can also fail on the spot.
Begin ==
    /\ ~running /\ started < MaxStarts
    /\ started' = started + 1
    /\ \/ running' = TRUE /\ UNCHANGED result
       \/ /\ UNCHANGED running
          /\ \E o \in Terminal : result' = [result EXCEPT ![started + 1] = o]

\* succeeded() or failed().
End ==
    /\ running /\ running' = FALSE
    /\ UNCHANGED started
    /\ \E o \in Terminal : result' = [result EXCEPT ![started] = o]

Next == Begin \/ End

Safety == Init /\ [][Next]_vars
Spec   == Safety /\ WF_vars(End)
=============================================================================
