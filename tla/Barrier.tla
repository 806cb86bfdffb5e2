------------------------------ MODULE Barrier ------------------------------
(***************************************************************************)
(* What a reusable barrier promises to the threads that share it: nobody   *)
(* leaves a round before everybody has arrived at it, and a thread may     *)
(* arrive at the next round while others are still leaving this one.       *)
(***************************************************************************)
CONSTANT Threads     \* the threads that synchronise

VARIABLES
    arrived,         \* those that wait for the round to be complete
    leaving          \* those that may leave a complete round

barrierVars == <<arrived, leaving>>

BarrierInit == arrived = {} /\ leaving = {}

Arrive(t) ==
    /\ t \notin arrived \cup leaving
    /\ arrived' = arrived \cup {t}
    /\ UNCHANGED leaving

\* The round is complete: one of its threads lets the others go and goes.
Open(t) ==
    /\ arrived = Threads
    /\ arrived' = {}
    /\ leaving' = Threads \ {t}

Leave(t) ==
    /\ t \in leaving
    /\ leaving' = leaving \ {t}
    /\ UNCHANGED arrived

BarrierNext == \E t \in Threads : Arrive(t) \/ Open(t) \/ Leave(t)

BarrierSpec == BarrierInit /\ [][BarrierNext]_barrierVars
=============================================================================
