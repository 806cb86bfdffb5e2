--------------------------- MODULE SimpleBarrier ---------------------------
(***************************************************************************)
(* The sense-reversing barrier that the JIT code and the reducers use      *)
(* (cpu/x64/cpu_barrier.cpp), instruction by instruction where another     *)
(* thread can see the difference: the load of the sense, the locked xadd,  *)
(* the last thread's reset of the counter and its flip of the sense, and   *)
(* the spin loop.  A thread uses the barrier over and over, and stays out  *)
(* of it for as long as it likes in between.                               *)
(***************************************************************************)
EXTENDS Naturals, FiniteSets

CONSTANT Threads     \* the threads that pass the same ctx and the same nthr

ASSUME ThreadsAssumption == IsFiniteSet(Threads) /\ Threads # {}

VARIABLES
    ctr,             \* ctx_t::ctr
    sense,           \* ctx_t::sense, 0 or all ones
    pc,              \* where each thread is
    saved            \* the sense each thread has pushed on its stack

simpleVars == <<ctr, sense, pc, saved>>

barrier_nthr == Cardinality(Threads)

SimplePcs == {"outside", "xadd", "reset", "flip", "spin"}

SimpleInit ==
    /\ ctr = 0
    /\ sense = FALSE
    /\ pc = [t \in Threads |-> "outside"]
    /\ saved = [t \in Threads |-> FALSE]

\* mov reg_tmp, [sense]; push: a barrier of one thread is passed at once.
Enter(t) ==
    /\ pc[t] = "outside"
    /\ barrier_nthr > 1
    /\ saved' = [saved EXCEPT ![t] = sense]
    /\ pc' = [pc EXCEPT ![t] = "xadd"]
    /\ UNCHANGED <<ctr, sense>>

\* MUTANT of Xadd: the old value of the counter is compared, without the add.
XaddComparesOldValue(t) ==
    /\ pc[t] = "xadd"
    /\ ctr' = ctr + 1
    /\ pc' = [pc EXCEPT ![t] = IF ctr = barrier_nthr THEN "reset" ELSE "spin"]
    /\ UNCHANGED <<sense, saved>>

\* lock xadd [ctr], 1; add; cmp nthr: the last thread is told from the others.
Xadd(t) ==
    /\ pc[t] = "xadd"
    /\ ctr' = ctr + 1
    /\ pc' = [pc EXCEPT ![t] = IF ctr + 1 = barrier_nthr THEN "reset" ELSE "spin"]
    /\ UNCHANGED <<sense, saved>>

\* mov [ctr], 0
Reset(t) ==
    /\ pc[t] = "reset"
    /\ ctr' = 0
    /\ pc' = [pc EXCEPT ![t] = "flip"]
    /\ UNCHANGED <<sense, saved>>

\* not reg_tmp; mov [sense], reg_tmp: the others are let go.
Flip(t) ==
    /\ pc[t] = "flip"
    /\ sense' = ~saved[t]
    /\ pc' = [pc EXCEPT ![t] = "outside"]
    /\ UNCHANGED <<ctr, saved>>

\* MUTANT of SpinEnds: the loop ends for the old sense.
SpinEndsAtOnce(t) ==
    /\ pc[t] = "spin"
    /\ pc' = [pc EXCEPT ![t] = "outside"]
    /\ UNCHANGED <<ctr, sense, saved>>

\* cmp reg_tmp, [sense]; je spin_label: the loop ends once the sense differs.
SpinEnds(t) ==
    /\ pc[t] = "spin"
    /\ saved[t] # sense
    /\ pc' = [pc EXCEPT ![t] = "outside"]
    /\ UNCHANGED <<ctr, sense, saved>>

\* pause; cmp; je spin_label: once more around the loop.
SpinAgain(t) ==
    /\ pc[t] = "spin"
    /\ saved[t] = sense
    /\ UNCHANGED simpleVars

Inside(t) == Xadd(t) \/ Reset(t) \/ Flip(t) \/ SpinEnds(t) \/ SpinAgain(t)

SimpleNext == \E t \in Threads : Enter(t) \/ Inside(t)

SimpleSpec == SimpleInit /\ [][SimpleNext]_simpleVars

\* A thread is scheduled while it runs the code of the barrier.
FairSimpleSpec == SimpleSpec /\ \A t \in Threads : WF_simpleVars(Inside(t))

\* ... and every thread comes back to the barrier.
SharedSpec == FairSimpleSpec /\ \A t \in Threads : WF_simpleVars(Enter(t))
-----------------------------------------------------------------------------

\* The threads counted in this round, and those it has released.
Arrived == {t \in Threads : \/ pc[t] \in {"reset", "flip"}
                            \/ pc[t] = "spin" /\ saved[t] = sense}

Leaving == {t \in Threads : pc[t] = "spin" /\ saved[t] # sense}

\* The variables have the types of the code's.
TypeOK ==
    /\ ctr \in 0..barrier_nthr
    /\ sense \in BOOLEAN
    /\ pc \in [Threads -> SimplePcs]
    /\ saved \in [Threads -> BOOLEAN]

\* The counter is the number of threads that wait, except while the last one
\* is between its two stores; then everybody waits.
CounterCounts ==
    ctr = IF \E t \in Threads : pc[t] = "flip" THEN 0 ELSE Cardinality(Arrived)

\* The barrier keeps its promise.  The flip of the sense is what opens it, and
\* the thread that flips is through at once.
Promise == INSTANCE Barrier WITH arrived <- Arrived, leaving <- Leaving

ImplementsBarrier == Promise!BarrierSpec

\* If every thread keeps coming back to the barrier, every thread that entered
\* it gets out, in every round.
EveryoneGetsOut == \A t \in Threads : pc[t] # "outside" ~> pc[t] = "outside"
=============================================================================
