------------------------- MODULE SetBeforeFirstGet -------------------------
(***************************************************************************)
(* set_before_first_get_setting_t (common/utils.hpp): the setting behind   *)
(* the maximal instruction set and the instruction-set hints of the JIT    *)
(* code.  value_ is a plain field that state_, one atomic word, guards.    *)
(* One action per access to either of them.  A spurious failure of         *)
(* compare_exchange_weak, and a CAS that meets a busy setting, change      *)
(* nothing and are stuttering steps.                                       *)
(***************************************************************************)
EXTENDS Naturals

CONSTANTS
    Threads, Values, Default,
    NoReply, Accepted, Refused,
    MaxCalls                     \* bound: calls that each thread makes

ASSUME MaxCallsAssumption == MaxCalls \in Nat

\* A reply tells a running call, the two answers of set() and a value apart.
ASSUME RepliesAssumption ==
    /\ Default \in Values
    /\ Accepted # Refused
    /\ {Accepted, Refused} \cap Values = {}
    /\ NoReply \notin Values \cup {Accepted, Refused}

VARIABLES
    value,    \* value_
    state,    \* state_
    pc,       \* where each thread is in its call
    call,     \* the latest call of each thread: set, get, or soft get ("peek")
    reply,    \* what that call has returned
    calls     \* how many calls each thread has made

setting_vars == <<value, state, pc, call, reply, calls>>

States == {"idle", "busy_setting", "locked_after_a_get"}
Pcs == {"outside", "setLoad", "setCas", "write", "release", "getLoad", "getCas", "read"}
FirstStep == [set |-> "setLoad", get |-> "getLoad", peek |-> "read"]

Calls == [op : {"none", "set", "get", "peek"}, arg : Values]

SettingInit ==
    /\ value = Default
    /\ state = "idle"
    /\ pc = [t \in Threads |-> "outside"]
    /\ call = [t \in Threads |-> [op |-> "none", arg |-> Default]]
    /\ reply = [t \in Threads |-> NoReply]
    /\ calls = [t \in Threads |-> 0]

Goto(t, where) == pc' = [pc EXCEPT ![t] = where]

Answer(t, answer) ==
    /\ reply' = [reply EXCEPT ![t] = answer]
    /\ Goto(t, "outside")

\* A soft get skips the state altogether.
CallIt(t) ==
    /\ pc[t] = "outside"
    /\ calls[t] < MaxCalls
    /\ \E op \in {"set", "get", "peek"}, v \in Values :
          /\ call' = [call EXCEPT ![t] = [op |-> op, arg |-> v]]
          /\ Goto(t, FirstStep[op])
    /\ reply' = [reply EXCEPT ![t] = NoReply]
    /\ calls' = [calls EXCEPT ![t] = calls[t] + 1]
    /\ UNCHANGED <<value, state>>

\* MUTANT of SetLoad: the first check already counts as having the setting.
SetLoadIsEnough(t) ==
    /\ pc[t] = "setLoad"
    /\ IF state = "locked_after_a_get"
       THEN Answer(t, Refused)
       ELSE Goto(t, "write") /\ UNCHANGED reply
    /\ UNCHANGED <<value, state, call, calls>>

\* if (state_.load() == locked_after_a_get) return false;
SetLoad(t) ==
    /\ pc[t] = "setLoad"
    /\ IF state = "locked_after_a_get"
       THEN Answer(t, Refused)
       ELSE Goto(t, "setCas") /\ UNCHANGED reply
    /\ UNCHANGED <<value, state, call, calls>>

\* MUTANT of SetCas: the loop does not give up on a locked setting.
SetCasNeverGivesUp(t) ==
    /\ pc[t] = "setCas"
    /\ state = "idle"
    /\ state' = "busy_setting"
    /\ Goto(t, "write")
    /\ UNCHANGED <<value, call, reply, calls>>

\* compare_exchange_weak(idle, busy_setting); a locked setting ends the loop.
SetCas(t) ==
    /\ pc[t] = "setCas"
    /\ \/ /\ state = "idle"
          /\ state' = "busy_setting"
          /\ Goto(t, "write")
          /\ UNCHANGED reply
       \/ /\ state = "locked_after_a_get"
          /\ Answer(t, Refused)
          /\ UNCHANGED state
    /\ UNCHANGED <<value, call, calls>>

\* MUTANT of Write: the state is released before the value is written.
WriteAfterRelease(t) ==
    /\ pc[t] \in {"write", "release"}
    /\ IF pc[t] = "write"
       THEN state' = "idle" /\ Goto(t, "release") /\ UNCHANGED <<value, reply>>
       ELSE value' = call[t].arg /\ Answer(t, Accepted) /\ UNCHANGED state
    /\ UNCHANGED <<call, calls>>

\* value_ = new_value;
Write(t) ==
    /\ pc[t] = "write"
    /\ value' = call[t].arg
    /\ Goto(t, "release")
    /\ UNCHANGED <<state, call, reply, calls>>

\* state_.store(idle); return true;
Release(t) ==
    /\ pc[t] = "release"
    /\ state' = "idle"
    /\ Answer(t, Accepted)
    /\ UNCHANGED <<value, call, calls>>

\* !soft && state_.load() != locked_after_a_get
GetLoad(t) ==
    /\ pc[t] = "getLoad"
    /\ Goto(t, IF state = "locked_after_a_get" THEN "read" ELSE "getCas")
    /\ UNCHANGED <<value, state, call, reply, calls>>

\* MUTANT of GetCas: a busy setting is taken for a locked one.
GetCasTakesBusy(t) ==
    /\ pc[t] = "getCas"
    /\ state' = IF state = "idle" THEN "locked_after_a_get" ELSE state
    /\ Goto(t, "read")
    /\ UNCHANGED <<value, call, reply, calls>>

\* compare_exchange_weak(idle, locked_after_a_get); locked by another will do.
GetCas(t) ==
    /\ pc[t] = "getCas"
    /\ state \in {"idle", "locked_after_a_get"}
    /\ state' = "locked_after_a_get"
    /\ Goto(t, "read")
    /\ UNCHANGED <<value, call, reply, calls>>

\* return value_;
Read(t) ==
    /\ pc[t] = "read"
    /\ Answer(t, value)
    /\ UNCHANGED <<value, state, call, calls>>

Step(t) ==
    SetLoad(t) \/ SetCas(t) \/ Write(t) \/ Release(t) \/ GetLoad(t) \/ GetCas(t) \/ Read(t)

SettingNext == \E t \in Threads : CallIt(t) \/ Step(t)

SettingSpec == SettingInit /\ [][SettingNext]_setting_vars

\* A thread inside set() or get() keeps running.
FairSettingSpec == SettingSpec /\ \A t \in Threads : WF_setting_vars(Step(t))

-----------------------------------------------------------------------------

SettingTypeOK ==
    /\ value \in Values
    /\ state \in States
    /\ pc \in [Threads -> Pcs]
    /\ call \in [Threads -> Calls]
    /\ reply \in [Threads -> Values \cup {NoReply, Accepted, Refused}]
    /\ calls \in [Threads -> 0..MaxCalls]

\* Whoever has got the setting holds what is still its value: two parts of
\* the library that ask for the instruction set never act on different ones,
\* whatever sets run meanwhile (get, utils.hpp:655-665).
GetsAreFinal ==
    \A t \in Threads :
        pc[t] = "outside" /\ call[t].op = "get"
            => state = "locked_after_a_get" /\ reply[t] = value

\* The plain field value_ is not written while a thread that went through the
\* state reads it, nor by two threads at once (set and get, utils.hpp:641-665).
\* A soft get takes no part in this: it may read during a write.
NoDataRace ==
    \A t, u \in Threads :
        t # u /\ pc[t] = "write"
            => pc[u] # "write" /\ ~(pc[u] = "read" /\ call[u].op = "get")

\* The replies as they are bound to come: a set has taken effect once the
\* value is written, and a get once it has seen or made the setting locked.
Bound ==
    [t \in Threads |->
        IF pc[t] = "release" THEN Accepted
        ELSE IF pc[t] = "read" /\ call[t].op = "get" THEN value
        ELSE reply[t]]

\* The setting as its callers see it.
Promise == INSTANCE Setting WITH locked <- state = "locked_after_a_get", reply <- Bound

\* The code behaves as if every call took effect at once: a set that returns
\* true came before every get, one that returns false after some get, and a
\* soft get returns a value the setting had during the call.
ImplementsSetting == Promise!PromiseSpec

\* No call spins forever once the other threads stop making calls.
EveryCallReturns == \A t \in Threads : pc[t] # "outside" ~> pc[t] = "outside"
=============================================================================
