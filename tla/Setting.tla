------------------------------ MODULE Setting ------------------------------
(***************************************************************************)
(* What set_before_first_get_setting_t (common/utils.hpp) promises: a      *)
(* value that any thread may replace until some thread has got it, and     *)
(* that never changes from then on.  Every call takes effect at once,      *)
(* somewhere between its start and its return.                             *)
(***************************************************************************)
CONSTANTS
    Threads,                     \* the threads of the program
    Values,                      \* the values of the setting
    Default,                     \* the value the setting is constructed with
    NoReply, Accepted, Refused   \* a call that runs; set()'s true and false

VARIABLES
    value,    \* the setting
    locked,   \* somebody has got it
    call,     \* the latest call of each thread
    reply     \* what that call has answered

promiseVars == <<value, locked, call, reply>>

\* The soft get is "peek"; "none" stands for a thread that has called nothing.
Calls == [op : {"none", "set", "get", "peek"}, arg : Values]

Running(t, op) == call[t].op = op /\ reply[t] = NoReply

PromiseInit ==
    /\ value = Default
    /\ locked = FALSE
    /\ call = [t \in Threads |-> [op |-> "none", arg |-> Default]]
    /\ reply = [t \in Threads |-> NoReply]

Begin(t) ==
    /\ call[t].op = "none" \/ reply[t] # NoReply
    /\ \E c \in Calls : c.op # "none" /\ call' = [call EXCEPT ![t] = c]
    /\ reply' = [reply EXCEPT ![t] = NoReply]
    /\ UNCHANGED <<value, locked>>

DoSet(t) ==
    /\ Running(t, "set")
    /\ ~locked
    /\ value' = call[t].arg
    /\ reply' = [reply EXCEPT ![t] = Accepted]
    /\ UNCHANGED <<locked, call>>

DoRefuse(t) ==
    /\ Running(t, "set")
    /\ locked
    /\ reply' = [reply EXCEPT ![t] = Refused]
    /\ UNCHANGED <<value, locked, call>>

DoGet(t) ==
    /\ Running(t, "get")
    /\ locked' = TRUE
    /\ reply' = [reply EXCEPT ![t] = value]
    /\ UNCHANGED <<value, call>>

DoPeek(t) ==
    /\ Running(t, "peek")
    /\ reply' = [reply EXCEPT ![t] = value]
    /\ UNCHANGED <<value, locked, call>>

PromiseNext ==
    \E t \in Threads : Begin(t) \/ DoSet(t) \/ DoRefuse(t) \/ DoGet(t) \/ DoPeek(t)

PromiseSpec == PromiseInit /\ [][PromiseNext]_promiseVars
=============================================================================
