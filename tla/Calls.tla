-------------------------------- MODULE Calls --------------------------------
(***************************************************************************)
(* Threads of a program that share an object of the library and call its   *)
(* methods.  A call is split at every access to shared state; pc says      *)
(* where in a call a thread is.  The modules of the devices extend this    *)
(* one.                                                                    *)
(***************************************************************************)
EXTENDS Integers

CONSTANT Threads

VARIABLES
    pc,
    left    \* the calls the threads may still make, a bound of the model

callVars == <<pc, left>>

CallsInit(calls) ==
    /\ pc = [t \in Threads |-> "idle"]
    /\ left = calls

\* t calls a method, which returns at once or goes on at label.
Begin(t, label) ==
    /\ pc[t] = "idle"
    /\ left > 0
    /\ left' = left - 1
    /\ pc' = [pc EXCEPT ![t] = label]

CallOnce(t) == Begin(t, "idle")

Go(t, label) ==
    /\ pc' = [pc EXCEPT ![t] = label]
    /\ UNCHANGED left

Return(t) == Go(t, "idle")

\* What a method that takes &mut self needs: no other call is in progress.
Exclusive == \A t \in Threads : pc[t] = "idle"

Inside(labels) == {t \in Threads : pc[t] \in labels}

==============================================================================
