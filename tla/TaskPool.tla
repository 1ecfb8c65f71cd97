------------------------------- MODULE TaskPool -------------------------------
(***************************************************************************)
(* What the scheduler promises its callers, with the deques, the mutexes   *)
(* and the threads left out: a task that is submitted is accepted or       *)
(* refused, once; an accepted task waits, and is taken by one consumer,    *)
(* once.  At most Limit tasks wait; a consumer takes one task, or a batch  *)
(* that leaves at least as many behind.                                    *)
(***************************************************************************)
EXTENDS Naturals, FiniteSets

CONSTANTS Tasks, Limit

VARIABLES
    waiting,   \* accepted tasks nobody has taken
    taken,     \* tasks given to a consumer
    refused    \* tasks for which submit returned None

poolVars == <<waiting, taken, refused>>

PoolInit ==
    /\ waiting = {}
    /\ taken = {}
    /\ refused = {}

Unknown == Tasks \ (waiting \cup taken \cup refused)

Accept(k) ==
    /\ k \in Unknown
    /\ Cardinality(waiting) < Limit
    /\ waiting' = waiting \cup {k}
    /\ UNCHANGED <<taken, refused>>

Refuse(k) ==
    /\ k \in Unknown
    /\ refused' = refused \cup {k}
    /\ UNCHANGED <<waiting, taken>>

Hand(S) ==
    /\ S \subseteq waiting
    /\ Cardinality(S) = 1 \/ 2 * Cardinality(S) <= Cardinality(waiting)
    /\ waiting' = waiting \ S
    /\ taken' = taken \cup S
    /\ UNCHANGED refused

PoolNext ==
    \/ \E k \in Tasks : Accept(k) \/ Refuse(k)
    \/ \E S \in SUBSET waiting : Hand(S)

PoolSpec == PoolInit /\ [][PoolNext]_poolVars

=============================================================================
