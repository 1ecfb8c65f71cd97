---------------------------- MODULE CircuitBreaker ----------------------------
(***************************************************************************)
(* The circuit breaker of src/fault.rs.  The state and the time it opened  *)
(* are behind two RwLocks, the counters are atomics.  A call reads the     *)
(* state, releases the lock, and acts on what it read: other calls may     *)
(* move the breaker meanwhile.  Time is what the code compares: opened_at  *)
(* is "old" once reset_timeout has elapsed since it was set.               *)
(*                                                                         *)
(* The stores to the counters under the write lock of the state are one    *)
(* step: another thread gets at most one counter operation in while the    *)
(* lock is held, since its next call starts by reading the state.          *)
(***************************************************************************)
EXTENDS Integers

CONSTANTS
    Clients,             \* threads that share the breaker
    failure_threshold,
    success_threshold,
    CanReset             \* whether the program calls reset

ASSUME BreakerAssumption ==
    /\ failure_threshold \in Nat
    /\ success_threshold \in Nat
    /\ CanReset \in BOOLEAN

VARIABLES
    state,           \* "Closed", "Open" or "HalfOpen"
    opened_at,       \* "none", or whether reset_timeout has elapsed: "fresh", "old"
    failure_count,
    success_count,
    pc,              \* per client: the next step of its call, "idle" between calls
    waited           \* history: reset_timeout has elapsed since the state became Open

vars == <<state, opened_at, failure_count, success_count, pc, waited>>

Init ==
    /\ state = "Closed"
    /\ opened_at = "none"
    /\ failure_count = 0
    /\ success_count = 0
    /\ pc = [t \in Clients |-> "idle"]
    /\ waited = TRUE

\* The write lock of the state is held from the change of the state to the
\* return of the transition; the read lock of opened_at while its age is looked at.
Transitions == {"half_counts", "open_stamp", "close_stamp"}
StateIsLocked == \E t \in Clients : pc[t] \in Transitions
OpenedAtIsRead == \E t \in Clients : pc[t] = "elapsed"

Go(t, label) == pc' = [pc EXCEPT ![t] = label]

\* A call reads the state, finds s and continues at label.
Enter(t, s, label) ==
    /\ pc[t] = "idle"
    /\ ~StateIsLocked
    /\ state = s
    /\ Go(t, label)
    /\ UNCHANGED <<state, opened_at, failure_count, success_count, waited>>

-----------------------------------------------------------------------------
(* allows_execution *)

AllowsAtOnce(t) == Enter(t, "Closed", "idle") \/ Enter(t, "HalfOpen", "idle")

AllowsIfOld(t) == Enter(t, "Open", "elapsed")

\* With opened_at read: after reset_timeout the lock is dropped and the breaker
\* is made half-open, otherwise execution is refused.
AllowsElapsed(t) ==
    /\ pc[t] = "elapsed"
    /\ Go(t, IF opened_at = "old" THEN "half_open" ELSE "idle")
    /\ UNCHANGED <<state, opened_at, failure_count, success_count, waited>>

-----------------------------------------------------------------------------
(* record_success, record_failure, reset *)

SuccessCall(t) ==
    \/ Enter(t, "Closed", "forget_failures")
    \/ Enter(t, "HalfOpen", "count_success")
    \/ Enter(t, "Open", "idle")

ForgetFailures(t) ==
    /\ pc[t] = "forget_failures"
    /\ failure_count' = 0
    /\ Go(t, "idle")
    /\ UNCHANGED <<state, opened_at, success_count, waited>>

CountSuccess(t) ==
    /\ pc[t] = "count_success"
    /\ success_count' = success_count + 1
    /\ Go(t, IF success_count + 1 >= success_threshold THEN "close" ELSE "idle")
    /\ UNCHANGED <<state, opened_at, failure_count, waited>>

\* Fault: failures keep extending the wait of an open breaker.
FailureCallExtends(t) ==
    \/ Enter(t, "Closed", "count_failure")
    \/ Enter(t, "HalfOpen", "open")
    \/ Enter(t, "Open", "open")

FailureCall(t) ==
    \/ Enter(t, "Closed", "count_failure")
    \/ Enter(t, "HalfOpen", "open")
    \/ Enter(t, "Open", "idle")

\* Fault: the breaker opens one failure too late.
CountFailureLate(t) ==
    /\ pc[t] = "count_failure"
    /\ failure_count' = failure_count + 1
    /\ Go(t, IF failure_count + 1 > failure_threshold THEN "open" ELSE "idle")
    /\ UNCHANGED <<state, opened_at, success_count, waited>>

CountFailure(t) ==
    /\ pc[t] = "count_failure"
    /\ failure_count' = failure_count + 1
    /\ Go(t, IF failure_count + 1 >= failure_threshold THEN "open" ELSE "idle")
    /\ UNCHANGED <<state, opened_at, success_count, waited>>

Reset(t) ==
    /\ CanReset
    /\ pc[t] = "idle"
    /\ Go(t, "reset")
    /\ UNCHANGED <<state, opened_at, failure_count, success_count, waited>>

-----------------------------------------------------------------------------
(* The transitions *)

\* The write lock of the state is taken and the state set.
Transit(t, s, label) ==
    /\ ~StateIsLocked
    /\ state' = s
    /\ waited' = (waited /\ (s = "Open" => state = "Open"))
    /\ Go(t, label)
    /\ UNCHANGED <<opened_at, failure_count, success_count>>

ToHalfOpen(t) == pc[t] = "half_open" /\ Transit(t, "HalfOpen", "half_counts")

\* Fault: a compare-and-swap loop that expects the breaker not to be open.
ToOpenSpins(t) == pc[t] = "open" /\ state # "Open" /\ Transit(t, "Open", "open_stamp")

ToOpen(t) == pc[t] = "open" /\ Transit(t, "Open", "open_stamp")
ToClosed(t) == pc[t] \in {"close", "reset"} /\ Transit(t, "Closed", "close_stamp")

\* transition_to_half_open ends.
HalfOpenCounts(t) ==
    /\ pc[t] = "half_counts"
    /\ success_count' = 0
    /\ failure_count' = 0
    /\ Go(t, "idle")
    /\ UNCHANGED <<state, opened_at, waited>>

\* transition_to_open ends, once nobody reads opened_at.
OpenStamp(t) ==
    /\ pc[t] = "open_stamp"
    /\ ~OpenedAtIsRead
    /\ opened_at' = "fresh"
    /\ success_count' = 0
    /\ Go(t, "idle")
    /\ UNCHANGED <<state, failure_count, waited>>

\* Fault: the time the breaker opened is left behind.
CloseStampKeeps(t) ==
    /\ pc[t] = "close_stamp"
    /\ ~OpenedAtIsRead
    /\ failure_count' = 0
    /\ success_count' = 0
    /\ Go(t, "idle")
    /\ UNCHANGED <<state, opened_at, waited>>

\* transition_to_closed ends, once nobody reads opened_at.
CloseStamp(t) ==
    /\ pc[t] = "close_stamp"
    /\ ~OpenedAtIsRead
    /\ opened_at' = "none"
    /\ failure_count' = 0
    /\ success_count' = 0
    /\ Go(t, "idle")
    /\ UNCHANGED <<state, waited>>

\* reset_timeout elapses.
TimePasses ==
    /\ opened_at = "fresh" \/ ~waited
    /\ opened_at' = IF opened_at = "fresh" THEN "old" ELSE opened_at
    /\ waited' = TRUE
    /\ UNCHANGED <<state, failure_count, success_count, pc>>

-----------------------------------------------------------------------------
Call(t) ==
    \/ AllowsAtOnce(t) \/ AllowsIfOld(t)
    \/ SuccessCall(t) \/ FailureCall(t) \/ Reset(t)

Step(t) ==
    \/ AllowsElapsed(t)
    \/ ForgetFailures(t) \/ CountSuccess(t) \/ CountFailure(t)
    \/ ToHalfOpen(t) \/ ToOpen(t) \/ ToClosed(t)
    \/ HalfOpenCounts(t) \/ OpenStamp(t) \/ CloseStamp(t)

Next ==
    \/ \E t \in Clients : Call(t) \/ Step(t)
    \/ TimePasses

Spec == Init /\ [][Next]_vars

\* A call that has started keeps running, and time passes.
Fairness ==
    /\ \A t \in Clients : WF_vars(Step(t))
    /\ WF_vars(TimePasses)

FairSpec == Spec /\ Fairness

-----------------------------------------------------------------------------
(* Properties *)

Labels ==
    Transitions \cup {"idle", "elapsed", "half_open", "forget_failures", "count_success",
                      "count_failure", "close", "open", "reset"}

\* Every variable holds a value of its Rust type.
TypeOK ==
    /\ state \in {"Closed", "Open", "HalfOpen"}
    /\ opened_at \in {"none", "fresh", "old"}
    /\ failure_count \in Nat
    /\ success_count \in Nat
    /\ pc \in [Clients -> Labels]
    /\ waited \in BOOLEAN

\* The two locks are never seen out of step: an open breaker has the time it
\* opened (without one, allows_execution would refuse forever), a closed one none.
OpenHasTime ==
    ~StateIsLocked =>
        /\ state = "Open" => opened_at # "none"
        /\ state = "Closed" => opened_at = "none"

\* A threshold that is reached is not forgotten: while the breaker still is in
\* the state the counter belongs to, some call is about to move it.
ThresholdActedOn ==
    ~StateIsLocked =>
        /\ state = "Closed" /\ failure_count >= failure_threshold /\ failure_threshold > 0 =>
              \E t \in Clients : pc[t] = "open"
        /\ state = "HalfOpen" /\ success_count >= success_threshold /\ success_threshold > 0 =>
              \E t \in Clients : pc[t] \in {"close", "reset"}

\* "Time to wait in open state before half-open": the breaker becomes half-open
\* only from open, and only when reset_timeout has elapsed since it opened.
WaitsInOpen ==
    [][state' = "HalfOpen" /\ state # "HalfOpen" => state = "Open" /\ waited]_vars

\* The locks cannot block each other: once no new calls arrive, all calls return.
CallsDrain ==
    <>[][\A t \in Clients : pc[t] = "idle" => pc'[t] = "idle"]_vars
        => <>[](\A t \in Clients : pc[t] = "idle")

\* The breaker never stays open: as long as somebody keeps asking it for
\* permission, allows_execution makes it try again.
OpenEnds ==
    SF_vars(\E t \in Clients : AllowsIfOld(t)) => (state = "Open" ~> state # "Open")

=============================================================================
