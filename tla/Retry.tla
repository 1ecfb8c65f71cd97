-------------------------------- MODULE Retry --------------------------------
(***************************************************************************)
(* RetryPolicy and RetryState of src/fault.rs, driven the way Pool::submit *)
(* drives them: an attempt fails, and if the policy allows another one the *)
(* failure is recorded and the caller sleeps for the delay.  Time is       *)
(* counted in units of the policy's delays.  The backoff factor is a u32   *)
(* power: in the release profile it is taken modulo U32 (a debug build     *)
(* panics), and the product saturates at U64 - 1.                          *)
(***************************************************************************)
EXTENDS KernelTypes

CONSTANTS
    RetryPolicies,   \* the policies: [max_retries, initial_delay, max_delay, backoff_factor]
    MaxClock         \* a bound on the time counted since a failure

ASSUME RetryAssumption ==
    /\ RetryPolicies \subseteq [max_retries : Nat, initial_delay : Nat, max_delay : Nat,
                                backoff_factor : Nat]
    /\ MaxClock \in Nat /\ \A p \in RetryPolicies : p.max_delay <= MaxClock

VARIABLES
    policy,       \* RetryPolicy, once the caller has made one
    attempts,     \* RetryState.attempts
    elapsed,      \* the age of last_failure, -1 for None
    phase,        \* the caller: "idle", "trying", "waiting", "gave up" or "done"
    last_delay    \* history: the longest backoff sat out so far, -1 for none

retryVars == <<policy, attempts, elapsed, phase, last_delay>>

NoPolicy == [max_retries |-> 0, initial_delay |-> 0, max_delay |-> 0, backoff_factor |-> 0]

RetryInit ==
    /\ policy = NoPolicy /\ attempts = 0 /\ elapsed = -1
    /\ phase = "idle" /\ last_delay = -1
-----------------------------------------------------------------------------
least(a, b) == IF a <= b THEN a ELSE b

\* backoff_factor.pow(attempt - 1), a u32
power(p, attempt) == (p.backoff_factor ^ (attempt - 1)) % U32

saturating_mul(a, b) == least(a * b, U64 - 1)

\* Fault: the cap is applied to the initial delay and not to the product.
delay_for_attempt_uncapped(p, attempt) ==
    IF attempt = 0 THEN 0
    ELSE saturating_mul(least(p.initial_delay, p.max_delay), power(p, attempt))

delay_for_attempt(p, attempt) ==
    IF attempt = 0 THEN 0
    ELSE least(saturating_mul(p.initial_delay, power(p, attempt)), p.max_delay)

policy_should_retry(p, current_attempts) == current_attempts < p.max_retries

next_delay == delay_for_attempt(policy, attempts)

in_backoff == elapsed # -1 /\ elapsed < next_delay
-----------------------------------------------------------------------------
\* The caller makes a policy and a RetryState and starts the first attempt.
RetryNew(p) ==
    /\ phase = "idle"
    /\ policy' = p /\ attempts' = 0 /\ elapsed' = -1
    /\ phase' = "trying"
    /\ UNCHANGED last_delay

RetryFails ==
    /\ phase = "trying"
    /\ IF policy_should_retry(policy, attempts)
       THEN attempts' = attempts + 1 /\ elapsed' = 0 /\ phase' = "waiting"
       ELSE phase' = "gave up" /\ UNCHANGED <<attempts, elapsed>>
    /\ UNCHANGED <<policy, last_delay>>

\* RetryState::reset after a success.
RetryResets ==
    /\ phase = "trying"
    /\ attempts' = 0 /\ elapsed' = -1 /\ phase' = "done"
    /\ UNCHANGED <<policy, last_delay>>

RetryTick ==
    /\ phase = "waiting" /\ elapsed < MaxClock
    /\ elapsed' = elapsed + 1
    /\ UNCHANGED <<policy, attempts, phase, last_delay>>

\* The sleep of next_delay is over, which is when in_backoff is false.
RetryWakes ==
    /\ phase = "waiting" /\ ~in_backoff
    /\ phase' = "trying"
    /\ last_delay' = IF next_delay > last_delay THEN next_delay ELSE last_delay
    /\ UNCHANGED <<policy, attempts, elapsed>>

RetryNext ==
    \/ \E p \in RetryPolicies : RetryNew(p)
    \/ RetryFails \/ RetryResets \/ RetryTick \/ RetryWakes
-----------------------------------------------------------------------------
\* The power of the coming backoff fits a u32.
PowerFits == policy.backoff_factor ^ (attempts - 1) < U32

(***************************************************************************)
(* A caller never tries more often than the policy allows, never before    *)
(* the backoff of its last failure is over, is never kept longer than      *)
(* max_delay, and no backoff is shorter than an earlier one as long as the *)
(* power fits a u32 (delay_for_attempt computes it with pow, which wraps). *)
(***************************************************************************)
BackoffKept ==
    phase # "idle" =>
        /\ attempts <= policy.max_retries
        /\ next_delay <= policy.max_delay
        /\ phase = "trying" /\ attempts > 0 => elapsed >= next_delay
        /\ phase = "waiting" /\ PowerFits /\ policy.backoff_factor > 0 => last_delay <= next_delay

\* A backoff ends: the caller is not kept waiting for ever.
BackoffEnds == phase = "waiting" ~> phase # "waiting"
=============================================================================
