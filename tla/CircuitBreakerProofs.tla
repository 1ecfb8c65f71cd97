------------------------- MODULE CircuitBreakerProofs -------------------------
(***************************************************************************)
(* Proofs of the safety properties of CircuitBreaker, for any number of    *)
(* clients and any thresholds.  The inductive invariant adds to them that  *)
(* the write lock of the state has one holder, and what state the holder   *)
(* has set: without it a stamp of opened_at could belong to another state. *)
(***************************************************************************)
EXTENDS CircuitBreaker, TLAPS

\* One client at most is inside a transition.
OneHolder ==
    \A t \in Clients, u \in Clients : pc[t] \in Transitions /\ pc[u] \in Transitions => t = u

\* The transition that is under way belongs to the state.
HolderSet ==
    \A t \in Clients :
        /\ pc[t] = "half_counts" => state = "HalfOpen"
        /\ pc[t] = "open_stamp" => state = "Open"
        /\ pc[t] = "close_stamp" => state = "Closed"

BreakerInv == TypeOK /\ OneHolder /\ HolderSet /\ OpenHasTime /\ ThresholdActedOn

-----------------------------------------------------------------------------
\* A new breaker satisfies the invariant: it is closed, has no time and no counts.
LEMMA InitInv == Init => BreakerInv
  BY BreakerAssumption
  DEF Init, BreakerInv, TypeOK, OneHolder, HolderSet, OpenHasTime, ThresholdActedOn, Labels, Transitions

\* A step of t moves only t.
LEMMA GoFacts ==
  ASSUME TypeOK, NEW t \in Clients, NEW label \in Labels, Go(t, label)
  PROVE  /\ pc' \in [Clients -> Labels]
         /\ pc'[t] = label
         /\ \A u \in Clients : u # t => pc'[u] = pc[u]
  BY DEF TypeOK, Go

\* Outside the transitions, and as long as counters and state stay as they are,
\* t may move from a label that nothing waits for to any other one.
LEMMA MoveKeepsInv ==
  ASSUME BreakerInv, NEW t \in Clients, NEW label \in Labels \ Transitions, Go(t, label),
         pc[t] \in Labels \ (Transitions \cup {"open", "close", "reset"}),
         UNCHANGED <<state, opened_at, failure_count, success_count, waited>>
  PROVE  BreakerInv'
<1>1. /\ pc' \in [Clients -> Labels] /\ pc'[t] = label
      /\ \A u \in Clients : u # t => pc'[u] = pc[u]
  BY GoFacts DEF BreakerInv
<1>2. StateIsLocked' <=> StateIsLocked
  BY <1>1 DEF StateIsLocked
<1>3. TypeOK'
  BY <1>1 DEF BreakerInv, TypeOK
<1>4. OneHolder' /\ HolderSet'
  BY <1>1 DEF BreakerInv, OneHolder, HolderSet, Transitions
<1>5. OpenHasTime'
  BY <1>2 DEF BreakerInv, OpenHasTime
<1>6. ThresholdActedOn'
  BY <1>1, <1>2 DEF BreakerInv, ThresholdActedOn
<1> QED
  BY <1>3, <1>4, <1>5, <1>6 DEF BreakerInv

\* A call that enters goes on outside the transitions.
LEMMA EnterKeepsInv ==
  ASSUME BreakerInv, NEW t \in Clients, NEW s, NEW label \in Labels \ Transitions, Enter(t, s, label)
  PROVE  BreakerInv'
  BY MoveKeepsInv DEF Enter, Labels, Transitions

\* Whoever takes the write lock is alone in it and sets the state it stamps.
LEMMA TransitKeepsInv ==
  ASSUME BreakerInv, NEW t \in Clients,
         NEW s \in {"Closed", "Open", "HalfOpen"}, NEW label \in Transitions, Transit(t, s, label),
         <<s, label>> \in {<<"HalfOpen", "half_counts">>, <<"Open", "open_stamp">>, <<"Closed", "close_stamp">>}
  PROVE  BreakerInv'
<1>1. /\ pc' \in [Clients -> Labels] /\ pc'[t] = label /\ label \in Labels
      /\ \A u \in Clients : u # t => pc'[u] = pc[u] /\ pc[u] \notin Transitions
      /\ state' = s
  BY GoFacts DEF BreakerInv, Transit, Labels, StateIsLocked
<1>2. StateIsLocked'
  BY <1>1 DEF StateIsLocked
<1>3. TypeOK'
  BY <1>1 DEF BreakerInv, TypeOK, Transit
<1>4. OneHolder'
  BY <1>1 DEF OneHolder
<1>5. HolderSet'
  BY <1>1 DEF HolderSet, Transitions
<1> QED
  BY <1>2, <1>3, <1>4, <1>5 DEF BreakerInv, OpenHasTime, ThresholdActedOn

\* Counting outside the lock: a count that reaches its threshold sends t on.
LEMMA CountsKeepInv ==
  ASSUME BreakerInv, NEW t \in Clients, ForgetFailures(t) \/ CountSuccess(t) \/ CountFailure(t)
  PROVE  BreakerInv'
<1>1. PICK label \in Labels \ Transitions : Go(t, label)
  BY DEF ForgetFailures, CountSuccess, CountFailure, Labels, Transitions
<1>2. /\ pc' \in [Clients -> Labels] /\ pc'[t] = label
      /\ \A u \in Clients : u # t => pc'[u] = pc[u]
  BY <1>1, GoFacts DEF BreakerInv
<1>3. /\ UNCHANGED <<state, opened_at, waited>>
      /\ pc[t] \in {"forget_failures", "count_success", "count_failure"}
  BY DEF ForgetFailures, CountSuccess, CountFailure
<1>4. StateIsLocked' <=> StateIsLocked
  BY <1>2, <1>3 DEF StateIsLocked, Transitions
<1>5. TypeOK'
  BY <1>2, <1>3 DEF BreakerInv, TypeOK, ForgetFailures, CountSuccess, CountFailure
<1>6. OneHolder' /\ HolderSet'
  BY <1>2, <1>3 DEF BreakerInv, OneHolder, HolderSet, Transitions
<1>7. OpenHasTime'
  BY <1>3, <1>4 DEF BreakerInv, OpenHasTime
<1>8. ThresholdActedOn'
  <2>1. CASE ForgetFailures(t)
    BY <1>2, <1>3, <1>4, <2>1, BreakerAssumption DEF BreakerInv, ThresholdActedOn, ForgetFailures
  <2>2. CASE CountSuccess(t)
    BY <1>2, <1>3, <1>4, <2>2, BreakerAssumption DEF BreakerInv, ThresholdActedOn, CountSuccess, Go, TypeOK
  <2>3. CASE CountFailure(t)
    BY <1>2, <1>3, <1>4, <2>3, BreakerAssumption DEF BreakerInv, ThresholdActedOn, CountFailure, Go, TypeOK
  <2> QED
    BY <2>1, <2>2, <2>3
<1> QED
  BY <1>5, <1>6, <1>7, <1>8 DEF BreakerInv

\* A transition ends: the lock is free again, and time and counts fit the state.
LEMMA StampsKeepInv ==
  ASSUME BreakerInv, NEW t \in Clients, HalfOpenCounts(t) \/ OpenStamp(t) \/ CloseStamp(t)
  PROVE  BreakerInv'
<1>1. pc[t] \in Transitions /\ Go(t, "idle") /\ "idle" \in Labels /\ UNCHANGED <<state, waited>>
  BY DEF HalfOpenCounts, OpenStamp, CloseStamp, Transitions, Labels
<1>2. /\ pc' \in [Clients -> Labels] /\ pc'[t] = "idle"
      /\ \A u \in Clients : u # t => pc'[u] = pc[u] /\ pc[u] \notin Transitions
  BY <1>1, GoFacts DEF BreakerInv, OneHolder
<1>3. TypeOK'
  BY <1>1, <1>2 DEF BreakerInv, TypeOK, HalfOpenCounts, OpenStamp, CloseStamp
<1>4. OneHolder' /\ HolderSet'
  BY <1>2 DEF OneHolder, HolderSet, Transitions
<1>5. OpenHasTime' /\ ThresholdActedOn'
  <2>1. CASE HalfOpenCounts(t)
    BY <1>1, <2>1, BreakerAssumption DEF BreakerInv, HolderSet, OpenHasTime, ThresholdActedOn, HalfOpenCounts
  <2>2. CASE OpenStamp(t)
    BY <1>1, <2>2, BreakerAssumption DEF BreakerInv, HolderSet, OpenHasTime, ThresholdActedOn, OpenStamp
  <2>3. CASE CloseStamp(t)
    BY <1>1, <2>3, BreakerAssumption DEF BreakerInv, HolderSet, OpenHasTime, ThresholdActedOn, CloseStamp
  <2> QED
    BY <2>1, <2>2, <2>3
<1> QED
  BY <1>3, <1>4, <1>5 DEF BreakerInv

\* Time changes the age of the stamp, not whether there is one.
LEMMA TimeKeepsInv ==
  ASSUME BreakerInv, TimePasses
  PROVE  BreakerInv'
<1>1. UNCHANGED <<state, failure_count, success_count, pc>>
  BY DEF TimePasses
<1>2. opened_at' \in {"none", "fresh", "old"} /\ (opened_at' = "none" <=> opened_at = "none")
  BY DEF BreakerInv, TypeOK, TimePasses
<1>3. waited' \in BOOLEAN
  BY DEF TimePasses
<1>4. TypeOK'
  BY <1>1, <1>2, <1>3 DEF BreakerInv, TypeOK
<1>5. OneHolder' /\ HolderSet' /\ ThresholdActedOn'
  BY <1>1 DEF BreakerInv, OneHolder, HolderSet, ThresholdActedOn, StateIsLocked
<1>6. OpenHasTime'
  BY <1>1, <1>2 DEF BreakerInv, OpenHasTime, StateIsLocked
<1> QED
  BY <1>4, <1>5, <1>6 DEF BreakerInv

\* Every step keeps the invariant.
LEMMA NextKeepsInv ==
  ASSUME BreakerInv, [Next]_vars
  PROVE  BreakerInv'
<1>1. CASE UNCHANGED vars
  BY <1>1 DEF vars, BreakerInv, TypeOK, OneHolder, HolderSet, OpenHasTime, ThresholdActedOn, StateIsLocked
<1>2. CASE TimePasses
  BY <1>2, TimeKeepsInv
<1>3. ASSUME NEW t \in Clients, Call(t)
      PROVE  BreakerInv'
  <2>1. CASE Reset(t)
    <3>1. pc[t] \in Labels \ (Transitions \cup {"open", "close", "reset"}) /\ "reset" \in Labels \ Transitions
      BY <2>1 DEF Reset, Labels, Transitions
    <3> QED
      BY <2>1, <3>1, MoveKeepsInv DEF Reset
  <2>2. CASE AllowsAtOnce(t) \/ AllowsIfOld(t) \/ SuccessCall(t) \/ FailureCall(t)
    <3>1. {"idle", "elapsed", "forget_failures", "count_success", "count_failure", "open"} \subseteq Labels \ Transitions
      BY DEF Labels, Transitions
    <3>2. PICK s \in {"Closed", "Open", "HalfOpen"}, label \in Labels \ Transitions : Enter(t, s, label)
      BY <2>2, <3>1, Zenon DEF AllowsAtOnce, AllowsIfOld, SuccessCall, FailureCall
    <3> QED
      BY <3>2, EnterKeepsInv
  <2> QED
    BY <1>3, <2>1, <2>2 DEF Call
<1>4. ASSUME NEW t \in Clients, Step(t)
      PROVE  BreakerInv'
  <2>1. CASE AllowsElapsed(t)
    <3>1. pc[t] \in Labels \ (Transitions \cup {"open", "close", "reset"})
          /\ {"half_open", "idle"} \subseteq Labels \ Transitions
      BY <2>1 DEF AllowsElapsed, Labels, Transitions
    <3> QED
      BY <2>1, <3>1, MoveKeepsInv DEF AllowsElapsed
  <2>2. CASE ForgetFailures(t) \/ CountSuccess(t) \/ CountFailure(t)
    BY <2>2, CountsKeepInv
  <2>3. CASE ToHalfOpen(t) \/ ToOpen(t) \/ ToClosed(t)
    BY <2>3, TransitKeepsInv DEF ToHalfOpen, ToOpen, ToClosed, Transitions
  <2>4. CASE HalfOpenCounts(t) \/ OpenStamp(t) \/ CloseStamp(t)
    BY <2>4, StampsKeepInv
  <2> QED
    BY <1>4, <2>1, <2>2, <2>3, <2>4 DEF Step
<1> QED
  BY <1>1, <1>2, <1>3, <1>4 DEF Next

-----------------------------------------------------------------------------
\* The breaker is well typed, whatever its clients do.
THEOREM BreakerTypeCorrect == Spec => []TypeOK
  BY InitInv, NextKeepsInv, PTL DEF Spec, BreakerInv

\* The state and opened_at, which are behind two locks, are never seen out of
\* step: an open breaker can always half-open again.
THEOREM BreakerOpenHasTime == Spec => []OpenHasTime
  BY InitInv, NextKeepsInv, PTL DEF Spec, BreakerInv

\* A threshold that record_failure or record_success reached is acted on, also
\* when transitions of other clients come between the count and the lock.
THEOREM BreakerThresholdActedOn == Spec => []ThresholdActedOn
  BY InitInv, NextKeepsInv, PTL DEF Spec, BreakerInv

===============================================================================
