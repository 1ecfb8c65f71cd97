------------------------ MODULE FailureDetectorProofs ------------------------
(***************************************************************************)
(* Proofs of the safety properties of FailureDetector, for any set of      *)
(* workers, any threshold and any bound on the failures that are counted.  *)
(* The inductive invariant adds that a count at the threshold was noticed, *)
(* which is what update_all_statuses acts on later.                        *)
(***************************************************************************)
EXTENDS FailureDetector, TLAPS

\* A worker whose failures are at the threshold is among the tripped ones.
CountedIsTripped ==
    \A w \in Registered : workers[w].consecutive_failures >= failure_threshold => w \in tripped

DetectorInv == TypeOK /\ CountedIsTripped /\ SuspicionIsJustified

-----------------------------------------------------------------------------
\* The record of a worker in the table has its three fields.
LEMMA HealthFields ==
  ASSUME NEW h \in Healths
  PROVE  /\ h = Health(h.status, h.age, h.consecutive_failures)
         /\ h.status \in Statuses /\ h.age \in Ages /\ h.consecutive_failures \in 0 .. MaxFailures
         /\ h # Absent
  BY DEF Healths, Health, Absent, Statuses

\* What is built from fields is a record of the table, with these fields.
LEMMA HealthType ==
  ASSUME NEW s \in Statuses, NEW a \in Ages, NEW f \in 0 .. MaxFailures
  PROVE  /\ Health(s, a, f) \in Healths
         /\ Health(s, a, f).status = s /\ Health(s, a, f).age = a
         /\ Health(s, a, f).consecutive_failures = f
         /\ Health(s, a, f) # Absent
  BY DEF Healths, Health, Absent, Statuses

\* A worker is registered if and only if its record is one with fields.
LEMMA RegisteredFacts ==
  ASSUME TypeOK, NEW w \in Workers
  PROVE  /\ workers[w] \in Healths \cup {Absent}
         /\ w \in Registered <=> workers[w] \in Healths
<1>1. workers[w] \in Healths \cup {Absent}
  BY DEF TypeOK
<1> QED
  BY <1>1, HealthFields DEF Registered

\* What the invariant says of one record.
Sound(h, w, trip) ==
    /\ h.consecutive_failures >= failure_threshold => w \in trip
    /\ h.status = "Suspected" => h.age \in {"late", "dead"}
    /\ h.status = "Failed" => h.age = "dead" \/ w \in trip

\* The invariant, record by record.
LEMMA InvByRecord ==
  ASSUME workers \in [Workers -> Healths \cup {Absent}],
         alive \subseteq Workers, sent \subseteq Workers, tripped \subseteq Workers
  PROVE  DetectorInv <=> \A w \in Workers : workers[w] # Absent => Sound(workers[w], w, tripped)
<1>1. TypeOK
  BY DEF TypeOK
<1> QED
  BY <1>1 DEF DetectorInv, CountedIsTripped, SuspicionIsJustified, Sound, Registered

\* A step that changes the record of one worker at most, to a sound one.
LEMMA OneRecord ==
  ASSUME DetectorInv, NEW w \in Workers, NEW h \in Healths \cup {Absent},
         workers' = [workers EXCEPT ![w] = h],
         alive' \subseteq Workers, sent' \subseteq Workers, tripped' \subseteq Workers,
         \A u \in Workers : u # w => (u \in tripped' <=> u \in tripped),
         h # Absent => Sound(h, w, tripped')
  PROVE  DetectorInv'
<1>1. workers \in [Workers -> Healths \cup {Absent}]
  BY DEF DetectorInv, TypeOK
<1>2. /\ alive \subseteq Workers /\ sent \subseteq Workers /\ tripped \subseteq Workers
  BY DEF DetectorInv, TypeOK
<1>3. \A u \in Workers : workers[u] # Absent => Sound(workers[u], u, tripped)
  BY <1>1, <1>2, InvByRecord
<1>4. workers' \in [Workers -> Healths \cup {Absent}]
  BY <1>1
<1>5. \A u \in Workers : workers'[u] # Absent => Sound(workers'[u], u, tripped')
  <2>1. ASSUME NEW u \in Workers, workers'[u] # Absent PROVE Sound(workers'[u], u, tripped')
    <3>1. CASE u = w
      BY <1>1, <2>1, <3>1
    <3>2. CASE u # w
      BY <1>1, <1>3, <2>1, <3>2 DEF Sound
    <3> QED
      BY <3>1, <3>2
  <2> QED
    BY <2>1
<1>6. TypeOK'
  BY <1>4 DEF TypeOK
<1> QED
  BY <1>5, <1>6 DEF DetectorInv, CountedIsTripped, SuspicionIsJustified, Sound, Registered

-----------------------------------------------------------------------------
\* A new table is empty.
LEMMA InitInv == Init => DetectorInv
<1> SUFFICES ASSUME Init PROVE DetectorInv
  OBVIOUS
<1>1. workers \in [Workers -> Healths \cup {Absent}] /\ \A w \in Workers : workers[w] = Absent
  BY DEF Init
<1>2. alive \subseteq Workers /\ sent \subseteq Workers /\ tripped \subseteq Workers
  BY DEF Init
<1> QED
  BY <1>1, <1>2, InvByRecord

\* register_worker and record_heartbeat write a record that raises no suspicion.
LEMMA RegisterKeepsInv ==
  ASSUME DetectorInv, NEW w \in Workers, RegisterWorker(w) \/ RecordHeartbeat(w)
  PROVE  DetectorInv'
<1>1. 0 \in 0 .. MaxFailures /\ ~(0 >= failure_threshold)
  BY DetectorAssumption
<1>2. /\ NewHealth \in Healths /\ Sound(NewHealth, w, tripped')
      /\ Health("Healthy", "fresh", 0) \in Healths /\ Sound(Health("Healthy", "fresh", 0), w, tripped')
  BY <1>1, HealthType DEF NewHealth, Sound, Statuses, Ages
<1>3. /\ alive' \subseteq Workers /\ sent' \subseteq Workers /\ tripped' \subseteq Workers
      /\ \A u \in Workers : u # w => (u \in tripped' <=> u \in tripped)
  BY DEF RegisterWorker, RecordHeartbeat, DetectorInv, TypeOK
<1>4. PICK h \in {NewHealth, Health("Healthy", "fresh", 0)} : workers' = [workers EXCEPT ![w] = h]
  BY DEF RegisterWorker, RecordHeartbeat
<1>5. Sound(h, w, tripped') /\ h \in Healths \cup {Absent}
  BY <1>2, <1>4
<1> QED
  BY <1>3, <1>4, <1>5, OneRecord

\* Removing a record, and what only the environment sees.
LEMMA DeregisterKeepsInv ==
  ASSUME DetectorInv, NEW w \in Workers, DeregisterWorker(w)
  PROVE  DetectorInv'
<1>1. /\ alive' \subseteq Workers /\ sent' \subseteq Workers /\ tripped' \subseteq Workers
      /\ workers' = [workers EXCEPT ![w] = Absent] /\ tripped' = tripped
  BY DEF DeregisterWorker, DetectorInv, TypeOK
<1> QED
  BY <1>1, OneRecord

\* Messages and crashes leave the table alone.
LEMMA NetworkKeepsInv ==
  ASSUME DetectorInv, NEW w \in Workers, SendHeartbeat(w) \/ LoseHeartbeat(w) \/ Crash(w)
  PROVE  DetectorInv'
<1>1. /\ alive' \subseteq Workers /\ sent' \subseteq Workers
      /\ UNCHANGED <<workers, tripped>>
  BY DEF SendHeartbeat, LoseHeartbeat, Crash, DetectorInv, TypeOK
<1> QED
  BY <1>1 DEF DetectorInv, TypeOK, CountedIsTripped, SuspicionIsJustified, Registered

\* A count at the threshold is noticed in the same step.
LEMMA ResultKeepsInv ==
  ASSUME DetectorInv, NEW w \in Workers, NEW success \in BOOLEAN, RecordTaskResult(w, success)
  PROVE  DetectorInv'
<1> DEFINE h == workers[w]
           failures == IF success THEN 0 ELSE h.consecutive_failures + 1
           new == [h EXCEPT !.consecutive_failures = failures]
<1>1. /\ w \in Registered /\ failures <= MaxFailures
      /\ workers' = [workers EXCEPT ![w].consecutive_failures = failures]
      /\ tripped' = IF failures >= failure_threshold THEN tripped \cup {w} ELSE tripped
      /\ UNCHANGED <<alive, sent>>
  BY DEF RecordTaskResult
<1>2. /\ h \in Healths /\ h.status \in Statuses /\ h.age \in Ages
      /\ h.consecutive_failures \in 0 .. MaxFailures /\ h = Health(h.status, h.age, h.consecutive_failures)
  BY <1>1, RegisteredFacts, HealthFields DEF DetectorInv
<1>3. failures \in 0 .. MaxFailures
  BY <1>1, <1>2, DetectorAssumption
<1>4. new = Health(h.status, h.age, failures)
  BY <1>2 DEF Health
<1>5. /\ new \in Healths /\ new.status = h.status /\ new.age = h.age /\ new.consecutive_failures = failures
  BY <1>2, <1>3, <1>4, HealthType
<1>6. Sound(h, w, tripped)
  BY <1>1 DEF DetectorInv, CountedIsTripped, SuspicionIsJustified, Sound
<1>7. Sound(new, w, tripped')
  BY <1>1, <1>5, <1>6 DEF Sound
<1>8. /\ alive' \subseteq Workers /\ sent' \subseteq Workers /\ tripped' \subseteq Workers
      /\ \A u \in Workers : u # w => (u \in tripped' <=> u \in tripped)
  BY <1>1 DEF DetectorInv, TypeOK
<1>9. workers' = [workers EXCEPT ![w] = new]
  BY <1>1 DEF DetectorInv, TypeOK
<1> QED
  BY <1>5, <1>7, <1>8, <1>9, OneRecord

\* A heartbeat that ages only adds reasons for suspicion.
LEMMA AgesKeepInv ==
  ASSUME DetectorInv, NEW w \in Workers, HeartbeatAges(w)
  PROVE  DetectorInv'
<1> DEFINE h == workers[w]
           age == IF h.age = "fresh" THEN "late" ELSE "dead"
           new == [h EXCEPT !.age = age]
<1>1. w \in Registered /\ h.age \in {"fresh", "late"} /\ UNCHANGED <<alive, sent, tripped>>
  BY DEF HeartbeatAges
<1>2. /\ h \in Healths /\ h.status \in Statuses
      /\ h.consecutive_failures \in 0 .. MaxFailures /\ h = Health(h.status, h.age, h.consecutive_failures)
  BY <1>1, RegisteredFacts, HealthFields DEF DetectorInv
<1>3. new = Health(h.status, age, h.consecutive_failures) /\ age \in Ages
  BY <1>2 DEF Health, Ages
<1>4. /\ new \in Healths /\ new.status = h.status /\ new.age = age
      /\ new.consecutive_failures = h.consecutive_failures
  BY <1>2, <1>3, HealthType
<1>5. Sound(h, w, tripped)
  BY <1>1 DEF DetectorInv, CountedIsTripped, SuspicionIsJustified, Sound
<1>6. Sound(new, w, tripped')
  BY <1>1, <1>4, <1>5 DEF Sound
<1>7. workers' = [workers EXCEPT ![w] = new]
  BY DEF HeartbeatAges, DetectorInv, TypeOK
<1> QED
  BY <1>1, <1>4, <1>6, <1>7, OneRecord DEF DetectorInv, TypeOK

\* update_status marks a record for a reason that the record carries.
LEMMA UpdatedFacts ==
  ASSUME NEW h \in Healths, NEW w, NEW trip, Sound(h, w, trip)
  PROVE  /\ Updated(h) \in Healths /\ Sound(Updated(h), w, trip)
         /\ Updated(h).status \in {"Healthy", "Unknown"} => Updated(h) = h
<1> DEFINE status == IF h.consecutive_failures >= failure_threshold \/ h.age = "dead" THEN "Failed"
                     ELSE IF h.age = "late" THEN "Suspected" ELSE h.status
<1>1. /\ h.status \in Statuses /\ h.age \in Ages /\ h.consecutive_failures \in 0 .. MaxFailures
      /\ h = Health(h.status, h.age, h.consecutive_failures)
  BY HealthFields
<1>2. status \in Statuses
  BY <1>1 DEF Statuses
<1>3. Updated(h) = Health(status, h.age, h.consecutive_failures)
  BY <1>1 DEF Updated, Health
<1>4. /\ Updated(h) \in Healths /\ Updated(h).status = status /\ Updated(h).age = h.age
      /\ Updated(h).consecutive_failures = h.consecutive_failures
  BY <1>1, <1>2, <1>3, HealthType
<1>5. Sound(Updated(h), w, trip)
  BY <1>4 DEF Sound
<1>6. status \in {"Healthy", "Unknown"} => status = h.status
  OBVIOUS
<1> QED
  BY <1>1, <1>3, <1>4, <1>5, <1>6

\* update_all_statuses does that to every record.
LEMMA UpdateKeepsInv ==
  ASSUME DetectorInv, UpdateAllStatuses
  PROVE  DetectorInv'
<1>1. /\ workers' = [w \in Workers |-> IF w \in Registered THEN Updated(workers[w]) ELSE Absent]
      /\ UNCHANGED <<alive, sent, tripped>>
  BY DEF UpdateAllStatuses
<1>2. ASSUME NEW w \in Workers, w \in Registered
      PROVE  Updated(workers[w]) \in Healths /\ Sound(Updated(workers[w]), w, tripped)
  <2>1. workers[w] \in Healths
    BY <1>2, RegisteredFacts DEF DetectorInv
  <2>2. Sound(workers[w], w, tripped)
    BY <1>2 DEF DetectorInv, CountedIsTripped, SuspicionIsJustified, Sound
  <2> QED
    BY <2>1, <2>2, UpdatedFacts
<1>3. workers' \in [Workers -> Healths \cup {Absent}]
  BY <1>1, <1>2
<1>4. \A w \in Workers : workers'[w] # Absent => Sound(workers'[w], w, tripped')
  BY <1>1, <1>2
<1>5. TypeOK'
  BY <1>1, <1>3 DEF DetectorInv, TypeOK
<1> QED
  BY <1>4, <1>5 DEF DetectorInv, CountedIsTripped, SuspicionIsJustified, Sound, Registered

\* Every step keeps the invariant.
LEMMA NextKeepsInv ==
  ASSUME DetectorInv, [Next]_vars
  PROVE  DetectorInv'
<1>1. CASE UNCHANGED vars
  BY <1>1 DEF vars, DetectorInv, TypeOK, CountedIsTripped, SuspicionIsJustified, Registered
<1>2. CASE UpdateAllStatuses
  BY <1>2, UpdateKeepsInv
<1>3. ASSUME NEW w \in Workers,
             \/ RegisterWorker(w) \/ DeregisterWorker(w) \/ RecordHeartbeat(w)
             \/ \E success \in BOOLEAN : RecordTaskResult(w, success)
             \/ SendHeartbeat(w) \/ LoseHeartbeat(w) \/ Crash(w) \/ HeartbeatAges(w)
      PROVE  DetectorInv'
  BY <1>3, RegisterKeepsInv, DeregisterKeepsInv, NetworkKeepsInv, ResultKeepsInv, AgesKeepInv
<1> QED
  BY <1>1, <1>2, <1>3 DEF Next

-----------------------------------------------------------------------------
\* A worker that is unavailable keeps its mark in every step but a heartbeat and
\* a registration.
LEMMA StepRecovers ==
  ASSUME DetectorInv, Next
  PROVE  \A w \in Registered : ~Available(w) /\ Available(w)' =>
            workers'[w] \in {Health("Healthy", "fresh", 0), NewHealth}
<1> SUFFICES ASSUME NEW w \in Registered, ~Available(w), Available(w)'
             PROVE  workers'[w] \in {Health("Healthy", "fresh", 0), NewHealth}
  OBVIOUS
<1>1. /\ w \in Workers /\ workers \in [Workers -> Healths \cup {Absent}]
      /\ workers[w].status \notin {"Healthy", "Unknown"} /\ workers[w] \in Healths
      /\ workers'[w] # Absent /\ workers'[w].status \in {"Healthy", "Unknown"}
  BY RegisteredFacts DEF Registered, Available, DetectorInv, TypeOK
<1>2. CASE UpdateAllStatuses
  <2>1. Sound(workers[w], w, tripped)
    BY DEF DetectorInv, CountedIsTripped, SuspicionIsJustified, Sound
  <2>2. workers'[w] = Updated(workers[w])
    BY <1>1, <1>2 DEF UpdateAllStatuses
  <2> QED
    BY <1>1, <2>1, <2>2, UpdatedFacts
<1>3. ASSUME NEW v \in Workers, RegisterWorker(v) \/ RecordHeartbeat(v)
      PROVE  workers'[w] \in {Health("Healthy", "fresh", 0), NewHealth}
  BY <1>1, <1>3 DEF RegisterWorker, RecordHeartbeat
<1>4. ASSUME NEW v \in Workers, DeregisterWorker(v) \/ SendHeartbeat(v) \/ LoseHeartbeat(v) \/ Crash(v)
      PROVE  FALSE
  BY <1>1, <1>4 DEF DeregisterWorker, SendHeartbeat, LoseHeartbeat, Crash
<1>5. ASSUME NEW v \in Workers,
             HeartbeatAges(v) \/ \E success \in BOOLEAN : RecordTaskResult(v, success)
      PROVE  FALSE
  <2>1. workers[w] = Health(workers[w].status, workers[w].age, workers[w].consecutive_failures)
    BY <1>1, HealthFields
  <2>2. workers'[w].status = workers[w].status
    BY <1>1, <1>5, <2>1 DEF HeartbeatAges, RecordTaskResult, Health
  <2> QED
    BY <1>1, <2>2
<1> QED
  BY <1>2, <1>3, <1>4, <1>5 DEF Next

\* The table is well typed; the counts stay within their bound.
THEOREM DetectorTypeCorrect == Spec => []TypeOK
  BY InitInv, NextKeepsInv, PTL DEF Spec, DetectorInv

\* A worker is suspected, or taken for failed, only for a reason.
THEOREM DetectorAccurate == Spec => []SuspicionIsJustified
  BY InitInv, NextKeepsInv, PTL DEF Spec, DetectorInv

\* A mark goes away only by a heartbeat or a registration.
THEOREM DetectorNoSilentRecovery == Spec => NoSilentRecovery
<1>1. DetectorInv /\ [Next]_vars =>
        [\A w \in Registered : ~Available(w) /\ Available(w)' =>
            workers'[w] \in {Health("Healthy", "fresh", 0), NewHealth}]_vars
  BY StepRecovers
<1> QED
  BY <1>1, InitInv, NextKeepsInv, PTL DEF Spec, NoSilentRecovery
===============================================================================
