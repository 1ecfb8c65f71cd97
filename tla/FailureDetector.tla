--------------------------- MODULE FailureDetector ---------------------------
(***************************************************************************)
(* The heartbeat failure detector of src/fault.rs.  Every method takes the *)
(* write lock of the table for its whole body, so each is one step.  Time  *)
(* is what update_status compares: the age of the last heartbeat is        *)
(* "fresh" up to heartbeat_timeout, "late" up to three times that, then    *)
(* "dead"; "never" is a worker without heartbeat.  Workers and the network *)
(* are the environment: a heartbeat is sent, and arrives later or is lost. *)
(***************************************************************************)
EXTENDS Integers

CONSTANTS
    Workers,
    failure_threshold,
    MaxFailures    \* bound on consecutive_failures

ASSUME DetectorAssumption ==
    /\ failure_threshold \in Nat \ {0}
    /\ MaxFailures \in Nat

VARIABLES
    workers,    \* the table: each worker's WorkerHealth, or Absent
    alive,      \* environment: the workers that have not crashed
    sent,       \* environment: the workers with a heartbeat on its way
    tripped     \* history: workers that reached the threshold since their last heartbeat

vars == <<workers, alive, sent, tripped>>

Absent == [status |-> "Absent"]
Health(status, age, failures) ==
    [status |-> status, age |-> age, consecutive_failures |-> failures]

NewHealth == Health("Unknown", "never", 0)

Registered == {w \in Workers : workers[w] # Absent}

Init ==
    /\ workers = [w \in Workers |-> Absent]
    /\ alive = Workers
    /\ sent = {}
    /\ tripped = {}

\* register_worker replaces the record of a worker that is already there.
RegisterWorker(w) ==
    /\ workers' = [workers EXCEPT ![w] = NewHealth]
    /\ tripped' = tripped \ {w}
    /\ UNCHANGED <<alive, sent>>

DeregisterWorker(w) ==
    /\ workers' = [workers EXCEPT ![w] = Absent]
    /\ UNCHANGED <<alive, sent, tripped>>

\* Fault: the heartbeat of a worker that was marked does not clear the mark.
RecordHeartbeatKeepsMark(w) ==
    /\ w \in sent
    /\ sent' = sent \ {w}
    /\ workers' = [workers EXCEPT ![w] =
            Health(IF @.status \in {"Suspected", "Failed"} THEN @.status ELSE "Healthy", "fresh", 0)]
    /\ tripped' = tripped \ {w}
    /\ UNCHANGED alive

\* record_heartbeat, which registers a worker it does not know.
RecordHeartbeat(w) ==
    /\ w \in sent
    /\ sent' = sent \ {w}
    /\ workers' = [workers EXCEPT ![w] = Health("Healthy", "fresh", 0)]
    /\ tripped' = tripped \ {w}
    /\ UNCHANGED alive

\* record_task_result for a worker in the table; for another it does nothing.
RecordTaskResult(w, success) ==
    LET failures == IF success THEN 0 ELSE workers[w].consecutive_failures + 1 IN
    /\ w \in Registered
    /\ failures <= MaxFailures
    /\ workers' = [workers EXCEPT ![w].consecutive_failures = failures]
    /\ tripped' = IF failures >= failure_threshold THEN tripped \cup {w} ELSE tripped
    /\ UNCHANGED <<alive, sent>>

\* Fault: a worker that no longer fails tasks is taken for healthy.
UpdatedForgives(h) ==
    [h EXCEPT !.status =
        IF h.consecutive_failures >= failure_threshold \/ h.age = "dead" THEN "Failed"
        ELSE IF h.age = "late" THEN "Suspected"
        ELSE IF h.age = "fresh" THEN "Healthy" ELSE @]

\* Fault: the shorter timeout is tested first.
UpdatedSwapped(h) ==
    [h EXCEPT !.status =
        IF h.consecutive_failures >= failure_threshold THEN "Failed"
        ELSE IF h.age \in {"late", "dead"} THEN "Suspected" ELSE @]

\* update_status
Updated(h) ==
    [h EXCEPT !.status =
        IF h.consecutive_failures >= failure_threshold \/ h.age = "dead" THEN "Failed"
        ELSE IF h.age = "late" THEN "Suspected" ELSE @]

UpdateAllStatuses ==
    /\ workers' = [w \in Workers |-> IF w \in Registered THEN Updated(workers[w]) ELSE Absent]
    /\ UNCHANGED <<alive, sent, tripped>>

-----------------------------------------------------------------------------
(* The environment *)

SendHeartbeat(w) ==
    /\ w \in alive
    /\ sent' = sent \cup {w}
    /\ UNCHANGED <<workers, alive, tripped>>

LoseHeartbeat(w) ==
    /\ w \in sent
    /\ sent' = sent \ {w}
    /\ UNCHANGED <<workers, alive, tripped>>

Crash(w) ==
    /\ w \in alive
    /\ alive' = alive \ {w}
    /\ UNCHANGED <<workers, sent, tripped>>

HeartbeatAges(w) ==
    /\ w \in Registered
    /\ workers[w].age \in {"fresh", "late"}
    /\ workers' = [workers EXCEPT ![w].age = IF @ = "fresh" THEN "late" ELSE "dead"]
    /\ UNCHANGED <<alive, sent, tripped>>

-----------------------------------------------------------------------------
Next ==
    \/ \E w \in Workers :
          \/ RegisterWorker(w) \/ DeregisterWorker(w) \/ RecordHeartbeat(w)
          \/ \E success \in BOOLEAN : RecordTaskResult(w, success)
          \/ SendHeartbeat(w) \/ LoseHeartbeat(w) \/ Crash(w) \/ HeartbeatAges(w)
    \/ UpdateAllStatuses

Spec == Init /\ [][Next]_vars

\* Time passes, the network does not hold a heartbeat forever, and the program
\* keeps calling update_all_statuses.
Fairness ==
    /\ WF_vars(UpdateAllStatuses)
    /\ \A w \in Workers : WF_vars(HeartbeatAges(w))
    /\ \A w \in Workers : WF_vars(RecordHeartbeat(w) \/ LoseHeartbeat(w))

FairSpec == Spec /\ Fairness

-----------------------------------------------------------------------------
(* Properties *)

Statuses == {"Healthy", "Suspected", "Failed", "Unknown"}
Ages == {"never", "fresh", "late", "dead"}
Healths == {Health(s, a, f) : s \in Statuses, a \in Ages, f \in 0 .. MaxFailures}
Available(w) == w \in Registered /\ workers[w].status \in {"Healthy", "Unknown"}

\* Every variable holds a value of its type.
TypeOK ==
    /\ workers \in [Workers -> Healths \cup {Absent}]
    /\ alive \subseteq Workers
    /\ sent \subseteq Workers
    /\ tripped \subseteq Workers

\* Accuracy: a worker is suspected only if its heartbeat is late, and failed
\* only if its heartbeat is lost or its tasks failed failure_threshold times in
\* a row since the last heartbeat.
SuspicionIsJustified ==
    \A w \in Registered :
        /\ workers[w].status = "Suspected" => workers[w].age \in {"late", "dead"}
        /\ workers[w].status = "Failed" => workers[w].age = "dead" \/ w \in tripped

\* A worker that was found unavailable becomes available only by a heartbeat or
\* a registration: updates and task results never bring it back.
NoSilentRecovery ==
    [][\A w \in Registered : ~Available(w) /\ Available(w)' =>
           workers'[w] \in {Health("Healthy", "fresh", 0), NewHealth}]_vars

Heard(w) == w \in Registered /\ workers[w].age # "never"

\* Completeness for workers that were heard of: one that crashes is marked
\* failed, unless it is registered anew or deregistered.
CrashedIsFailed ==
    \A w \in Workers : w \notin alive /\ Heard(w) ~> ~Heard(w) \/ workers[w].status = "Failed"

\* Nothing more is reported about w.
Silent(w) ==
    ~RegisterWorker(w) /\ \A success \in BOOLEAN : ~RecordTaskResult(w, success)

\* "Implements an unreliable failure detector following the Chandra-Toueg
\* model", whose completeness is that every crashed process is, from some time
\* on, suspected: here, every crashed worker that stays registered and is silent.
Completeness ==
    \A w \in Workers :
        <>[](w \notin alive /\ w \in Registered) /\ <>[][Silent(w)]_vars
            => <>[](~Available(w))

=============================================================================
