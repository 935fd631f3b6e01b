--------------------------------- MODULE Bcm ---------------------------------
(***************************************************************************)
(* The body control module: the driving-cycle simulation of bcm_func.c.    *)
(* Four threads share the order, the state and the current step of the     *)
(* simulation: simu_speed computes the controls of the step and posts the  *)
(* semaphore, comms sends the step and moves on to the next one, checking  *)
(* the health signals, sensor_battery writes the battery readings of the   *)
(* step, and comms_reception stops the simulation when another ECU says    *)
(* "error_disabled".  All but comms_reception work under mutex_bcm; that   *)
(* thread, and the first check_order of simu_speed, take no lock.          *)
(*                                                                         *)
(* The driving cycle is abstract: of the rows of the CSV file only how     *)
(* many there are and which of them have an adverse health signal matter.  *)
(* Of the computed fields of the current row only whether they have been   *)
(* written matters.                                                        *)
(***************************************************************************)
EXTENDS Integers

CONSTANTS DataSize,       \* data_size after read_csv: rows of the file - 1
          SafetyTimeout,  \* safety_timeout_ms, in periods of comms
          CheckDelays,    \* time from one health check to the next, ditto
          MaxSem          \* bound: posts of sem_comms not yet taken

\* A file with at least two rows.  With fewer, data_size is 0 or -1 and the
\* end of the cycle is never met.
ASSUME DataSizeAssumption == DataSize \in Nat \ {0}
ASSUME TimeAssumption ==
    SafetyTimeout \in Nat \ {0} /\ CheckDelays \subseteq Nat \ {0}
ASSUME MaxSemAssumption == MaxSem \in Nat \ {0}

NUM_DISABLE_RETRIES == 3

Rows == 0..DataSize

VARIABLES
    mutex,           \* is mutex_bcm held by simu_speed, or "free"?
    speed_pc,        \* where simu_speed is
    comms_pc,        \* where comms is
    retries,         \* writes parse_input_received_bcm has still to do
    sem_comms,       \* value of the semaphore
    simu_order,
    simu_state,
    simu_curr_step,
    data_updated,
    adverse,         \* the rows with an adverse health signal
    controls_ready,  \* accel, brake and gear of the current row are computed
    battery_ready,   \* batt_soc and batt_volt of the current row are written
    fault_active,
    fault_age,       \* getCurrentTimeMs() - fault_start_time at the last check
    disabled_sent,   \* "error_disabled" commands sent
    fault_since,     \* history: the row at which the active fault was found
    stop_step        \* history: the current step when STOP was first ordered

threads == <<mutex, speed_pc, comms_pc, retries, sem_comms>>
simulation == <<simu_order, simu_state, simu_curr_step, data_updated>>
rows == <<adverse, controls_ready, battery_ready>>
faults == <<fault_active, fault_age, disabled_sent, fault_since>>
vars == <<threads, simulation, rows, faults, stop_step>>

\* stop_step before any order to stop.
Never == DataSize + 1

-----------------------------------------------------------------------------

\* main: the order to run is given before the threads start.
Init ==
    /\ mutex = "free"
    /\ speed_pc = "start"
    /\ comms_pc = "wait"
    /\ retries = 0
    /\ sem_comms = 0
    /\ simu_order = "RUN"
    /\ simu_state = "STOPPED"
    /\ simu_curr_step = 0
    /\ data_updated = FALSE
    /\ adverse = {}
    /\ controls_ready = FALSE
    /\ battery_ready = FALSE
    /\ fault_active = FALSE
    /\ fault_age = 0
    /\ disabled_sent = 0
    /\ fault_since = 0
    /\ stop_step = Never

\* simu_order = ORDER_STOP, written while the simulation is at a step.
OrderStop(step) ==
    /\ simu_order' = "STOP"
    /\ stop_step' = IF simu_order = "STOP" THEN stop_step ELSE step

-----------------------------------------------------------------------------
(* simu_speed                                                              *)

\* The first check_order, without the mutex: an order to run reads the cycle,
\* an order to stop that came before it finds nothing to stop.
SpeedStart ==
    /\ speed_pc = "start"
    /\ speed_pc' = "sleep"
    /\ IF simu_order = "RUN"
         THEN /\ simu_state' = "RUNNING"
              /\ simu_curr_step' = 0
              /\ adverse' \in SUBSET Rows
              /\ controls_ready' = FALSE
              /\ battery_ready' = FALSE
         ELSE UNCHANGED <<simu_state, simu_curr_step, rows>>
    /\ UNCHANGED <<mutex, comms_pc, retries, sem_comms, simu_order,
                   data_updated, faults, stop_step>>

\* The bound keeps the model finite: both threads have a period of a second.
SpeedLock ==
    /\ speed_pc = "sleep"
    /\ mutex = "free"
    /\ sem_comms < MaxSem
    /\ mutex' = "speed"
    /\ speed_pc' = "check"
    /\ UNCHANGED <<comms_pc, retries, sem_comms, simulation, rows, faults,
                   stop_step>>

\* A defect: the order is not obeyed inside the loop.
check_order_ignored == UNCHANGED simu_state

check_order ==
    simu_state' = IF simu_order = "STOP" THEN "STOPPED" ELSE simu_state

\* check_order(simu_order) inside the loop: only an order to stop can differ
\* from the state, since ORDER_RUN is given once, before SpeedStart.
SpeedCheckOrder ==
    /\ speed_pc = "check"
    /\ speed_pc' = "step"
    /\ check_order
    /\ UNCHANGED <<mutex, comms_pc, retries, sem_comms, simu_order,
                   simu_curr_step, data_updated, rows, faults, stop_step>>

SpeedUnlock ==
    /\ mutex' = "free"
    /\ speed_pc' = "sleep"

\* A defect: the end of the cycle is tested one row too late.
PastLastRow == simu_curr_step = DataSize

LastRow == simu_curr_step + 1 = DataSize

\* A defect: the semaphore is not posted.
sem_unposted == UNCHANGED sem_comms

\* A defect: the semaphore is posted for the sample and for its controls.
sem_post_twice == sem_comms' = sem_comms + 2

sem_post == sem_comms' = sem_comms + 1

\* simu_speed_step while the simulation runs: the controls of the last row
\* are not computed, and reaching it orders the simulation to stop.
SpeedStep ==
    /\ speed_pc = "step"
    /\ simu_state = "RUNNING"
    /\ data_updated' = TRUE
    /\ sem_post
    /\ IF LastRow
         THEN OrderStop(simu_curr_step) /\ UNCHANGED controls_ready
         ELSE controls_ready' = TRUE /\ UNCHANGED <<simu_order, stop_step>>
    /\ SpeedUnlock
    /\ UNCHANGED <<comms_pc, retries, simu_state, simu_curr_step, adverse,
                   battery_ready, faults>>

\* simu_speed_step does nothing otherwise.
SpeedIdle ==
    /\ speed_pc = "step"
    /\ simu_state # "RUNNING"
    /\ SpeedUnlock
    /\ UNCHANGED <<comms_pc, retries, sem_comms, simulation, rows, faults,
                   stop_step>>

-----------------------------------------------------------------------------
(* comms                                                                   *)

\* sem_wait(&sem_comms)
CommsWait ==
    /\ comms_pc = "wait"
    /\ sem_comms > 0
    /\ sem_comms' = sem_comms - 1
    /\ comms_pc' = "lock"
    /\ UNCHANGED <<mutex, speed_pc, retries, simulation, rows, faults,
                   stop_step>>

\* A defect: the simulation goes on after "error_disabled".
WarnOnly(step) ==
    /\ disabled_sent' = disabled_sent + 1
    /\ UNCHANGED <<simu_order, stop_step>>

DisableSystem(step) ==
    /\ disabled_sent' = disabled_sent + 1
    /\ OrderStop(step)

\* A defect: a good sample does not end the fault.
KeepFault == UNCHANGED fault_active

ClearFault == fault_active' = FALSE

\* check_health_signals(), for the row step, delay after the last check.
check_health_signals(step, delay) ==
    LET age == IF fault_active THEN fault_age + delay ELSE 0
    IN  IF step \in adverse
          THEN /\ fault_active' = TRUE
               /\ fault_age' = age
               /\ fault_since' = IF fault_active THEN fault_since ELSE step
               /\ IF age >= SafetyTimeout
                    THEN DisableSystem(step)
                    ELSE UNCHANGED <<disabled_sent, simu_order, stop_step>>
          ELSE /\ ClearFault
               /\ UNCHANGED <<fault_age, fault_since, disabled_sent,
                              simu_order, stop_step>>

\* A defect: a post of the semaphore is taken for a new sample.
SampleOnPost == simu_state = "RUNNING" /\ simu_curr_step < DataSize

SampleToSend == simu_state = "RUNNING" /\ data_updated

\* The critical section, when there is a step to send: the twelve messages
\* of send_data_update, the next step, and the check of that next step.
CommsSend ==
    /\ comms_pc = "lock"
    /\ mutex = "free"
    /\ SampleToSend
    /\ data_updated' = FALSE
    /\ simu_curr_step' = simu_curr_step + 1
    /\ \E delay \in CheckDelays :
          check_health_signals(simu_curr_step + 1, delay)
    /\ controls_ready' = FALSE
    /\ battery_ready' = FALSE
    /\ comms_pc' = "wait"
    /\ UNCHANGED <<mutex, speed_pc, retries, sem_comms, simu_state, adverse>>

\* The critical section, when there is nothing to send.
CommsSkip ==
    /\ comms_pc = "lock"
    /\ mutex = "free"
    /\ ~SampleToSend
    /\ comms_pc' = "wait"
    /\ UNCHANGED <<mutex, speed_pc, retries, sem_comms, simulation, rows,
                   faults, stop_step>>

-----------------------------------------------------------------------------
(* sensor_battery and comms_reception                                      *)

\* update_battery_soc for the current row.
BatteryUpdate ==
    /\ mutex = "free"
    /\ simu_state = "RUNNING"
    /\ battery_ready' = TRUE
    /\ UNCHANGED <<threads, simulation, adverse, controls_ready, faults,
                   stop_step>>

\* check_system_disable, then parse_input_received_bcm: "error_disabled"
\* arrives, from the powertrain ECU or from this ECU's own sending socket.
ReceiveDisabled ==
    /\ retries = 0
    /\ OrderStop(simu_curr_step)
    /\ retries' = NUM_DISABLE_RETRIES - 1
    /\ UNCHANGED <<mutex, speed_pc, comms_pc, sem_comms, simu_state,
                   simu_curr_step, data_updated, rows, faults>>

\* The order is written again, a second later each time.
RepeatStop ==
    /\ retries > 0
    /\ OrderStop(simu_curr_step)
    /\ retries' = retries - 1
    /\ UNCHANGED <<mutex, speed_pc, comms_pc, sem_comms, simu_state,
                   simu_curr_step, data_updated, rows, faults>>

-----------------------------------------------------------------------------

SpeedNext ==
    SpeedStart \/ SpeedLock \/ SpeedCheckOrder \/ SpeedStep \/ SpeedIdle

CommsLocked == CommsSend \/ CommsSkip

Next ==
    \/ SpeedNext
    \/ CommsWait
    \/ CommsLocked
    \/ BatteryUpdate
    \/ ReceiveDisabled
    \/ RepeatStop

Spec == Init /\ [][Next]_vars

\* simu_speed and comms run; comms gets the mutex that simu_speed releases
\* for a second after each step.  Nothing is assumed of the other ECUs.
FairSpec ==
    /\ Spec
    /\ WF_vars(SpeedNext)
    /\ WF_vars(CommsWait)
    /\ SF_vars(CommsLocked)

-----------------------------------------------------------------------------
(* Safety.                                                                 *)

\* Type invariant of the simulation's variables.
TypeOK ==
    /\ mutex \in {"free", "speed"}
    /\ speed_pc \in {"start", "sleep", "check", "step"}
    /\ comms_pc \in {"wait", "lock"}
    /\ retries \in 0..NUM_DISABLE_RETRIES
    /\ sem_comms \in 0..MaxSem
    /\ simu_order \in {"RUN", "STOP"}
    /\ simu_state \in {"STOPPED", "RUNNING"}
    /\ simu_curr_step \in Rows
    /\ data_updated \in BOOLEAN
    /\ adverse \subseteq Rows
    /\ controls_ready \in BOOLEAN
    /\ battery_ready \in BOOLEAN
    /\ fault_active \in BOOLEAN
    /\ fault_age \in Nat
    /\ disabled_sent \in Nat
    /\ fault_since \in Rows
    /\ stop_step \in 0..Never

\* The end of the cycle is met exactly: while the simulation runs and has not
\* been ordered to stop, the current row has a successor to compare with, so
\* that no thread reads beyond the rows of the cycle.  The test for the end
\* is an equality, one thread makes it and another advances the step.
StepInBounds ==
    simu_state = "RUNNING" =>
        \/ simu_curr_step < DataSize
        \/ simu_curr_step = DataSize /\ simu_order = "STOP" /\ ~data_updated

\* Once the order to stop is given, by any thread at any moment, at most one
\* more sample is sent.
OneSampleAfterStop ==
    simu_order = "STOP" => simu_curr_step <= stop_step + 1

\* Each sample that is sent, but the last one, has the controls computed from
\* its own speed and the next: the semaphore, data_updated and the step stay
\* together though the posts can run ahead of the sender.
SampleHasControls ==
    [][simu_curr_step' = simu_curr_step + 1
         => controls_ready \/ simu_curr_step = DataSize - 1]_vars

\* SWR6.2: the system is disabled for an adverse signal that was there at
\* every sample since the fault was found; one good sample starts anew.
FaultIsContinuous ==
    fault_active => /\ fault_since <= simu_curr_step
                    /\ fault_since..simu_curr_step \subseteq adverse

\* SWR6.2, SWR6.3: "error_disabled" has been sent exactly if the fault has
\* lasted for the timeout, and then once only: no later sample takes it back
\* or repeats it, because none is sent.
DisabledOnTimeout ==
    disabled_sent =
        IF fault_active /\ fault_age >= SafetyTimeout THEN 1 ELSE 0

\* simu_speed owns the mutex exactly between its lock and its unlock.
MutexHeld == mutex = "speed" <=> speed_pc \in {"check", "step"}

\* A step that has begun can post the semaphore within the bound.
RoomForPost == speed_pc \in {"check", "step"} => sem_comms < MaxSem

\* Before simu_speed has started nothing runs and nothing was sent.
NothingBeforeStart ==
    speed_pc = "start" =>
        /\ simu_state = "STOPPED"
        /\ simu_curr_step = 0
        /\ ~data_updated
        /\ disabled_sent = 0
        /\ ~fault_active

\* The last row has been updated only with the order to stop, and a step of a
\* running simulation is inside the cycle.
EndIsOrdered ==
    simu_state = "RUNNING" =>
        /\ (simu_curr_step + 1 = DataSize /\ data_updated)
                => simu_order = "STOP"
        /\ speed_pc = "step" => simu_curr_step < DataSize

\* A sample can still be sent: it is ready, or simu_speed is about to make it.
SampleComing ==
    simu_state = "RUNNING" /\ (data_updated \/ speed_pc = "step")

\* A sample that can still be sent after the order to stop is the one that
\* was current then.
LastSampleIsCurrent ==
    simu_order = "STOP" /\ SampleComing => simu_curr_step <= stop_step

\* No sample follows the "error_disabled" of this ECU.
NothingAfterDisabled ==
    disabled_sent > 0 => simu_order = "STOP" /\ ~SampleComing

\* The inductive invariant behind the safety properties of this module.
IInv ==
    /\ TypeOK
    /\ MutexHeld
    /\ RoomForPost
    /\ NothingBeforeStart
    /\ StepInBounds
    /\ EndIsOrdered
    /\ OneSampleAfterStop
    /\ LastSampleIsCurrent
    /\ FaultIsContinuous
    /\ DisabledOnTimeout
    /\ NothingAfterDisabled

-----------------------------------------------------------------------------
(* Liveness.                                                               *)

\* The simulation ends, whatever the semaphore counts and whoever orders the
\* stop, and stays ended.
Stops == (simu_state = "RUNNING") ~> [](simu_state = "STOPPED")

=============================================================================
