----------------------------- MODULE Powertrain -----------------------------
(***************************************************************************)
(* The powertrain ECU: the thread function_start_stop, which decides when  *)
(* to stop and to restart the engine, and the thread powertrain_comms,     *)
(* which applies the messages of the CAN bus to rec_data and to            *)
(* start_stop_manual.  Both run under mutex_powertrain; powertrain_comms   *)
(* keeps it while it waits for the next message of the bus.                *)
(*                                                                         *)
(* The bus is an arbitrary supply of messages of the other ECUs, plus the  *)
(* "error_disabled" commands this ECU sends, which its receiving socket    *)
(* gets back.  A message is whole here: its transport in two frames is     *)
(* the subject of CanTransport.  What the evaluation tells the ECU and the *)
(* dashboard has no effect here; StopStartSystem follows it.               *)
(***************************************************************************)
EXTENDS VehicleSignals

CONSTANTS SensorValues,  \* for each field, the values its messages carry
          MaxOwn         \* bound: own "error_disabled" commands in flight

ASSUME SensorValuesAssumption == SensorValues \in [Fields -> SUBSET Int]
ASSUME MaxOwnAssumption == MaxOwn \in Nat \ {0}

VARIABLES
    mutex,             \* mutex_powertrain: its owner, or "free"
    logic_pc,          \* where function_start_stop is
    comms_pc,          \* where powertrain_comms is
    start_stop_manual, \* has the driver activated the system?
    engine_off,
    restart_trigger,   \* a restart was asked for and not done yet
    rec_data,          \* the last value received for each field
    prev_brake,        \* rec_data.prev_brake, .prev_accel: the pedals at the
    prev_accel,        \*   last evaluation of the restart logic
    own_disabled,      \* own "error_disabled" commands not yet read back
    reported           \* inhibition errors sent by the evaluation under way

threads == <<mutex, logic_pc, comms_pc>>
control == <<start_stop_manual, engine_off, restart_trigger>>
sensed == <<rec_data, prev_brake, prev_accel>>
output == <<own_disabled, reported>>
vars == <<threads, control, sensed, output>>

-----------------------------------------------------------------------------

Init ==
    /\ mutex = "free"
    /\ logic_pc = "sleep"
    /\ comms_pc = "sleep"
    /\ start_stop_manual = FALSE
    /\ engine_off = FALSE
    /\ restart_trigger = FALSE
    /\ rec_data = ZeroData
    /\ prev_brake = 0
    /\ prev_accel = 0
    /\ own_disabled = 0
    /\ reported = {}

-----------------------------------------------------------------------------
(* function_start_stop: one evaluation a second.                           *)

\* pthread_mutex_lock(&mutex_powertrain) returns.
MutexFree == mutex = "free"

\* The bound keeps the model finite: no evaluation starts while MaxOwn
\* commands wait to be read back.
LogicLock ==
    /\ logic_pc = "sleep"
    /\ MutexFree
    /\ own_disabled < MaxOwn
    /\ mutex' = "logic"
    /\ logic_pc' = "check"
    /\ UNCHANGED <<comms_pc, control, sensed, output>>

LogicUnlock ==
    /\ mutex' = "free"
    /\ logic_pc' = "sleep"
    /\ reported' = {}

\* Nothing is evaluated unless the driver has enabled the system.
LogicSkip ==
    /\ logic_pc = "check"
    /\ ~start_stop_manual
    /\ LogicUnlock
    /\ UNCHANGED <<comms_pc, control, sensed, own_disabled>>

\* check_disable_engine(ptr_rec_data).  The errors are sent, and the engine
\* is turned off, only when the engine runs.
CheckDisableEngine ==
    /\ logic_pc = "check"
    /\ start_stop_manual
    /\ logic_pc' = "restart"
    /\ reported' = IF engine_off THEN {} ELSE Inhibitions(rec_data)
    /\ IF AllConditions(rec_data) /\ ~engine_off
         THEN engine_off' = TRUE
         ELSE UNCHANGED engine_off
    /\ UNCHANGED <<mutex, comms_pc, start_stop_manual, restart_trigger,
                   sensed, own_disabled>>

\* The edges that ask for a restart.
BrakeReleased == prev_brake # 0 /\ rec_data.brake = 0

\* A defect: the edge of the accelerator is tested the wrong way round.
AcceleratorReleased == prev_accel # 0 /\ rec_data.accel = 0

AcceleratorPressed == prev_accel = 0 /\ rec_data.accel # 0

\* A defect: both pedals must have moved.
RestartWantedByBoth == restart_trigger \/ (BrakeReleased /\ AcceleratorPressed)

RestartWanted == restart_trigger \/ BrakeReleased \/ AcceleratorPressed

\* A defect: the brake is not remembered.
UpdatePreviousAccelOnly ==
    /\ prev_accel' = rec_data.accel
    /\ UNCHANGED <<rec_data, prev_brake>>

\* The last assignments of handle_engine_restart_logic.
UpdatePreviousStates ==
    /\ prev_brake' = rec_data.brake
    /\ prev_accel' = rec_data.accel
    /\ UNCHANGED rec_data

\* handle_engine_restart_logic, the engine runs or no restart is wanted.
NoRestart ==
    /\ logic_pc = "restart"
    /\ ~(engine_off /\ RestartWanted)
    /\ UpdatePreviousStates
    /\ LogicUnlock
    /\ UNCHANGED <<comms_pc, control, own_disabled>>

\* A defect: the request is not taken back when it has been served.
RestartKeepsTrigger == engine_off' = FALSE /\ UNCHANGED restart_trigger

RestartDone == engine_off' = FALSE /\ restart_trigger' = FALSE

\* handle_engine_restart_logic, the battery allows the restart.
Restart ==
    /\ logic_pc = "restart"
    /\ engine_off /\ RestartWanted
    /\ restart_battery_ok(rec_data)
    /\ RestartDone
    /\ UpdatePreviousStates
    /\ LogicUnlock
    /\ UNCHANGED <<comms_pc, start_stop_manual, own_disabled>>

\* A defect: the mutex is released for the 50 ms between the two messages.
PostponeUnlocked == restart_trigger' = TRUE /\ mutex' = "free"

Postpone == restart_trigger' = TRUE /\ UNCHANGED mutex

\* handle_engine_restart_logic, the battery is too low: "error_battery" is
\* sent, and the thread sleeps 50 ms with the mutex held.
RestartAbort ==
    /\ logic_pc = "restart"
    /\ engine_off /\ RestartWanted
    /\ ~restart_battery_ok(rec_data)
    /\ Postpone
    /\ logic_pc' = "abort"
    /\ UNCHANGED <<comms_pc, start_stop_manual, engine_off, sensed,
                   output>>

\* A defect: "error_disabled" is sent with the id of the dashboard's errors,
\* which this ECU does not listen to.
SendToDashOnly == UNCHANGED own_disabled

SendToAll == own_disabled' = own_disabled + 1

\* ... then it sends "error_disabled" to every ECU, its own included.
SendDisabled ==
    /\ logic_pc = "abort"
    /\ SendToAll
    /\ UpdatePreviousStates
    /\ LogicUnlock
    /\ UNCHANGED <<comms_pc, control>>

-----------------------------------------------------------------------------
(* powertrain_comms: one message every 50 ms.                              *)

CommsLock ==
    /\ comms_pc = "sleep"
    /\ MutexFree
    /\ mutex' = "comms"
    /\ comms_pc' = "read"
    /\ UNCHANGED <<logic_pc, control, sensed, output>>

CommsUnlock ==
    /\ comms_pc = "read"
    /\ mutex' = "free"
    /\ comms_pc' = "sleep"

\* parse_input_received_powertrain, one operator for each kind of message.
press_start_stop == start_stop_manual' = ~start_stop_manual

error_disabled == start_stop_manual' = FALSE

\* A defect: the previous state of the brake is taken at each message, not at
\* each evaluation.
sensor_reading_shifts(f, v) ==
    /\ rec_data' = [rec_data EXCEPT ![f] = v]
    /\ prev_brake' = IF f = "brake" THEN rec_data.brake ELSE prev_brake
    /\ UNCHANGED prev_accel

sensor_reading(f, v) ==
    /\ rec_data' = [rec_data EXCEPT ![f] = v]
    /\ UNCHANGED <<prev_brake, prev_accel>>

ReadPress ==
    /\ CommsUnlock
    /\ press_start_stop
    /\ UNCHANGED <<logic_pc, engine_off, restart_trigger, sensed, output>>

\* An "error_disabled" of the BCM.
ReadDisabled ==
    /\ CommsUnlock
    /\ error_disabled
    /\ UNCHANGED <<logic_pc, engine_off, restart_trigger, sensed, output>>

\* An "error_disabled" this ECU sent.
ReadOwnDisabled ==
    /\ own_disabled > 0
    /\ CommsUnlock
    /\ error_disabled
    /\ own_disabled' = own_disabled - 1
    /\ UNCHANGED <<logic_pc, engine_off, restart_trigger, sensed, reported>>

ReadSensor(f, v) ==
    /\ CommsUnlock
    /\ sensor_reading(f, v)
    /\ UNCHANGED <<logic_pc, control, output>>

\* A block that is none of the known messages changes nothing.
ReadOther ==
    /\ CommsUnlock
    /\ UNCHANGED <<logic_pc, control, sensed, output>>

\* A message of another ECU.
ReadBus ==
    \/ ReadPress
    \/ ReadDisabled
    \/ \E f \in Fields : \E v \in SensorValues[f] : ReadSensor(f, v)
    \/ ReadOther

-----------------------------------------------------------------------------

LogicStep ==
    \/ LogicSkip
    \/ CheckDisableEngine
    \/ NoRestart
    \/ Restart
    \/ RestartAbort
    \/ SendDisabled

Next ==
    \/ LogicLock
    \/ LogicStep
    \/ CommsLock
    \/ ReadBus
    \/ ReadOwnDisabled

Spec == Init /\ [][Next]_vars

\* The threads run: a thread that does not wait for anything goes on, a
\* thread gets a mutex that is released again and again (each sleeps, 50 ms
\* or 1 s, after it has released it), and a command that is in the queue of
\* the socket is read in the end (the queue is first in, first out).
ThreadFairness ==
    /\ SF_vars(LogicLock)
    /\ WF_vars(LogicStep)
    /\ SF_vars(CommsLock)
    /\ SF_vars(ReadOwnDisabled)

\* The other ECUs are not required to send anything.
FairSpec == Spec /\ ThreadFairness

-----------------------------------------------------------------------------
(* Safety.                                                                 *)

\* Type invariant: the values the variables of the two threads can have.
TypeOK ==
    /\ mutex \in {"free", "logic", "comms"}
    /\ logic_pc \in {"sleep", "check", "restart", "abort"}
    /\ comms_pc \in {"sleep", "read"}
    /\ start_stop_manual \in BOOLEAN
    /\ engine_off \in BOOLEAN
    /\ restart_trigger \in BOOLEAN
    /\ rec_data \in Snapshots
    /\ prev_brake \in Int
    /\ prev_accel \in Int
    /\ own_disabled \in 0..MaxOwn
    /\ reported \subseteq {"brake", "temperature", "engine_temperature",
                           "battery", "door", "tilt"}

\* The two threads exclude each other: a thread that is inside its critical
\* section owns mutex_powertrain.
MutexHeld ==
    /\ mutex = "logic" <=> logic_pc # "sleep"
    /\ mutex = "comms" <=> comms_pc # "sleep"

\* A request that still stands is seen: when handle_engine_restart_logic runs
\* with the engine off and finds the brake released or the accelerator
\* pressed, one of its edge tests fires, also when the pedal moved while the
\* driver had the system switched off; and an edge test fires for no pedal
\* that has gone back.  What moved and went back between two evaluations is
\* not seen at all (RequestDetected).
StandingRequestSeen ==
    (logic_pc = "restart" /\ engine_off) =>
        (RestartWanted
           <=> restart_trigger \/ rec_data.brake = 0 \/ rec_data.accel # 0)

\* A pending restart request outlives neither the restart it asked for nor
\* the stop it belongs to: the flag is never left set while the engine runs,
\* which would cancel the next stop in the evaluation that makes it.
TriggerOnlyWhileOff == restart_trigger => engine_off

\* SWR2.8: when the system is active and the engine goes on running, the
\* reason was reported, whichever of the six conditions failed.
InhibitionReported ==
    (logic_pc = "restart" /\ ~engine_off) => reported # {}

\* A restart is given up, and the system disabled, only when the battery is
\* low by the very data that the restart was decided on; those data cannot
\* change during the 50 ms before "error_disabled" is sent.
AbortOnlyOnLowBattery ==
    logic_pc = "abort" =>
        restart_trigger /\ engine_off /\ ~restart_battery_ok(rec_data)

\* The edge detector is armed: while the engine is off and no restart is
\* wanted, the pedals as last seen are the ones of a waiting driver, or the
\* evaluation under way has just stopped the engine on such pedals.
ArmedWhileOff ==
    (engine_off /\ ~restart_trigger) =>
        \/ prev_brake # 0 /\ prev_accel = 0
        \/ /\ logic_pc = "restart"
           /\ rec_data.brake # 0
           /\ rec_data.accel = 0

\* An evaluation under way runs to its end with the system active.
ActiveDuringEvaluation ==
    logic_pc \in {"restart", "abort"} => start_stop_manual

\* An evaluation that has begun can send its command: the bound on the
\* commands in flight is not reached.
RoomForCommand == logic_pc # "sleep" => own_disabled < MaxOwn

\* The inductive invariant behind the safety properties of this module: the
\* two threads exclude each other, so that the armed detector, the pending
\* request and the reported reasons stay in step with the data.
IInv ==
    /\ TypeOK
    /\ RoomForCommand
    /\ MutexHeld
    /\ ArmedWhileOff
    /\ ActiveDuringEvaluation
    /\ TriggerOnlyWhileOff
    /\ InhibitionReported
    /\ AbortOnlyOnLowBattery

\* The engine is never stopped on battery readings on which it could not be
\* restarted: the threshold of the stop is the stricter one.
StopLeavesRestartPossible ==
    [][~engine_off /\ engine_off' => restart_battery_ok(rec_data)]_vars

\* The specification of the stop/start function, read from this ECU.
StartStopAbstract ==
    INSTANCE StartStop WITH enabled <- start_stop_manual,
                            stopped <- engine_off,
                            wanted <- restart_trigger,
                            data <- rec_data

\* Powertrain implements StartStop: its edge detection, its mutex and its two
\* threads show no behaviour that the specification by positions forbids.
ImplementsStartStop == StartStopAbstract!Spec

-----------------------------------------------------------------------------
(* Liveness.                                                               *)

\* The driver asks for the engine and the system can give it back.
RestartDue ==
    /\ engine_off
    /\ start_stop_manual
    /\ rec_data.brake = 0 \/ rec_data.accel # 0
    /\ restart_battery_ok(rec_data)

\* SWR3.1: a request that stays is served: the engine runs again.
RestartServed == RestartDue ~> ~RestartDue

\* ... when the bus never falls silent.
ServedOnBusyBus == WF_vars(ReadBus) => RestartServed

\* SWR3.1, as the requirement words it: the brake once released, or the
\* accelerator once pressed, is detected and the engine runs again, unless the
\* driver switches the system off or the battery fails meanwhile; on a bus
\* that never falls silent (powertrain_func.c:249-251 remembers the pedals
\* only where it evaluates them).
RequestDetected ==
    WF_vars(ReadBus) =>
        (RestartDue ~> \/ ~engine_off
                       \/ ~start_stop_manual
                       \/ ~restart_battery_ok(rec_data))

\* SWR3.4, SWR3.5: a restart that a low battery prevents disables the system
\* in the end: the ECU receives its own "error_disabled".
AbortDisables == (logic_pc = "abort") ~> ~start_stop_manual

-----------------------------------------------------------------------------
(* SWR2.2 to SWR2.9, as the requirements word them.                        *)

\* SWR2.6, the limits of "at least 5 degrees" and "above".
HighDemand(d) == d.in_temp >= d.temp_set + 5 /\ d.ex_temp > d.temp_set

\* What they allow, and the two cases in which they do not: the last value of
\* SWR2.6, and the slope that SWR2.9 excludes downhill as well as uphill.
AllowedOrGap(d) ==
    /\ d.engi_temp >= MIN_ENGINE_TEMP                         \* SWR2.2
    /\ d.engi_temp <= MAX_ENGINE_TEMP
    /\ d.batt_soc >= MIN_BATTERY_SOC                          \* SWR2.3
    /\ d.speed = 0 /\ d.gear = 0 /\ d.brake # 0               \* SWR2.4
    /\ d.batt_volt > MIN_BATTERY_VOLTAGE                      \* SWR2.4
    /\ d.accel = 0                                            \* SWR2.5
    /\ HighDemand(d) => d.in_temp = d.temp_set + 5            \* SWR2.6
    /\ d.door = 0                                             \* SWR2.7
    /\ \/ d.tilt < -MAX_TILT_ANGLE                            \* SWR2.9
       \/ d.tilt \in -MAX_TILT_ANGLE..MAX_TILT_ANGLE

\* The engine is never stopped on data that SWR2.2 to SWR2.7 and SWR2.9
\* exclude (engine temperature, charge, a moving car, voltage, accelerator,
\* high demand, door, slope), but for two cases: the cabin exactly 5 degrees
\* above the setpoint, high demand to SWR2.6, and a car that points steeply
\* downhill (powertrain_func.c:50-78).
StopsAsRequired ==
    [][~engine_off /\ engine_off' => AllowedOrGap(rec_data)]_vars

=============================================================================
