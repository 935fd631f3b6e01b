-------------------------- MODULE PowertrainProofs --------------------------
(***************************************************************************)
(* Proofs about the powertrain ECU, for every choice of sensor values and  *)
(* every bound on the commands in flight.                                  *)
(***************************************************************************)
EXTENDS Powertrain, TLAPS

-----------------------------------------------------------------------------
(* Facts about the conditions on the data.                                 *)

\* If one of the six conditions fails, an inhibition is reported for it.
LEMMA FailureHasReason ==
    ASSUME NEW d
    PROVE  ~AllConditions(d) => Inhibitions(d) # {}
BY DEF AllConditions, Inhibitions

\* What check_disable_engine reports is one of the six errors.
LEMMA ReasonsAreErrors ==
    ASSUME NEW d
    PROVE  Inhibitions(d) \subseteq {"brake", "temperature",
                "engine_temperature", "battery", "door", "tilt"}
BY DEF Inhibitions

\* The battery test of the stop (volt > 10) is stricter than the one of the
\* restart (volt >= 10), whatever the readings.
LEMMA StopBatteryAllowsRestart ==
    ASSUME NEW d \in Snapshots
    PROVE  check_battery_conditions(d) => restart_battery_ok(d)
<1>1. d.batt_volt \in Int /\ d.batt_soc \in Int
  BY DEF Snapshots, Fields
<1>2. QED
  BY <1>1 DEF check_battery_conditions, restart_battery_ok,
              MIN_BATTERY_VOLTAGE, MIN_BATTERY_SOC

\* The engine is stopped only with the brake pressed and the accelerator free.
LEMMA StopMeansWaiting ==
    ASSUME NEW d
    PROVE  AllConditions(d) => d.brake # 0 /\ d.accel = 0
BY DEF AllConditions, check_movement_conditions

-----------------------------------------------------------------------------
(* The type invariant.                                                     *)

\* Every field of the data keeps an integer through sensor_reading.
LEMMA SensorKeepsSnapshot ==
    ASSUME NEW d \in Snapshots, NEW f \in Fields, NEW v \in Int
    PROVE  [d EXCEPT ![f] = v] \in Snapshots
BY DEF Snapshots

\* The counter of commands in flight stays within its bound.
LEMMA CounterBound ==
    ASSUME NEW n \in 0..MaxOwn
    PROVE  /\ n < MaxOwn => n + 1 \in 0..MaxOwn
           /\ n > 0 => n - 1 \in 0..MaxOwn
           /\ n > 0 => n - 1 < MaxOwn
BY MaxOwnAssumption

\* The values of the variables stay in their types, and no evaluation begins
\* that could exceed the bound on the commands in flight.
LEMMA TypeStep ==
    TypeOK /\ RoomForCommand /\ [Next]_vars => TypeOK' /\ RoomForCommand'
<1> SUFFICES ASSUME TypeOK, RoomForCommand, [Next]_vars
             PROVE  TypeOK' /\ RoomForCommand'
  OBVIOUS
<1> USE DEF TypeOK, RoomForCommand, threads, control, sensed, output
<1>0. rec_data.brake \in Int /\ rec_data.accel \in Int
  BY DEF Snapshots, Fields
<1>1. CASE LogicLock
  BY <1>1 DEF LogicLock
<1>2. CASE LogicSkip
  BY <1>2 DEF LogicSkip, LogicUnlock
<1>3. CASE CheckDisableEngine
  BY <1>3, ReasonsAreErrors DEF CheckDisableEngine
<1>4. CASE NoRestart
  BY <1>0, <1>4 DEF NoRestart, LogicUnlock, UpdatePreviousStates
<1>5. CASE Restart
  BY <1>0, <1>5 DEF Restart, RestartDone, LogicUnlock, UpdatePreviousStates
<1>6. CASE RestartAbort
  BY <1>6 DEF RestartAbort, Postpone
<1>7. CASE SendDisabled
  <2>1. own_disabled + 1 \in 0..MaxOwn
    BY <1>7, CounterBound, Zenon DEF SendDisabled, SendToAll
  <2>2. QED
    BY <1>0, <1>7, <2>1
       DEF SendDisabled, SendToAll, LogicUnlock, UpdatePreviousStates
<1>8. CASE CommsLock
  BY <1>8 DEF CommsLock
<1>9. CASE ReadPress
  BY <1>9 DEF ReadPress, CommsUnlock, press_start_stop
<1>10. CASE ReadDisabled
  BY <1>10 DEF ReadDisabled, CommsUnlock, error_disabled
<1>11. ASSUME NEW f \in Fields, NEW v \in SensorValues[f], ReadSensor(f, v)
       PROVE  TypeOK' /\ RoomForCommand'
  <2>1. v \in Int
    BY SensorValuesAssumption
  <2>2. QED
    BY <1>11, <2>1, SensorKeepsSnapshot
       DEF ReadSensor, CommsUnlock, sensor_reading
<1>12. CASE ReadOther
  BY <1>12 DEF ReadOther, CommsUnlock
<1>13. CASE ReadOwnDisabled
  <2>1. own_disabled - 1 \in 0..MaxOwn
    BY <1>13, CounterBound, Zenon DEF ReadOwnDisabled
  <2>2. own_disabled - 1 < MaxOwn
    BY <1>13, CounterBound, Zenon DEF ReadOwnDisabled
  <2>3. QED
    BY <1>13, <2>1, <2>2 DEF ReadOwnDisabled, CommsUnlock, error_disabled
<1>14. CASE UNCHANGED vars
  BY <1>14 DEF vars
<1>15. QED
  BY <1>1, <1>2, <1>3, <1>4, <1>5, <1>6, <1>7, <1>8, <1>9, <1>10, <1>11,
     <1>12, <1>13, <1>14 DEF Next, LogicStep, ReadBus

\* The initial values have their types, and no evaluation is under way.
LEMMA TypeInit == Init => TypeOK /\ RoomForCommand
<1>1. ZeroData \in Snapshots
  BY DEF ZeroData, Snapshots
<1>2. 0 \in 0..MaxOwn /\ 0 \in Int
  BY MaxOwnAssumption
<1>3. QED
  BY <1>1, <1>2 DEF Init, TypeOK, RoomForCommand

\* The variables of the powertrain ECU keep to their types.
THEOREM TypeCorrect == Spec => []TypeOK
BY TypeInit, TypeStep, PTL DEF Spec

-----------------------------------------------------------------------------
(* The inductive invariant.                                                *)

\* A step keeps the mutex discipline: a thread enters its critical section
\* only with the mutex free and leaves it by releasing the mutex.
LEMMA MutexStep ==
    TypeOK /\ MutexHeld /\ [Next]_vars => MutexHeld'
BY DEF TypeOK, MutexHeld, Next, LogicLock, LogicStep, LogicSkip, LogicUnlock,
       CheckDisableEngine, NoRestart, Restart, RestartDone, RestartAbort,
       Postpone, SendDisabled, MutexFree, CommsLock, ReadBus, ReadPress,
       ReadDisabled, ReadSensor, ReadOther, ReadOwnDisabled, CommsUnlock,
       vars, threads

\* While the logic thread is inside its critical section the other thread
\* cannot apply a message.
LEMMA EvaluationIsAlone ==
    MutexHeld /\ logic_pc # "sleep" => ~CommsUnlock
BY DEF MutexHeld, CommsUnlock

\* The part of the inductive invariant that is about the engine.
EngineInv ==
    /\ ArmedWhileOff
    /\ ActiveDuringEvaluation
    /\ TriggerOnlyWhileOff
    /\ InhibitionReported
    /\ AbortOnlyOnLowBattery

\* A message of the bus does not disturb the engine part: it is applied while
\* no evaluation is under way.
LEMMA CommsKeepsEngineInv ==
    ASSUME MutexHeld, EngineInv, ReadBus \/ ReadOwnDisabled
    PROVE  EngineInv'
<1>1. logic_pc = "sleep" /\ logic_pc' = logic_pc
  BY EvaluationIsAlone
     DEF ReadBus, ReadOwnDisabled, ReadPress, ReadDisabled, ReadSensor,
         ReadOther
<1>2. UNCHANGED <<engine_off, restart_trigger, prev_brake, prev_accel,
                  reported>>
  BY DEF ReadBus, ReadOwnDisabled, ReadPress, ReadDisabled, ReadSensor,
         ReadOther, sensor_reading, control, sensed, output
<1>3. QED
  BY <1>1, <1>2
     DEF EngineInv, ArmedWhileOff, ActiveDuringEvaluation, TriggerOnlyWhileOff,
         InhibitionReported, AbortOnlyOnLowBattery

\* The evaluation keeps the engine part, action by action.
LEMMA LogicKeepsEngineInv ==
    ASSUME TypeOK, EngineInv, LogicLock \/ LogicStep \/ CommsLock
    PROVE  EngineInv'
<1> USE DEF EngineInv, ArmedWhileOff, ActiveDuringEvaluation,
            TriggerOnlyWhileOff, InhibitionReported,
            AbortOnlyOnLowBattery, control, sensed, output
<1>1. CASE LogicLock
  BY <1>1 DEF LogicLock
<1>2. CASE LogicSkip
  BY <1>2 DEF LogicSkip, LogicUnlock
<1>3. CASE CheckDisableEngine
  <2> USE <1>3 DEF CheckDisableEngine
  <2>1. CASE AllConditions(rec_data) /\ ~engine_off
    <3>1. rec_data.brake # 0 /\ rec_data.accel = 0
      BY <2>1, StopMeansWaiting
    <3>2. engine_off' /\ logic_pc' = "restart"
      BY <2>1
    <3>3. ~restart_trigger'
      BY <2>1
    <3>4. QED
      BY <3>1, <3>2, <3>3
  <2>2. CASE ~(AllConditions(rec_data) /\ ~engine_off)
    <3>1. ~engine_off => reported' # {}
      BY <2>2, FailureHasReason
    <3>2. UNCHANGED engine_off /\ logic_pc' = "restart"
      BY <2>2
    <3>3. QED
      BY <3>1, <3>2
  <2>3. QED
    BY <2>1, <2>2
<1>4. CASE NoRestart
  <2>1. engine_off => rec_data.brake # 0 /\ rec_data.accel = 0
    BY <1>4 DEF NoRestart, RestartWanted, BrakeReleased, AcceleratorPressed
  <2>2. QED
    BY <1>4, <2>1 DEF NoRestart, LogicUnlock, UpdatePreviousStates
<1>5. CASE Restart
  BY <1>5 DEF Restart, RestartDone, LogicUnlock, UpdatePreviousStates
<1>6. CASE RestartAbort
  BY <1>6 DEF RestartAbort, Postpone
<1>7. CASE SendDisabled
  BY <1>7 DEF SendDisabled, SendToAll, LogicUnlock, UpdatePreviousStates
<1>8. CASE CommsLock
  BY <1>8 DEF CommsLock
<1>9. QED
  BY <1>1, <1>2, <1>3, <1>4, <1>5, <1>6, <1>7, <1>8 DEF LogicStep

\* The inductive invariant holds in every state.
THEOREM Inductive == Spec => []IInv
<1>1. Init => IInv
  <2>1. Init => MutexHeld /\ EngineInv
    BY DEF Init, MutexHeld, EngineInv, ArmedWhileOff, ActiveDuringEvaluation,
           TriggerOnlyWhileOff, InhibitionReported,
           AbortOnlyOnLowBattery
  <2>2. QED
    BY <2>1, TypeInit DEF IInv, EngineInv
<1>2. IInv /\ [Next]_vars => IInv'
  <2> SUFFICES ASSUME IInv, [Next]_vars
               PROVE  IInv'
    OBVIOUS
  <2>1. TypeOK /\ RoomForCommand /\ MutexHeld /\ EngineInv
    BY DEF IInv, EngineInv
  <2>2. TypeOK' /\ RoomForCommand'
    BY <2>1, TypeStep
  <2>3. MutexHeld'
    BY <2>1, MutexStep
  <2>4. EngineInv'
    <3>1. CASE ReadBus \/ ReadOwnDisabled
      BY <2>1, <3>1, CommsKeepsEngineInv
    <3>2. CASE LogicLock \/ LogicStep \/ CommsLock
      BY <2>1, <3>2, LogicKeepsEngineInv
    <3>3. CASE UNCHANGED vars
      BY <2>1, <3>3
         DEF vars, threads, control, sensed, output, EngineInv, ArmedWhileOff,
             ActiveDuringEvaluation, TriggerOnlyWhileOff,
             InhibitionReported, AbortOnlyOnLowBattery
    <3>4. QED
      BY <3>1, <3>2, <3>3 DEF Next
  <2>5. QED
    BY <2>2, <2>3, <2>4 DEF IInv, EngineInv
<1>3. QED
  BY <1>1, <1>2, PTL DEF Spec

-----------------------------------------------------------------------------
(* What follows from it.                                                   *)

\* The threads of the powertrain ECU are never in their critical sections
\* together.
THEOREM MutualExclusion == Spec => []MutexHeld
<1>1. IInv => MutexHeld
  BY DEF IInv
<1>2. QED
  BY <1>1, Inductive, PTL

\* For every sequence of pedal positions: a request that still stands when the
\* restart logic runs is seen, and none is invented
\* (powertrain_func.c:205-252).
THEOREM StandingRequestIsSeen == Spec => []StandingRequestSeen
<1>1. IInv => StandingRequestSeen
  BY DEF IInv, StandingRequestSeen, ArmedWhileOff, RestartWanted,
         BrakeReleased, AcceleratorPressed
<1>2. QED
  BY <1>1, Inductive, PTL

\* A restart request is pending only while the engine is off.
THEOREM TriggerBelongsToStop == Spec => []TriggerOnlyWhileOff
<1>1. IInv => TriggerOnlyWhileOff
  BY DEF IInv
<1>2. QED
  BY <1>1, Inductive, PTL

\* "error_disabled" is sent only for a battery that is low by the data of the
\* decision.
THEOREM AbortIsJustified == Spec => []AbortOnlyOnLowBattery
<1>1. IInv => AbortOnlyOnLowBattery
  BY DEF IInv
<1>2. QED
  BY <1>1, Inductive, PTL

\* SWR2.8: an active system that leaves the engine running has reported why,
\* for all sensor values.
THEOREM ReasonReported == Spec => []InhibitionReported
<1>1. IInv => InhibitionReported
  BY DEF IInv
<1>2. QED
  BY <1>1, Inductive, PTL

\* The only step that stops the engine is the one that has tested every
\* condition on the data it then holds.
LEMMA StopOnConditions ==
    ASSUME Next, ~engine_off, engine_off'
    PROVE  AllConditions(rec_data)
BY DEF Next, LogicLock, LogicStep, LogicSkip, CheckDisableEngine,
       NoRestart, Restart, RestartDone, RestartAbort, Postpone,
       SendDisabled, CommsLock, ReadBus,
       ReadPress, ReadDisabled, ReadSensor, ReadOther, ReadOwnDisabled,
       control

\* The engine is stopped only on battery readings it could be restarted on.
THEOREM StopIsReversible == Spec => StopLeavesRestartPossible
<1>1. TypeOK /\ [Next]_vars
        => [~engine_off /\ engine_off' => restart_battery_ok(rec_data)]_vars
  <2> SUFFICES ASSUME TypeOK, Next, ~engine_off, engine_off'
               PROVE  restart_battery_ok(rec_data)
    BY DEF vars
  <2>1. AllConditions(rec_data)
    BY StopOnConditions
  <2>2. QED
    BY <2>1, StopBatteryAllowsRestart DEF AllConditions, TypeOK
<1>2. QED
  BY <1>1, TypeCorrect, PTL DEF Spec, StopLeavesRestartPossible

\* Whatever the sensors send, the engine is stopped on data that SWR2.2 to
\* SWR2.7 and SWR2.9 allow, the engine temperature, the gear and the voltage
\* among them, but for the boundary of high demand and the steep way down
\* (powertrain_func.c:50-78, 118-176).
THEOREM StopIsRequired == Spec => StopsAsRequired
<1>1. ASSUME NEW d \in Snapshots, AllConditions(d)
      PROVE  AllowedOrGap(d)
  <2>1. /\ d.in_temp \in Int /\ d.temp_set \in Int /\ d.tilt \in Int
    BY DEF Snapshots, Fields
  <2>2. /\ d.speed = 0 /\ d.gear = 0 /\ d.brake # 0 /\ d.accel = 0
        /\ d.door = 0
    BY <1>1 DEF AllConditions, check_movement_conditions,
                check_door_conditions
  <2>3. /\ d.engi_temp >= MIN_ENGINE_TEMP /\ d.engi_temp <= MAX_ENGINE_TEMP
        /\ d.batt_soc >= MIN_BATTERY_SOC /\ d.batt_volt > MIN_BATTERY_VOLTAGE
    <3>1. d.engi_temp \in Int
      BY DEF Snapshots, Fields
    <3>2. QED
      BY <1>1, <3>1 DEF AllConditions, check_engine_temp_conditions,
                        check_battery_conditions, MIN_ENGINE_TEMP
  <2>4. HighDemand(d) => d.in_temp = d.temp_set + 5
    BY <1>1, <2>1 DEF AllConditions, check_temperature_conditions,
                      MAX_TEMP_DIFF, HighDemand
  <2>5. d.tilt < -MAX_TILT_ANGLE \/ d.tilt \in -MAX_TILT_ANGLE..MAX_TILT_ANGLE
    BY <1>1, <2>1 DEF AllConditions, check_tilt_conditions, MAX_TILT_ANGLE
  <2>6. QED
    BY <2>2, <2>3, <2>4, <2>5 DEF AllowedOrGap
<1>2. TypeOK /\ [Next]_vars
        => [~engine_off /\ engine_off' => AllowedOrGap(rec_data)]_vars
  <2> SUFFICES ASSUME TypeOK, Next, ~engine_off, engine_off'
               PROVE  AllowedOrGap(rec_data)
    BY DEF vars
  <2>1. AllConditions(rec_data) /\ rec_data \in Snapshots
    BY StopOnConditions DEF TypeOK
  <2>2. QED
    BY <1>1, <2>1
<1>3. QED
  BY <1>2, TypeCorrect, PTL DEF Spec, StopsAsRequired

-----------------------------------------------------------------------------
(* Powertrain implements StartStop.                                        *)

\* StartStop reads the data and its conditions as Powertrain does.
LEMMA SameSignals ==
    ASSUME NEW d
    PROVE  /\ StartStopAbstract!AllConditions(d) <=> AllConditions(d)
           /\ StartStopAbstract!restart_battery_ok(d) <=> restart_battery_ok(d)
           /\ StartStopAbstract!Snapshots = Snapshots
<1>1. StartStopAbstract!AllConditions(d) <=> AllConditions(d)
  BY DEF StartStopAbstract!AllConditions, AllConditions,
         StartStopAbstract!check_movement_conditions,
         StartStopAbstract!check_temperature_conditions,
         StartStopAbstract!check_engine_temp_conditions,
         StartStopAbstract!check_battery_conditions,
         StartStopAbstract!check_door_conditions,
         StartStopAbstract!check_tilt_conditions,
         check_movement_conditions, check_temperature_conditions,
         check_engine_temp_conditions, check_battery_conditions,
         check_door_conditions, check_tilt_conditions,
         StartStopAbstract!MAX_TEMP_DIFF, MAX_TEMP_DIFF,
         StartStopAbstract!MIN_ENGINE_TEMP, MIN_ENGINE_TEMP,
         StartStopAbstract!MAX_ENGINE_TEMP, MAX_ENGINE_TEMP,
         StartStopAbstract!MIN_BATTERY_SOC, MIN_BATTERY_SOC,
         StartStopAbstract!MIN_BATTERY_VOLTAGE, MIN_BATTERY_VOLTAGE,
         StartStopAbstract!MAX_TILT_ANGLE, MAX_TILT_ANGLE
<1>2. StartStopAbstract!restart_battery_ok(d) <=> restart_battery_ok(d)
  BY DEF StartStopAbstract!restart_battery_ok, restart_battery_ok,
         StartStopAbstract!MIN_BATTERY_SOC, MIN_BATTERY_SOC,
         StartStopAbstract!MIN_BATTERY_VOLTAGE, MIN_BATTERY_VOLTAGE
<1>3. StartStopAbstract!Snapshots = Snapshots
  BY DEF StartStopAbstract!Snapshots, Snapshots, StartStopAbstract!Fields,
         Fields
<1>4. QED
  BY <1>1, <1>2, <1>3

\* At the restart decision, a wanted restart is one that the pedals ask for.
LEMMA DecisionIsLevel ==
    ASSUME IInv, logic_pc = "restart", engine_off
    PROVE  RestartWanted <=> StartStopAbstract!DriverAsks
BY DEF IInv, ArmedWhileOff, RestartWanted, BrakeReleased, AcceleratorPressed,
       StartStopAbstract!DriverAsks

\* Every behaviour of the powertrain ECU is one that the specification of the
\* stop/start function allows, which tests the pedals by their position.
THEOREM Refinement == Spec => ImplementsStartStop
<1>1. Init => StartStopAbstract!Init
  BY DEF Init, StartStopAbstract!Init, ZeroData, Fields,
         StartStopAbstract!ZeroData, StartStopAbstract!Fields
<1>2. IInv /\ IInv' /\ [Next]_vars
        => [StartStopAbstract!Next]_StartStopAbstract!vars
  <2> SUFFICES ASSUME IInv, IInv', [Next]_vars
               PROVE  [StartStopAbstract!Next]_StartStopAbstract!vars
    OBVIOUS
  <2> USE DEF control, sensed, output, StartStopAbstract!vars
  <2>1. CASE LogicLock
    BY <2>1 DEF LogicLock
  <2>2. CASE LogicSkip
    BY <2>2 DEF LogicSkip
  <2>3. CASE CheckDisableEngine
    BY <2>3, SameSignals DEF CheckDisableEngine, StartStopAbstract!Next,
                StartStopAbstract!Stop
  <2>4. CASE NoRestart
    BY <2>4 DEF NoRestart, UpdatePreviousStates
  <2>5. CASE Restart
    <3>1. start_stop_manual /\ StartStopAbstract!DriverAsks
      BY <2>5, DecisionIsLevel DEF Restart, IInv, ActiveDuringEvaluation
    <3>2. StartStopAbstract!Restart
      BY <2>5, <3>1, SameSignals DEF Restart, RestartDone, UpdatePreviousStates,
                        StartStopAbstract!Restart
    <3>3. QED
      BY <3>2 DEF StartStopAbstract!Next
  <2>6. CASE RestartAbort
    <3>1. start_stop_manual /\ StartStopAbstract!DriverAsks
      BY <2>6, DecisionIsLevel DEF RestartAbort, IInv, ActiveDuringEvaluation
    <3>2. StartStopAbstract!Postpone
      BY <2>6, <3>1, SameSignals
         DEF RestartAbort, Postpone, StartStopAbstract!Postpone
    <3>3. QED
      BY <3>2 DEF StartStopAbstract!Next
  <2>7. CASE SendDisabled
    BY <2>7 DEF SendDisabled, UpdatePreviousStates
  <2>8. CASE CommsLock
    BY <2>8 DEF CommsLock
  <2>9. CASE ReadPress \/ ReadDisabled \/ ReadOwnDisabled
    <3>1. start_stop_manual' \in BOOLEAN
      BY DEF IInv, TypeOK
    <3>2. StartStopAbstract!Enable
      BY <2>9, <3>1 DEF ReadPress, ReadDisabled, ReadOwnDisabled,
                        StartStopAbstract!Enable
    <3>3. QED
      BY <3>2 DEF StartStopAbstract!Next
  <2>10. ASSUME NEW f \in Fields, NEW v \in SensorValues[f], ReadSensor(f, v)
         PROVE  [StartStopAbstract!Next]_StartStopAbstract!vars
    <3>1. rec_data' \in Snapshots
      BY DEF IInv, TypeOK
    <3>2. StartStopAbstract!Sense
      BY <2>10, <3>1, SameSignals DEF ReadSensor, StartStopAbstract!Sense
    <3>3. QED
      BY <3>2 DEF StartStopAbstract!Next
  <2>11. CASE ReadOther
    BY <2>11 DEF ReadOther
  <2>12. CASE UNCHANGED vars
    BY <2>12 DEF vars
  <2>13. QED
    BY <2>1, <2>2, <2>3, <2>4, <2>5, <2>6, <2>7, <2>8, <2>9, <2>10, <2>11,
       <2>12 DEF Next, LogicStep, ReadBus
<1>3. QED
  BY <1>1, <1>2, Inductive, PTL
     DEF Spec, ImplementsStartStop, StartStopAbstract!Spec

=============================================================================
