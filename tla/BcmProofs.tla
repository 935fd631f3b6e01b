------------------------------ MODULE BcmProofs ------------------------------
(***************************************************************************)
(* Proofs about the simulation of the BCM, for a driving cycle of any      *)
(* length with any rows adverse, any timeout and any delays between the    *)
(* health checks.                                                          *)
(***************************************************************************)
EXTENDS Bcm, TLAPS

-----------------------------------------------------------------------------
(* The order to stop.                                                      *)

\* An order to stop, at a row at or after the current one, keeps the record of
\* the step at which it was first given.
LEMMA OrderStopFacts ==
    ASSUME NEW step \in Rows, TypeOK, OrderStop(step)
    PROVE  /\ simu_order' = "STOP"
           /\ stop_step' \in 0..Never
           /\ simu_order = "STOP" => stop_step' = stop_step
           /\ simu_order # "STOP" => stop_step' = step
BY DataSizeAssumption DEF OrderStop, TypeOK, Rows, Never

-----------------------------------------------------------------------------
(* The actions of simu_speed.                                              *)

LEMMA StartKeepsIInv == IInv /\ SpeedStart => IInv'
<1> SUFFICES ASSUME IInv, SpeedStart
             PROVE  IInv'
  OBVIOUS
<1> USE DEF IInv, SpeedStart, simulation, rows, faults
<1>1. 0 \in Rows /\ 0 < DataSize
  BY DataSizeAssumption DEF Rows
<1>2. TypeOK'
  BY <1>1 DEF TypeOK
<1>3. simu_curr_step' = 0 /\ data_updated' = FALSE /\ fault_active' = FALSE
      /\ disabled_sent' = 0 /\ speed_pc' = "sleep"
  BY DEF NothingBeforeStart, TypeOK
<1>4. StepInBounds' /\ EndIsOrdered'
  BY <1>1, <1>3 DEF StepInBounds, EndIsOrdered
<1>5. OneSampleAfterStop' /\ LastSampleIsCurrent'
  BY <1>3 DEF OneSampleAfterStop, LastSampleIsCurrent, SampleComing, TypeOK
<1>6. FaultIsContinuous' /\ DisabledOnTimeout' /\ NothingAfterDisabled'
  BY <1>3 DEF FaultIsContinuous, DisabledOnTimeout, NothingAfterDisabled
<1>7. MutexHeld' /\ RoomForPost' /\ NothingBeforeStart'
  BY <1>3 DEF MutexHeld, RoomForPost, NothingBeforeStart
<1>8. QED
  BY <1>2, <1>4, <1>5, <1>6, <1>7

\* Taking the mutex changes nothing else.
LEMMA LockKeepsIInv == IInv /\ SpeedLock => IInv'
<1> SUFFICES ASSUME IInv, SpeedLock
             PROVE  IInv'
  OBVIOUS
<1> USE DEF IInv, SpeedLock, simulation, rows, faults
<1>1. TypeOK' /\ MutexHeld' /\ RoomForPost' /\ NothingBeforeStart'
  BY DEF TypeOK, MutexHeld, RoomForPost, NothingBeforeStart
<1>2. StepInBounds' /\ EndIsOrdered'
  BY DEF StepInBounds, EndIsOrdered
<1>3. OneSampleAfterStop' /\ LastSampleIsCurrent' /\ NothingAfterDisabled'
  BY DEF OneSampleAfterStop, LastSampleIsCurrent, NothingAfterDisabled,
         SampleComing
<1>4. FaultIsContinuous' /\ DisabledOnTimeout'
  BY DEF FaultIsContinuous, DisabledOnTimeout
<1>5. QED
  BY <1>1, <1>2, <1>3, <1>4

\* check_order ends a simulation that was ordered to stop, so that a running
\* simulation makes a step only with the current row inside the cycle.
LEMMA CheckOrderKeepsIInv == IInv /\ SpeedCheckOrder => IInv'
<1> SUFFICES ASSUME IInv, SpeedCheckOrder
             PROVE  IInv'
  OBVIOUS
<1> USE DEF IInv, SpeedCheckOrder, check_order, rows, faults
<1>1. TypeOK' /\ MutexHeld' /\ RoomForPost' /\ NothingBeforeStart'
  BY DEF TypeOK, MutexHeld, RoomForPost, NothingBeforeStart
<1>2. simu_order = "STOP" => simu_state' = "STOPPED"
  OBVIOUS
<1>3. simu_state' = "RUNNING" => simu_order # "STOP" /\ simu_state = "RUNNING"
  BY <1>2
<1>4. StepInBounds' /\ EndIsOrdered'
  BY <1>3 DEF StepInBounds, EndIsOrdered
<1>5. OneSampleAfterStop' /\ LastSampleIsCurrent' /\ NothingAfterDisabled'
  BY <1>3 DEF OneSampleAfterStop, LastSampleIsCurrent, NothingAfterDisabled,
              SampleComing
<1>6. FaultIsContinuous' /\ DisabledOnTimeout'
  BY DEF FaultIsContinuous, DisabledOnTimeout
<1>7. QED
  BY <1>1, <1>4, <1>5, <1>6

\* A step of the running simulation makes the current sample ready; at the
\* last row it orders the simulation to stop.
LEMMA StepKeepsIInv == IInv /\ SpeedStep => IInv'
<1> SUFFICES ASSUME IInv, SpeedStep
             PROVE  IInv'
  OBVIOUS
<1> USE DEF IInv, SpeedStep, SpeedUnlock, sem_post, faults
<1>1. simu_curr_step \in Rows /\ simu_curr_step < DataSize /\ disabled_sent = 0
  BY DEF TypeOK, EndIsOrdered, NothingAfterDisabled, SampleComing
<1>2. /\ simu_order' \in {"RUN", "STOP"} /\ stop_step' \in 0..Never
      /\ simu_order = "STOP" => simu_order' = "STOP" /\ stop_step' = stop_step
      /\ simu_order' = "STOP" /\ simu_order # "STOP"
            => stop_step' = simu_curr_step
      /\ LastRow => simu_order' = "STOP"
  <2>1. CASE LastRow
    BY <1>1, <2>1, OrderStopFacts
  <2>2. CASE ~LastRow
    BY <2>2 DEF TypeOK
  <2>3. QED
    BY <2>1, <2>2
<1>3. TypeOK'
  <2>1. sem_comms' \in 0..MaxSem
    BY MaxSemAssumption DEF TypeOK, RoomForPost
  <2>2. controls_ready' \in BOOLEAN
    BY DEF TypeOK
  <2>3. QED
    BY <1>2, <2>1, <2>2 DEF TypeOK
<1>4. MutexHeld' /\ RoomForPost' /\ NothingBeforeStart'
  BY DEF MutexHeld, RoomForPost, NothingBeforeStart
<1>5. StepInBounds' /\ EndIsOrdered'
  BY <1>1, <1>2 DEF StepInBounds, EndIsOrdered, LastRow
<1>6. OneSampleAfterStop' /\ LastSampleIsCurrent'
  <2>1. simu_order = "STOP" => simu_curr_step <= stop_step
    BY DEF LastSampleIsCurrent, SampleComing
  <2>2. simu_order' = "STOP" => simu_curr_step <= stop_step'
    BY <1>1, <1>2, <2>1 DEF Rows
  <2>3. simu_curr_step \in Int /\ stop_step' \in Int
    BY <1>1, <1>2, DataSizeAssumption DEF Rows, Never
  <2>4. \A i, j \in Int : i <= j => i <= j + 1
    OBVIOUS
  <2>5. simu_order' = "STOP" => simu_curr_step <= stop_step' + 1
    BY <2>2, <2>3, <2>4, Zenon
  <2>6. QED
    BY <2>2, <2>5 DEF OneSampleAfterStop, LastSampleIsCurrent
<1>7. FaultIsContinuous' /\ DisabledOnTimeout' /\ NothingAfterDisabled'
  BY <1>1 DEF FaultIsContinuous, DisabledOnTimeout, NothingAfterDisabled
<1>8. QED
  BY <1>3, <1>4, <1>5, <1>6, <1>7

\* A stopped simulation makes no step.
LEMMA IdleKeepsIInv == IInv /\ SpeedIdle => IInv'
<1> SUFFICES ASSUME IInv, SpeedIdle
             PROVE  IInv'
  OBVIOUS
<1> USE DEF IInv, SpeedIdle, SpeedUnlock, simulation, rows, faults
<1>1. TypeOK' /\ MutexHeld' /\ RoomForPost' /\ NothingBeforeStart'
  BY DEF TypeOK, MutexHeld, RoomForPost, NothingBeforeStart
<1>2. StepInBounds' /\ EndIsOrdered'
  BY DEF StepInBounds, EndIsOrdered
<1>3. OneSampleAfterStop' /\ LastSampleIsCurrent' /\ NothingAfterDisabled'
  BY DEF OneSampleAfterStop, LastSampleIsCurrent, NothingAfterDisabled,
         SampleComing
<1>4. FaultIsContinuous' /\ DisabledOnTimeout'
  BY DEF FaultIsContinuous, DisabledOnTimeout
<1>5. QED
  BY <1>1, <1>2, <1>3, <1>4

-----------------------------------------------------------------------------
(* The actions of comms.                                                   *)

\* Taking a post of the semaphore changes nothing else.
LEMMA WaitKeepsIInv == IInv /\ CommsWait => IInv'
<1> SUFFICES ASSUME IInv, CommsWait
             PROVE  IInv'
  OBVIOUS
<1> USE DEF IInv, CommsWait, simulation, rows, faults
<1>1. sem_comms' \in 0..MaxSem /\ sem_comms' < sem_comms
  BY MaxSemAssumption DEF TypeOK
<1>2. TypeOK' /\ MutexHeld' /\ NothingBeforeStart'
  BY <1>1 DEF TypeOK, MutexHeld, NothingBeforeStart
<1>3. RoomForPost'
  BY <1>1, MaxSemAssumption DEF RoomForPost, TypeOK
<1>4. StepInBounds' /\ EndIsOrdered'
  BY DEF StepInBounds, EndIsOrdered
<1>5. OneSampleAfterStop' /\ LastSampleIsCurrent' /\ NothingAfterDisabled'
  BY DEF OneSampleAfterStop, LastSampleIsCurrent, NothingAfterDisabled,
         SampleComing
<1>6. FaultIsContinuous' /\ DisabledOnTimeout'
  BY DEF FaultIsContinuous, DisabledOnTimeout
<1>7. QED
  BY <1>2, <1>3, <1>4, <1>5, <1>6

\* With nothing to send, comms changes nothing.
LEMMA SkipKeepsIInv == IInv /\ CommsSkip => IInv'
<1> SUFFICES ASSUME IInv, CommsSkip
             PROVE  IInv'
  OBVIOUS
<1> USE DEF IInv, CommsSkip, simulation, rows, faults
<1>1. TypeOK' /\ MutexHeld' /\ RoomForPost' /\ NothingBeforeStart'
  BY DEF TypeOK, MutexHeld, RoomForPost, NothingBeforeStart
<1>2. StepInBounds' /\ EndIsOrdered'
  BY DEF StepInBounds, EndIsOrdered
<1>3. OneSampleAfterStop' /\ LastSampleIsCurrent' /\ NothingAfterDisabled'
  BY DEF OneSampleAfterStop, LastSampleIsCurrent, NothingAfterDisabled,
         SampleComing
<1>4. FaultIsContinuous' /\ DisabledOnTimeout'
  BY DEF FaultIsContinuous, DisabledOnTimeout
<1>5. QED
  BY <1>1, <1>2, <1>3, <1>4

\* The health check of a row finds, prolongs, ends or reports a fault.
LEMMA HealthFacts ==
    ASSUME TypeOK, FaultIsContinuous, disabled_sent = 0,
           ~(fault_active /\ fault_age >= SafetyTimeout),
           simu_curr_step + 1 \in Rows,
           simu_curr_step' = simu_curr_step + 1, adverse' = adverse,
           NEW delay \in CheckDelays,
           check_health_signals(simu_curr_step + 1, delay)
    PROVE  /\ fault_active' \in BOOLEAN
           /\ fault_age' \in Nat
           /\ fault_since' \in Rows
           /\ FaultIsContinuous'
           /\ DisabledOnTimeout'
           /\ disabled_sent' \in Nat
           /\ disabled_sent' > 0 => simu_order' = "STOP"
           /\ \/ OrderStop(simu_curr_step + 1)
              \/ UNCHANGED <<simu_order, stop_step>>
<1> DEFINE step == simu_curr_step + 1
           age == IF fault_active THEN fault_age + delay ELSE 0
<1> USE TimeAssumption DEF TypeOK
<1>1. CASE step \notin adverse
  <2>1. /\ fault_active' = FALSE
        /\ UNCHANGED <<fault_age, fault_since, disabled_sent, simu_order,
                       stop_step>>
    BY <1>1 DEF check_health_signals, ClearFault
  <2>2. FaultIsContinuous' /\ DisabledOnTimeout'
    BY <2>1 DEF FaultIsContinuous, DisabledOnTimeout
  <2>3. disabled_sent' \in Nat /\ ~(disabled_sent' > 0)
    BY <2>1
  <2>4. QED
    BY <2>1, <2>2, <2>3
<1>2. CASE step \in adverse
  <2>1. /\ fault_active' = TRUE
        /\ fault_age' = age
        /\ fault_since' = IF fault_active THEN fault_since ELSE step
    BY <1>2 DEF check_health_signals
  <2>2. age \in Nat
    OBVIOUS
  <2>3. fault_since' \in Rows /\ fault_since' <= step
    BY <2>1, DataSizeAssumption DEF FaultIsContinuous, Rows
  <2>4. fault_since'..step \subseteq adverse
    <3>1. CASE fault_active
      BY <1>2, <2>1, <3>1, DataSizeAssumption DEF FaultIsContinuous, Rows
    <3>2. CASE ~fault_active
      BY <1>2, <2>1, <3>2, DataSizeAssumption DEF Rows
    <3>3. QED
      BY <3>1, <3>2
  <2>5. FaultIsContinuous'
    BY <2>3, <2>4 DEF FaultIsContinuous
  <2>6. CASE age >= SafetyTimeout
    <3>1. disabled_sent' = 1 /\ OrderStop(step)
      BY <1>2, <2>6 DEF check_health_signals, DisableSystem
    <3>2. DisabledOnTimeout'
      BY <2>1, <2>6, <3>1 DEF DisabledOnTimeout
    <3>3. QED
      BY <2>1, <2>2, <2>3, <2>5, <3>1, <3>2 DEF OrderStop
  <2>7. CASE ~(age >= SafetyTimeout)
    <3>1. UNCHANGED <<disabled_sent, simu_order, stop_step>>
      BY <1>2, <2>7 DEF check_health_signals
    <3>2. DisabledOnTimeout'
      BY <2>1, <2>7, <3>1 DEF DisabledOnTimeout
    <3>3. QED
      BY <2>1, <2>2, <2>3, <2>5, <3>1, <3>2
  <2>8. QED
    BY <2>6, <2>7
<1>3. QED
  BY <1>1, <1>2

\* Sending a sample moves on to the next row of the cycle, which exists, and
\* leaves nothing more to send until simu_speed has made its next step.
LEMMA SendKeepsIInv == IInv /\ CommsSend => IInv'
<1> SUFFICES ASSUME IInv, CommsSend
             PROVE  IInv'
  OBVIOUS
<1> USE DEF IInv
<1>1. /\ simu_state = "RUNNING" /\ simu_state' = "RUNNING"
      /\ data_updated /\ data_updated' = FALSE
      /\ simu_curr_step' = simu_curr_step + 1
      /\ UNCHANGED <<mutex, speed_pc, retries, sem_comms, adverse>>
      /\ comms_pc' = "wait" /\ controls_ready' = FALSE
      /\ battery_ready' = FALSE /\ mutex = "free"
  BY DEF CommsSend, SampleToSend
<1>2. speed_pc \notin {"check", "step"} /\ speed_pc # "start"
  BY <1>1 DEF MutexHeld, NothingBeforeStart
<1>3. simu_curr_step \in Rows /\ simu_curr_step < DataSize
  BY <1>1 DEF TypeOK, StepInBounds
<1>4. simu_curr_step + 1 \in Rows
  BY <1>3, DataSizeAssumption DEF Rows
<1>5. disabled_sent = 0 /\ ~(fault_active /\ fault_age >= SafetyTimeout)
  <2>1. disabled_sent = 0
    BY <1>1 DEF NothingAfterDisabled, SampleComing, TypeOK
  <2>2. QED
    BY <2>1 DEF DisabledOnTimeout
<1>6. PICK delay \in CheckDelays :
          check_health_signals(simu_curr_step + 1, delay)
  BY DEF CommsSend
<1>7. /\ fault_active' \in BOOLEAN /\ fault_age' \in Nat
      /\ fault_since' \in Rows /\ disabled_sent' \in Nat
      /\ FaultIsContinuous' /\ DisabledOnTimeout'
      /\ disabled_sent' > 0 => simu_order' = "STOP"
      /\ \/ OrderStop(simu_curr_step + 1)
         \/ UNCHANGED <<simu_order, stop_step>>
  BY <1>1, <1>4, <1>5, <1>6, HealthFacts
<1>8. /\ simu_order' \in {"RUN", "STOP"} /\ stop_step' \in 0..Never
      /\ simu_order = "STOP" => simu_order' = "STOP" /\ stop_step' = stop_step
      /\ simu_order' = "STOP" /\ simu_order # "STOP"
            => stop_step' = simu_curr_step + 1
  BY <1>4, <1>7, OrderStopFacts DEF TypeOK
<1>9. TypeOK'
  BY <1>1, <1>4, <1>7, <1>8 DEF TypeOK
<1>10. MutexHeld' /\ RoomForPost' /\ NothingBeforeStart'
  BY <1>1, <1>2 DEF MutexHeld, RoomForPost, NothingBeforeStart
<1>11. StepInBounds' /\ EndIsOrdered'
  <2>1. simu_curr_step + 1 = DataSize => simu_order' = "STOP"
    BY <1>1, <1>8 DEF EndIsOrdered
  <2>2. QED
    BY <1>1, <1>2, <1>3, <2>1, DataSizeAssumption
       DEF StepInBounds, EndIsOrdered, Rows
<1>12. OneSampleAfterStop' /\ LastSampleIsCurrent' /\ NothingAfterDisabled'
  <2>1. simu_order = "STOP" => simu_curr_step <= stop_step
    BY <1>1 DEF LastSampleIsCurrent, SampleComing
  <2>2. simu_order' = "STOP" => simu_curr_step + 1 <= stop_step' + 1
    <3>1. simu_curr_step \in Int /\ stop_step' \in Int
      BY <1>3, <1>8, DataSizeAssumption DEF Rows, Never
    <3>2. CASE simu_order = "STOP"
      BY <1>8, <2>1, <3>1, <3>2
    <3>3. CASE simu_order # "STOP"
      BY <1>8, <3>1, <3>3
    <3>4. QED
      BY <3>2, <3>3
  <2>3. ~SampleComing'
    BY <1>1, <1>2 DEF SampleComing
  <2>4. QED
    BY <1>1, <1>7, <2>2, <2>3
       DEF OneSampleAfterStop, LastSampleIsCurrent, NothingAfterDisabled
<1>13. QED
  BY <1>7, <1>9, <1>10, <1>11, <1>12

-----------------------------------------------------------------------------
(* The other two threads, and stuttering.                                  *)

\* The readings of the battery do not touch the control of the simulation.
LEMMA BatteryKeepsIInv == IInv /\ BatteryUpdate => IInv'
<1> SUFFICES ASSUME IInv, BatteryUpdate
             PROVE  IInv'
  OBVIOUS
<1> USE DEF IInv, BatteryUpdate, threads, simulation, faults
<1>1. TypeOK' /\ MutexHeld' /\ RoomForPost' /\ NothingBeforeStart'
  BY DEF TypeOK, MutexHeld, RoomForPost, NothingBeforeStart
<1>2. StepInBounds' /\ EndIsOrdered'
  BY DEF StepInBounds, EndIsOrdered
<1>3. OneSampleAfterStop' /\ LastSampleIsCurrent' /\ NothingAfterDisabled'
  BY DEF OneSampleAfterStop, LastSampleIsCurrent, NothingAfterDisabled,
         SampleComing
<1>4. FaultIsContinuous' /\ DisabledOnTimeout'
  BY DEF FaultIsContinuous, DisabledOnTimeout
<1>5. QED
  BY <1>1, <1>2, <1>3, <1>4

\* The order to stop that comms_reception writes without the mutex, the first
\* time or again, may fall between any two steps of the other threads.
LEMMA ReceptionKeepsIInv == IInv /\ (ReceiveDisabled \/ RepeatStop) => IInv'
<1> SUFFICES ASSUME IInv, ReceiveDisabled \/ RepeatStop
             PROVE  IInv'
  OBVIOUS
<1> USE DEF IInv
<1>1. /\ OrderStop(simu_curr_step)
      /\ UNCHANGED <<mutex, speed_pc, comms_pc, sem_comms, simu_state,
                     simu_curr_step, data_updated, rows, faults>>
  BY DEF ReceiveDisabled, RepeatStop
<1>2. retries' \in 0..NUM_DISABLE_RETRIES
  BY DEF ReceiveDisabled, RepeatStop, NUM_DISABLE_RETRIES, TypeOK
<1>3. /\ simu_order' = "STOP" /\ stop_step' \in 0..Never
      /\ simu_order = "STOP" => stop_step' = stop_step
      /\ simu_order # "STOP" => stop_step' = simu_curr_step
  BY <1>1, OrderStopFacts DEF TypeOK
<1>4. TypeOK' /\ MutexHeld' /\ RoomForPost' /\ NothingBeforeStart'
  BY <1>1, <1>2, <1>3
     DEF TypeOK, MutexHeld, RoomForPost, NothingBeforeStart, rows, faults
<1>5. StepInBounds' /\ EndIsOrdered'
  BY <1>1, <1>3 DEF StepInBounds, EndIsOrdered
<1>6. OneSampleAfterStop' /\ LastSampleIsCurrent'
  <2>1. simu_curr_step \in Int /\ stop_step' \in Int
    BY <1>3, DataSizeAssumption DEF TypeOK, Rows, Never
  <2>2. CASE simu_order = "STOP"
    BY <1>1, <1>3, <2>2
       DEF OneSampleAfterStop, LastSampleIsCurrent, SampleComing
  <2>3. CASE simu_order # "STOP"
    <3>1. stop_step' = simu_curr_step /\ simu_curr_step' = simu_curr_step
      BY <1>1, <1>3, <2>3
    <3>2. simu_curr_step' <= stop_step' /\ simu_curr_step' <= stop_step' + 1
      BY <2>1, <3>1
    <3>3. QED
      BY <3>2 DEF OneSampleAfterStop, LastSampleIsCurrent
  <2>4. QED
    BY <2>2, <2>3
<1>7. NothingAfterDisabled' /\ FaultIsContinuous' /\ DisabledOnTimeout'
  BY <1>1, <1>3
     DEF NothingAfterDisabled, SampleComing, FaultIsContinuous,
         DisabledOnTimeout, faults, rows
<1>8. QED
  BY <1>4, <1>5, <1>6, <1>7

\* A step that changes nothing keeps the invariant.
LEMMA StutterKeepsIInv == IInv /\ UNCHANGED vars => IInv'
<1> SUFFICES ASSUME IInv, UNCHANGED vars
             PROVE  IInv'
  OBVIOUS
<1> USE DEF IInv, vars, threads, simulation, rows, faults
<1>1. TypeOK' /\ MutexHeld' /\ RoomForPost' /\ NothingBeforeStart'
  BY DEF TypeOK, MutexHeld, RoomForPost, NothingBeforeStart
<1>2. StepInBounds' /\ EndIsOrdered'
  BY DEF StepInBounds, EndIsOrdered
<1>3. OneSampleAfterStop' /\ LastSampleIsCurrent' /\ NothingAfterDisabled'
  BY DEF OneSampleAfterStop, LastSampleIsCurrent, NothingAfterDisabled,
         SampleComing
<1>4. FaultIsContinuous' /\ DisabledOnTimeout'
  BY DEF FaultIsContinuous, DisabledOnTimeout
<1>5. QED
  BY <1>1, <1>2, <1>3, <1>4

-----------------------------------------------------------------------------
(* The theorems.                                                           *)

\* The initial state satisfies the inductive invariant.
LEMMA InitIInv == Init => IInv
<1> SUFFICES ASSUME Init
             PROVE  IInv
  OBVIOUS
<1> USE DEF Init
<1>1. TypeOK
  <2>1. 0 \in Rows /\ Never \in 0..Never /\ 0 \in Nat
    BY DataSizeAssumption DEF Rows, Never
  <2>2. 0 \in 0..MaxSem /\ 0 \in 0..NUM_DISABLE_RETRIES
    BY MaxSemAssumption DEF NUM_DISABLE_RETRIES
  <2>3. QED
    BY <2>1, <2>2 DEF TypeOK
<1>2. MutexHeld /\ RoomForPost /\ NothingBeforeStart
  BY DEF MutexHeld, RoomForPost, NothingBeforeStart
<1>3. StepInBounds /\ EndIsOrdered /\ OneSampleAfterStop
      /\ LastSampleIsCurrent /\ FaultIsContinuous
  BY DEF StepInBounds, EndIsOrdered, OneSampleAfterStop, LastSampleIsCurrent,
         FaultIsContinuous
<1>4. DisabledOnTimeout /\ NothingAfterDisabled
  BY DEF DisabledOnTimeout, NothingAfterDisabled
<1>5. QED
  BY <1>1, <1>2, <1>3, <1>4 DEF IInv

\* The invariant of the simulation holds in every state.
THEOREM Inductive == Spec => []IInv
<1>1. IInv /\ [Next]_vars => IInv'
  BY StartKeepsIInv, LockKeepsIInv, CheckOrderKeepsIInv, StepKeepsIInv,
     IdleKeepsIInv, WaitKeepsIInv, SkipKeepsIInv, SendKeepsIInv,
     BatteryKeepsIInv, ReceptionKeepsIInv, StutterKeepsIInv
     DEF Next, SpeedNext, CommsLocked
<1>2. QED
  BY InitIInv, <1>1, PTL DEF Spec

\* The variables of the BCM keep to their types; the step is a row.
THEOREM TypeCorrect == Spec => []TypeOK
<1>1. IInv => TypeOK
  BY DEF IInv
<1>2. QED
  BY <1>1, Inductive, PTL

\* While the simulation runs no thread leaves the rows of the cycle.
THEOREM StaysInCycle == Spec => []StepInBounds
<1>1. IInv => StepInBounds
  BY DEF IInv
<1>2. QED
  BY <1>1, Inductive, PTL

\* After the order to stop at most one more sample is sent.
THEOREM StopIsPrompt == Spec => []OneSampleAfterStop
<1>1. IInv => OneSampleAfterStop
  BY DEF IInv
<1>2. QED
  BY <1>1, Inductive, PTL

\* The BCM disables the system exactly when a fault lasts for the timeout, and
\* does so once.
THEOREM DisabledOnce == Spec => []DisabledOnTimeout
<1>1. IInv => DisabledOnTimeout
  BY DEF IInv
<1>2. QED
  BY <1>1, Inductive, PTL

\* An active fault has been there at every sample since it was found.
THEOREM FaultHasLasted == Spec => []FaultIsContinuous
<1>1. IInv => FaultIsContinuous
  BY DEF IInv
<1>2. QED
  BY <1>1, Inductive, PTL

-----------------------------------------------------------------------------
(* The controls of a sample.                                               *)

\* A row that waits to be sent has its controls, or it is the last one of the
\* cycle.
ReadyHasControls ==
    data_updated => controls_ready \/ LastRow

\* Only simu_speed marks a row as ready, and computes its controls first;
\* only comms clears the controls, with the mark.
LEMMA ReadyStep ==
    IInv /\ ReadyHasControls /\ [Next]_vars => ReadyHasControls'
<1> SUFFICES ASSUME IInv, ReadyHasControls, [Next]_vars
             PROVE  ReadyHasControls'
  OBVIOUS
<1> USE DEF ReadyHasControls, LastRow, simulation, rows
<1>1. CASE SpeedStart
  BY <1>1 DEF SpeedStart, IInv, NothingBeforeStart
<1>2. CASE SpeedStep
  BY <1>2 DEF SpeedStep
<1>3. CASE CommsSend
  BY <1>3 DEF CommsSend
<1>4. CASE SpeedLock \/ SpeedCheckOrder \/ SpeedIdle \/ CommsWait \/ CommsSkip
  BY <1>4 DEF SpeedLock, SpeedCheckOrder, SpeedIdle, CommsWait, CommsSkip
<1>5. CASE BatteryUpdate \/ ReceiveDisabled \/ RepeatStop
  BY <1>5 DEF BatteryUpdate, ReceiveDisabled, RepeatStop
<1>6. CASE UNCHANGED vars
  BY <1>6 DEF vars
<1>7. QED
  BY <1>1, <1>2, <1>3, <1>4, <1>5, <1>6 DEF Next, SpeedNext, CommsLocked

\* The step moves on in one place only, where a ready row has been sent.
LEMMA StepMovesWithSample ==
    ASSUME IInv, Next, simu_curr_step' = simu_curr_step + 1
    PROVE  data_updated
<1> USE DEF simulation
<1>1. simu_curr_step \in Int /\ simu_curr_step' # simu_curr_step
  BY DataSizeAssumption DEF IInv, TypeOK, Rows
<1>2. ~SpeedStart
  BY <1>1 DEF SpeedStart, IInv, NothingBeforeStart
<1>3. ~(SpeedLock \/ SpeedCheckOrder \/ SpeedStep \/ SpeedIdle)
  BY <1>1 DEF SpeedLock, SpeedCheckOrder, SpeedStep, SpeedIdle
<1>4. ~(CommsWait \/ CommsSkip)
  BY <1>1 DEF CommsWait, CommsSkip
<1>5. ~(BatteryUpdate \/ ReceiveDisabled \/ RepeatStop)
  BY <1>1 DEF BatteryUpdate, ReceiveDisabled, RepeatStop
<1>6. CommsSend
  BY <1>2, <1>3, <1>4, <1>5 DEF Next, SpeedNext, CommsLocked
<1>7. QED
  BY <1>6 DEF CommsSend, SampleToSend

\* Every sample but the last one goes out with the controls of its own row,
\* however the two threads and the semaphore are interleaved
\* (bcm_func.c:203-282, 461-490).
THEOREM ControlsAreSent == Spec => SampleHasControls
<1>1. Init => ReadyHasControls
  BY DEF Init, ReadyHasControls
<1>2. IInv /\ ReadyHasControls /\ [Next]_vars
      => [simu_curr_step' = simu_curr_step + 1
            => controls_ready \/ simu_curr_step = DataSize - 1]_vars
  <2> SUFFICES ASSUME IInv, ReadyHasControls, Next,
                      simu_curr_step' = simu_curr_step + 1
               PROVE  controls_ready \/ simu_curr_step = DataSize - 1
    OBVIOUS
  <2>1. controls_ready \/ LastRow
    BY StepMovesWithSample DEF ReadyHasControls
  <2>2. simu_curr_step \in Int /\ DataSize \in Int
    BY DataSizeAssumption DEF IInv, TypeOK, Rows
  <2>3. QED
    BY <2>1, <2>2 DEF LastRow
<1>3. QED
  BY <1>1, <1>2, ReadyStep, Inductive, PTL DEF Spec, SampleHasControls

=============================================================================
