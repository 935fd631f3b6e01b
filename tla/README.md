# TLA+ models of the stop/start simulation

The repository simulates a car with an automatic engine stop/start function as
four programs (ECUs) around one virtual CAN bus. The modules in this directory
model the programs from their C code, TLC checks them on small instances, and
TLAPS proves the main safety properties for every value of the constants.

Paths below are relative to the repository; `PF` stands for
`src/powertrain/powertrain_func.c`, `PC` for `src/powertrain/can_comms.c`,
`BF` for `src/bcm/bcm_func.c`, `DF` for `src/dashboard/dashboard_func.c`, `CS`
for `src/common_includes/can_socket.c`, `IC` for
`src/instrument_cluster/instrument_cluster.c`.

## 1. The system

```
 named pipe                  CAN bus (vcan0)
     |                             |
 instrument cluster --COMMAND----->|<---COMMAND, ERROR_DASH, ECU_RESTART-- powertrain
     (button)                      |----COMMAND, SENSOR_READ-------------> (stop/restart logic)
                                   |
 dashboard <--all four ids---------|<---SENSOR_READ, COMMAND-------------- BCM
     (panel, log)                  |----COMMAND, ERROR_DASH--------------> (driving cycle, faults)
```

A message is a text of up to 16 characters. `send_encrypted_message` enciphers
it to one AES block and writes it as two frames of 8 bytes with the same id;
every receiver collects two frames that it listens to and deciphers them.

| Component | State | Operations | Hard behaviour |
|---|---|---|---|
| Powertrain logic (PF `function_start_stop`) | `engine_off`, `restart_trigger`, previous pedals, `rec_data`, `mutex_powertrain` | evaluate the six conditions, stop; detect a restart trigger, restart, give up for a low battery | two threads; edge detection across switches off and on; a 50 ms pause before `error_disabled`; its own command comes back over the bus |
| Powertrain communication (PC, PF `powertrain_comms`) | `start_stop_manual`, `rec_data` | read one message | blocks in `read()` with the mutex held |
| BCM simulation (BF `simu_speed`, `comms`, `sensor_battery`) | `simu_order`, `simu_state`, `simu_curr_step`, `data_updated`, `sem_comms` | read the cycle, compute a row, send it, step, stop | four threads, a semaphore that is posted once per period whether or not it was taken, orders written without the lock, the end of the cycle found by an equality |
| BCM faults and reception (BF `check_health_signals`, `comms_reception`) | `fault_active`, `fault_start_time` | start, clear, fire the timer; obey `error_disabled` | timer read only when a sample is sent; stop repeated for three seconds |
| CAN transport (CS) | received bytes of each receiver | write two frames, read, decipher | frames of several senders interleave; results of `write` ignored; no frame says which half it is |
| Dashboard buffer (DF, `dashboard.c`) | ring of 64 messages, `head`, `tail`, mutex | store, drain | two threads; full buffer; `decrypt_data` writes one byte behind a slot |
| Dashboard handlers (DF `process_*`) | `start_stop_active`, `error_system`, `num_deactivs`, the panel's rows | press, engine command, fault, others | keeps its own copy of the activation; fault latched |
| Panels (`panels.c`) | ring of log lines with its index and count, ncurses windows | add a line, draw | ring written in four statements by two threads, with no lock of its own; index arithmetic over laps |
| BCM vehicle model (BF `simu_speed_step`, `update_battery_soc`, `send_data_update`) | `vehicle_data`, `batt_soc`, `batt_volt` | controls from two speeds, charge and voltage, twelve messages | two threads complete one row; floats, clamps and rounding; a receiver can see parts of two rows |
| Instrument cluster (IC) | the named pipe, `input` | open, read once, close, obey | commands that overlap share one pipe, and what is left in it at the close is gone |
| Diagnostic log (`logging.c`) | file, mutex | append a line | closed without the lock |
| `gen_simu.py`, CSV | - | offline | - |

What makes each correct: the engine is stopped only when all conditions hold
and restarted when the driver asks for it; a request that still stands is
served and none survives its stop; the system is disabled only for a low battery or a fault
that lasted; the simulation stays inside its cycle and stops when told;
messages reach their receivers once and in order; a press given to the waiting
button is obeyed; the panel shows the state of the engine and of the system, the
number of stops, the readings the decisions are made on and the newest lines of
the log, and both copies of the activation agree.

## 2. Modules

| Module | Models | State and actions |
|---|---|---|
| `VehicleSignals` | sensor data and the tests on them (PF 20-184) | thresholds, `check_*_conditions`, `AllConditions`, `Inhibitions`; numbers in tenths |
| `StartStop` | abstract: the stop/start function seen from outside | `Sense`, `Enable`, `Stop`, `Restart`, `Postpone`; by the positions of the pedals where they are evaluated, no edges, no threads |
| `Powertrain` | the two threads of the powertrain ECU | `LogicLock`, `CheckDisableEngine`, `NoRestart`, `Restart`, `RestartAbort`, `SendDisabled`, `LogicSkip`, `CommsLock` and one `Read...` per kind of message |
| `MCPowertrain` | value sets for TLC | |
| `PowertrainProofs` | theorems about `Powertrain` | |
| `Bcm` | the four threads of the BCM | `SpeedStart`, `SpeedLock`, `SpeedCheckOrder`, `SpeedStep`, `SpeedIdle`, `CommsWait`, `CommsSend`, `CommsSkip`, `BatteryUpdate`, `ReceiveDisabled`, `RepeatStop` |
| `BcmProofs` | theorems about `Bcm` | |
| `CanTransport` | messages of two frames on the bus | `SendFirst`, `SendSecond`; every listener assembles |
| `CanTransportProofs` | theorems about `CanTransport` | |
| `MessageQueue` | abstract: a FIFO queue | `Receive`, `Handle` |
| `DashboardBuffer` | the ring and the two threads of the dashboard | `Store`, `ProcLock`, `ProcWait`, `ProcWake`, `ProcFound`, `ProcOne`, `ProcUnlock` |
| `DashboardBufferProofs` | theorems about `DashboardBuffer` | |
| `Dashboard` | what a message does to the dashboard's state | `process_user_commands`, `process_engine_commands` with the count of the stops, `process_errors` |
| `StopStartSystem` | the four ECUs around a bus that loses messages; extends `Dashboard` | `Press`, `BcmFault`, `BcmStop`, `BcmSample`, `Powertrain...` (stop, restart, give up, abort, read), `DashboardRead`, `DashboardReadSpoilt` |
| `StopStartSystemProofs` | theorems about `StopStartSystem` | |
| `InstrumentCluster` | the loop over the named pipe, and the commands that write to it | `StartWriter`, `Write`, `WriteFails`, `CloseWriter`; `Open`, `Read`, `CloseAndObey` |
| `InstrumentClusterProofs` | theorems about `InstrumentCluster` | |
| `LogView` | abstract: the newest lines, shown as far as there are rows | `Add`, `Draw`, `DrawFails` |
| `PanelLog` | `add_to_log`, statement by statement | `Call`, `StoreLine`, `AdvanceIndex`, `CountLine`, `DrawLines` |
| `PanelLogProofs` | theorems about `PanelLog` | |
| `VehicleModel` | controls, charge, voltage and rounding as operators (BF 205-236, 284-321, 510-539) | `ControlsOf`, `NextSoc`, `BattVolt`, `OneDecimal`, `SendOrder` |
| `SampleStream` | a sample on its way from its row to the decision and to the panel; composes `VehicleModel`, `VehicleSignals` and `StartStop` | `SpeedStep`, `BatteryUpdate`, `CommsSend`, `PowertrainRead`, `PowertrainStep`, `DashboardRead` |
| `MCSampleStream` | rows and charges for TLC | |
| `SampleStreamProofs` | theorems about `SampleStream` | |

Conventions. Definitions keep the names of the code. A step is one critical
section, or a part of one where something can come in between (a sleep inside
it, an access without the lock). Variables marked *history* record the past for
a property and are read by no action. An operator introduced by "A defect:" is
not used by the model: it is a plausible error of the code, and PROJECT.json
pairs it with the property that finds it.

The abstractions, and why they are safe to make:

- *Data.* Sensor values are integers in tenths, as they are on the bus
  (`%.1lf`); `VehicleModel` has the charge in hundredths of a percent, of which
  every constant of the code is a multiple, and the voltage in units of 0.1 µV,
  so that its rounding is exact. The BCM model keeps of a row only whether a
  health signal is adverse in it and whether its computed fields are written.
  The transport and buffer models know only which text a message is.
- *Composition.* `SampleStream` has the evaluation of the powertrain as the
  abstract `StartStop`, which `Powertrain` is shown to implement, and the
  dashboard's buffer as a queue, which `DashboardBuffer` implements. Messages of
  a sample are handled in a batch, as the draining thread does. Its messages
  arrive whole and in order.
- *Messages.* A message is two frames, which `CanTransport` has one by one. In
  `StopStartSystem` it is one step, but for each receiver by itself it may be
  lost or arrive as a block that says nothing, as lost or interleaved frames
  make it. `Powertrain` takes any message at any time; only its own
  `error_disabled` arrives for certain.
- *Pipe.* Opening one end waits for the other, a write without a reader fails,
  a read waits while a writer has the pipe open, and the pipe is emptied when
  its last user closes it. The commands write with `echo -n`: the press is
  exactly the 16 bytes of one read, `exit` is shorter.
- *Time.* Sleeps are steps; the fault timer counts periods and advances by
  `CheckDelays` between health checks.
- *Semaphores, queues and counters.* Bounded by `MaxSem`, `MaxOwn`,
  `MaxPending`, `MaxBus`, `MaxPipe`, `MaxLag`, `MaxStops`, `MaxSamples` and
  `MaxTicks`, each in the guard of the action that would go beyond.
- *Memory after a slot.* The C structure puts the first byte of the next CAN id
  behind `decrypted`, and `head` behind the last slot; `DashboardBuffer` models
  what the layout gives, not what the language leaves undefined.

## 3. The runs

Runs that pass:

| Run | Instance | Shows |
|---|---|---|
| `Powertrain` | pedals, speed, charge, voltage, cabin and outer temperature and slope on, above and below their thresholds; fair threads; up to two own commands under way (133 232 states) | a request that stands is seen, no trigger left over, each refusal reported, stop only on the battery data and conditions that are required, abort only on a low battery, `IInv`, refinement of `StartStop`; a restart given up disables the system, and one that stays asked for is made if the bus never falls silent |
| `Bcm` | five rows, any of them adverse, timeout 2, checks 1 or 2 apart | the step stays in the cycle, at most one sample after a stop, every sample has its controls, the fault timer, `IInv`, the end is reached |
| `SampleStream` | four samples of a car that stands or drives, a battery almost empty or just above the limit of a stop, a tick of the battery thread or none in each row, a reader up to a sample behind (341 940 states) | the engine is stopped only on samples that say that the car stands; the battery test answers exactly what was measured; the panel shows what was decided on; the charge stays within 0 and 100 % |
| `CanTransport` | three senders, three receivers, any losses (34 449 states) | where a receiver stands; a message alone on the bus arrives at each receiver in step |
| `DashboardBufferLight` | ring of 6, three texts, at most 4 pending (5 453 states) | the ring is a FIFO queue, slots outside it are clear, it is drained again and again |
| `StopStartSystem` | at most three messages on the bus, two stops, any message lost or garbled for either receiver (1 543 241 states) | both copies of the activation agree unless one missed a command that the other got, and so does the system row, but for ON after a fault; the panel follows the last engine command that arrived and counts each stop that arrived once |
| `InstrumentCluster` | two commands, three texts in the pipe (11 580 states) | a command given to the waiting program and left alone is kept whole and obeyed; no overlap keeps the program in its read |
| `PanelLog` | ring of 3, inner heights 2, 3 and 4, two threads, two texts (32 745 states) | the ring and the window are the log of `LogView` |

Runs that end in a violation, each a finding in PROJECT.json:

| Run | Shows |
|---|---|
| `PowertrainQuietBus` | on a silent bus the restart logic waits for ever for the mutex (SWR3.1) |
| `PowertrainPulse` | a brake released and pressed again between two evaluations is never detected (SWR3.1) |
| `CanInterleaved` | two senders garble each other's messages, with no loss |
| `DashboardBufferPress` | a press stored in the last slot is not recognised |

*Bounds.* The ring has 6 slots instead of 64: the model distinguishes slot 0,
the last slot and the others, and TLC goes through many laps; the proofs are for
every size from 4. A cycle of five rows has a first row, a last row, and faults
that start, end and start again with a timeout of two. `MaxOwn` = 2 lets one
`error_disabled` be under way while a second is decided on. Sensor values sit
on, above and below each threshold that a run is about; the others keep one
value, which still arrives after the zeros of the start. Three messages on the
bus are enough for a press, a fault and an engine command in every order, and
two stops for one that is counted or missed beside one on its way or after a
fault. A log
of three lines goes round many times, on panels lower than, as high as and
higher than the ring. Two commands are enough for one that joins another at any
point; the invariant of the proofs was also checked with three. Four samples
give each mixture of two of them with one before and one after.

*Deadlock* is checked in every run but `InstrumentCluster`, where `exit` ends
the program: the ECUs wait for ever for messages and a message can always come.

Every module but `InstrumentCluster` has its type invariant checked as the first
conjunct of its `IInv`, the inductive invariant that the proofs use; so are
`MutexHeld`, `NothingLeftBehind`, `AloneWaits`, `RoomToAbort`, `RowAndFlag`,
`HoldsTheRest`, `DataIsSent`, `RowsAreSent` and `SamplesOK`.

*Fairness.* `Powertrain!ThreadFairness`: a thread that can go on does, and a
thread gets a mutex that is released again and again, since each sleeps (50 ms,
1 s) after releasing it: strong fairness on taking the lock, weak on the steps
inside. The queue of a socket is FIFO, so the ECU's own command, once written,
is read. Nothing is asked of the other ECUs: `ServedOnBusyBus` and `RequestDetected` have the bus that never falls silent as
their hypothesis, and `PowertrainQuietBus` shows what it is for. The BCM sends for as long as its cycle lasts, and not longer.
`Bcm!FairSpec` assumes only that `simu_speed` and `comms` run.
`DashboardBuffer!FairSpec` assumes that the draining thread runs and does not
wake up spuriously for ever, and nothing of the arrivals.
`InstrumentCluster!FairSpec` assumes that the program and each command that was
started run when nothing makes them wait, and nothing of who starts commands.

## 4. What the code does that a reader may not expect

The findings in PROJECT.json name their run, their line and the words they
contradict. The models say more of the same kind in the properties that hold:

- *A receiver never gets back into step* (`Alignment`). After one missed frame
  a receiver of an otherwise orderly bus pairs the second frame of each message
  with the first of the next.
- *A nearly full dashboard buffer can be emptied by one store.* The terminator
  that `decrypt_data` writes for the last slot sets `head` to 0, and `head` then
  advances to 1. `ImplementsQueue` holds up to N-2 pending messages and not
  beyond; slot 0 is never used after the first lap.
- *A command that one of two misses parts the flags* (`AgreeUnlessParted`). A
  press lost for the powertrain or the dashboard alone, or spoilt in the
  dashboard's buffer, leaves them opposite; no press that both get brings them
  together again, only a fault that both get (or another loss) does. The order
  in which they read presses and faults does not part them.
- *A fault is shown for ever.* `EngineRowFollows` is about the time before the
  first `error_disabled`; nothing resets `error_system`, so the engine row says
  ERR after a new activation as well.
- *A system switched off leaves a stopped engine off.* `StartStop!Restart`
  needs `enabled`, and so does the code (PF 274): the restart triggers are
  evaluated again after the next press. A pedal that is still where the driver
  moved it then counts (`StandingRequestSeen`).
- *A short pulse of a pedal is lost* (`RequestDetected`, a violation). The
  pedals are compared between two evaluations, one second apart, and not at all
  while the system is off: what went back meanwhile leaves no edge.
- *A sample can be sent without battery readings* (`BatteryJudged`). `comms`
  does not wait for `sensor_battery`: a row sent before it says zero, and a
  restart that is evaluated on it is refused. No charge and no driving state
  makes the voltage itself the reason of a refusal.
- *The two limits of the cabin temperature differ at their boundary*
  (`StopsAsRequired`). SWR2.6 asks for no stop from 5 degrees above the
  setpoint on; the code stops at exactly 5 degrees. `AllowedOrGap` names this
  exception and one other, a car that points downhill by more than 5 degrees:
  SWR2.9 asks for a slope "within ±5°", and PF 77 tests `tilt_angle <= 5` only.
  In the run `Powertrain` the engine is stopped on such slopes.
- *The system row stays ON after a fault* (`SystemRowFollows`), although SWR5.3
  asks for the state of the system. While the flags are not parted, this is the
  one way in which it differs from the powertrain's state: it never says OFF for
  an active system, nor ON for one that is off before any fault.
- *A stop may be decided on parts of two samples* (`StopsStanding`). The car
  stands in both of them; the later one may say that it is about to move off,
  since its pedals have not arrived yet. The gear is sent last, and before the
  first gear has come its initial 0 is taken for the position of parking.
- *A stop drains the battery it was allowed on.* A standing car loses 0.1 % in
  each tick of the battery thread, whether the engine runs or not, and the
  limits of stop and restart are the same charge: a long stop can end in a
  refused restart.
- *Presses can get lost in the pipe* (`LoneTextKept` is about the others). A
  press that is written between the read and the close of the one before is
  gone with the close; a press behind a shorter text is run together with it.

## 5. What is proved

All proofs are for every value of the constants under the named assumptions in
the modules (`SensorValuesAssumption`, `MaxOwnAssumption`,
`DataSizeAssumption`, `TimeAssumption`, `MaxSemAssumption`, `NAssumption`,
`MsgsAssumption`, `LoadAssumption`, `BoundsAssumption`, `LogAssumption`,
`MaxPipeAssumption`, `StartAssumption`, `RowAssumption`). Most say that a bound
is a natural number. Of the data, `RowAssumption` asks that the speeds of the
file are not negative, as they are in `full_simu.csv`, and `StartAssumption` that the charge is one that the steps of
`update_battery_soc` can reach.

`PowertrainProofs`. The invariant `IInv` is inductive; from it `TypeCorrect`,
`MutualExclusion`, `StandingRequestIsSeen`, `TriggerBelongsToStop`,
`AbortIsJustified`, `StopIsReversible`, `ReasonReported` (a refusal comes with its
reason), `StopIsRequired` (a stop has all conditions of SWR2.2 to SWR2.7 and
SWR2.9 but for the two cases of section 4) and `Refinement`.
`StandingRequestSeen` by itself is not inductive:
what it says in the middle of an evaluation depends on the pedals seen in the
one before. The strengthening is `ArmedWhileOff` (with the engine off and no
request pending, the pedals last seen are those of a waiting driver, or the
evaluation under way has just stopped the engine on such pedals) together with
`ActiveDuringEvaluation` (the flag cannot be cleared during an evaluation, as
the mutex is held). The refinement maps each evaluation to one step of
`StartStop` or to a stutter and uses `StandingRequestSeen` to replace the edges
by the positions of the pedals at the evaluation; `StartStop` says nothing of
pulses between two of them.

`BcmProofs`. `IInv` adds to the safety properties who owns the lock
(`MutexHeld`), that the last row is marked as sendable only with the order to
stop (`EndIsOrdered`), that the sample still to come after an order is the
current one (`LastSampleIsCurrent`), and that none comes after the fault command
(`NothingAfterDisabled`). From it `TypeCorrect`, `StaysInCycle`, `StopIsPrompt`,
`DisabledOnce`, `FaultHasLasted`. `ControlsAreSent` is a property of steps; what it
needs of the state before is `ReadyHasControls`: whatever the semaphore says, a
row that is marked as complete has its controls or is the last one.

`DashboardBufferProofs`. Under `LightLoad` (at most N-2 messages pending) `IInv`
is inductive: slots are used in order and cleared behind the reader, and slot 0
is filled in the first lap only (`SlotZeroOnce`), because the store into the
last slot sets `head` to 0 before advancing it. From it `TypeCorrect`,
`SlotsAreClean`, `AloneIsWhole`, and `Refinement`: the texts from the first
slot in use to `head` are a FIFO queue, though slot 0 is counted and empty from
the second lap on. The load is necessary: see
section 4.

`PanelLogProofs`. `IInv` says that one thread at a time is in `add_to_log`,
that it has a line to store, and that the index of a ring that is not full is
its count, but for the two statements between which they differ
(`IndexIsCount`). From it `Inductive`, `TypeCorrect`, and `Refinement`: a line
counts as added from its store on (`LinesByStep`). Two facts of the arithmetic
carry the proof: a ring that is not full begins at slot 0 (`SlotNotFull`), and
in a full ring the slot that is written next holds the oldest line (`SlotFull`,
`NextIsOneOn`); so `StoreAdds` drops that line and no other, for every size and
height.

`InstrumentClusterProofs`. `LoneTextKept` alone is not inductive: nothing in it
says that no other command can write. `IInv` adds that the others are idle while
there is a lone command (`OthersIdle`), that a pipe nobody has open is empty
(`UnusedIsEmpty`), and how far the command is in each place of its text
(`LonePlaces`). From it `TypeCorrect`, `Inductive`, and `LoneIsKept`, for any
number of commands.

`StopStartSystemProofs`. The safety properties speak of what will be when the
unread messages have been read, which may be any number; together with the types
and the room that an abort needs on the bus (`RoomToAbort`) they are inductive
(`Inductive`). What a queue makes of a flag is a recursive function
over its positions (`WhenRead`), and what the proofs need of it are four facts: a
message appended acts last (`WhenReadAppend`), the first one acts first
(`WhenReadHead`), a garbled one changes nothing (`NothingSaid`), and with a fault
in the queue what was before it does not matter (`FaultForgets`). A message that
may be lost for each receiver is treated once, in `Reached` and `CommandGrows`.
None of the four is in the library, and its induction theorems take an
operator as a parameter; they rest on `PositionInduction`, an induction over the
positions of a queue as a statement about *sets*, which `LeastElement` gives from
the well-foundedness of `<`. The count of the stops is a cardinality
(`CountOfAppend`, `CountOfTail`), the engine row depends on the last engine
command (`FollowsAppend`, `FollowsTail`). From it `TypeCorrect`, `FlagsAgree`,
`RowShowsEngine`, `SystemRowShows` and `EveryStopCounted`. `SystemRowShows` comes
from `AgreeUnlessParted` and `RowAndFlag`, which relates the row to the
dashboard's own flag.

`CanTransportProofs`. `Alignment` is an invariant of parity: a frame turns
`half` around for each listener that gets it and `slipped` for each that does
not, and each frame begins or ends the sender's message (`MidMessageFirst`,
`MidMessageSecond`, `ParityStep`). `AloneArrives` is a property of steps; what it
needs of the state before is `AloneWaits`: a receiver that is alone with a
message and in step has its first half. From them `Inductive`, `TypeCorrect`,
`StaysInOrOutOfStep` and `LoneMessageArrives`, with losses and without.

`SampleStreamProofs`. The messages of the bus are counted: the t-th one, from 0,
is message `t % 12 + 1` of sample `t \div 12 + 1`, so the number of messages a
reader has taken tells for each field which sample it has it from (`SampleNo`,
`OneMore`, `NoOfNext`). `IInv` says that each queue holds the rest of what was
sent (`HoldsTheRest`), that each reading and each row of the panel is from that
sample (`DataIsSent`, `RowsAreSent`), and what a sample can be (`SamplesOK`). Two
of its parts are easily missed: the charge moves in even steps, without which
the limits of its rounding are not exact; and the last row of the file is sent
with no controls, so that its gear says nothing about its speed. The
dashboard handles a whole queue in one step; `Handled`, again a recursive
function, is treated with `PositionInduction` (`HandledAlong`, `AllHandled`).
From it `TypeCorrect` (with the limits of the charge), `BatteryIsJudged`,
`PanelShows` and `StopsOnlyStanding`. The last one looks at the two samples that
the data may mix. The later of them has its speed 0, as the test asks; if they
differ, the gear is of the earlier one, since it is sent last, and the earlier
one is not the last sample, so its gear at `PARKING` means that its speed is 0.

Only model-checked: the liveness properties (`ServedOnBusyBus`,
`AbortDisables`, `Stops`, `Drained`, `LoneObeyed`, `RoundEnds`), which need
fairness and `ENABLED` and are out of the prover's reach. Every invariant and
every action property of a passing run is a theorem.

## 6. Not modelled

- The engine temperature, the door, the slope and the temperatures of a row are
  columns of the CSV file: the models take any values of them. `gen_simu.py` is
  an offline script.
- Which line each message adds to the log, and the digits of the rows (the
  number of stops is cut to three of them, DF 94).
- The second initialisation of the setpoint: `temp_set` is filled in once, and
  the code never starts a second cycle.
- `getCurrentTimeMs` after 24.8 days (BF 73), where the difference of two ints
  overflows; CSV files of fewer than two rows (BF 152).
- The diagnostic log: nothing reads it back, and its callers join their threads
  before it is closed, or never return.
- Creation of sockets and windows, drawing of borders and colours, key handling,
  containers and build files: pure input and output.
- The cipher: a block is whole or garbled. A garbled block is taken to be no
  command.

## 7. Plan

Done, in this order: powertrain with its abstract specification and proofs, BCM
with proofs, dashboard buffer with its queue and proofs, the system around the
bus, the transport, the instrument cluster with proofs, the panel's log with its
abstract specification and proofs, the vehicle model and the stream of samples.

The proofs of the transport, of the whole system around the bus and of the stream
of samples came last; no safety property of the runs is left without one.

Next:

1. The dashboard's queue in `StopStartSystem` and `SampleStream` as an instance of
   `MessageQueue`, so that their composition with `DashboardBuffer` is a theorem
   and not a convention.
2. The powertrain's actions of `StopStartSystem` as an abstraction that
   `Powertrain` implements, in the way it implements `StartStop`.
3. The fault timer over a clock that wraps, as a refinement of the one of `Bcm`.
