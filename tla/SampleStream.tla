---------------------------- MODULE SampleStream ----------------------------
(***************************************************************************)
(* From the rows of the simulation to the decision of the powertrain.  The *)
(* BCM completes a row with its controls and its battery readings in two   *)
(* threads and sends it as twelve messages; the powertrain reads them one  *)
(* at a time and evaluates its conditions at any moment in between; the    *)
(* dashboard shows them.                                                   *)
(*                                                                         *)
(* The threads of the BCM are those of module Bcm, without their ends and  *)
(* faults; the evaluation of the powertrain is the specification StartStop *)
(* that module Powertrain implements.  A powertrain or a dashboard may be  *)
(* started while the BCM runs, so the charge the model starts with is any  *)
(* that earlier rows left.                                                 *)
(*                                                                         *)
(* The messages arrive whole and in the order they are sent: what a        *)
(* receiver makes of lost or interleaved frames is the subject of          *)
(* CanTransport.                                                           *)
(***************************************************************************)
EXTENDS VehicleModel, VehicleSignals

CONSTANTS
    CsvRows,     \* the rows of the CSV file
    NoRow,       \* the end of the file
    StartSoc,    \* the charges the model starts with
    MaxSamples,  \* bound: samples sent
    MaxTicks,    \* bound: ticks of sensor_battery per row
    MaxLag       \* bound: messages unread when a sample is sent

\* A charge the battery can have: from 80 % on, its steps are even.
ASSUME StartAssumption ==
    \A soc \in StartSoc :
        soc \in 0..MAX_BATTERY_SOC /\ (soc - DEFAULT_BATTERY_SOC) % 2 = 0

\* What a row has: the speeds are not negative.
ASSUME RowAssumption ==
    /\ CsvRows \subseteq [speed : Nat, in_temp : Int, ex_temp : Int,
                           door : Int, tilt : Int, engi_temp : Int]
    /\ NoRow \notin CsvRows

ASSUME BoundsAssumption ==
    MaxSamples \in Nat \ {0, 1} /\ MaxTicks \in Nat /\ MaxLag \in Nat

VARIABLES
    row, next_row,   \* vehicle_data at simu_curr_step and behind it
    data_updated,    \* the row has its controls
    batt_soc,        \* the charge
    battery,         \* the battery readings of the row
    ticks,           \* the ticks of sensor_battery on this row
    to_powertrain,   \* messages the powertrain has not read
    to_dashboard,    \* messages the dashboard has not handled
    sensor_rows,     \* panel_dash, the rows of the sensors
    enabled, stopped, wanted, rec_data,  \* the powertrain, see StartStop
    sent             \* history: the samples sent, with the charge at the time

bcm == <<row, next_row, data_updated, batt_soc, battery, ticks>>
dashboard == <<to_dashboard, sensor_rows>>
powertrain == <<to_powertrain, enabled, stopped, wanted, rec_data>>
vars == <<bcm, dashboard, powertrain, sent>>

\* The powertrain's evaluation.
Logic == INSTANCE StartStop WITH data <- rec_data

\* A row that sensor_battery has not reached: 0, as the row was cleared.
NoReadings == [batt_soc |-> 0, batt_volt |-> 0]

\* What the row of a sensor shows before its first message.
EmptyRow(f) == IF f = "door" THEN "No" ELSE "-"

Init ==
    /\ row \in CsvRows
    /\ next_row \in CsvRows
    /\ data_updated = FALSE
    /\ batt_soc \in StartSoc
    /\ battery = NoReadings
    /\ ticks = 0
    /\ to_dashboard = <<>>
    /\ sensor_rows = [f \in Fields |-> EmptyRow(f)]
    /\ to_powertrain = <<>>
    /\ Logic!Init
    /\ sent = <<>>

-----------------------------------------------------------------------------
(* The BCM.                                                                *)

\* simu_speed: the controls of the row.
SpeedStep ==
    /\ row # NoRow
    /\ data_updated' = TRUE
    /\ UNCHANGED <<row, next_row, batt_soc, battery, ticks, dashboard,
                   powertrain, sent>>

\* sensor_battery: update_battery_soc(vehicle_data[simu_curr_step].speed).
BatteryUpdate ==
    /\ row # NoRow
    /\ ticks < MaxTicks
    /\ ticks' = ticks + 1
    /\ batt_soc' = NextSoc(batt_soc, row.speed)
    /\ \E soc \in OneDecimal(batt_soc', SocTenth),
          volt \in OneDecimal(BattVolt(batt_soc', row.speed), VoltTenth) :
          battery' = [batt_soc |-> soc, batt_volt |-> volt]
    /\ UNCHANGED <<row, next_row, data_updated, dashboard, powertrain, sent>>

Controls ==
    IF next_row = NoRow THEN NoControls
                        ELSE ControlsOf(row.speed, next_row.speed)

\* The members of vehicle_data[simu_curr_step] as they are sent.
Sample ==
    [f \in Fields |->
        CASE f \in {"accel", "brake", "gear"} -> Controls[f]
          [] f \in {"batt_soc", "batt_volt"} -> battery[f]
          [] f = "temp_set" -> DEFAULT_SET_TEMP
          [] OTHER -> row[f]]

MessagesOf(s) ==
    [i \in 1..Len(SendOrder) |->
        [field |-> SendOrder[i], value |-> s[SendOrder[i]]]]

\* A defect: the sample goes out when sensor_battery has run.
SampleOnTick == ticks > 0

SampleToSend == data_updated

\* comms: send_data_update and the step to the next row.
CommsSend ==
    /\ row # NoRow
    /\ SampleToSend
    /\ Len(to_powertrain) <= MaxLag
    /\ to_powertrain' = to_powertrain \o MessagesOf(Sample)
    /\ to_dashboard' = to_dashboard \o MessagesOf(Sample)
    /\ sent' = Append(sent, [data |-> Sample, soc |-> batt_soc,
                             measured |-> ticks > 0])
    /\ row' = next_row
    /\ next_row' \in IF next_row = NoRow \/ Len(sent) + 2 >= MaxSamples
                       THEN {NoRow} ELSE CsvRows \cup {NoRow}
    /\ data_updated' = FALSE
    /\ battery' = NoReadings
    /\ ticks' = 0
    /\ UNCHANGED <<batt_soc, sensor_rows, enabled, stopped, wanted, rec_data>>

-----------------------------------------------------------------------------
(* The powertrain and the dashboard.                                       *)

\* parse_input_received_powertrain.
PowertrainRead ==
    /\ to_powertrain # <<>>
    /\ rec_data' = [rec_data EXCEPT ![Head(to_powertrain).field] =
                                        Head(to_powertrain).value]
    /\ to_powertrain' = Tail(to_powertrain)
    /\ UNCHANGED <<bcm, dashboard, enabled, stopped, wanted, sent>>

\* The driver, a fault, and the evaluation between two messages.
PowertrainStep ==
    /\ Logic!Enable \/ Logic!Stop \/ Logic!Restart \/ Logic!Postpone
    /\ UNCHANGED <<bcm, dashboard, to_powertrain, sent>>

\* A defect: the letters of the gear are swapped.
ShownSwapped(m) ==
    CASE m.field = "door" -> IF m.value # 0 THEN "Yes" ELSE "No"
      [] m.field = "gear" -> IF m.value = 0 THEN "D" ELSE "P"
      [] OTHER -> m.value

\* What the row of a sensor shows for a reading.
Shown(m) ==
    CASE m.field = "door" -> IF m.value # 0 THEN "Yes" ELSE "No"
      [] m.field = "gear" -> IF m.value # 0 THEN "D" ELSE "P"
      [] OTHER -> m.value

\* process_sensor_readings: there is no row for the setpoint.
process_sensor_readings(rows, m) ==
    IF m.field = "temp_set" THEN rows
                            ELSE [rows EXCEPT ![m.field] = Shown(m)]

\* The rows after the messages of q, one after the other.
Handled(rows, q) ==
    LET after[i \in 0..Len(q)] ==
            IF i = 0 THEN rows
                     ELSE process_sensor_readings(after[i - 1], q[i])
    IN  after[Len(q)]

\* process_frame_thread wakes every 100 ms and handles all it finds.
DashboardRead ==
    /\ to_dashboard # <<>>
    /\ sensor_rows' = Handled(sensor_rows, to_dashboard)
    /\ to_dashboard' = <<>>
    /\ UNCHANGED <<bcm, powertrain, sent>>

Next ==
    \/ SpeedStep
    \/ BatteryUpdate
    \/ CommsSend
    \/ PowertrainRead
    \/ PowertrainStep
    \/ DashboardRead

Spec == Init /\ [][Next]_vars

-----------------------------------------------------------------------------

CanMessages == [field : Fields, value : Int]

\* The variables have their types; the charge stays between 0 and 100 %.
TypeOK ==
    /\ row \in CsvRows \cup {NoRow}
    /\ next_row \in CsvRows \cup {NoRow}
    /\ data_updated \in BOOLEAN
    /\ batt_soc \in 0..MAX_BATTERY_SOC
    /\ battery \in [batt_soc : 0..(MAX_BATTERY_SOC \div SocTenth),
                   batt_volt : 0..130]
    /\ ticks \in 0..MaxTicks
    /\ to_powertrain \in Seq(CanMessages)
    /\ to_dashboard \in Seq(CanMessages)
    /\ Len(to_powertrain) <= MaxLag + Len(SendOrder)
    /\ DOMAIN sensor_rows = Fields
    /\ enabled \in BOOLEAN
    /\ stopped \in BOOLEAN
    /\ wanted \in BOOLEAN
    /\ rec_data \in Snapshots
    /\ sent \in Seq([data : Snapshots, soc : 0..MAX_BATTERY_SOC,
                     measured : BOOLEAN])
    /\ Len(sent) <= MaxSamples

\* How many messages the reader of the queue q has taken, and the sample the
\* i-th message of a sample is from when it was last taken (0: none was).
Taken(q) == Len(sent) * Len(SendOrder) - Len(q)

SampleNo(taken, i) ==
    LET whole == taken \div Len(SendOrder)
    IN  IF i <= taken % Len(SendOrder) THEN whole + 1 ELSE whole

\* The sample the reader of q has the field from.
LastSample(q, f) ==
    SampleNo(Taken(q), CHOOSE i \in 1..Len(SendOrder) : SendOrder[i] = f)

SampleOf(f) == LastSample(to_powertrain, f)

\* The engine is stopped only while the car stands: the speed is 0 in both
\* samples that the data of the powertrain may mix, and all but the gear has
\* arrived.  (The later one may say that the car is about to move off: its
\* pedals have not arrived yet.  bcm_func.c:284-321, powertrain_func.c:183.)
StopsStanding ==
    [][~stopped /\ stopped' =>
          \A f \in Fields :
              /\ f # "gear" => SampleOf(f) # 0
              /\ SampleOf(f) # 0 => sent[SampleOf(f)].data.speed = 0]_vars

\* The field comes from a sample that sensor_battery had reached.
Measured(f) == SampleOf(f) # 0 /\ sent[SampleOf(f)].measured

\* The battery test of the restart passes exactly on charges that round to
\* 70.0 % or more; a voltage never fails it, and a sample that was sent before
\* sensor_battery reached its row always does (bcm_func.c:310, 311, 510-539).
BatteryJudged ==
    restart_battery_ok(rec_data) <=>
        /\ Measured("batt_soc")
        /\ sent[SampleOf("batt_soc")].soc * 2 >= 2 * 7000 - SocTenth
        /\ Measured("batt_volt")

\* When both have read the bus, the panel shows the data that the powertrain
\* decides on (dashboard_func.c:107-186, can_comms.c:47-118).
PanelShowsDecision ==
    to_powertrain = <<>> /\ to_dashboard = <<>> /\ sent # <<>> =>
        /\ sensor_rows["door"] = IF rec_data.door = 0 THEN "No" ELSE "Yes"
        /\ sensor_rows["gear"] = IF rec_data.gear = 0 THEN "P" ELSE "D"
        /\ \A f \in Fields \ {"door", "gear", "temp_set"} :
               sensor_rows[f] = rec_data[f]

\* A queue has the rest of the messages, in their order.
HoldsTheRest(q) ==
    /\ Taken(q) >= 0
    /\ \A n \in 1..Len(sent), i \in 1..Len(SendOrder) :
          LET k == (n - 1) * Len(SendOrder) + i - Taken(q)
          IN  k > 0 => q[k] = [field |-> SendOrder[i],
                               value |-> sent[n].data[SendOrder[i]]]

\* What was taken is what the reader knows and shows.
DataIsSent ==
    \A f \in Fields :
        rec_data[f] = IF SampleOf(f) = 0 THEN 0 ELSE sent[SampleOf(f)].data[f]

RowsAreSent ==
    \A f \in Fields \ {"temp_set"} :
        LET n == LastSample(to_dashboard, f)
        IN  sensor_rows[f] =
              IF n = 0 THEN EmptyRow(f)
                       ELSE Shown([field |-> f, value |-> sent[n].data[f]])

\* The readings go with the charge: one decimal of it, or none was taken.
ReadingsOf(soc, measured, readings) ==
    /\ soc % 2 = 0
    /\ IF measured
         THEN /\ readings.batt_soc \in OneDecimal(soc, SocTenth)
              /\ readings.batt_volt >= MIN_BATTERY_VOLTAGE
         ELSE readings.batt_soc = 0 /\ readings.batt_volt = 0

\* The samples have the readings of their row, and say PARKING of a car that
\* stands, but for the last one, which has no controls.
SamplesOK ==
    /\ ReadingsOf(batt_soc, ticks > 0, battery)
    /\ row # NoRow => Len(sent) < MaxSamples
    /\ row # NoRow /\ next_row # NoRow => Len(sent) + 1 < MaxSamples
    /\ \A n \in 1..Len(sent) :
          /\ ReadingsOf(sent[n].soc, sent[n].measured, sent[n].data)
          /\ (n < Len(sent) \/ row # NoRow) /\ sent[n].data.gear = PARKING
                => sent[n].data.speed = 0

\* The inductive invariant behind the properties of this module.
IInv ==
    /\ TypeOK
    /\ HoldsTheRest(to_powertrain)
    /\ HoldsTheRest(to_dashboard)
    /\ DataIsSent
    /\ RowsAreSent
    /\ SamplesOK

=============================================================================
