---------------------------- MODULE MCPowertrain ----------------------------
(***************************************************************************)
(* Instances of Powertrain for TLC: which values the sensor messages       *)
(* carry.  A field whose value does not matter to a run keeps one value    *)
(* (it still arrives later than the others: rec_data starts at 0).         *)
(***************************************************************************)
EXTENDS Powertrain

\* Values that satisfy every condition.
GoodValues ==
    [f \in Fields |->
        CASE f = "temp_set" -> {23}
          [] f = "in_temp" -> {24}
          [] f = "ex_temp" -> {30}
          [] f = "engi_temp" -> {900}
          [] f = "batt_soc" -> {800}
          [] f = "batt_volt" -> {118}
          [] f = "brake" -> {1}
          [] OTHER -> {0}]

\* The driver and the battery: both pedals, a moving car, a battery at, above
\* and below the thresholds of the stop and of the restart.  The cabin is 5
\* or 6 degrees above the setpoint (0) when the outside is, too, and the car
\* may stand steeply downhill: where the code is not the requirements' rule.
\* Every field says 0 until its first message, an engine too cold to stop.
DrivingValues ==
    [GoodValues EXCEPT !.speed = {0, 305}, !.accel = {0, 1}, !.brake = {0, 1},
                       !.batt_soc = {699, 700}, !.batt_volt = {99, 100, 101},
                       !.temp_set = {0}, !.in_temp = {5, 6}, !.ex_temp = {1},
                       !.tilt = {-60}]

\* A waiting driver, who may take the foot off the brake and put it back.
PulseValues == [GoodValues EXCEPT !.brake = {0, 1}]

\* The pedals and the state of charge only, for the silent bus.
PedalValues ==
    [GoodValues EXCEPT !.accel = {0, 1}, !.brake = {0, 1},
                       !.batt_soc = {690, 800}, !.batt_volt = {118},
                       !.temp_set = {0}, !.in_temp = {0}, !.ex_temp = {0}]

=============================================================================
