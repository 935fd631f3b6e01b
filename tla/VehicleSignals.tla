--------------------------- MODULE VehicleSignals ---------------------------
(***************************************************************************)
(* The vehicle signals the ECUs exchange and the conditions the powertrain *)
(* ECU evaluates on them (powertrain/powertrain_func.c).  A signal that    *)
(* the C code keeps as a double is an integer number of tenths here, which *)
(* is the precision the "%.1lf" of the sender puts on the bus; the int     *)
(* signals are plain integers.                                             *)
(***************************************************************************)
EXTENDS Integers

\* The members of VehicleData that travel on the bus.
Fields == {"speed", "in_temp", "ex_temp", "door", "tilt", "accel", "brake",
           "temp_set", "batt_soc", "batt_volt", "engi_temp", "gear"}

Snapshots == [Fields -> Int]

\* VehicleData rec_data = {0}
ZeroData == [f \in Fields |-> 0]

-----------------------------------------------------------------------------

MIN_BATTERY_VOLTAGE == 100      \* tenths of a volt
MIN_BATTERY_SOC     == 700      \* tenths of a percent
MAX_TILT_ANGLE      == 50       \* tenths of a degree
MAX_TEMP_DIFF       == 5        \* degrees
MIN_ENGINE_TEMP     == 200      \* tenths of a degree
MAX_ENGINE_TEMP     == 1050

check_movement_conditions(d) ==
    /\ d.speed = 0
    /\ d.accel = 0
    /\ d.brake # 0
    /\ d.gear = 0

check_temperature_conditions(d) ==
    /\ d.in_temp <= d.temp_set + MAX_TEMP_DIFF
    /\ d.ex_temp >= d.temp_set

check_engine_temp_conditions(d) ==
    MIN_ENGINE_TEMP <= d.engi_temp /\ d.engi_temp <= MAX_ENGINE_TEMP

\* A defect: one good battery reading is enough.
BatteryConditionsEither(d) ==
    d.batt_soc >= MIN_BATTERY_SOC \/ d.batt_volt > MIN_BATTERY_VOLTAGE

check_battery_conditions(d) ==
    d.batt_soc >= MIN_BATTERY_SOC /\ d.batt_volt > MIN_BATTERY_VOLTAGE

check_door_conditions(d) == d.door = 0

check_tilt_conditions(d) == d.tilt <= MAX_TILT_ANGLE

\* The battery test of handle_engine_restart_logic.
restart_battery_ok(d) ==
    d.batt_volt >= MIN_BATTERY_VOLTAGE /\ d.batt_soc >= MIN_BATTERY_SOC

\* A defect: the battery condition fails silently.
InhibitionsButBattery(d) ==
    {e \in {"brake", "temperature", "engine_temperature", "door", "tilt"} :
        \/ e = "brake" /\ ~check_movement_conditions(d)
        \/ e = "temperature" /\ ~check_temperature_conditions(d)
        \/ e = "engine_temperature" /\ ~check_engine_temp_conditions(d)
        \/ e = "door" /\ ~check_door_conditions(d)
        \/ e = "tilt" /\ ~check_tilt_conditions(d)}

\* The error messages evaluate_condition_with_logging puts on the bus, one
\* for each condition of d that does not hold.
Inhibitions(d) ==
    {e \in {"brake", "temperature", "engine_temperature", "battery", "door",
            "tilt"} :
        \/ e = "brake" /\ ~check_movement_conditions(d)
        \/ e = "temperature" /\ ~check_temperature_conditions(d)
        \/ e = "engine_temperature" /\ ~check_engine_temp_conditions(d)
        \/ e = "battery" /\ ~check_battery_conditions(d)
        \/ e = "door" /\ ~check_door_conditions(d)
        \/ e = "tilt" /\ ~check_tilt_conditions(d)}

\* A defect: the temperature of the engine is reported and not decided on.
AllConditionsButEngine(d) ==
    /\ check_movement_conditions(d)
    /\ check_temperature_conditions(d)
    /\ check_battery_conditions(d)
    /\ check_door_conditions(d)
    /\ check_tilt_conditions(d)

\* The final decision of check_disable_engine: every condition holds.
AllConditions(d) ==
    /\ check_movement_conditions(d)
    /\ check_temperature_conditions(d)
    /\ check_engine_temp_conditions(d)
    /\ check_battery_conditions(d)
    /\ check_door_conditions(d)
    /\ check_tilt_conditions(d)

=============================================================================
