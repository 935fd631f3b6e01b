---------------------------- MODULE VehicleModel ----------------------------
(***************************************************************************)
(* The vehicle as the BCM simulates it (bcm/bcm_func.c): the controls it   *)
(* derives from the speeds of two rows, the battery it charges and drains, *)
(* and the readings it puts on the bus with one decimal.                   *)
(*                                                                         *)
(* Charges are integer hundredths of a percent: every constant of the code *)
(* is a multiple of that, and the error of its floats (0.04F) is far below *)
(* the distance of any reachable charge from a tie of the rounding.        *)
(* Voltages are units of 0.1 microvolt, for 0.01125 V per percent.         *)
(***************************************************************************)
EXTENDS Integers, Sequences

\* A defect: the gear is sent right after the speed.
GearFirst ==
    <<"speed", "gear", "in_temp", "ex_temp", "door", "tilt", "accel",
      "brake", "temp_set", "batt_soc", "batt_volt", "engi_temp">>

\* send_data_update sends the members of a sample in this order.
SendOrder ==
    <<"speed", "in_temp", "ex_temp", "door", "tilt", "accel", "brake",
      "temp_set", "batt_soc", "batt_volt", "engi_temp", "gear">>

DEFAULT_SET_TEMP == 23
PARKING == 0
DRIVE   == 1

-----------------------------------------------------------------------------
(* simu_speed_step                                                         *)

\* The car accelerates or keeps its speed, brakes, or stands.
Accelerates(now, next) == next > now \/ (next = now /\ now > 0)
Brakes(now, next) == next < now /\ now > 0

ControlsOf(now, next) ==
    [accel |-> IF Accelerates(now, next) THEN 1 ELSE 0,
     brake |-> IF Accelerates(now, next) THEN 0 ELSE 1,
     gear  |-> IF Accelerates(now, next) \/ Brakes(now, next)
                 THEN DRIVE ELSE PARKING]

\* The last row gets no controls.
NoControls == [accel |-> 0, brake |-> 0, gear |-> 0]

-----------------------------------------------------------------------------
(* update_battery_soc                                                      *)

DEFAULT_BATTERY_SOC   == 8000
BATTERY_SOC_INCREMENT == 4
BATTERY_SOC_DECREMENT == 2
BATTERY_SOC_MUL       == 5
MAX_BATTERY_SOC       == 10000
BATTERY_VOLT_MUL      == 1125
BATTERY_VOLT_SUM      == 116750000
VOLTAGE_OFFSET_VALUE  == -8000000
SOC_THRESHOLD         == 3000
VOLTAGE_DEC           == 5000000

\* A defect: the charge has no limits.
SocUnlimited(soc, speed) ==
    IF speed > 0 THEN soc + BATTERY_SOC_INCREMENT
                 ELSE soc - BATTERY_SOC_DECREMENT * BATTERY_SOC_MUL

\* batt_soc after one tick of sensor_battery.
NextSoc(soc, speed) ==
    IF speed > 0
      THEN IF soc + BATTERY_SOC_INCREMENT > MAX_BATTERY_SOC
             THEN MAX_BATTERY_SOC
             ELSE soc + BATTERY_SOC_INCREMENT
      ELSE IF soc < BATTERY_SOC_DECREMENT * BATTERY_SOC_MUL
             THEN 0
             ELSE soc - BATTERY_SOC_DECREMENT * BATTERY_SOC_MUL

\* batt_volt at that charge.
BattVolt(soc, speed) ==
    BATTERY_VOLT_MUL * soc + BATTERY_VOLT_SUM
        + IF speed > 0 THEN 0
          ELSE VOLTAGE_OFFSET_VALUE
                   - IF soc < SOC_THRESHOLD THEN VOLTAGE_DEC ELSE 0

-----------------------------------------------------------------------------

\* A defect: the digits behind the first decimal are cut off.
OneDecimalCut(x, unit) == {x \div unit}

\* "%.1lf" of x, where one tenth is unit: the nearest number of tenths; a tie
\* may go either way, as the double is just above or below it.
OneDecimal(x, unit) ==
    LET n == (2 * x + unit) \div (2 * unit)
    IN  IF 2 * (n * unit - x) = unit THEN {n - 1, n} ELSE {n}

SocTenth  == 10
VoltTenth == 1000000

=============================================================================
