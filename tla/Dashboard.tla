------------------------------ MODULE Dashboard ------------------------------
(***************************************************************************)
(* What the dashboard does with a message (dashboard/dashboard_func.c):    *)
(* the state of the stop/start system as it knows it, and the two rows of  *)
(* its panel that show it, and its count of the stops.  A sensor message   *)
(* changes the row of its sensor only (SampleStream); the lines of the     *)
(* message log are stored by PanelLog.                                     *)
(***************************************************************************)
EXTENDS Integers

\* "ENGINE_OFF" is the text ENGINE OFF; "other" is any text that is neither a
\* command nor an error: a sensor message, or a garbled block.
Messages == {"press_start_stop", "error_disabled", "error_battery",
             "ENGINE_OFF", "RESTART", "other"}

VARIABLES
    start_stop_active,  \* actuators.start_stop_active
    error_system,       \* actuators.error_system
    system_row,         \* panel_dash, SYSTEM_ST_ROW
    engine_row,         \* panel_dash, ENGINE_ST_ROW
    num_deactivs        \* the stops counted, panel_dash, NUM_SYS_ACTIV

actuators == <<start_stop_active, error_system, num_deactivs>>
panel_dash == <<system_row, engine_row>>
dashboard == <<actuators, panel_dash>>

\* Actuators actuators = {0}, create_value_panel
DashboardInit ==
    /\ start_stop_active = FALSE
    /\ error_system = 0
    /\ system_row = "OFF"
    /\ engine_row = "ON"
    /\ num_deactivs = 0

-----------------------------------------------------------------------------

process_user_commands(m) ==
    IF m = "press_start_stop"
      THEN /\ start_stop_active' = ~start_stop_active
           /\ system_row' = IF start_stop_active' THEN "ON" ELSE "OFF"
      ELSE UNCHANGED system_row

\* A defect: the commands are swapped.
engine_row_swapped(m) ==
    CASE error_system = 1 -> "ERR"
      [] error_system = 0 /\ m = "RESTART" -> "OFF"
      [] error_system = 0 /\ m = "ENGINE_OFF" -> "ON"
      [] OTHER -> engine_row

\* After a fault every message shows it, whatever it says.
engine_row_after(m) ==
    CASE error_system = 1 -> "ERR"
      [] error_system = 0 /\ m = "ENGINE_OFF" -> "OFF"
      [] error_system = 0 /\ m = "RESTART" -> "ON"
      [] OTHER -> engine_row

\* A defect: a restart is counted as a stop, too.
counts_stop_of_any(m) == m \in {"ENGINE_OFF", "RESTART"}

counts_stop(m) == error_system = 0 /\ m = "ENGINE_OFF"

process_engine_commands(m) ==
    /\ engine_row' = engine_row_after(m)
    /\ num_deactivs' = num_deactivs + IF counts_stop(m) THEN 1 ELSE 0

\* A defect: the fault is noted and the system left active.
process_errors_noted(m) ==
    IF m = "error_disabled"
      THEN error_system' = 1 /\ UNCHANGED start_stop_active
      ELSE /\ UNCHANGED error_system
           /\ m # "press_start_stop" => UNCHANGED start_stop_active

\* A defect: the fault is logged only.
process_errors_logged(m) ==
    IF m = "error_disabled"
      THEN start_stop_active' = FALSE /\ UNCHANGED error_system
      ELSE /\ UNCHANGED error_system
           /\ m # "press_start_stop" => UNCHANGED start_stop_active

\* A defect: the faults are counted.
process_errors_counted(m) ==
    IF m = "error_disabled"
      THEN start_stop_active' = FALSE /\ error_system' = error_system + 1
      ELSE /\ UNCHANGED error_system
           /\ m # "press_start_stop" => UNCHANGED start_stop_active

\* The fault is kept: nothing sets error_system to 0 again.  error_battery is
\* a line of the log only; a press was handled by process_user_commands.
process_errors(m) ==
    IF m = "error_disabled"
      THEN start_stop_active' = FALSE /\ error_system' = 1
      ELSE /\ UNCHANGED error_system
           /\ m # "press_start_stop" => UNCHANGED start_stop_active

\* parse_input_received, for a message that is read whole.
parse_input_received(m) ==
    /\ process_user_commands(m)
    /\ process_engine_commands(m)
    /\ process_errors(m)

=============================================================================
