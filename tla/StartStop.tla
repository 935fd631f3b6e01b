------------------------------ MODULE StartStop ------------------------------
(***************************************************************************)
(* What the stop/start function of the powertrain ECU promises, without    *)
(* threads, mutex or remembered pedal positions: the engine is stopped     *)
(* only while the system is enabled and every condition holds on the data  *)
(* last received, and a stopped engine is restarted as soon as an          *)
(* evaluation sees the brake released or the accelerator pressed, provided *)
(* that the battery allows it.  A wish the battery does not allow is kept. *)
(*                                                                         *)
(* The pedals are tested by their position when an evaluation looks at     *)
(* them, not by their change: that Powertrain, which tests for a change,   *)
(* implements this specification says that it restarts only for a pedal    *)
(* that still asks for it.  What the pedals did between two evaluations is *)
(* not seen here, as it is not seen there.                                 *)
(***************************************************************************)
EXTENDS VehicleSignals

VARIABLES enabled,  \* is the system active?
          stopped,  \* was the engine stopped by the system?
          wanted,   \* a restart was wanted and not possible yet
          data      \* the signals last received

vars == <<enabled, stopped, wanted, data>>

Init ==
    /\ enabled = FALSE
    /\ stopped = FALSE
    /\ wanted = FALSE
    /\ data = ZeroData

\* The bus changes what is known of the vehicle, or who is in charge.
Sense ==
    /\ data' \in Snapshots
    /\ UNCHANGED <<enabled, stopped, wanted>>

Enable ==
    /\ enabled' \in BOOLEAN
    /\ UNCHANGED <<stopped, wanted, data>>

Stop ==
    /\ enabled
    /\ ~stopped
    /\ AllConditions(data)
    /\ stopped' = TRUE
    /\ UNCHANGED <<enabled, wanted, data>>

DriverAsks == wanted \/ data.brake = 0 \/ data.accel # 0

Restart ==
    /\ enabled
    /\ stopped
    /\ DriverAsks
    /\ restart_battery_ok(data)
    /\ stopped' = FALSE
    /\ wanted' = FALSE
    /\ UNCHANGED <<enabled, data>>

Postpone ==
    /\ enabled
    /\ stopped
    /\ DriverAsks
    /\ ~restart_battery_ok(data)
    /\ wanted' = TRUE
    /\ UNCHANGED <<enabled, stopped, data>>

Next == Sense \/ Enable \/ Stop \/ Restart \/ Postpone

Spec == Init /\ [][Next]_vars

=============================================================================
