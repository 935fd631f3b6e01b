--------------------------- MODULE StopStartSystem ---------------------------
(***************************************************************************)
(* The four ECUs around the CAN bus, as far as the state of the stop/start *)
(* system goes: the button of the instrument cluster, the fault of the     *)
(* BCM, the powertrain that obeys and commands, and the dashboard that     *)
(* shows.  Every socket gets the messages of the bus in the same order,    *)
(* each ECU reads its own in its own time.                                 *)
(*                                                                         *)
(* A message is two frames.  CanTransport shows how a receiver, and it     *)
(* alone, may miss one of them or pair it with a frame of another message, *)
(* so that the message is lost for it or is a block that says nothing.     *)
(* Here every message may fail so, for either of its receivers.            *)
(*                                                                         *)
(* The powertrain evaluates conditions that other modules model: here it   *)
(* may stop, restart or give up a restart whenever its flags allow it      *)
(* (Powertrain).  The ring buffer of the dashboard is a queue              *)
(* (DashboardBuffer), but for the presses it spoils.                       *)
(***************************************************************************)
EXTENDS Dashboard, Sequences, SequencesExt

CONSTANTS
    MaxBus,   \* bound: the messages an ECU has not read yet when another one
              \*   is sent, but for the error_disabled of the powertrain
    MaxStops  \* bound: the stops of the engine

ASSUME BoundsAssumption == MaxBus \in Nat \ {0} /\ MaxStops \in Nat

VARIABLES
    to_powertrain,      \* commands the powertrain has not read yet
    to_dashboard,       \* messages the dashboard has not handled yet
    start_stop_manual,  \* the powertrain's flags
    engine_off,
    giving_up,          \* the restart logic is in the pause of 50 ms between
                        \*   error_battery and error_disabled
    bcm_running,        \* the BCM is sending samples
    stops,              \* history: how often the engine was stopped
    missed_stops,       \* history: how many of their commands did not reach
                        \*   the dashboard
    unheard,            \* history: did the last engine command not reach the
                        \*   dashboard?
    parted              \* history: has one of the two missed a command since
                        \*   a fault last reached both?

bus == <<to_powertrain, to_dashboard>>
powertrain == <<start_stop_manual, engine_off, giving_up>>
history == <<stops, missed_stops, unheard, parted>>
vars == <<dashboard, bus, powertrain, bcm_running, history>>

Init ==
    /\ DashboardInit
    /\ to_powertrain = <<>>
    /\ to_dashboard = <<>>
    /\ start_stop_manual = FALSE
    /\ engine_off = FALSE
    /\ giving_up = FALSE
    /\ bcm_running = TRUE
    /\ stops = 0
    /\ missed_stops = 0
    /\ unheard = FALSE
    /\ parted = FALSE

-----------------------------------------------------------------------------

RoomOnBus ==
    /\ Len(to_powertrain) < MaxBus
    /\ Len(to_dashboard) < MaxBus

\* The two frames of m reach the dashboard as m, or they do not: it gets a
\* garbled block or none.
ReachDashboard(m, whole) ==
    IF whole
      THEN to_dashboard' = Append(to_dashboard, m)
      ELSE to_dashboard' \in {to_dashboard, Append(to_dashboard, "other")}

\* CAN_ID_COMMAND: for the powertrain and the dashboard, which may get it or
\* not, each for itself.  Only a fault that both get joins what was parted.
SendCommand(m) ==
    \E atPowertrain, atDashboard \in BOOLEAN :
        /\ to_powertrain' = IF atPowertrain THEN Append(to_powertrain, m)
                                            ELSE to_powertrain
        /\ ReachDashboard(m, atDashboard)
        /\ parted' = \/ atPowertrain # atDashboard
                     \/ parted /\ ~(atPowertrain /\ m = "error_disabled")

\* CAN_ID_ECU_RESTART, CAN_ID_ERROR_DASH, CAN_ID_SENSOR_READ: what the
\* dashboard shows.
SendDashboard(m, whole) ==
    /\ ReachDashboard(m, whole)
    /\ UNCHANGED <<to_powertrain, parted>>

\* The instrument cluster: check_input_command("press_start_stop").
Press ==
    /\ RoomOnBus
    /\ SendCommand("press_start_stop")
    /\ UNCHANGED <<dashboard, powertrain, bcm_running, stops, missed_stops,
                   unheard>>

\* The BCM sends a sample (one that is lost is as good as none), finds a
\* lasting fault, or stops: at the end of its cycle, or because it heard of a
\* fault.
BcmSample ==
    /\ bcm_running
    /\ RoomOnBus
    /\ SendDashboard("other", TRUE)
    /\ UNCHANGED <<dashboard, powertrain, bcm_running, stops, missed_stops,
                   unheard>>

BcmFault ==
    /\ RoomOnBus
    /\ bcm_running
    /\ SendCommand("error_disabled")
    /\ bcm_running' = FALSE
    /\ UNCHANGED <<dashboard, powertrain, stops, missed_stops, unheard>>

BcmStop ==
    /\ bcm_running
    /\ bcm_running' = FALSE
    /\ UNCHANGED <<dashboard, bus, powertrain, history>>

\* The powertrain stops the engine or restarts it.
PowertrainStop ==
    /\ start_stop_manual
    /\ ~engine_off
    /\ stops < MaxStops
    /\ engine_off' = TRUE
    /\ stops' = stops + 1
    /\ RoomOnBus
    /\ \E whole \in BOOLEAN :
          /\ SendDashboard("ENGINE_OFF", whole)
          /\ unheard' = ~whole
          /\ missed_stops' = missed_stops + IF whole THEN 0 ELSE 1
    /\ UNCHANGED <<dashboard, start_stop_manual, giving_up, bcm_running>>

PowertrainRestart ==
    /\ start_stop_manual
    /\ engine_off
    /\ ~giving_up
    /\ engine_off' = FALSE
    /\ RoomOnBus
    /\ \E whole \in BOOLEAN :
          /\ SendDashboard("RESTART", whole)
          /\ unheard' = ~whole
    /\ UNCHANGED <<dashboard, start_stop_manual, giving_up, bcm_running,
                   stops, missed_stops>>

\* It gives a restart up: error_battery, a pause, error_disabled.  It reads
\* nothing meanwhile, since its mutex is held.
PowertrainGiveUp ==
    /\ start_stop_manual
    /\ engine_off
    /\ ~giving_up
    /\ giving_up' = TRUE
    /\ RoomOnBus
    /\ \E whole \in BOOLEAN : SendDashboard("error_battery", whole)
    /\ UNCHANGED <<dashboard, start_stop_manual, engine_off, bcm_running,
                   stops, missed_stops, unheard>>

PowertrainAbort ==
    /\ giving_up
    /\ giving_up' = FALSE
    /\ SendCommand("error_disabled")
    /\ UNCHANGED <<dashboard, start_stop_manual, engine_off, bcm_running,
                   stops, missed_stops, unheard>>

\* What a command makes of the state of activation.
Obey(active, m) ==
    CASE m = "press_start_stop" -> ~active
      [] m = "error_disabled" -> FALSE
      [] OTHER -> active

PowertrainRead ==
    /\ ~giving_up
    /\ to_powertrain # <<>>
    /\ start_stop_manual' = Obey(start_stop_manual, Head(to_powertrain))
    /\ to_powertrain' = Tail(to_powertrain)
    /\ UNCHANGED <<dashboard, to_dashboard, engine_off, giving_up, bcm_running,
                   history>>

DashboardRead ==
    /\ to_dashboard # <<>>
    /\ parse_input_received(Head(to_dashboard))
    /\ to_dashboard' = Tail(to_dashboard)
    /\ UNCHANGED <<to_powertrain, powertrain, bcm_running, history>>

\* The text of a press runs into the id of the message stored after it, or
\* into head: it is no command, and shows only a fault there is already.  It
\* parts the flags, unless a fault comes after it.
DashboardReadSpoilt ==
    /\ to_dashboard # <<>>
    /\ Head(to_dashboard) = "press_start_stop"
    /\ parse_input_received("other")
    /\ to_dashboard' = Tail(to_dashboard)
    /\ parted' = (parted \/ ~Contains(Tail(to_dashboard), "error_disabled"))
    /\ UNCHANGED <<to_powertrain, powertrain, bcm_running, stops, missed_stops,
                   unheard>>

Next ==
    \/ Press
    \/ BcmSample
    \/ BcmFault
    \/ BcmStop
    \/ PowertrainStop
    \/ PowertrainRestart
    \/ PowertrainGiveUp
    \/ PowertrainAbort
    \/ PowertrainRead
    \/ DashboardRead
    \/ DashboardReadSpoilt

Spec == Init /\ [][Next]_vars

-----------------------------------------------------------------------------

Commands == {"press_start_stop", "error_disabled"}

\* Type invariant of the bus and of the ECUs.
TypeOK ==
    /\ start_stop_active \in BOOLEAN
    /\ error_system \in {0, 1}
    /\ system_row \in {"ON", "OFF"}
    /\ engine_row \in {"ON", "OFF", "ERR"}
    /\ to_powertrain \in Seq(Commands)
    /\ to_dashboard \in Seq(Messages)
    /\ Len(to_powertrain) <= MaxBus + 1
    /\ Len(to_dashboard) <= MaxBus + 1
    /\ start_stop_manual \in BOOLEAN
    /\ engine_off \in BOOLEAN
    /\ giving_up \in BOOLEAN
    /\ stops \in 0..MaxStops
    /\ num_deactivs \in 0..stops
    /\ bcm_running \in BOOLEAN
    /\ missed_stops \in 0..stops
    /\ unheard \in BOOLEAN
    /\ parted \in BOOLEAN

\* What a flag will be when the messages of q have been read.
WhenRead(active, q) ==
    LET after[i \in 0..Len(q)] ==
            IF i = 0 THEN active ELSE Obey(after[i - 1], q[i])
    IN  after[Len(q)]

ManualWhenRead == WhenRead(start_stop_manual, to_powertrain)
ActiveWhenRead == WhenRead(start_stop_active, to_dashboard)

\* SWR1.2, SWR1.3: the powertrain and the dashboard keep their flags apart,
\* each from the commands it receives.  When both have read what is on the
\* bus they agree, whoever pressed or reported a fault meanwhile, unless one
\* of them missed a command that the other obeyed, or obeys yet; a fault that
\* reaches both makes them agree again.
AgreeUnlessParted == ~parted => ManualWhenRead = ActiveWhenRead

\* Where the engine commands stand that are still to be shown.
EngineCommands ==
    {i \in 1..Len(to_dashboard) : to_dashboard[i] \in {"ENGINE_OFF", "RESTART"}}

\* SWR5.1, SWR5.3: without a fault, the engine row shows the state of the
\* engine when the commands on their way have been handled: the last of them
\* says it, or the row itself.  Only the last command has to reach the
\* dashboard, whatever was lost before it.
EngineRowFollows ==
    error_system = 0 /\ ~unheard =>
        /\ EngineCommands = {} => (engine_row = "OFF" <=> engine_off)
        /\ \A last \in EngineCommands :
              (\A i \in EngineCommands : i <= last)
                => (to_dashboard[last] = "ENGINE_OFF" <=> engine_off)

\* SWR1.4: once both have read what was on the bus, and unless one of them
\* missed a command, the system row shows the state of the powertrain: ON
\* whenever it is active, and ON only then as long as there was no fault.
\* After one, ON may stand for a system that is disabled.
SystemRowFollows ==
    (~parted /\ to_powertrain = <<>> /\ to_dashboard = <<>>) =>
        /\ start_stop_manual => system_row = "ON"
        /\ error_system = 0 => (system_row = "ON" <=> start_stop_manual)

\* The row and the flag of the dashboard itself.
RowAndFlag ==
    /\ start_stop_active => system_row = "ON"
    /\ system_row = "ON" /\ ~start_stop_active => error_system = 1

\* How often a message stands in q.
Count(m, q) == Cardinality({i \in 1..Len(q) : q[i] = m})

\* The panel counts every stop of the engine once, until a fault; what is not
\* counted yet is on its way, or never reached the dashboard.
StopsCounted ==
    error_system = 0 =>
        num_deactivs + Count("ENGINE_OFF", to_dashboard) + missed_stops = stops

\* The "error_disabled" of a restart that is given up finds room on the bus.
RoomToAbort ==
    giving_up => Len(to_powertrain) <= MaxBus /\ Len(to_dashboard) <= MaxBus

\* The inductive invariant behind the safety properties of this module.
IInv ==
    /\ TypeOK
    /\ RoomToAbort
    /\ AgreeUnlessParted
    /\ EngineRowFollows
    /\ RowAndFlag
    /\ StopsCounted

=============================================================================
