--------------------------- MODULE MCSampleStream ---------------------------
(***************************************************************************)
(* An instance of SampleStream for TLC: a warm car on a level road that    *)
(* stands or drives at one of two speeds.                                  *)
(***************************************************************************)
EXTENDS SampleStream

Row(speed) ==
    [speed |-> speed, in_temp |-> 24, ex_temp |-> 27, door |-> 0, tilt |-> 0,
     engi_temp |-> 900]

StandAndDrive == {Row(0), Row(305)}

\* An almost empty battery, and one just above the limit of the stop.
LowSoc == {2, 7006}

=============================================================================
