---------------------------- MODULE CanTransport ----------------------------
(***************************************************************************)
(* How a message crosses the CAN bus.  send_encrypted_message puts the 16  *)
(* bytes of a message into two frames with the same id, written one after  *)
(* the other; each receiver takes the frames whose id it listens to and    *)
(* decrypts two by two, whoever sent them: a frame does not say to which   *)
(* message, or to which half of it, it belongs.                            *)
(*                                                                         *)
(* The bus carries the frames of all senders in one order.  A frame can be *)
(* missed: a write fails and its result is ignored, the queue of a socket  *)
(* is full, or the receiver starts later than the sender.  The queues of   *)
(* the sockets keep the order and are left out: a frame is received when   *)
(* it is written.                                                          *)
(***************************************************************************)
EXTENDS Integers, FiniteSets

CONSTANT
    Lossy   \* can frames be missed?

ASSUME LossyAssumption == Lossy \in BOOLEAN

Ids == {"COMMAND", "ERROR_DASH", "ECU_RESTART", "SENSOR_READ"}
Senders == {"instrument_cluster", "bcm", "powertrain"}
Receivers == {"bcm", "powertrain", "dashboard"}

\* check_can_id, check_is_valid_can_id_powertrain, check_is_valid_can_id
Listens ==
    [r \in Receivers |->
        CASE r = "bcm" -> {"COMMAND", "ERROR_DASH"}
          [] r = "powertrain" -> {"COMMAND", "SENSOR_READ"}
          [] r = "dashboard" -> Ids]

\* The messages of each program; what they say is named by one text for each
\* kind.
Sends ==
    [s \in Senders |->
        CASE s = "instrument_cluster" ->
                {[id |-> "COMMAND", text |-> "press_start_stop"]}
          [] s = "bcm" ->
                {[id |-> "SENSOR_READ", text |-> "speed"],
                 [id |-> "COMMAND", text |-> "error_disabled"]}
          [] s = "powertrain" ->
                {[id |-> "ERROR_DASH", text |-> "error_battery"],
                 [id |-> "ECU_RESTART", text |-> "RESTART"],
                 [id |-> "COMMAND", text |-> "error_disabled"]}]

Messages == UNION {Sends[s] : s \in Senders}
Texts == {m.text : m \in Messages}
Frames == [text : Texts, part : {1, 2}]

None == [text |-> "none", part |-> 0]
NoMessage == [id |-> "none", text |-> "none"]

VARIABLES
    sending,  \* for each sender, the message whose first frame is written
    half,     \* for each receiver, the frame that waits for its second
    block,    \* for each receiver, the block the last frame completed
    alone,    \* history: the receivers that got the first frame a sender wrote,
              \*   and for which nothing else was on the bus since
    slipped   \* history: for each receiver, the number of frames it has
              \*   missed, modulo 2

vars == <<sending, half, block, alone, slipped>>

-----------------------------------------------------------------------------

Init ==
    /\ sending = [s \in Senders |-> NoMessage]
    /\ half = [r \in Receivers |-> None]
    /\ block = [r \in Receivers |-> "none"]
    /\ alone = [s \in Senders |-> {}]
    /\ slipped = [r \in Receivers |-> 0]

\* A defect: the id of a frame is not looked at.
ListenersAll(id) == Receivers

Listeners(id) == {r \in Receivers : id \in Listens[r]}

\* A defect: the second half is put before the first.
DecryptReversed(first, second) ==
    IF second.part = 1 /\ first.part = 2 /\ first.text = second.text
      THEN first.text ELSE "garbled"

\* decrypt_data: one AES block is a text only if both halves are its own.
Decrypt(first, second) ==
    IF first.part = 1 /\ second.part = 2 /\ first.text = second.text
      THEN first.text ELSE "garbled"

\* A defect: received_bytes is not reset after a block.
WaitingKept(r, frame) == IF half[r] = None THEN frame ELSE half[r]

\* received_bytes is 8 after a first frame and 0 again after a block.
Waiting(r, frame) == IF half[r] = None THEN frame ELSE None

Completed(r, frame) ==
    IF half[r] = None THEN "none" ELSE Decrypt(half[r], frame)

\* A frame is written; the listeners in missed do not get it.
Transmit(id, frame, missed) ==
    LET R == Listeners(id) \ missed
        L == Listeners(id) \cap missed
    IN  /\ half' = [r \in Receivers |->
                       IF r \in R THEN Waiting(r, frame) ELSE half[r]]
        /\ block' = [r \in Receivers |->
                       IF r \in R THEN Completed(r, frame) ELSE "none"]
        /\ slipped' = [r \in Receivers |->
                       IF r \in L THEN 1 - slipped[r] ELSE slipped[r]]

\* The senders between the two frames of a message for r.
MidMessage(r) ==
    {s \in Senders : sending[s] # NoMessage /\ r \in Listeners(sending[s].id)}

Misses == IF Lossy THEN SUBSET Receivers ELSE {{}}

\* send_encrypted_message, up to and after its first send_can_frame.
SendFirst(s, m) ==
    /\ sending[s] = NoMessage
    /\ sending' = [sending EXCEPT ![s] = m]
    /\ \E missed \in Misses :
          /\ Transmit(m.id, [text |-> m.text, part |-> 1], missed)
          /\ alone' = [t \in Senders |->
                         IF t = s
                           THEN {r \in Listeners(m.id) \ missed :
                                    MidMessage(r) = {}}
                           ELSE alone[t] \ Listeners(m.id)]

SendSecond(s) ==
    /\ sending[s] # NoMessage
    /\ sending' = [sending EXCEPT ![s] = NoMessage]
    /\ \E missed \in Misses :
          Transmit(sending[s].id, [text |-> sending[s].text, part |-> 2],
                   missed)
    /\ alone' = [t \in Senders |->
                   IF t = s THEN {} ELSE alone[t] \ Listeners(sending[s].id)]

Next ==
    \E s \in Senders : (\E m \in Sends[s] : SendFirst(s, m)) \/ SendSecond(s)

Spec == Init /\ [][Next]_vars

-----------------------------------------------------------------------------

\* Type invariant of the bus: a sender is in a message of its own, a receiver
\* keeps only frames it listens to.
TypeOK ==
    /\ sending \in [Senders -> Messages \cup {NoMessage}]
    /\ \A s \in Senders : sending[s] \in Sends[s] \cup {NoMessage}
    /\ half \in [Receivers -> Frames \cup {None}]
    /\ \A r \in Receivers : half[r] # None =>
          \E m \in Messages : m.id \in Listens[r] /\ half[r].text = m.text
    /\ block \in [Receivers -> Texts \cup {"none", "garbled"}]
    /\ alone \in [Senders -> SUBSET Receivers]
    /\ slipped \in [Receivers -> {0, 1}]

\* Where a receiver stands, which nothing in a frame tells it: it waits for a
\* second frame exactly when the messages under way and the frames it has
\* missed add up to an odd number.  So after one missed frame, a receiver of
\* an idle bus waits for the second frame of a message that is over.
Alignment ==
    \A r \in Receivers :
        half[r] # None <=> (Cardinality(MidMessage(r)) + slipped[r]) % 2 = 1

\* A receiver that is alone with a message, and was in step when it began,
\* waits with the first half of that message.
AloneWaits ==
    \A s \in Senders : \A r \in alone[s] :
        /\ sending[s] # NoMessage
        /\ r \in Listeners(sending[s].id)
        /\ slipped[r] = 0 => half[r] = [text |-> sending[s].text, part |-> 1]

\* The inductive invariant behind Alignment and AloneArrives.
IInv == TypeOK /\ Alignment /\ AloneWaits

Finishes(s) == sending[s] # NoMessage /\ sending'[s] = NoMessage

\* SWR1.4: a message that has the bus to itself, for a receiver that has
\* missed no frame (or an even number of them), arrives.
AloneArrives ==
    [][\A s \in Senders : \A r \in alone[s] :
          Finishes(s) /\ slipped[r] = 0 /\ slipped'[r] = 0
            => block'[r] = sending[s].text]_vars

\* Every message arrives at everyone who listens to its id.
EveryMessageArrives ==
    [][\A s \in Senders : \A r \in Listeners(sending[s].id) :
          Finishes(s) => block'[r] = sending[s].text]_vars

=============================================================================
