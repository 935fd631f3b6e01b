-------------------------- MODULE DashboardBuffer --------------------------
(***************************************************************************)
(* The ring buffer between the two threads of the dashboard                *)
(* (dashboard/dashboard_func.c): can_receiver_thread stores a message when *)
(* it has the two frames of it, process_frame_thread hands all pending     *)
(* messages to parse_input_received.  Both work under can_buffer.mutex.    *)
(*                                                                         *)
(* decrypt_data ends the 16 bytes it writes with a zero in the 17th, which *)
(* is outside the slot: it is the first byte of the CAN id of the next     *)
(* slot, and after the last slot it is the variable head.  A text of 16    *)
(* characters has no other end than that byte.                             *)
(***************************************************************************)
EXTENDS Integers, Sequences

CONSTANTS N,          \* MAX_PENDING_FRAMES
          Msgs,       \* the texts of the messages
          LongMsgs,   \* those of 16 characters, "press_start_stop"
          Blank,      \* the text of a cleared slot
          MaxPending  \* load: a message comes only when fewer are pending

ASSUME NAssumption == N \in Nat /\ N >= 4
ASSUME MsgsAssumption == LongMsgs \subseteq Msgs /\ Blank \notin Msgs
ASSUME LoadAssumption == MaxPending \in 1..N

Slots == 0..N-1

VARIABLES
    mutex,    \* can_buffer.mutex: held by process_frame_thread, or "free"
    proc_pc,  \* where process_frame_thread is
    head,
    tail,
    text,     \* messages[i].decrypted
    id_set,   \* is the first byte of messages[i].frame.can_id other than 0?
    received, \* history: the text that was stored last
    handled,  \* history: the text that was handled last
    whole     \* history: did that text end where it should?

thread == <<mutex, proc_pc>>
can_buffer == <<head, tail, text, id_set, received>>
history == <<handled, whole>>
vars == <<thread, can_buffer, history>>

-----------------------------------------------------------------------------

\* init_can_buffer
Init ==
    /\ mutex = "free"
    /\ proc_pc = "idle"
    /\ head = 0
    /\ tail = 0
    /\ text = [i \in Slots |-> Blank]
    /\ id_set = [i \in Slots |-> FALSE]
    /\ received = Blank
    /\ handled = Blank
    /\ whole = TRUE

\* (i + 1) % MAX_PENDING_FRAMES
Advance(i) == IF i = N - 1 THEN 0 ELSE i + 1

\* The slots in use, as both threads count them.
Pending == IF tail <= head THEN head - tail ELSE (head - tail) + N

\* A defect: the test for the empty buffer is taken for the full one.
BufferEmpty == head = tail

BufferFull == Advance(head) = tail

\* decrypt_data(..., messages[i].decrypted, ...) has put its zero: what is
\* left of head then.
HeadAfterDecrypt(i) == IF i = N - 1 THEN 0 ELSE head

\* A defect: head is advanced before the frame is copied.
IdsInNextSlot(i) == [j \in Slots |-> j = i + 1 \/ id_set[j]]

\* The id bytes after messages[i] was written: no CAN id of the dashboard has
\* a low byte of 0, and the zero of decrypt_data falls on the next slot.
IdsAfterStore(i) ==
    [j \in Slots |-> j = i \/ (j # i + 1 /\ id_set[j])]

\* can_receiver_thread has a full block, m, and gets the mutex.
Store(m) ==
    /\ mutex = "free"
    /\ Pending < MaxPending
    /\ tail' = IF BufferFull THEN Advance(tail) ELSE tail
    /\ text' = [text EXCEPT ![head] = m]
    /\ id_set' = IdsAfterStore(head)
    /\ head' = Advance(HeadAfterDecrypt(head))
    /\ received' = m
    /\ UNCHANGED <<thread, history>>

-----------------------------------------------------------------------------
(* process_frame_thread                                                    *)

ProcLock ==
    /\ proc_pc = "idle"
    /\ mutex = "free"
    /\ mutex' = "proc"
    /\ proc_pc' = "test"
    /\ UNCHANGED <<can_buffer, history>>

\* pthread_cond_timedwait, which nobody signals, gives the mutex back ...
ProcWait ==
    /\ proc_pc = "test"
    /\ tail = head
    /\ mutex' = "free"
    /\ proc_pc' = "wait"
    /\ UNCHANGED <<can_buffer, history>>

\* ... and takes it again: after 100 ms, or too early and the test is made
\* again.
ProcWake ==
    /\ proc_pc = "wait"
    /\ mutex = "free"
    /\ mutex' = "proc"
    /\ proc_pc' \in {"drain", "test"}
    /\ UNCHANGED <<can_buffer, history>>

ProcFound ==
    /\ proc_pc = "test"
    /\ tail # head
    /\ proc_pc' = "drain"
    /\ UNCHANGED <<mutex, can_buffer, history>>

\* The byte after the text of slot i is 0.
Terminated(i) == IF i = N - 1 THEN head = 0 ELSE ~id_set[i + 1]

\* parse_input_received: an empty text means nothing to it.
parse_input_received(i) ==
    IF text[i] = Blank
      THEN UNCHANGED history
      ELSE /\ handled' = text[i]
           /\ whole' = (text[i] \in LongMsgs => Terminated(i))

\* A defect: the slot is not cleared.
clear_nothing(i) == UNCHANGED <<text, id_set>>

\* memset(&messages[i], 0, sizeof(CanMessage))
clear_slot(i) ==
    /\ text' = [text EXCEPT ![i] = Blank]
    /\ id_set' = [id_set EXCEPT ![i] = FALSE]

\* A defect: one message is handled for each wait, then the mutex is free
\* for the receiver.
DrainOne == mutex' = "free" /\ proc_pc' = "idle"

DrainOn == UNCHANGED thread

ProcOne ==
    /\ proc_pc = "drain"
    /\ tail # head
    /\ parse_input_received(tail)
    /\ clear_slot(tail)
    /\ tail' = Advance(tail)
    /\ DrainOn
    /\ UNCHANGED <<head, received>>

ProcUnlock ==
    /\ proc_pc = "drain"
    /\ tail = head
    /\ mutex' = "free"
    /\ proc_pc' = "idle"
    /\ UNCHANGED <<can_buffer, history>>

-----------------------------------------------------------------------------

\* The steps of the thread that need the mutex, and those it owns it for.
ProcAcquire == ProcLock \/ ProcWake
ProcInside == ProcWait \/ ProcFound \/ ProcOne \/ ProcUnlock

Receive == \E m \in Msgs : Store(m)

Next ==
    \/ Receive
    \/ ProcAcquire
    \/ ProcInside

Spec == Init /\ [][Next]_vars

\* The thread runs, and gets a mutex the receiver holds only for the time of
\* a store.  A spurious wake-up is not repeated for ever.
FairSpec ==
    /\ Spec
    /\ SF_vars(ProcLock)
    /\ SF_vars(ProcWake /\ proc_pc' = "drain")
    /\ WF_vars(ProcInside)

-----------------------------------------------------------------------------

\* Type invariant of the ring and of the thread that empties it.
TypeOK ==
    /\ mutex \in {"free", "proc"}
    /\ proc_pc \in {"idle", "test", "wait", "drain"}
    /\ mutex = "proc" <=> proc_pc \in {"test", "drain"}
    /\ head \in Slots
    /\ tail \in Slots
    /\ text \in [Slots -> Msgs \cup {Blank}]
    /\ id_set \in [Slots -> BOOLEAN]
    /\ received \in Msgs \cup {Blank}
    /\ handled \in Msgs \cup {Blank}
    /\ whole \in BOOLEAN

\* Is slot i one of the slots from tail to head?
InUse(i) ==
    IF tail <= head THEN tail <= i /\ i < head ELSE tail <= i \/ i < head

\* No text is left behind for a later lap: a slot outside tail..head is
\* clear, and inside it only slot 0 can be, which the zero of decrypt_data
\* skips from the second lap on.
NothingLeftBehind ==
    \A i \in Slots :
        /\ text[i] # Blank => InUse(i)
        /\ InUse(i) => text[i] # Blank \/ i = 0

\* The id byte of a slot that is not in use is 0: a text that ends just before
\* it ends where it should.
IdsOfUsedSlots == \A i \in Slots : id_set[i] => InUse(i)

\* Slot 0 is filled once, in the first lap, when it is the first in use; head
\* never comes back to it.
SlotZeroOnce ==
    /\ head = 0 => tail = 0
    /\ text[0] # Blank => tail = 0

\* The inductive invariant of the ring below the load at which a store falls
\* upon its own head: slots are used in order and cleared behind the reader,
\* and slot 0 belongs to the first lap.
IInv ==
    /\ TypeOK
    /\ NothingLeftBehind
    /\ IdsOfUsedSlots
    /\ SlotZeroOnce

\* A text of 16 characters that is handled before the next message comes is
\* read whole, in every slot but the last: the byte that ends it is free.
LoneMessageWhole ==
    [][ProcOne /\ Pending = 1 /\ tail # N - 1 /\ text[tail] # Blank
         => whole']_vars

\* The oldest text in the ring is in slot First: slot 0 is empty from the
\* second lap on, but it is counted.
First == IF tail = 0 /\ head # 0 /\ text[0] = Blank THEN 1 ELSE tail

\* The number of texts in the ring.
Size == IF First <= head THEN head - First ELSE (N - First) + (head - 1)

\* The slot of the i-th text.
SlotOf(i) == IF First + i - 1 < N THEN First + i - 1 ELSE First + i - N

Contents == [i \in 1..Size |-> text[SlotOf(i)]]

Queue == INSTANCE MessageQueue WITH queue <- Contents

\* Below the load at which the ring is confused, it is a queue: no message is
\* lost, repeated or overtaken, though each lap stores into head itself.
ImplementsQueue == Queue!Spec

\* The ring is emptied again and again, whatever arrives.
Drained == tail # head ~> tail = head

\* SWR1.3: each press that is handled is recognised as one.
PressRecognised == handled \in LongMsgs => whole

=============================================================================
