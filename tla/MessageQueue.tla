---------------------------- MODULE MessageQueue ----------------------------
(***************************************************************************)
(* What the ring buffer of the dashboard promises: the messages that were  *)
(* received are handed to the parser once each, in the order in which they *)
(* arrived.                                                                *)
(***************************************************************************)
EXTENDS Sequences

CONSTANT Msgs      \* the texts that are received

VARIABLES queue,     \* received, not handled yet
          received,  \* the text that was received last
          handled    \* the text that was handled last

vars == <<queue, received, handled>>

Init == queue = <<>> /\ received \notin Msgs /\ handled \notin Msgs

Receive ==
    /\ \E m \in Msgs : received' = m /\ queue' = Append(queue, m)
    /\ UNCHANGED handled

Handle ==
    /\ queue # <<>>
    /\ handled' = Head(queue)
    /\ queue' = Tail(queue)
    /\ UNCHANGED received

Next == Receive \/ Handle

Spec == Init /\ [][Next]_vars

=============================================================================
