-------------------------- MODULE CanTransportProofs --------------------------
(***************************************************************************)
(* Proofs about CanTransport, with and without losses: where a receiver    *)
(* stands among the frames, and that a message which has the bus to itself *)
(* arrives at each receiver that is in step.                               *)
(***************************************************************************)
EXTENDS CanTransport, FiniteSetTheorems, TLAPS

-----------------------------------------------------------------------------
(* Facts about the messages and the frames.                                *)

\* A message is none of the values that stand for its absence.
LEMMA MessageFacts ==
    ASSUME NEW s \in Senders, NEW m \in Sends[s]
    PROVE  /\ m \in Messages
           /\ m # NoMessage
           /\ m.id \in Ids
           /\ m.text \in Texts
           /\ m = [id |-> m.id, text |-> m.text]
<1>1. m \in Messages
  BY DEF Messages
<1>2. m.id \in Ids /\ m = [id |-> m.id, text |-> m.text]
  BY DEF Sends, Senders, Ids
<1>3. m.id # "none"
  BY <1>2 DEF Ids
<1>4. QED
  BY <1>1, <1>2, <1>3 DEF Texts, NoMessage

\* A frame on the bus can be told from no frame.
LEMMA FrameFacts ==
    ASSUME NEW t \in Texts, NEW p \in {1, 2}
    PROVE  /\ [text |-> t, part |-> p] \in Frames
           /\ [text |-> t, part |-> p] # None
BY DEF Frames, None

\* A receiver listens to an id if it is a listener of it.
LEMMA ListenerFacts ==
    ASSUME NEW id, NEW r \in Listeners(id)
    PROVE  r \in Receivers /\ id \in Listens[r]
BY DEF Listeners

\* What a receiver makes of a block is a text or garbled.
LEMMA DecryptType ==
    ASSUME NEW first \in Frames, NEW second \in Frames
    PROVE  Decrypt(first, second) \in Texts \cup {"none", "garbled"}
BY DEF Decrypt, Frames

\* The halves of one message give its text back.
LEMMA DecryptWhole ==
    ASSUME NEW t
    PROVE  Decrypt([text |-> t, part |-> 1], [text |-> t, part |-> 2]) = t
BY DEF Decrypt

-----------------------------------------------------------------------------
(* One frame on the bus.                                                   *)

\* A frame changes what its listeners hold, and nothing of the others.
LEMMA FrameEffect ==
    ASSUME NEW id, NEW frame, NEW missed, Transmit(id, frame, missed)
    PROVE  /\ \A r \in Receivers \ Listeners(id) :
                 half'[r] = half[r] /\ slipped'[r] = slipped[r]
           /\ \A r \in Listeners(id) \cap missed :
                 half'[r] = half[r] /\ slipped'[r] = 1 - slipped[r]
           /\ \A r \in Listeners(id) \ missed :
                 /\ half'[r] = Waiting(r, frame)
                 /\ block'[r] = Completed(r, frame)
                 /\ slipped'[r] = slipped[r]
BY DEF Transmit, Listeners

\* It leaves the receivers, their blocks and their counts in their types.
LEMMA FrameTypes ==
    ASSUME TypeOK, NEW m \in Messages, NEW frame \in Frames, NEW missed,
           frame.text = m.text, Transmit(m.id, frame, missed)
    PROVE  /\ half' \in [Receivers -> Frames \cup {None}]
           /\ \A r \in Receivers : half'[r] # None =>
                 \E n \in Messages :
                     n.id \in Listens[r] /\ half'[r].text = n.text
           /\ block' \in [Receivers -> Texts \cup {"none", "garbled"}]
           /\ slipped' \in [Receivers -> {0, 1}]
<1>1. ASSUME NEW r \in Receivers
      PROVE  /\ Waiting(r, frame) \in Frames \cup {None}
             /\ Completed(r, frame) \in Texts \cup {"none", "garbled"}
             /\ slipped[r] \in {0, 1} /\ 1 - slipped[r] \in {0, 1}
  BY DecryptType DEF TypeOK, Waiting, Completed
<1>2. half' \in [Receivers -> Frames \cup {None}]
  BY <1>1 DEF TypeOK, Transmit
<1>3. block' \in [Receivers -> Texts \cup {"none", "garbled"}]
  BY <1>1 DEF Transmit
<1>4. slipped' \in [Receivers -> {0, 1}]
  BY <1>1 DEF Transmit
<1>5. ASSUME NEW r \in Receivers, half'[r] # None
      PROVE  \E n \in Messages :
                 n.id \in Listens[r] /\ half'[r].text = n.text
  <2>1. CASE r \in Listeners(m.id) \ missed
    <3>1. half'[r] = frame
      BY <1>5, <2>1, FrameEffect DEF Waiting
    <3>2. QED
      BY <2>1, <3>1, ListenerFacts
  <2>2. CASE r \notin Listeners(m.id) \ missed
    <3>1. half'[r] = half[r]
      BY <2>2 DEF Transmit
    <3>2. QED
      BY <1>5, <3>1 DEF TypeOK
  <2>3. QED
    BY <2>1, <2>2
<1>6. QED
  BY <1>2, <1>3, <1>4, <1>5

\* The frame is one of its own message: a sender writes it with the id of the
\* message it is in.
LEMMA SecondIsOwn ==
    ASSUME TypeOK, NEW s \in Senders, sending[s] # NoMessage
    PROVE  sending[s] \in Sends[s] /\ sending[s] \in Messages
BY DEF TypeOK, Messages

-----------------------------------------------------------------------------
(* The type invariant.                                                     *)

LEMMA TypeInit == Init => TypeOK
BY DEF Init, TypeOK

\* Both halves of a message leave every variable in its type.
LEMMA TypeFirst ==
    ASSUME TypeOK, NEW s \in Senders, NEW m \in Sends[s], SendFirst(s, m)
    PROVE  TypeOK'
<1>1. PICK missed \in Misses :
          /\ Transmit(m.id, [text |-> m.text, part |-> 1], missed)
          /\ alone' = [t \in Senders |->
                         IF t = s
                           THEN {r \in Listeners(m.id) \ missed :
                                    MidMessage(r) = {}}
                           ELSE alone[t] \ Listeners(m.id)]
  BY DEF SendFirst
<1>2. m \in Messages
  BY MessageFacts
<1>3. /\ sending' \in [Senders -> Messages \cup {NoMessage}]
      /\ \A t \in Senders : sending'[t] \in Sends[t] \cup {NoMessage}
  BY <1>2 DEF SendFirst, TypeOK
<1>4. alone' \in [Senders -> SUBSET Receivers]
  BY <1>1, ListenerFacts DEF TypeOK
<1>5. [text |-> m.text, part |-> 1] \in Frames
  BY <1>2, FrameFacts DEF Texts
<1>6. QED
  BY <1>1, <1>2, <1>3, <1>4, <1>5, FrameTypes DEF TypeOK

\* So does the second frame.
LEMMA TypeSecond ==
    ASSUME TypeOK, NEW s \in Senders, SendSecond(s)
    PROVE  TypeOK'
<1>1. PICK missed \in Misses :
          Transmit(sending[s].id, [text |-> sending[s].text, part |-> 2],
                   missed)
  BY DEF SendSecond
<1>2. sending[s] \in Messages
  BY SecondIsOwn DEF SendSecond
<1>3. /\ sending' \in [Senders -> Messages \cup {NoMessage}]
      /\ \A t \in Senders : sending'[t] \in Sends[t] \cup {NoMessage}
  BY DEF SendSecond, TypeOK
<1>4. alone' \in [Senders -> SUBSET Receivers]
  BY DEF SendSecond, TypeOK
<1>5. [text |-> sending[s].text, part |-> 2] \in Frames
  BY <1>2, FrameFacts DEF Texts
<1>6. QED
  BY <1>1, <1>2, <1>3, <1>4, <1>5, FrameTypes DEF TypeOK

-----------------------------------------------------------------------------
(* Where a receiver stands.                                                *)

\* The senders are finitely many, and so are those of them in a message.
LEMMA MidMessageFinite ==
    ASSUME NEW r \in Receivers
    PROVE  IsFiniteSet(MidMessage(r)) /\ Cardinality(MidMessage(r)) \in Nat
<1>1. IsFiniteSet({"instrument_cluster"})
  BY FS_Singleton
<1>2. IsFiniteSet({"instrument_cluster"} \cup {"bcm"})
  BY <1>1, FS_AddElement
<1>3. IsFiniteSet(({"instrument_cluster"} \cup {"bcm"}) \cup {"powertrain"})
  BY <1>2, FS_AddElement
<1>4. Senders = ({"instrument_cluster"} \cup {"bcm"}) \cup {"powertrain"}
  BY DEF Senders
<1>5. IsFiniteSet(Senders)
  BY <1>3, <1>4
<1>6. MidMessage(r) \in SUBSET Senders
  BY DEF MidMessage
<1>7. IsFiniteSet(MidMessage(r))
  BY <1>5, <1>6, FS_Subset
<1>8. QED
  BY <1>7, FS_CardinalityType

\* A sender that begins a message is one more in the middle of one, a sender
\* that ends it one less, for those who listen to it; for the others nothing
\* changes.
LEMMA MidMessageFirst ==
    ASSUME TypeOK, NEW s \in Senders, NEW m \in Sends[s], SendFirst(s, m),
           NEW r \in Receivers
    PROVE  Cardinality(MidMessage(r)') =
             IF r \in Listeners(m.id) THEN Cardinality(MidMessage(r)) + 1
                                      ELSE Cardinality(MidMessage(r))
<1>1. /\ sending[s] = NoMessage /\ sending'[s] = m /\ m # NoMessage
      /\ \A t \in Senders \ {s} : sending'[t] = sending[t]
  BY MessageFacts DEF SendFirst, TypeOK
<1>2. s \notin MidMessage(r)
  BY <1>1 DEF MidMessage
<1>3. CASE r \in Listeners(m.id)
  <2>1. MidMessage(r)' = MidMessage(r) \cup {s}
    BY <1>1, <1>3 DEF MidMessage
  <2>2. QED
    BY <1>2, <1>3, <2>1, MidMessageFinite, FS_AddElement
<1>4. CASE r \notin Listeners(m.id)
  <2>1. MidMessage(r)' = MidMessage(r)
    BY <1>1, <1>4 DEF MidMessage
  <2>2. QED
    BY <1>4, <2>1
<1>5. QED
  BY <1>3, <1>4

\* The second frame takes its sender away from those in a message.
LEMMA MidMessageSecond ==
    ASSUME TypeOK, NEW s \in Senders, SendSecond(s), NEW r \in Receivers
    PROVE  Cardinality(MidMessage(r)') =
             IF r \in Listeners(sending[s].id)
               THEN Cardinality(MidMessage(r)) - 1
               ELSE Cardinality(MidMessage(r))
<1>1. /\ sending[s] # NoMessage /\ sending'[s] = NoMessage
      /\ \A t \in Senders \ {s} : sending'[t] = sending[t]
  BY DEF SendSecond, TypeOK
<1>2. CASE r \in Listeners(sending[s].id)
  <2>1. s \in MidMessage(r)
    BY <1>1, <1>2 DEF MidMessage
  <2>2. MidMessage(r)' = MidMessage(r) \ {s}
    BY <1>1, <1>2 DEF MidMessage
  <2>3. QED
    BY <1>2, <2>1, <2>2, MidMessageFinite, FS_RemoveElement
<1>3. CASE r \notin Listeners(sending[s].id)
  <2>1. MidMessage(r)' = MidMessage(r)
    BY <1>1, <1>3 DEF MidMessage
  <2>2. QED
    BY <1>3, <2>1
<1>4. QED
  BY <1>2, <1>3

\* One frame more that is expected, or one less, turns a receiver that waits
\* into one that does not, and the other way round; missing it does the same
\* to the count.
LEMMA ParityStep ==
    ASSUME NEW n \in Nat, NEW k \in Nat, k = n + 1 \/ n = k + 1,
           NEW d \in {0, 1}
    PROVE  /\ (k + d) % 2 = 1 <=> ~((n + d) % 2 = 1)
           /\ (k + (1 - d)) % 2 = 1 <=> (n + d) % 2 = 1
OBVIOUS

\* A frame that reaches a receiver changes whether it waits.
LEMMA WaitingTurns ==
    ASSUME NEW r, NEW frame \in Frames
    PROVE  Waiting(r, frame) # None <=> half[r] = None
BY DEF Waiting, Frames, None

\* Alignment, for one receiver and one frame of a message m.
LEMMA AlignmentFrame ==
    ASSUME TypeOK, Alignment,
           NEW m \in Messages, NEW p \in {1, 2}, NEW missed \in Misses,
           Transmit(m.id, [text |-> m.text, part |-> p], missed),
           NEW r \in Receivers, NEW k \in Nat,
           r \in Listeners(m.id) =>
             \/ k = Cardinality(MidMessage(r)) + 1
             \/ k = Cardinality(MidMessage(r)) - 1,
           r \notin Listeners(m.id) => k = Cardinality(MidMessage(r))
    PROVE  half'[r] # None <=> (k + slipped'[r]) % 2 = 1
<1> DEFINE n == Cardinality(MidMessage(r))
           frame == [text |-> m.text, part |-> p]
<1>1. Transmit(m.id, frame, missed)
  OBVIOUS
<1>2. frame \in Frames
  BY FrameFacts DEF Texts
<1>3. n \in Nat /\ slipped[r] \in {0, 1}
  BY MidMessageFinite DEF TypeOK
<1>4. half[r] # None <=> (n + slipped[r]) % 2 = 1
  BY DEF Alignment
<1>5. r \in Listeners(m.id) => k = n + 1 \/ n = k + 1
  BY <1>3
<1>6. r \notin Listeners(m.id) => k = n
  OBVIOUS
<1> HIDE DEF n, frame
<1>7. /\ \A q \in Receivers \ Listeners(m.id) :
            half'[q] = half[q] /\ slipped'[q] = slipped[q]
      /\ \A q \in Listeners(m.id) \cap missed :
            half'[q] = half[q] /\ slipped'[q] = 1 - slipped[q]
      /\ \A q \in Listeners(m.id) \ missed :
            half'[q] = Waiting(q, frame) /\ slipped'[q] = slipped[q]
  BY <1>1, FrameEffect
<1>8. CASE r \notin Listeners(m.id)
  <2>1. half'[r] = half[r] /\ slipped'[r] = slipped[r] /\ k = n
    BY <1>7, <1>8, <1>6
  <2>2. QED
    BY <1>4, <2>1
<1>9. CASE r \in Listeners(m.id)
  <2>1. k = n + 1 \/ n = k + 1
    BY <1>9, <1>5
  <2>2. CASE r \in missed
    <3>1. half'[r] = half[r] /\ slipped'[r] = 1 - slipped[r]
      BY <1>7, <1>9, <2>2
    <3>2. QED
      BY <1>3, <1>4, <2>1, <3>1, ParityStep
  <2>3. CASE r \notin missed
    <3>1. half'[r] = Waiting(r, frame) /\ slipped'[r] = slipped[r]
      BY <1>7, <1>9, <2>3
    <3>2. half'[r] # None <=> half[r] = None
      BY <1>2, <3>1, WaitingTurns
    <3>3. QED
      BY <1>3, <1>4, <2>1, <3>1, <3>2, ParityStep
  <2>4. QED
    BY <2>2, <2>3
<1>10. QED
  BY <1>8, <1>9

\* The first frame turns the parity of each listener around.
LEMMA AlignmentFirst ==
    ASSUME TypeOK, Alignment,
           NEW s \in Senders, NEW m \in Sends[s], SendFirst(s, m)
    PROVE  Alignment'
<1>1. PICK missed \in Misses :
          Transmit(m.id, [text |-> m.text, part |-> 1], missed)
  BY DEF SendFirst
<1>2. m \in Messages
  BY MessageFacts
<1>3. SUFFICES ASSUME NEW r \in Receivers
               PROVE  half'[r] # None <=>
                        (Cardinality(MidMessage(r)') + slipped'[r]) % 2 = 1
  BY DEF Alignment
<1> DEFINE k == Cardinality(MidMessage(r)')
<1>4. /\ k \in Nat
      /\ r \in Listeners(m.id) => k = Cardinality(MidMessage(r)) + 1
      /\ r \notin Listeners(m.id) => k = Cardinality(MidMessage(r))
  BY MidMessageFirst, MidMessageFinite
<1> HIDE DEF k
<1>5. half'[r] # None <=> (k + slipped'[r]) % 2 = 1
  BY <1>1, <1>2, <1>4, AlignmentFrame
<1>6. QED
  BY <1>5 DEF k

\* So does the second one.
LEMMA AlignmentSecond ==
    ASSUME TypeOK, Alignment, NEW s \in Senders, SendSecond(s)
    PROVE  Alignment'
<1> DEFINE m == sending[s]
<1>1. PICK missed \in Misses :
          Transmit(m.id, [text |-> m.text, part |-> 2], missed)
  BY DEF SendSecond
<1>2. m \in Messages
  BY SecondIsOwn DEF SendSecond
<1>3. SUFFICES ASSUME NEW r \in Receivers
               PROVE  half'[r] # None <=>
                        (Cardinality(MidMessage(r)') + slipped'[r]) % 2 = 1
  BY DEF Alignment
<1> DEFINE k == Cardinality(MidMessage(r)')
<1>4. /\ r \in Listeners(m.id) =>
            k = Cardinality(MidMessage(r)) - 1 /\ MidMessage(r) # {}
      /\ r \notin Listeners(m.id) => k = Cardinality(MidMessage(r))
  BY MidMessageSecond DEF SendSecond, MidMessage
<1>5. k \in Nat
  BY <1>4, MidMessageFinite, FS_EmptySet
<1> HIDE DEF k, m
<1>6. half'[r] # None <=> (k + slipped'[r]) % 2 = 1
  BY <1>1, <1>2, <1>4, <1>5, AlignmentFrame
<1>7. QED
  BY <1>6 DEF k

-----------------------------------------------------------------------------
(* A message alone on the bus.                                             *)

\* A receiver that starts to be alone with a message waited for nothing; one
\* that stays alone with it has got no frame since.
LEMMA AloneFirst ==
    ASSUME IInv, NEW s \in Senders, NEW m \in Sends[s], SendFirst(s, m)
    PROVE  AloneWaits'
<1> DEFINE frame == [text |-> m.text, part |-> 1]
<1>1. PICK missed \in Misses :
          /\ Transmit(m.id, frame, missed)
          /\ alone' = [t \in Senders |->
                         IF t = s
                           THEN {r \in Listeners(m.id) \ missed :
                                    MidMessage(r) = {}}
                           ELSE alone[t] \ Listeners(m.id)]
  BY DEF SendFirst
<1> HIDE DEF frame
<1>2. /\ \A q \in Receivers \ Listeners(m.id) :
            half'[q] = half[q] /\ slipped'[q] = slipped[q]
      /\ \A q \in Listeners(m.id) \ missed :
            half'[q] = Waiting(q, frame) /\ slipped'[q] = slipped[q]
  BY <1>1, FrameEffect
<1>3. /\ sending'[s] = m /\ m # NoMessage
      /\ \A t \in Senders \ {s} : sending'[t] = sending[t]
  BY MessageFacts DEF SendFirst, IInv, TypeOK
<1>4. ASSUME NEW t \in Senders, NEW r \in alone'[t]
      PROVE  /\ sending'[t] # NoMessage
             /\ r \in Listeners(sending'[t].id)
             /\ slipped'[r] = 0
                  => half'[r] = [text |-> sending'[t].text, part |-> 1]
  <2>1. CASE t = s
    <3>1. r \in Listeners(m.id) \ missed /\ MidMessage(r) = {}
      BY <1>1, <1>4, <2>1
    <3>2. r \in Receivers /\ half'[r] = Waiting(r, frame)
          /\ slipped'[r] = slipped[r]
      BY <1>2, <3>1, ListenerFacts
    <3>3. ASSUME slipped[r] = 0
          PROVE  half[r] = None
      <4>1. Cardinality(MidMessage(r)) = 0
        BY <3>1, FS_EmptySet
      <4>2. ~((Cardinality(MidMessage(r)) + slipped[r]) % 2 = 1)
        BY <3>3, <4>1
      <4>3. QED
        BY <3>2, <4>2 DEF IInv, Alignment
    <3>4. slipped'[r] = 0 => half'[r] = frame
      BY <3>2, <3>3 DEF Waiting
    <3>5. QED
      BY <1>3, <2>1, <3>1, <3>4 DEF frame
  <2>2. CASE t # s
    <3>1. r \in alone[t] /\ r \notin Listeners(m.id) /\ r \in Receivers
      BY <1>1, <1>4, <2>2 DEF IInv, TypeOK
    <3>2. half'[r] = half[r] /\ slipped'[r] = slipped[r]
          /\ sending'[t] = sending[t]
      BY <1>2, <1>3, <2>2, <3>1
    <3>3. QED
      BY <3>1, <3>2 DEF IInv, AloneWaits
  <2>3. QED
    BY <2>1, <2>2
<1>5. QED
  BY <1>4 DEF AloneWaits, Listeners

\* The second frame leaves nobody alone with the message that it ends.
LEMMA AloneSecond ==
    ASSUME IInv, NEW s \in Senders, SendSecond(s)
    PROVE  AloneWaits'
<1> DEFINE m == sending[s]
<1>1. PICK missed \in Misses :
          Transmit(m.id, [text |-> m.text, part |-> 2], missed)
  BY DEF SendSecond
<1>2. \A q \in Receivers \ Listeners(m.id) :
          half'[q] = half[q] /\ slipped'[q] = slipped[q]
  BY <1>1, FrameEffect
<1>3. /\ \A t \in Senders \ {s} : sending'[t] = sending[t]
      /\ \A t \in Senders :
            alone'[t] = IF t = s THEN {} ELSE alone[t] \ Listeners(m.id)
  BY DEF SendSecond, IInv, TypeOK
<1> HIDE DEF m
<1>4. ASSUME NEW t \in Senders, NEW r \in alone'[t]
      PROVE  /\ sending'[t] # NoMessage
             /\ r \in Listeners(sending'[t].id)
             /\ slipped'[r] = 0
                  => half'[r] = [text |-> sending'[t].text, part |-> 1]
  <2>1. t # s /\ r \in alone[t] /\ r \notin Listeners(m.id)
    BY <1>3, <1>4
  <2>2. r \in Receivers
    BY <2>1 DEF IInv, TypeOK
  <2>3. half'[r] = half[r] /\ slipped'[r] = slipped[r]
        /\ sending'[t] = sending[t]
    BY <1>2, <1>3, <2>1, <2>2
  <2>4. QED
    BY <2>1, <2>3 DEF IInv, AloneWaits
<1>5. QED
  BY <1>4 DEF AloneWaits, Listeners

\* A sender ends a message by writing its second frame.
LEMMA FinishIsSecond ==
    ASSUME TypeOK, Next, NEW s \in Senders, Finishes(s)
    PROVE  SendSecond(s)
<1>1. ASSUME NEW t \in Senders, NEW m \in Sends[t], SendFirst(t, m)
      PROVE  FALSE
  BY <1>1, MessageFacts DEF Finishes, SendFirst, TypeOK
<1>2. ASSUME NEW t \in Senders, SendSecond(t)
      PROVE  t = s
  BY <1>2 DEF Finishes, SendSecond, TypeOK
<1>3. QED
  BY <1>1, <1>2 DEF Next

\* That frame completes the block of a receiver that is alone with it.
LEMMA AloneGetsText ==
    ASSUME IInv, NEW s \in Senders, NEW r \in alone[s], SendSecond(s),
           slipped[r] = 0, slipped'[r] = 0
    PROVE  block'[r] = sending[s].text
<1> DEFINE m == sending[s]
           frame == [text |-> m.text, part |-> 2]
<1>1. PICK missed \in Misses : Transmit(m.id, frame, missed)
  BY DEF SendSecond
<1> HIDE DEF m, frame
<1>2. /\ \A q \in Listeners(m.id) \cap missed : slipped'[q] = 1 - slipped[q]
      /\ \A q \in Listeners(m.id) \ missed : block'[q] = Completed(q, frame)
  BY <1>1, FrameEffect
<1>3. r \in Listeners(m.id) /\ half[r] = [text |-> m.text, part |-> 1]
  BY DEF IInv, AloneWaits, m
<1>4. r \notin missed
  BY <1>2, <1>3
<1>5. half[r] # None
  BY <1>3 DEF None
<1>6. block'[r] = Decrypt(half[r], frame)
  BY <1>2, <1>3, <1>4, <1>5 DEF Completed
<1>7. QED
  BY <1>3, <1>6, DecryptWhole DEF m, frame

-----------------------------------------------------------------------------
(* The theorems.                                                           *)

LEMMA InitIInv == Init => IInv
<1> SUFFICES ASSUME Init
             PROVE  IInv
  OBVIOUS
<1>1. Alignment
  <2>1. ASSUME NEW r \in Receivers
        PROVE  half[r] = None /\ slipped[r] = 0 /\ MidMessage(r) = {}
    BY <2>1 DEF Init, MidMessage
  <2>2. QED
    BY <2>1, FS_EmptySet DEF Alignment
<1>2. AloneWaits
  BY DEF Init, AloneWaits
<1>3. QED
  BY <1>1, <1>2, TypeInit DEF IInv

LEMMA StepIInv == IInv /\ [Next]_vars => IInv'
<1> SUFFICES ASSUME IInv, [Next]_vars
             PROVE  IInv'
  OBVIOUS
<1>1. ASSUME NEW s \in Senders, NEW m \in Sends[s], SendFirst(s, m)
      PROVE  IInv'
  BY <1>1, TypeFirst, AlignmentFirst, AloneFirst DEF IInv
<1>2. ASSUME NEW s \in Senders, SendSecond(s)
      PROVE  IInv'
  BY <1>2, TypeSecond, AlignmentSecond, AloneSecond DEF IInv
<1>3. CASE UNCHANGED vars
  BY <1>3
     DEF vars, IInv, TypeOK, Alignment, AloneWaits, MidMessage, Listeners
<1>4. QED
  BY <1>1, <1>2, <1>3 DEF Next

\* IInv holds in every state, whether or not frames can be missed.
THEOREM Inductive == Spec => []IInv
BY InitIInv, StepIInv, PTL DEF Spec

\* The senders, the receivers and their blocks keep to their types; no frame
\* of a foreign id is kept (can_comms.c:121-160).
THEOREM TypeCorrect == Spec => []TypeOK
<1>1. IInv => TypeOK
  BY DEF IInv
<1>2. QED
  BY <1>1, Inductive, PTL

\* Whatever is sent and missed in whatever order, the parity of the messages
\* under way and of the frames missed says whether a receiver waits; so one
\* that has missed a frame stays out of step until it misses another.
THEOREM StaysInOrOutOfStep == Spec => []Alignment
<1>1. IInv => Alignment
  BY DEF IInv
<1>2. QED
  BY <1>1, Inductive, PTL

\* A message that has the bus to itself arrives at each of its receivers that
\* is in step (can_socket.c:167-196).
THEOREM LoneMessageArrives == Spec => AloneArrives
<1>1. IInv /\ [Next]_vars
      => [\A s \in Senders : \A r \in alone[s] :
             Finishes(s) /\ slipped[r] = 0 /\ slipped'[r] = 0
               => block'[r] = sending[s].text]_vars
  BY FinishIsSecond, AloneGetsText DEF IInv
<1>2. QED
  BY <1>1, Inductive, PTL DEF Spec, AloneArrives

=============================================================================
