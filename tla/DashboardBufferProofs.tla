------------------------ MODULE DashboardBufferProofs ------------------------
(***************************************************************************)
(* Proofs about the ring buffer of the dashboard, for every size, every    *)
(* set of messages and every load that leaves two slots of the ring free.  *)
(***************************************************************************)
EXTENDS DashboardBuffer, SequenceTheorems, TLAPS

\* The load below which the ring is a queue: 62 messages of 64 slots.
LightLoad == MaxPending <= N - 2

-----------------------------------------------------------------------------

\* The positions of a store: the slot and the new head are slots, the ring is
\* not full, and the reader is not where head jumps to.
LEMMA StorePositions ==
    ASSUME LightLoad, head \in Slots, tail \in Slots, Pending < MaxPending
    PROVE  /\ Advance(head) \in Slots
           /\ Advance(HeadAfterDecrypt(head)) \in Slots
           /\ Advance(HeadAfterDecrypt(head)) # 0
           /\ ~BufferFull
           /\ head = N - 1 => 2 <= tail
           /\ head < tail => head + 1 < tail
BY NAssumption, LoadAssumption
   DEF LightLoad, Slots, Advance, HeadAfterDecrypt, BufferFull, Pending

\* Below the load limit a store only moves head and fills its slot.
LEMMA StoreEffect ==
    ASSUME LightLoad, head \in Slots, tail \in Slots, NEW m, Store(m)
    PROVE  /\ tail' = tail
           /\ text' = [text EXCEPT ![head] = m]
           /\ id_set' = IdsAfterStore(head)
           /\ head' = IF head = N - 1 THEN 1 ELSE head + 1
           /\ head' \in Slots
           /\ head = N - 1 => 2 <= tail
           /\ head < tail => head + 1 < tail
<1>1. Advance(HeadAfterDecrypt(head)) = IF head = N - 1 THEN 1 ELSE head + 1
  BY NAssumption DEF Advance, HeadAfterDecrypt, Slots
<1>2. QED
  BY <1>1, StorePositions DEF Store

\* A step of the reader stays inside the ring.
LEMMA AdvanceInSlots ==
    ASSUME NEW i \in Slots
    PROVE  Advance(i) \in Slots
BY NAssumption DEF Advance, Slots

\* Every step keeps the ring well typed.
LEMMA TypeStep ==
    ASSUME LightLoad, TypeOK, [Next]_vars
    PROVE  TypeOK'
<1> USE DEF TypeOK, can_buffer, history, thread
<1>1. ASSUME NEW m \in Msgs, Store(m)
      PROVE  TypeOK'
  <2>1. head' \in Slots /\ tail' \in Slots
    BY <1>1, StoreEffect
  <2>2. text' \in [Slots -> Msgs \cup {Blank}]
    BY <1>1, StoreEffect
  <2>3. id_set' \in [Slots -> BOOLEAN]
    BY <1>1, StoreEffect DEF IdsAfterStore
  <2>4. QED
    BY <1>1, <2>1, <2>2, <2>3 DEF Store
<1>2. CASE ProcLock
  BY <1>2 DEF ProcLock
<1>3. CASE ProcWait
  BY <1>3 DEF ProcWait
<1>4. CASE ProcWake
  BY <1>4 DEF ProcWake
<1>5. CASE ProcFound
  BY <1>5 DEF ProcFound
<1>6. CASE ProcOne
  <2>1. tail' \in Slots
    BY <1>6, AdvanceInSlots DEF ProcOne
  <2>2. handled' \in Msgs \cup {Blank}
    BY <1>6 DEF ProcOne, parse_input_received
  <2>3. whole' \in BOOLEAN
    BY <1>6 DEF ProcOne, parse_input_received
  <2>4. text' \in [Slots -> Msgs \cup {Blank}]
    BY <1>6 DEF ProcOne, clear_slot
  <2>5. id_set' \in [Slots -> BOOLEAN]
    BY <1>6 DEF ProcOne, clear_slot
  <2>6. QED
    BY <1>6, <2>1, <2>2, <2>3, <2>4, <2>5 DEF ProcOne, DrainOn
<1>7. CASE ProcUnlock
  BY <1>7 DEF ProcUnlock
<1>8. CASE UNCHANGED vars
  BY <1>8 DEF vars
<1>9. QED
  BY <1>1, <1>2, <1>3, <1>4, <1>5, <1>6, <1>7, <1>8
     DEF Next, Receive, ProcAcquire, ProcInside

-----------------------------------------------------------------------------
(* The inductive invariant.                                                *)

\* The slots in use after a store: the one at head and, after the last slot,
\* slot 0, which the store jumps over.
LEMMA UseAfterStore ==
    ASSUME LightLoad, head \in Slots, tail \in Slots, NEW m, Store(m),
           NEW i \in Slots
    PROVE  InUse(i)' <=> InUse(i) \/ i = head \/ (head = N - 1 /\ i = 0)
<1>1. /\ tail' = tail
      /\ head' = IF head = N - 1 THEN 1 ELSE head + 1
      /\ head = N - 1 => 2 <= tail
      /\ head < tail => head + 1 < tail
  BY StoreEffect
<1>2. QED
  BY <1>1, NAssumption DEF InUse, Slots

\* The slots in use after one message was handled.
LEMMA UseAfterProc ==
    ASSUME head \in Slots, tail \in Slots, ProcOne, NEW i \in Slots
    PROVE  /\ InUse(i)' <=> InUse(i) /\ i # tail
           /\ InUse(tail)
<1>1. tail' = Advance(tail) /\ head' = head /\ tail # head
  BY DEF ProcOne
<1>2. QED
  BY <1>1, NAssumption DEF InUse, Slots, Advance

\* A slot that is filled holds a message.
LEMMA MessagesAreNotBlank ==
    ASSUME NEW m \in Msgs
    PROVE  m # Blank
BY MsgsAssumption

\* A store keeps the invariant.
LEMMA StoreKeepsInv ==
    ASSUME LightLoad, IInv, TypeOK', NEW m \in Msgs, Store(m)
    PROVE  IInv'
<1>1. head \in Slots /\ tail \in Slots /\ text \in [Slots -> Msgs \cup {Blank}]
  BY DEF IInv, TypeOK
<1>2. /\ tail' = tail
      /\ text' = [text EXCEPT ![head] = m]
      /\ id_set' = IdsAfterStore(head)
      /\ head' = IF head = N - 1 THEN 1 ELSE head + 1
      /\ head = N - 1 => 2 <= tail
  BY <1>1, StoreEffect
<1>3. NothingLeftBehind'
  <2> SUFFICES ASSUME NEW i \in Slots
               PROVE  /\ text'[i] # Blank => InUse(i)'
                      /\ InUse(i)' => text'[i] # Blank \/ i = 0
    BY DEF NothingLeftBehind, InUse
  <2>1. InUse(i)' <=> InUse(i) \/ i = head \/ (head = N - 1 /\ i = 0)
    BY <1>1, UseAfterStore
  <2>2. text'[i] = IF i = head THEN m ELSE text[i]
    BY <1>1, <1>2
  <2>3. QED
    BY <2>1, <2>2, MessagesAreNotBlank DEF IInv, NothingLeftBehind
<1>4. IdsOfUsedSlots'
  <2> SUFFICES ASSUME NEW i \in Slots, id_set'[i]
               PROVE  InUse(i)'
    BY DEF IdsOfUsedSlots, InUse
  <2>1. i = head \/ id_set[i]
    BY <1>2 DEF IdsAfterStore
  <2>2. QED
    BY <1>1, <2>1, UseAfterStore DEF IInv, IdsOfUsedSlots
<1>5. SlotZeroOnce'
  <2>1. head' # 0
    BY <1>1, <1>2 DEF Slots
  <2>2. ASSUME text'[0] # Blank
        PROVE  tail' = 0
    <3>1. 0 \in Slots
      BY NAssumption DEF Slots
    <3>2. head = 0 \/ text[0] # Blank
      BY <1>1, <1>2, <2>2, <3>1
    <3>3. QED
      BY <1>2, <3>2 DEF IInv, SlotZeroOnce
  <2>3. QED
    BY <2>1, <2>2 DEF SlotZeroOnce
<1>6. QED
  BY <1>3, <1>4, <1>5 DEF IInv

\* Handling a message keeps the invariant.
LEMMA ProcKeepsInv ==
    ASSUME IInv, TypeOK', ProcOne
    PROVE  IInv'
<1>1. /\ head \in Slots /\ tail \in Slots
      /\ text \in [Slots -> Msgs \cup {Blank}]
      /\ id_set \in [Slots -> BOOLEAN]
  BY DEF IInv, TypeOK
<1>2. /\ tail' = Advance(tail) /\ head' = head /\ tail # head
      /\ text' = [text EXCEPT ![tail] = Blank]
      /\ id_set' = [id_set EXCEPT ![tail] = FALSE]
  BY DEF ProcOne, clear_slot
<1>3. ASSUME NEW i \in Slots
      PROVE  /\ InUse(i)' <=> InUse(i) /\ i # tail
             /\ text'[i] = IF i = tail THEN Blank ELSE text[i]
             /\ id_set'[i] => i # tail /\ id_set[i]
  <2>1. InUse(i)' <=> InUse(i) /\ i # tail
    BY <1>1, UseAfterProc
  <2>2. text'[i] = IF i = tail THEN Blank ELSE text[i]
    BY <1>1, <1>2
  <2>3. id_set'[i] => i # tail /\ id_set[i]
    BY <1>1, <1>2
  <2>4. QED
    BY <2>1, <2>2, <2>3
<1>4. NothingLeftBehind'
  <2> SUFFICES ASSUME NEW i \in Slots
               PROVE  /\ text'[i] # Blank => InUse(i)'
                      /\ InUse(i)' => text'[i] # Blank \/ i = 0
    BY DEF NothingLeftBehind, InUse
  <2>1. QED
    BY <1>3 DEF IInv, NothingLeftBehind
<1>5. IdsOfUsedSlots'
  <2> SUFFICES ASSUME NEW i \in Slots, id_set'[i]
               PROVE  InUse(i)'
    BY DEF IdsOfUsedSlots, InUse
  <2>1. QED
    BY <1>3 DEF IInv, IdsOfUsedSlots
<1>6. SlotZeroOnce'
  <2>1. head' # 0
    BY <1>2 DEF IInv, SlotZeroOnce
  <2>2. text'[0] = Blank
    <3>1. 0 \in Slots
      BY NAssumption DEF Slots
    <3>2. QED
      BY <1>3, <3>1 DEF IInv, SlotZeroOnce
  <2>3. QED
    BY <2>1, <2>2 DEF SlotZeroOnce
<1>7. QED
  BY <1>4, <1>5, <1>6 DEF IInv

\* A step that leaves the ring alone keeps the invariant.
LEMMA RestKeepsInv ==
    ASSUME IInv, TypeOK', UNCHANGED can_buffer
    PROVE  IInv'
<1>1. head' = head /\ tail' = tail /\ text' = text /\ id_set' = id_set
  BY DEF can_buffer
<1>2. QED
  BY <1>1 DEF IInv, NothingLeftBehind, IdsOfUsedSlots, SlotZeroOnce, InUse

LEMMA InvStep ==
    ASSUME LightLoad, IInv, [Next]_vars
    PROVE  IInv'
<1>1. TypeOK'
  BY TypeStep DEF IInv
<1>2. ASSUME NEW m \in Msgs, Store(m)
      PROVE  IInv'
  BY <1>1, <1>2, StoreKeepsInv
<1>3. CASE ProcOne
  BY <1>1, <1>3, ProcKeepsInv
<1>4. CASE ProcLock \/ ProcWait \/ ProcWake \/ ProcFound \/ ProcUnlock
  <2>1. UNCHANGED can_buffer
    BY <1>4 DEF ProcLock, ProcWait, ProcWake, ProcFound, ProcUnlock
  <2>2. QED
    BY <1>1, <2>1, RestKeepsInv
<1>5. CASE UNCHANGED vars
  BY <1>1, <1>5, RestKeepsInv DEF vars
<1>6. QED
  BY <1>2, <1>3, <1>4, <1>5 DEF Next, Receive, ProcAcquire, ProcInside

\* The inductive invariant holds in every reachable state.
THEOREM Inductive == LightLoad => (Spec => []IInv)
<1> SUFFICES ASSUME LightLoad
             PROVE  Spec => []IInv
  OBVIOUS
<1>1. ASSUME Init
      PROVE  IInv
  <2>1. 0 \in Slots
    BY NAssumption DEF Slots
  <2>2. \A i \in Slots : text[i] = Blank /\ id_set[i] = FALSE /\ ~InUse(i)
    BY <1>1 DEF Init, InUse, Slots
  <2>3. TypeOK
    BY <1>1, <2>1 DEF Init, TypeOK
  <2>4. NothingLeftBehind /\ IdsOfUsedSlots
    BY <2>2 DEF NothingLeftBehind, IdsOfUsedSlots
  <2>5. SlotZeroOnce
    BY <1>1, <2>1, <2>2 DEF Init, SlotZeroOnce
  <2>6. QED
    BY <2>3, <2>4, <2>5 DEF IInv
<1>2. IInv /\ [Next]_vars => IInv'
  BY InvStep
<1>3. QED
  BY <1>1, <1>2, PTL DEF Spec

\* The ring buffer is well typed: no index leaves it.
THEOREM TypeCorrect == LightLoad => (Spec => []TypeOK)
<1>1. IInv => TypeOK
  BY DEF IInv
<1>2. QED
  BY <1>1, Inductive, PTL

\* No text is left behind in a slot for a later lap.
THEOREM SlotsAreClean == LightLoad => (Spec => []NothingLeftBehind)
<1>1. IInv => NothingLeftBehind
  BY DEF IInv
<1>2. QED
  BY <1>1, Inductive, PTL

\* A message of 16 characters that is alone in the ring is read whole, in
\* every slot but the last.
THEOREM AloneIsWhole == LightLoad => (Spec => LoneMessageWhole)
<1>1. ASSUME IInv, ProcOne, Pending = 1, tail # N - 1, text[tail] # Blank
      PROVE  whole'
  <2>1. tail \in Slots /\ head \in Slots /\ tail + 1 \in Slots
    BY <1>1, NAssumption DEF IInv, TypeOK, Slots
  <2>2. ~InUse(tail + 1)
    BY <1>1, <2>1, NAssumption DEF Pending, InUse, Slots
  <2>3. ~id_set[tail + 1]
    BY <1>1, <2>1, <2>2 DEF IInv, IdsOfUsedSlots
  <2>4. Terminated(tail)
    BY <1>1, <2>3 DEF Terminated
  <2>5. QED
    BY <1>1, <2>4 DEF ProcOne, parse_input_received
<1>2. IInv => [ProcOne /\ Pending = 1 /\ tail # N - 1 /\ text[tail] # Blank
                 => whole']_vars
  BY <1>1
<1>3. QED
  BY <1>2, Inductive, PTL DEF Spec, LoneMessageWhole

-----------------------------------------------------------------------------
(* The ring buffer is a queue.                                             *)

\* The texts in the ring are a sequence of messages.
LEMMA ContentsAreMessages ==
    IInv => /\ Size \in Nat
            /\ \A i \in 1..Size : SlotOf(i) \in Slots
            /\ Contents \in Seq(Msgs)
            /\ Len(Contents) = Size
<1> SUFFICES ASSUME IInv
             PROVE  /\ Size \in Nat
                    /\ \A i \in 1..Size : SlotOf(i) \in Slots
                    /\ Contents \in Seq(Msgs)
                    /\ Len(Contents) = Size
  OBVIOUS
<1>1. /\ head \in 0..N-1 /\ tail \in 0..N-1 /\ (head = 0 => tail = 0)
      /\ text \in [Slots -> Msgs \cup {Blank}]
  BY DEF IInv, TypeOK, SlotZeroOnce, Slots
<1>3. Size \in Nat
  BY <1>1, NAssumption DEF Size, First
<1>4. ASSUME NEW i \in 1..Size
      PROVE  /\ SlotOf(i) \in Slots /\ InUse(SlotOf(i))
             /\ SlotOf(i) = 0 => text[0] # Blank
  BY <1>1, NAssumption DEF SlotOf, Size, First, InUse, Slots
<1>5. ASSUME NEW i \in 1..Size
      PROVE  text[SlotOf(i)] \in Msgs
  BY <1>1, <1>4 DEF IInv, NothingLeftBehind
<1>6. Contents \in [1..Size -> Msgs]
  BY <1>5 DEF Contents
<1>7. Contents \in Seq(Msgs) /\ Len(Contents) = Size
  BY <1>3, <1>6
<1>8. QED
  BY <1>3, <1>4, <1>7

\* They still are in the next state.
LEMMA NextContentsAreMessages ==
    IInv' => /\ Size' \in Nat
             /\ Contents' \in Seq(Msgs)
             /\ Len(Contents') = Size'
<1>1. (IInv => Size \in Nat /\ Contents \in Seq(Msgs) /\ Len(Contents) = Size)'
  BY ContentsAreMessages, PTL
<1>2. QED
  BY <1>1

\* Where the texts are after a store: where they were, and the new one last.
LEMMA SlotsAfterStore ==
    ASSUME LightLoad, IInv, IInv', NEW m \in Msgs, Store(m)
    PROVE  /\ Size' = Size + 1
           /\ SlotOf(Size)' = head
           /\ \A i \in 1..Size : SlotOf(i)' = SlotOf(i) /\ SlotOf(i) # head
<1>1. /\ head \in 0..N-1 /\ tail \in 0..N-1 /\ (head = 0 => tail = 0)
      /\ text \in [Slots -> Msgs \cup {Blank}]
  BY DEF IInv, TypeOK, SlotZeroOnce, Slots
<1>2. /\ tail' = tail
      /\ text' = [text EXCEPT ![head] = m]
      /\ head' = IF head = N - 1 THEN 1 ELSE head + 1
      /\ head = N - 1 => 2 <= tail
      /\ head < tail => head + 1 < tail
  BY <1>1, StoreEffect DEF Slots
<1>3. text'[0] = IF head = 0 THEN m ELSE text[0]
  BY <1>1, <1>2, NAssumption DEF Slots
<1>4. First' = First
  BY <1>1, <1>2, <1>3, NAssumption, MessagesAreNotBlank DEF First
<1>5. First \in 0..N-1 /\ (First <= head \/ (head + 1 < First /\ 1 <= head))
      /\ (head = N - 1 => 2 <= First)
  BY <1>1, <1>2, NAssumption DEF First
<1>6. Size' = Size + 1
  BY <1>1, <1>2, <1>4, <1>5, NAssumption DEF Size
<1>7. SlotOf(Size)' = head
  BY <1>1, <1>2, <1>4, <1>5, <1>6, NAssumption DEF SlotOf, Size
<1>8. ASSUME NEW i \in 1..Size
      PROVE  SlotOf(i)' = SlotOf(i) /\ SlotOf(i) # head
  BY <1>1, <1>2, <1>4, <1>5, NAssumption DEF SlotOf, Size
<1>9. QED
  BY <1>6, <1>7, <1>8

\* A store appends its message.
LEMMA StoreAppends ==
    ASSUME LightLoad, IInv, IInv', NEW m \in Msgs, Store(m)
    PROVE  Contents' = Append(Contents, m)
<1>1. /\ Contents \in Seq(Msgs) /\ Len(Contents) = Size /\ Size \in Nat
      /\ Contents' \in Seq(Msgs) /\ Len(Contents') = Size'
      /\ \A i \in 1..Size : SlotOf(i) \in Slots
  BY ContentsAreMessages, NextContentsAreMessages
<1>2. /\ Append(Contents, m) \in Seq(Msgs)
      /\ Len(Append(Contents, m)) = Size + 1
      /\ \A i \in 1..Size : Append(Contents, m)[i] = Contents[i]
      /\ Append(Contents, m)[Size + 1] = m
  BY <1>1, AppendProperties
<1>3. /\ head \in Slots
      /\ text \in [Slots -> Msgs \cup {Blank}]
      /\ text' = [text EXCEPT ![head] = m]
  BY StoreEffect DEF IInv, TypeOK
<1>4. ASSUME NEW i \in 1..Size + 1
      PROVE  Contents'[i] = Append(Contents, m)[i]
  <2>1. Contents'[i] = text'[SlotOf(i)']
    BY <1>4, SlotsAfterStore DEF Contents
  <2>2. CASE i = Size + 1
    BY <1>2, <1>3, <2>1, <2>2, SlotsAfterStore
  <2>3. CASE i \in 1..Size
    <3>1. text'[SlotOf(i)'] = text[SlotOf(i)]
      BY <1>1, <1>3, <2>3, SlotsAfterStore
    <3>2. Contents[i] = text[SlotOf(i)]
      BY <2>3 DEF Contents
    <3>3. QED
      BY <1>2, <2>1, <2>3, <3>1, <3>2
  <2>4. QED
    BY <1>1, <2>2, <2>3
<1>5. QED
  BY <1>1, <1>2, <1>4, SlotsAfterStore, SeqEqual

\* The empty slot 0 that a store jumped over is handled without effect.
LEMMA BlankIsSkipped ==
    ASSUME IInv, IInv', ProcOne, text[tail] = Blank
    PROVE  Contents' = Contents /\ handled' = handled
<1>1. /\ head \in 0..N-1 /\ tail \in 0..N-1
      /\ text \in [Slots -> Msgs \cup {Blank}]
  BY DEF IInv, TypeOK, Slots
<1>2. /\ tail' = Advance(tail) /\ head' = head /\ tail # head
      /\ text' = [text EXCEPT ![tail] = Blank]
      /\ handled' = handled
  BY DEF ProcOne, clear_slot, parse_input_received, history
<1>3. tail = 0
  BY <1>1, UseAfterProc DEF IInv, TypeOK, NothingLeftBehind
<1>4. First = 1 /\ First' = 1 /\ 1 <= head
  BY <1>1, <1>2, <1>3, NAssumption DEF First, Advance
<1>5. Size' = Size
  BY <1>2, <1>4 DEF Size
<1>6. ASSUME NEW i \in 1..Size
      PROVE  SlotOf(i)' = SlotOf(i) /\ SlotOf(i) # tail
  BY <1>1, <1>3, <1>4, NAssumption DEF SlotOf, Size
<1>7. ASSUME NEW i \in 1..Size
      PROVE  text[SlotOf(i)]' = text[SlotOf(i)]
  BY <1>1, <1>2, <1>6, ContentsAreMessages
<1>8. QED
  BY <1>2, <1>5, <1>7 DEF Contents

\* Where the texts are after one was handled: one position further to the
\* front, the first one gone.
LEMMA SlotsAfterProc ==
    ASSUME IInv, IInv', ProcOne, text[tail] # Blank
    PROVE  /\ Size = Size' + 1
           /\ SlotOf(1) = tail
           /\ \A i \in 1..Size' : /\ SlotOf(i)' = SlotOf(i + 1)
                                  /\ SlotOf(i + 1) # tail
<1>1. /\ head \in 0..N-1 /\ tail \in 0..N-1 /\ (head = 0 => tail = 0)
      /\ text \in [Slots -> Msgs \cup {Blank}]
      /\ (tail # 0 => text[0] = Blank)
  BY DEF IInv, TypeOK, SlotZeroOnce, Slots
<1>2. /\ tail' = Advance(tail) /\ head' = head /\ tail # head
      /\ text' = [text EXCEPT ![tail] = Blank]
  BY DEF ProcOne, clear_slot
<1>3. First = tail
  BY DEF First
<1>4. CASE tail = N - 1
  <2>1. tail' = 0 /\ text'[0] = Blank /\ 1 <= head
    BY <1>1, <1>2, <1>4, NAssumption DEF Advance, Slots
  <2>2. First' = 1
    BY <1>1, <1>2, <2>1 DEF First
  <2>3. QED
    BY <1>1, <1>2, <1>3, <1>4, <2>2, NAssumption DEF Size, SlotOf
<1>5. CASE tail < N - 1
  <2>1. First' = tail + 1
    BY <1>1, <1>2, <1>5, NAssumption DEF First, Advance
  <2>2. QED
    BY <1>1, <1>2, <1>3, <1>5, <2>1, NAssumption DEF Size, SlotOf
<1>6. QED
  BY <1>1, <1>4, <1>5, NAssumption

\* Handling a message takes the first one.
LEMMA ProcTakesFirst ==
    ASSUME IInv, IInv', ProcOne, text[tail] # Blank
    PROVE  /\ Contents # <<>>
           /\ handled' = Head(Contents)
           /\ Contents' = Tail(Contents)
<1>1. /\ Contents \in Seq(Msgs) /\ Len(Contents) = Size /\ Size \in Nat
      /\ Contents' \in Seq(Msgs) /\ Len(Contents') = Size' /\ Size' \in Nat
      /\ \A i \in 1..Size : SlotOf(i) \in Slots
  BY ContentsAreMessages, NextContentsAreMessages
<1>2. /\ text \in [Slots -> Msgs \cup {Blank}]
      /\ text' = [text EXCEPT ![tail] = Blank]
      /\ handled' = text[tail]
  BY DEF IInv, TypeOK, ProcOne, clear_slot, parse_input_received
<1>3. Size = Size' + 1 /\ SlotOf(1) = tail
  BY SlotsAfterProc
<1>4. 1 \in 1..Size /\ \A i \in 1..Size' : i + 1 \in 1..Size
  <2> DEFINE n == Size
             n1 == Size'
  <2>1. n \in Nat /\ n1 \in Nat /\ n = n1 + 1
    BY <1>1, <1>3
  <2> HIDE DEF n, n1
  <2>2. 1 \in 1..n /\ \A i \in 1..n1 : i + 1 \in 1..n
    BY <2>1
  <2>3. QED
    BY <2>2 DEF n, n1
<1>5. Contents # <<>>
  BY <1>1, <1>3, EmptySeq
<1>6. Head(Contents) = text[tail]
  BY <1>1, <1>4, <1>3, <1>5 DEF Contents
<1>7. /\ Tail(Contents) \in Seq(Msgs)
      /\ Len(Tail(Contents)) = Size'
      /\ \A i \in 1..Size' : Tail(Contents)[i] = Contents[i + 1]
  <2>1. /\ Tail(Contents) \in Seq(Msgs)
        /\ Len(Tail(Contents)) = Len(Contents) - 1
        /\ \A i \in 1..Len(Tail(Contents)) : Tail(Contents)[i] = Contents[i + 1]
    BY <1>1, <1>5, HeadTailProperties
  <2> DEFINE n1 == Size'
  <2>2. Len(Contents) = n1 + 1 /\ n1 \in Nat
    BY <1>1, <1>3
  <2> HIDE DEF n1
  <2>3. Len(Tail(Contents)) = n1
    BY <2>1, <2>2
  <2>4. QED
    BY <2>1, <2>3 DEF n1
<1>8. ASSUME NEW i \in 1..Size'
      PROVE  Contents'[i] = Tail(Contents)[i]
  <2>1. i + 1 \in 1..Size
    BY <1>4
  <2>2. /\ Contents'[i] = text'[SlotOf(i)']
        /\ Contents[i + 1] = text[SlotOf(i + 1)]
    BY <2>1 DEF Contents
  <2>3. text'[SlotOf(i)'] = text[SlotOf(i + 1)]
    BY <1>1, <1>2, <2>1, SlotsAfterProc
  <2>4. QED
    BY <1>7, <2>2, <2>3
<1>9. Contents' = Tail(Contents)
  BY <1>1, <1>7, <1>8, SeqEqual
<1>10. QED
  BY <1>2, <1>5, <1>6, <1>9

\* A step that leaves the ring and the history alone leaves the queue alone.
LEMMA RestIsStutter ==
    ASSUME UNCHANGED <<can_buffer, history>>
    PROVE  UNCHANGED Queue!vars
<1>1. /\ head' = head /\ tail' = tail /\ text' = text
      /\ received' = received /\ handled' = handled
  BY DEF can_buffer, history
<1>2. First' = First
  BY <1>1 DEF First
<1>3. Size' = Size /\ \A i : SlotOf(i)' = SlotOf(i)
  BY <1>1, <1>2 DEF Size, SlotOf
<1>4. QED
  BY <1>1, <1>3 DEF Queue!vars, Contents

\* Below the load limit the ring buffer implements the queue of messages:
\* each message that is received is handled once, in the order of arrival.
THEOREM Refinement == LightLoad => (Spec => ImplementsQueue)
<1> SUFFICES ASSUME LightLoad
             PROVE  Spec => ImplementsQueue
  OBVIOUS
<1>1. ASSUME Init
      PROVE  Queue!Init
  <2>1. First = 0 /\ Size = 0
    BY <1>1 DEF Init, First, Size
  <2>2. Contents = <<>>
    BY <2>1 DEF Contents
  <2>3. QED
    BY <1>1, <2>2, MsgsAssumption DEF Init, Queue!Init
<1>2. ASSUME IInv, IInv', [Next]_vars
      PROVE  [Queue!Next]_Queue!vars
  <2>1. ASSUME NEW m \in Msgs, Store(m)
        PROVE  [Queue!Next]_Queue!vars
    <3>1. handled' = handled /\ received' = m
      BY <2>1 DEF Store, history
    <3>2. Contents' = Append(Contents, m)
      BY <1>2, <2>1, StoreAppends
    <3>3. QED
      BY <3>1, <3>2 DEF Queue!Next, Queue!Receive
  <2>2. CASE ProcOne
    <3>1. received' = received
      BY <2>2 DEF ProcOne
    <3>2. CASE text[tail] = Blank
      BY <1>2, <2>2, <3>1, <3>2, BlankIsSkipped DEF Queue!vars
    <3>3. CASE text[tail] # Blank
      BY <1>2, <2>2, <3>1, <3>3, ProcTakesFirst DEF Queue!Next, Queue!Handle
    <3>4. QED
      BY <3>2, <3>3
  <2>3. CASE ProcLock \/ ProcWait \/ ProcWake \/ ProcFound \/ ProcUnlock
    <3>1. UNCHANGED <<can_buffer, history>>
      BY <2>3 DEF ProcLock, ProcWait, ProcWake, ProcFound, ProcUnlock
    <3>2. QED
      BY <3>1, RestIsStutter
  <2>4. CASE UNCHANGED vars
    BY <2>4, RestIsStutter DEF vars
  <2>5. QED
    BY <1>2, <2>1, <2>2, <2>3, <2>4
       DEF Next, Receive, ProcAcquire, ProcInside
<1>3. QED
  BY <1>1, <1>2, Inductive, PTL DEF Spec, ImplementsQueue, Queue!Spec

=============================================================================
