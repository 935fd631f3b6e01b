---------------------------- MODULE PanelLogProofs ----------------------------
(***************************************************************************)
(* Proofs about PanelLog: for every size of the ring, every height of the  *)
(* panel and any number of threads, the ring and the window are the log    *)
(* that LogView promises.                                                  *)
(***************************************************************************)
EXTENDS PanelLog, SequenceTheorems, TLAPS

Inside == {"store", "advance", "count", "draw"}

\* One thread is in add_to_log: where it is, is where add_to_log is.
LEMMA MovesOn ==
    ASSUME TypeOK, OwnerOnly, NEW t \in Threads, NEW at \in Inside,
           NEW next \in Inside \cup {"out"},
           mutex \in {t, NoThread}, pc' = [pc EXCEPT ![t] = next]
    PROVE  /\ InStep(at) <=> pc[t] = at
           /\ InStep(at)' <=> next = at
<1>1. \A u \in Threads \ {t} : pc[u] = "out"
  BY LogAssumption DEF OwnerOnly
<1>2. InStep(at) <=> pc[t] = at
  BY <1>1 DEF InStep, Inside
<1>3. InStep(at)' <=> next = at
  BY <1>1 DEF InStep, Inside, TypeOK
<1>4. QED
  BY <1>2, <1>3

-----------------------------------------------------------------------------
(* The invariant.                                                          *)

LEMMA Ranges ==
    ASSUME TypeOK
    PROVE  /\ MAX_LOG_LINES \in Nat /\ MAX_LOG_LINES > 0
           /\ buffer_index \in Nat /\ buffer_index < MAX_LOG_LINES
           /\ line_count \in Nat /\ line_count <= MAX_LOG_LINES
           /\ height \in Nat /\ height > 2
BY LogAssumption DEF TypeOK, Slots

LEMMA Wraps ==
    ASSUME NEW i \in Int
    PROVE  /\ i < MAX_LOG_LINES => Wrap(i) = i
           /\ i >= MAX_LOG_LINES => Wrap(i) = i - MAX_LOG_LINES
BY LogAssumption DEF Wrap

LEMMA WrapInRing ==
    ASSUME NEW i \in Int, 0 <= i, i < 2 * MAX_LOG_LINES
    PROVE  Wrap(i) \in Slots
BY LogAssumption DEF Wrap, Slots

LEMMA InnerHeight == TypeOK => inner_height \in Nat \ {0}
BY LogAssumption DEF TypeOK, inner_height

LEMMA ShownFits ==
    ASSUME TypeOK
    PROVE  /\ lines_to_display \in Nat
           /\ lines_to_display <= MAX_LOG_LINES
BY InnerHeight, LogAssumption DEF TypeOK, lines_to_display

\* One thread at a time is in add_to_log, and the index and the count of the
\* ring go together, whatever the sizes (panels.c:61-69).
THEOREM Inductive == Spec => []IInv
<1>1. Init => IInv
  <2> SUFFICES ASSUME Init
               PROVE  IInv
    OBVIOUS
  <2>1. TypeOK
    BY LogAssumption DEF Init, TypeOK, Slots
  <2>2. OwnerOnly /\ TextInHand
    BY LogAssumption DEF Init, OwnerOnly, TextInHand
  <2>3. ~InStep("count")
    BY DEF Init, InStep
  <2>4. IndexIsCount
    BY <2>3 DEF Init, IndexIsCount
  <2>5. QED
    BY <2>1, <2>2, <2>4 DEF IInv
<1>2. IInv /\ [Next]_vars => IInv'
  <2> SUFFICES ASSUME IInv, [Next]_vars
               PROVE  IInv'
    OBVIOUS
  <2>0. TypeOK /\ OwnerOnly /\ TextInHand /\ IndexIsCount
    BY DEF IInv
  <2> USE DEF panel
  <2>1. ASSUME NEW t \in Threads, NEW line \in Texts, Call(t, line)
        PROVE  IInv'
    <3>1. mutex = NoThread
      BY <2>1 DEF Call, MutexFree
    <3>2. TypeOK'
      BY <2>0, <2>1 DEF Call, TypeOK
    <3>3. OwnerOnly' /\ TextInHand'
      BY <2>0, <2>1, <3>1, LogAssumption
         DEF Call, TypeOK, OwnerOnly, TextInHand
    <3>4. ~InStep("count") /\ ~InStep("count")'
      BY <2>0, <2>1, <3>1, MovesOn DEF Call, Inside
    <3>5. IndexIsCount'
      BY <2>0, <2>1, <3>4 DEF Call, IndexIsCount
    <3>6. QED
      BY <3>2, <3>3, <3>5 DEF IInv
  <2>2. ASSUME NEW t \in Threads, StoreLine(t)
        PROVE  IInv'
    <3>1. mutex = t
      BY <2>0, <2>2 DEF StoreLine, OwnerOnly
    <3>2. TypeOK'
      BY <2>0, <2>2 DEF StoreLine, TypeOK, TextInHand
    <3>3. OwnerOnly' /\ TextInHand'
      BY <2>0, <2>2 DEF StoreLine, TypeOK, OwnerOnly, TextInHand
    <3>4. ~InStep("count") /\ ~InStep("count")'
      BY <2>0, <2>2, <3>1, MovesOn DEF StoreLine, Inside
    <3>5. IndexIsCount'
      BY <2>0, <2>2, <3>4 DEF StoreLine, IndexIsCount
    <3>6. QED
      BY <3>2, <3>3, <3>5 DEF IInv
  <2>3. ASSUME NEW t \in Threads, AdvanceIndex(t)
        PROVE  IInv'
    <3>1. mutex = t
      BY <2>0, <2>3 DEF AdvanceIndex, OwnerOnly
    <3>2. TypeOK'
      <4>1. Wrap(buffer_index + 1) \in Slots
        <5>1. buffer_index + 1 \in Int /\ 0 <= buffer_index + 1
              /\ buffer_index + 1 < 2 * MAX_LOG_LINES
          BY <2>0, Ranges
        <5>2. QED
          BY <5>1, WrapInRing
      <4>2. QED
        BY <2>0, <2>3, <4>1 DEF AdvanceIndex, TypeOK
    <3>3. OwnerOnly' /\ TextInHand'
      BY <2>0, <2>3 DEF AdvanceIndex, TypeOK, OwnerOnly, TextInHand
    <3>4. ~InStep("count") /\ InStep("count")'
      BY <2>0, <2>3, <3>1, MovesOn DEF AdvanceIndex, Inside
    <3>5. IndexIsCount'
      BY <2>0, <2>3, <3>4 DEF AdvanceIndex, IndexIsCount
    <3>6. QED
      BY <3>2, <3>3, <3>5 DEF IInv
  <2>4. ASSUME NEW t \in Threads, CountLine(t)
        PROVE  IInv'
    <3>1. mutex = t
      BY <2>0, <2>4 DEF CountLine, OwnerOnly
    <3>2. TypeOK'
      <4>1. Capped(line_count) \in 0..MAX_LOG_LINES
        BY <2>0, Ranges DEF Capped
      <4>2. QED
        BY <2>0, <2>4, <4>1 DEF CountLine, TypeOK
    <3>3. OwnerOnly' /\ TextInHand'
      BY <2>0, <2>4 DEF CountLine, TypeOK, OwnerOnly, TextInHand
    <3>4. InStep("count") /\ ~InStep("count")'
      BY <2>0, <2>4, <3>1, MovesOn DEF CountLine, Inside
    <3>5. IndexIsCount'
      <4> SUFFICES ASSUME Capped(line_count) < MAX_LOG_LINES
                   PROVE  buffer_index = Capped(line_count)
        BY <2>4, <3>4 DEF CountLine, IndexIsCount
      <4>1. line_count \in Nat /\ line_count + 1 < MAX_LOG_LINES
        BY <2>0, Ranges DEF Capped
      <4>2. buffer_index = Wrap(line_count + 1)
        <5>1. line_count < MAX_LOG_LINES
          BY <2>0, <4>1, Ranges
        <5>2. QED
          BY <2>0, <3>4, <5>1 DEF IndexIsCount
      <4>3. Wrap(line_count + 1) = line_count + 1
        BY <4>1, Wraps
      <4>4. Capped(line_count) = line_count + 1
        BY <2>0, <4>1, Ranges DEF Capped
      <4>5. QED
        BY <4>2, <4>3, <4>4
    <3>6. QED
      BY <3>2, <3>3, <3>5 DEF IInv
  <2>5. ASSUME NEW t \in Threads, DrawLines(t)
        PROVE  IInv'
    <3>1. mutex = t
      BY <2>0, <2>5 DEF DrawLines, OwnerOnly
    <3>2. TypeOK'
      <4>1. Len(content') <= MAX_LOG_LINES
        <5>1. CASE UNCHANGED content
          BY <2>0, <5>1 DEF TypeOK
        <5>2. CASE content' =
                     [i \in 1..lines_to_display |->
                        line_buffer[buf_index(buffer_index, line_count,
                                              start_line + i - 1)]]
          <6> HIDE DEF lines_to_display, buf_index, start_line
          <6>1. Len(content') = lines_to_display
            BY <2>0, <5>2, ShownFits
          <6>2. QED
            BY <2>0, <6>1, ShownFits
        <5>3. QED
          BY <2>5, <5>1, <5>2 DEF DrawLines
      <4>2. QED
        BY <2>0, <2>5, <4>1 DEF DrawLines, TypeOK
    <3>3. OwnerOnly' /\ TextInHand'
      <4>1. /\ mutex' = NoThread
            /\ pc' = [pc EXCEPT ![t] = "out"]
            /\ text' = text
        BY <2>5 DEF DrawLines
      <4>2. pc \in [Threads -> Inside \cup {"out"}] /\ NoThread \notin Threads
        BY <2>0, LogAssumption DEF TypeOK, Inside
      <4>3. \A u \in Threads \ {t} : pc[u] = "out"
        BY <2>0, <3>1 DEF OwnerOnly
      <4>4. \A u \in Threads : pc'[u] = "out" /\ mutex' # u
        BY <4>1, <4>2, <4>3
      <4>5. OwnerOnly'
        BY <4>4 DEF OwnerOnly
      <4>6. TextInHand'
        BY <4>4 DEF TextInHand
      <4>7. QED
        BY <4>5, <4>6
    <3>4. ~InStep("count") /\ ~InStep("count")'
      <4>1. pc[t] = "draw" /\ pc' = [pc EXCEPT ![t] = "out"]
        BY <2>5 DEF DrawLines
      <4>2. "count" \in Inside /\ "out" \in Inside \cup {"out"}
        BY DEF Inside
      <4>3. /\ InStep("count") <=> pc[t] = "count"
            /\ InStep("count")' <=> "out" = "count"
        BY <2>0, <3>1, <4>1, <4>2, MovesOn
      <4>4. QED
        BY <4>1, <4>3
    <3>5. IndexIsCount'
      BY <2>0, <2>5, <3>4 DEF DrawLines, IndexIsCount
    <3>6. QED
      BY <3>2, <3>3, <3>5 DEF IInv
  <2>6. CASE UNCHANGED vars
    BY <2>0, <2>6 DEF vars, threads, IInv, TypeOK, OwnerOnly, TextInHand,
                      IndexIsCount, InStep
  <2>7. QED
    BY <2>1, <2>2, <2>3, <2>4, <2>5, <2>6 DEF Next
<1>3. QED
  BY <1>1, <1>2, PTL DEF Spec

\* The index stays inside the ring and the count within its size, for every
\* size of the ring (panels.c:64-69).
THEOREM TypeCorrect == Spec => []TypeOK
<1>1. IInv => TypeOK
  BY DEF IInv
<1>2. QED
  BY <1>1, Inductive, PTL

-----------------------------------------------------------------------------
(* The ring is the log of LogView.                                         *)

\* The n lines that end before slot next.
LinesBefore(next, n) ==
    [i \in 1..n |-> line_buffer[buf_index(next, n, i - 1)]]

\* What LinesKept is, by where the thread in add_to_log stands.
LEMMA LinesByStep ==
    /\ InStep("advance") =>
          LinesKept = LinesBefore(Wrap(buffer_index + 1), Capped(line_count))
    /\ InStep("count") /\ ~InStep("advance") =>
          LinesKept = LinesBefore(buffer_index, Capped(line_count))
    /\ ~InStep("count") /\ ~InStep("advance") =>
          LinesKept = LinesBefore(buffer_index, line_count)
BY DEF LinesKept, LinesBefore

\* A ring that is not full begins at slot 0.
LEMMA SlotNotFull ==
    ASSUME NEW n \in Nat, n <= MAX_LOG_LINES, NEW i \in 1..n
    PROVE  buf_index(Wrap(n), n, i - 1) = i - 1
<1>1. MAX_LOG_LINES \in Nat /\ MAX_LOG_LINES > 0
  BY LogAssumption
<1>2. CASE n < MAX_LOG_LINES
  <2>1. Wrap(n) = n
    BY <1>2, Wraps
  <2>2. n - n + (i - 1) + MAX_LOG_LINES = MAX_LOG_LINES + i - 1
    BY <1>1
  <2>3. Wrap(MAX_LOG_LINES + i - 1) = i - 1
    BY <1>1, Wraps
  <2>4. QED
    BY <2>1, <2>2, <2>3 DEF buf_index
<1>3. CASE n = MAX_LOG_LINES
  <2>1. Wrap(n) = 0
    BY <1>1, <1>3, Wraps
  <2>2. 0 - n + (i - 1) + MAX_LOG_LINES = i - 1
    BY <1>1, <1>3
  <2>3. Wrap(i - 1) = i - 1
    BY <1>1, <1>3, Wraps
  <2>4. QED
    BY <2>1, <2>2, <2>3 DEF buf_index
<1>4. QED
  BY <1>1, <1>2, <1>3

\* In a full ring the oldest line is in the slot that is written next.
LEMMA SlotFull ==
    ASSUME NEW next \in Nat, next < MAX_LOG_LINES, NEW i \in 1..MAX_LOG_LINES
    PROVE  buf_index(next, MAX_LOG_LINES, i - 1) = Wrap(next + i - 1)
<1>1. MAX_LOG_LINES \in Nat
  BY LogAssumption
<1>2. next - MAX_LOG_LINES + (i - 1) + MAX_LOG_LINES = next + i - 1
  BY <1>1
<1>3. QED
  BY <1>2 DEF buf_index

LEMMA NextIsOneOn ==
    ASSUME NEW b \in Nat, b < MAX_LOG_LINES, NEW i \in 1..MAX_LOG_LINES
    PROVE  /\ i < MAX_LOG_LINES =>
                 /\ Wrap(Wrap(b + 1) + i - 1) = Wrap(b + i)
                 /\ Wrap(b + i) # b
           /\ i = MAX_LOG_LINES => Wrap(Wrap(b + 1) + i - 1) = b
<1>1. MAX_LOG_LINES \in Nat /\ MAX_LOG_LINES > 0
  BY LogAssumption
<1>2. QED
  BY <1>1 DEF Wrap

\* The lines before the next slot, when the ring is not full.
LEMMA LinesNotFull ==
    ASSUME NEW n \in Nat, n <= MAX_LOG_LINES
    PROVE  LinesBefore(Wrap(n), n) = [i \in 1..n |-> line_buffer[i - 1]]
BY SlotNotFull DEF LinesBefore

LEMMA LinesFull ==
    ASSUME NEW next \in Nat, next < MAX_LOG_LINES
    PROVE  LinesBefore(next, MAX_LOG_LINES) =
             [i \in 1..MAX_LOG_LINES |-> line_buffer[Wrap(next + i - 1)]]
BY SlotFull DEF LinesBefore

\* What Newest(_, _) is of a sequence written as a function.
LEMMA NewestAll ==
    ASSUME NEW s, NEW k, Len(s) <= k
    PROVE  LogViewAbstract!Newest(s, k) = s
BY DEF LogViewAbstract!Newest

LEMMA NewestSome ==
    ASSUME NEW s, NEW k, NEW l, Len(s) = l, ~(l <= k)
    PROVE  LogViewAbstract!Newest(s, k) = [i \in 1..k |-> s[l - k + i]]
BY DEF LogViewAbstract!Newest

\* Storing a line adds it to the lines kept; a full ring loses its oldest.
LEMMA StoreAdds ==
    ASSUME IInv, NEW t \in Threads, StoreLine(t)
    PROVE  LinesKept' = LogViewAbstract!Newest(Append(LinesKept, text[t]),
                                               MAX_LOG_LINES)
<1> DEFINE line == text[t]
           b == buffer_index
           n == line_count
           max == MAX_LOG_LINES
<1>1. TypeOK /\ OwnerOnly /\ IndexIsCount
  BY DEF IInv
<1>2. /\ pc[t] = "store"
      /\ line_buffer' = [line_buffer EXCEPT ![b] = line]
      /\ pc' = [pc EXCEPT ![t] = "advance"]
      /\ buffer_index' = b
      /\ line_count' = n
  BY DEF StoreLine
<1>3. mutex = t
  BY <1>1, <1>2 DEF OwnerOnly
<1>4. /\ ~InStep("advance") /\ ~InStep("count")
      /\ InStep("advance")'
  BY <1>1, <1>2, <1>3, MovesOn DEF Inside
<1>5. /\ max \in Nat /\ max > 0
      /\ b \in Nat /\ b < max
      /\ n \in Nat /\ n <= max
      /\ line_buffer \in [Slots -> Texts \cup {Blank}]
  BY <1>1, Ranges DEF TypeOK
<1>6. LinesKept = LinesBefore(b, n)
  BY <1>4, LinesByStep
<1>7. LinesKept' =
        [i \in 1..Capped(n) |->
           line_buffer'[buf_index(Wrap(b + 1), Capped(n), i - 1)]]
  BY <1>2, <1>4 DEF LinesKept
<1>8. CASE n < max
  <2>1. b = n /\ Wrap(n) = n
    BY <1>1, <1>4, <1>5, <1>8, Wraps DEF IndexIsCount
  <2>2. Capped(n) = n + 1 /\ n + 1 <= max
    BY <1>5, <1>8 DEF Capped
  <2>3. LinesKept = [i \in 1..n |-> line_buffer[i - 1]]
    BY <1>5, <1>6, <2>1, LinesNotFull
  <2>4. LinesKept' = [i \in 1..n + 1 |-> line_buffer'[i - 1]]
    <3>1. \A i \in 1..n + 1 : buf_index(Wrap(n + 1), n + 1, i - 1) = i - 1
      BY <1>5, <2>2, SlotNotFull
    <3>2. QED
      BY <1>7, <2>1, <2>2, <3>1
  <2>5. \A i \in 1..n + 1 :
          line_buffer'[i - 1] = IF i = n + 1 THEN line ELSE line_buffer[i - 1]
    BY <1>2, <1>5, <2>1, <2>2 DEF Slots
  <2>6. LinesKept' = [i \in 1..n + 1 |->
                        IF i = n + 1 THEN line ELSE line_buffer[i - 1]]
    BY <2>4, <2>5
  <2> HIDE DEF line, b, n, max
  <2>7. Append(LinesKept, line) = [i \in 1..n + 1 |->
                        IF i = n + 1 THEN line ELSE line_buffer[i - 1]]
    BY <1>5, <2>3
  <2>8. Len(Append(LinesKept, line)) = n + 1
    BY <1>5, <2>7
  <2>9. QED
    BY <2>2, <2>6, <2>7, <2>8, NewestAll DEF max, line
<1>9. CASE n = max
  <2>1. Capped(n) = max
    BY <1>5, <1>9 DEF Capped
  <2>2. LinesKept = [i \in 1..max |-> line_buffer[Wrap(b + i - 1)]]
    BY <1>5, <1>6, <1>9, LinesFull
  <2>3. Wrap(b + 1) \in Nat /\ Wrap(b + 1) < max
    BY <1>5 DEF Wrap
  <2>4. LinesKept' = [i \in 1..max |->
                        line_buffer'[Wrap(Wrap(b + 1) + i - 1)]]
    <3>1. \A i \in 1..max :
            buf_index(Wrap(b + 1), max, i - 1) = Wrap(Wrap(b + 1) + i - 1)
      BY <2>3, SlotFull
    <3>2. QED
      BY <1>7, <2>1, <3>1
  <2>5. \A i \in 1..max :
          line_buffer'[Wrap(Wrap(b + 1) + i - 1)] =
            IF i = max THEN line ELSE line_buffer[Wrap(b + i)]
    <3> SUFFICES ASSUME NEW i \in 1..max
                 PROVE  line_buffer'[Wrap(Wrap(b + 1) + i - 1)] =
                          IF i = max THEN line ELSE line_buffer[Wrap(b + i)]
      OBVIOUS
    <3>1. b \in Slots
      BY <1>1 DEF TypeOK
    <3>2. CASE i = max
      BY <1>2, <1>5, <3>1, <3>2, NextIsOneOn
    <3>3. CASE i < max
      <4>1. Wrap(Wrap(b + 1) + i - 1) = Wrap(b + i) /\ Wrap(b + i) # b
        BY <1>5, <3>3, NextIsOneOn
      <4>2. Wrap(b + i) \in Slots
        BY <1>5, <3>3, WrapInRing
      <4>3. i # max
        BY <1>5, <3>3
      <4>4. QED
        BY <1>2, <1>5, <4>1, <4>2, <4>3
    <3>4. QED
      BY <1>5, <3>2, <3>3
  <2>6. LinesKept' = [i \in 1..max |->
                        IF i = max THEN line ELSE line_buffer[Wrap(b + i)]]
    BY <2>4, <2>5
  <2> HIDE DEF line, b, n, max
  <2> DEFINE longer == Append(LinesKept, line)
  <2>7. /\ Len(longer) = max + 1
        /\ \A i \in 1..max + 1 :
             longer[i] =
               IF i = max + 1 THEN line ELSE line_buffer[Wrap(b + i - 1)]
    BY <1>5, <2>2
  <2> HIDE DEF longer
  <2>8. ~(max + 1 <= max) /\ \A i \in 1..max : (max + 1) - max + i = i + 1
    BY <1>5
  <2>9. LogViewAbstract!Newest(longer, max) =
          [i \in 1..max |-> longer[i + 1]]
    <3>1. LogViewAbstract!Newest(longer, max) =
            [i \in 1..max |-> longer[(max + 1) - max + i]]
      BY <2>7, <2>8, NewestSome
    <3>2. QED
      BY <2>8, <3>1
  <2>10. \A i \in 1..max :
           /\ i + 1 \in 1..max + 1
           /\ i + 1 = max + 1 <=> i = max
           /\ b + (i + 1) - 1 = b + i
    BY <1>5
  <2>11. \A i \in 1..max :
           longer[i + 1] =
             IF i = max THEN line ELSE line_buffer[Wrap(b + i)]
    BY <2>7, <2>10
  <2>12. QED
    BY <2>6, <2>9, <2>11 DEF longer, max, line
<1>10. QED
  BY <1>5, <1>8, <1>9

\* Drawing shows the newest of the lines kept.
LEMMA DrawShows ==
    ASSUME IInv, ~InStep("count"), ~InStep("advance")
    PROVE  [i \in 1..lines_to_display |->
              line_buffer[buf_index(buffer_index, line_count,
                                    start_line + i - 1)]]
             = LogViewAbstract!Newest(LinesKept, inner_height)
<1> DEFINE n == line_count
           b == buffer_index
           h == inner_height
<1>1. TypeOK
  BY DEF IInv
<1>2. n \in Nat /\ b \in Nat /\ h \in Nat \ {0}
  BY <1>1, Ranges, InnerHeight
<1>3. LinesKept = [i \in 1..n |-> line_buffer[buf_index(b, n, i - 1)]]
  BY LinesByStep DEF LinesBefore
<1>4. CASE n <= h
  <2>1. lines_to_display = n /\ start_line = 0
    BY <1>2, <1>4 DEF lines_to_display, start_line
  <2>2. \A i \in 1..n : 0 + i - 1 = i - 1
    BY <1>2
  <2> HIDE DEF n, b, h
  <2>3. Len(LinesKept) = n
    BY <1>2, <1>3
  <2>4. LogViewAbstract!Newest(LinesKept, h) = LinesKept
    BY <1>4, <2>3, NewestAll
  <2>5. QED
    BY <1>3, <2>1, <2>2, <2>4 DEF n, b, h
<1>5. CASE ~(n <= h)
  <2>1. lines_to_display = h /\ start_line = n - h
    BY <1>2, <1>5 DEF lines_to_display, start_line
  <2>2. \A i \in 1..h : n - h + i \in 1..n
    BY <1>2, <1>5
  <2> HIDE DEF n, b, h
  <2>3. Len(LinesKept) = n
    BY <1>2, <1>3
  <2>4. LogViewAbstract!Newest(LinesKept, h) =
          [i \in 1..h |-> LinesKept[n - h + i]]
    BY <1>5, <2>3, NewestSome
  <2>5. \A i \in 1..h :
          LinesKept[n - h + i] = line_buffer[buf_index(b, n, n - h + i - 1)]
    <3> SUFFICES ASSUME NEW i \in 1..h
                 PROVE  LinesKept[n - h + i] =
                          line_buffer[buf_index(b, n, n - h + i - 1)]
      OBVIOUS
    <3> DEFINE j == n - h + i
    <3>1. j \in 1..n
      BY <2>2
    <3> HIDE DEF j
    <3>2. LinesKept[j] = line_buffer[buf_index(b, n, j - 1)]
      BY <1>3, <3>1
    <3>3. j - 1 = n - h + i - 1
      BY <1>2 DEF j
    <3>4. LinesKept[j] = line_buffer[buf_index(b, n, n - h + i - 1)]
      BY <3>2, <3>3
    <3>5. QED
      BY <3>4 DEF j
  <2>6. QED
    BY <2>1, <2>4, <2>5 DEF n, b, h
<1>6. QED
  BY <1>4, <1>5

\* Whichever threads write to it, and however often the ring has gone round,
\* the panel is the log of LogView (panels.c:42-104).
THEOREM Refinement == Spec => ImplementsLogView
<1>1. ASSUME Init
      PROVE  LogViewAbstract!Init
  <2>1. ~InStep("advance") /\ ~InStep("count") /\ ~InStep("draw")
    BY <1>1 DEF Init, InStep
  <2>2. LinesKept = <<>>
    BY <1>1, <2>1, LinesByStep DEF Init, LinesBefore
  <2>3. inner_height \in Nat \ {0}
    BY <1>1, LogAssumption DEF Init, inner_height
  <2>4. QED
    BY <1>1, <2>1, <2>2, <2>3 DEF Init, LogViewAbstract!Init
<1>2. ASSUME IInv, [Next]_vars
      PROVE  [LogViewAbstract!Next]_(LogViewAbstract!vars)
  <2>1. TypeOK /\ OwnerOnly /\ TextInHand
    BY <1>2 DEF IInv
  <2> DEFINE Abstract == [LogViewAbstract!Next]_(LogViewAbstract!vars)
  <2>2. ASSUME NEW t \in Threads, NEW line \in Texts, Call(t, line)
        PROVE  Abstract
    <3>1. /\ mutex = NoThread
          /\ pc[t] = "out"
          /\ pc' = [pc EXCEPT ![t] = "store"]
          /\ UNCHANGED <<line_buffer, buffer_index, line_count,
                         height, content>>
      BY <2>2 DEF Call, MutexFree, panel
    <3>2. \A at \in Inside \ {"store"} : ~InStep(at) /\ ~InStep(at)'
      BY <2>1, <3>1, MovesOn DEF Inside
    <3>3. /\ ~InStep("advance") /\ ~InStep("count") /\ ~InStep("draw")
          /\ ~InStep("advance")' /\ ~InStep("count")' /\ ~InStep("draw")'
      BY <3>2 DEF Inside
    <3>4. LinesKept' = LinesKept
      BY <3>1, <3>3 DEF LinesKept, buf_index
    <3>5. QED
      BY <3>1, <3>3, <3>4 DEF LogViewAbstract!vars, inner_height
  <2>3. ASSUME NEW t \in Threads, StoreLine(t)
        PROVE  Abstract
    <3>1. /\ pc[t] = "store"
          /\ pc' = [pc EXCEPT ![t] = "advance"]
          /\ UNCHANGED <<height, content>>
      BY <2>3 DEF StoreLine
    <3>2. mutex = t /\ text[t] \in Texts
      BY <2>1, <3>1 DEF OwnerOnly, TextInHand
    <3>3. /\ ~InStep("advance") /\ ~InStep("count") /\ ~InStep("draw")
          /\ InStep("advance")'
      BY <2>1, <3>1, <3>2, MovesOn DEF Inside
    <3>4. LinesKept' = LogViewAbstract!Newest(Append(LinesKept, text[t]),
                                              MAX_LOG_LINES)
      BY <1>2, <2>3, StoreAdds
    <3>5. LogViewAbstract!Add(text[t])
      BY <3>1, <3>3, <3>4 DEF LogViewAbstract!Add, inner_height
    <3>6. QED
      BY <3>2, <3>5 DEF LogViewAbstract!Next
  <2>4. ASSUME NEW t \in Threads, AdvanceIndex(t)
        PROVE  Abstract
    <3>1. /\ pc[t] = "advance"
          /\ buffer_index' = Wrap(buffer_index + 1)
          /\ pc' = [pc EXCEPT ![t] = "count"]
          /\ UNCHANGED <<line_buffer, line_count, height, content>>
      BY <2>4 DEF AdvanceIndex
    <3>2. mutex = t
      BY <2>1, <3>1 DEF OwnerOnly
    <3>3. /\ InStep("advance")
          /\ ~InStep("advance")' /\ InStep("count")'
      BY <2>1, <3>1, <3>2, MovesOn DEF Inside
    <3>4. LinesKept' = LinesKept
      BY <3>1, <3>3 DEF LinesKept, buf_index
    <3>5. QED
      BY <3>1, <3>3, <3>4 DEF LogViewAbstract!vars, inner_height
  <2>5. ASSUME NEW t \in Threads, CountLine(t)
        PROVE  Abstract
    <3>1. /\ pc[t] = "count"
          /\ line_count' = Capped(line_count)
          /\ pc' = [pc EXCEPT ![t] = "draw"]
          /\ UNCHANGED <<line_buffer, buffer_index, height, content>>
      BY <2>5 DEF CountLine
    <3>2. mutex = t
      BY <2>1, <3>1 DEF OwnerOnly
    <3>3. /\ InStep("count") /\ ~InStep("advance")
          /\ ~InStep("advance")' /\ ~InStep("count")' /\ InStep("draw")'
      BY <2>1, <3>1, <3>2, MovesOn DEF Inside
    <3>4. LinesKept' = LinesKept
      BY <3>1, <3>3 DEF LinesKept, buf_index
    <3>5. QED
      BY <3>1, <3>3, <3>4 DEF LogViewAbstract!vars, inner_height
  <2>6. ASSUME NEW t \in Threads, DrawLines(t)
        PROVE  Abstract
    <3>1. /\ pc[t] = "draw"
          /\ pc' = [pc EXCEPT ![t] = "out"]
          /\ UNCHANGED <<line_buffer, buffer_index, line_count, height>>
      BY <2>6 DEF DrawLines, panel
    <3>2. mutex = t
      BY <2>1, <3>1 DEF OwnerOnly
    <3>3. /\ InStep("draw") /\ ~InStep("advance") /\ ~InStep("count")
          /\ ~InStep("advance")' /\ ~InStep("count")' /\ ~InStep("draw")'
      <4>1. \A at \in Inside : /\ InStep(at) <=> pc[t] = at
                               /\ InStep(at)' <=> "out" = at
        BY <2>1, <3>1, <3>2, MovesOn
      <4>2. QED
        BY <3>1, <4>1 DEF Inside
    <3>4. LinesKept' = LinesKept
      BY <3>1, <3>3 DEF LinesKept, buf_index
    <3>5. \/ content' = LogViewAbstract!Newest(LinesKept, inner_height)
          \/ content' = content
      BY <1>2, <2>6, <3>3, DrawShows DEF DrawLines
    <3>6. LogViewAbstract!Draw \/ LogViewAbstract!DrawFails
      BY <3>1, <3>3, <3>4, <3>5
         DEF LogViewAbstract!Draw, LogViewAbstract!DrawFails, inner_height
    <3>7. QED
      BY <3>6 DEF LogViewAbstract!Next
  <2>7. CASE UNCHANGED vars
    <3>1. UNCHANGED <<line_buffer, buffer_index, line_count, height, content,
                      pc>>
      BY <2>7 DEF vars, panel, threads
    <3>2. LinesKept' = LinesKept
      BY <3>1 DEF LinesKept, buf_index, InStep
    <3>3. QED
      BY <3>1, <3>2 DEF LogViewAbstract!vars, inner_height, InStep
  <2>8. QED
    BY <1>2, <2>2, <2>3, <2>4, <2>5, <2>6, <2>7 DEF Next
<1>3. QED
  BY <1>1, <1>2, Inductive, PTL
     DEF Spec, ImplementsLogView, LogViewAbstract!Spec

=============================================================================
