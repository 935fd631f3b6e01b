------------------------ MODULE StopStartSystemProofs ------------------------
(***************************************************************************)
(* Proofs about StopStartSystem: whatever is on the bus, in whatever order *)
(* it is read, whichever messages a receiver misses, however many presses  *)
(* the buffer spoils and however often the engine is stopped, the two      *)
(* copies of the activation, the rows of the panel and the count of the    *)
(* stops relate as the invariants say.                                     *)
(*                                                                         *)
(* What a queue will have done when it has been read is a recursive        *)
(* function of its positions.  The facts about it that the steps need (one *)
(* message more at the end, one less at the head, another value to start   *)
(* from) are proved by induction over the positions.                       *)
(***************************************************************************)
EXTENDS StopStartSystem, SequenceTheorems, FiniteSetTheorems,
        WellFoundedInduction, TLAPS

-----------------------------------------------------------------------------
(* Induction over the positions of a queue.                                *)

\* A set of natural numbers that is not empty has a least element.
LEMMA LeastElement ==
    ASSUME NEW T, T \subseteq Nat, T # {}
    PROVE  \E x \in T : \A y \in T : x <= y
<1> DEFINE R == OpToRel(<, Nat)
<1>1. \A x, y \in Nat : x < y => <<x, y>> \in R
  BY DEF OpToRel
<1>2. IsWellFoundedOn(R, Nat)
  BY NatLessThanWellFounded
<1>3. PICK x \in T : \A y \in T : ~ (<<y, x>> \in R)
  <2> HIDE DEF R
  <2>1. QED
    BY <1>2, WFMin
<1> HIDE DEF R
<1>4. ASSUME NEW y \in T
      PROVE  x <= y
  <2>1. x \in Nat /\ y \in Nat
    OBVIOUS
  <2>2. ~ (<<y, x>> \in R)
    BY <1>3
  <2>3. ~ (y < x)
    BY <1>1, <2>1, <2>2
  <2>4. QED
    BY <2>1, <2>3
<1>5. QED
  BY <1>4

\* A set of positions that has 0 and with each position the next has all.
LEMMA PositionInduction ==
    ASSUME NEW n \in Nat, NEW S, 0 \in S,
           \A i \in 0..(n - 1) : i \in S => i + 1 \in S
    PROVE  \A i \in 0..n : i \in S
<1> DEFINE T == {i \in 0..n : i \notin S}
<1>1. SUFFICES ASSUME T # {}
               PROVE  FALSE
  OBVIOUS
<1>2. PICK x \in T : \A y \in T : x <= y
  <2>1. T \subseteq Nat
    OBVIOUS
  <2> HIDE DEF T
  <2>2. QED
    BY <1>1, <2>1, LeastElement
<1>3. x # 0 /\ x - 1 \in 0..(n - 1) /\ x - 1 \in 0..n
  BY <1>2
<1>4. x - 1 \in S
  BY <1>2, <1>3
<1>5. QED
  BY <1>2, <1>3, <1>4

-----------------------------------------------------------------------------
(* What a flag will be when a queue has been read.                         *)

\* f has the values of the flag along the first n messages of q.
Along(f, a, q, n) ==
    /\ f[0] = a
    /\ \A i \in 1..n : f[i] = Obey(f[i - 1], q[i])

\* Two such functions are the same.
LEMMA AlongUnique ==
    ASSUME NEW f, NEW g, NEW a, NEW q, NEW n \in Nat,
           Along(f, a, q, n), Along(g, a, q, n)
    PROVE  f[n] = g[n]
<1> DEFINE S == {i \in Nat : f[i] = g[i]}
<1>1. 0 \in S
  BY DEF Along
<1>2. ASSUME NEW i \in 0..(n - 1), i \in S
      PROVE  i + 1 \in S
  <2>1. i + 1 \in 1..n /\ (i + 1) - 1 = i
    OBVIOUS
  <2>2. f[i + 1] = Obey(f[i], q[i + 1]) /\ g[i + 1] = Obey(g[i], q[i + 1])
    BY <2>1 DEF Along
  <2>3. QED
    BY <1>2, <2>2
<1> HIDE DEF S
<1>3. n \in S
  BY <1>1, <1>2, PositionInduction
<1>4. QED
  BY <1>3 DEF S

\* There is one for every queue: the definition of WhenRead is one of a
\* function.
LEMMA AlongExists ==
    ASSUME NEW a, NEW q, NEW n \in Nat
    PROVE  \E f : f = [i \in 0..n |->
                         IF i = 0 THEN a ELSE Obey(f[i - 1], q[i])]
<1> DEFINE IsReading(f, k) ==
               f = [i \in 0..k |-> IF i = 0 THEN a ELSE Obey(f[i - 1], q[i])]
           S == {k \in Nat : \E f : IsReading(f, k)}
<1>1. 0 \in S
  <2>1. IsReading([i \in 0..0 |-> a], 0)
    OBVIOUS
  <2>2. QED
    BY <2>1
<1>2. ASSUME NEW k \in 0..(n - 1), k \in S
      PROVE  k + 1 \in S
  <2>1. PICK f : IsReading(f, k)
    BY <1>2
  <2> DEFINE g == [i \in 0..(k + 1) |->
                     IF i = k + 1 THEN Obey(f[k], q[k + 1]) ELSE f[i]]
  <2>2. ASSUME NEW i \in 0..(k + 1)
        PROVE  g[i] = IF i = 0 THEN a ELSE Obey(g[i - 1], q[i])
    <3>1. CASE i = 0
      BY <2>1, <3>1
    <3>2. CASE i = k + 1
      <4>1. g[i] = Obey(f[k], q[i]) /\ g[i - 1] = f[k] /\ i # 0
        BY <3>2
      <4>2. QED
        BY <4>1
    <3>3. CASE i \in 1..k
      <4>1. i \in 0..k /\ i # 0 /\ i # k + 1 /\ i - 1 \in 0..(k + 1)
            /\ i - 1 # k + 1
        BY <3>3
      <4>2. g[i] = f[i] /\ g[i - 1] = f[i - 1]
        BY <4>1
      <4>3. f[i] = Obey(f[i - 1], q[i])
        BY <2>1, <4>1
      <4>4. QED
        BY <4>1, <4>2, <4>3
    <3>4. QED
      BY <3>1, <3>2, <3>3
  <2>3. IsReading(g, k + 1)
    BY <2>2
  <2>4. \E h : IsReading(h, k + 1)
    <3> HIDE DEF IsReading, g
    <3>1. QED
      BY <2>3
  <2>5. k + 1 \in Nat
    OBVIOUS
  <2>6. QED
    BY <2>4, <2>5
<1> HIDE DEF S
<1>3. n \in S
  BY <1>1, <1>2, PositionInduction
<1>4. QED
  BY <1>3 DEF S

\* So WhenRead is the last value of any function along the queue.
LEMMA WhenReadIsLast ==
    ASSUME NEW a, NEW q, Len(q) \in Nat
    PROVE  /\ \E f : Along(f, a, q, Len(q)) /\ WhenRead(a, q) = f[Len(q)]
           /\ \A f : Along(f, a, q, Len(q)) => WhenRead(a, q) = f[Len(q)]
<1> DEFINE IsReading(f) ==
               f = [i \in 0..Len(q) |->
                       IF i = 0 THEN a ELSE Obey(f[i - 1], q[i])]
           after == CHOOSE f : IsReading(f)
<1>1. WhenRead(a, q) = after[Len(q)]
  BY DEF WhenRead
<1>2. IsReading(after)
  BY AlongExists
<1> HIDE DEF after
<1>3. Along(after, a, q, Len(q))
  BY <1>2 DEF Along
<1>4. QED
  BY <1>1, <1>3, AlongUnique

-----------------------------------------------------------------------------
(* The queue with a message more or less, and another value to start from. *)

\* Nothing to read leaves the flag as it is.
LEMMA WhenReadEmpty ==
    ASSUME NEW a
    PROVE  WhenRead(a, <<>>) = a
<1>1. Len(<<>>) = 0
  OBVIOUS
<1>2. PICK f : Along(f, a, <<>>, 0) /\ WhenRead(a, <<>>) = f[0]
  BY <1>1, WhenReadIsLast
<1>3. QED
  BY <1>2 DEF Along

\* A message at the end is obeyed last.
LEMMA WhenReadAppend ==
    ASSUME NEW a, NEW S, NEW q \in Seq(S), NEW m \in S
    PROVE  WhenRead(a, Append(q, m)) = Obey(WhenRead(a, q), m)
<1> DEFINE n == Len(q)
           r == Append(q, m)
<1>1. n \in Nat /\ Len(r) = n + 1 /\ r[n + 1] = m
      /\ \A i \in 1..n : r[i] = q[i]
  BY LenProperties
<1>2. PICK f : Along(f, a, q, n) /\ WhenRead(a, q) = f[n]
  BY <1>1, WhenReadIsLast
<1> DEFINE g == [i \in 0..(n + 1) |-> IF i = n + 1 THEN Obey(f[n], m)
                                                    ELSE f[i]]
<1> HIDE DEF n, r
<1>3. Along(g, a, r, n + 1)
  <2>1. g[0] = a
    BY <1>1, <1>2 DEF Along
  <2>2. ASSUME NEW i \in 1..(n + 1)
        PROVE  g[i] = Obey(g[i - 1], r[i])
    <3>1. CASE i = n + 1
      BY <1>1, <3>1
    <3>2. CASE i \in 1..n
      <4>1. i \in 0..(n + 1) /\ i - 1 \in 0..(n + 1) /\ i # n + 1
            /\ i - 1 # n + 1
        BY <1>1, <3>2
      <4>2. g[i] = f[i] /\ g[i - 1] = f[i - 1]
        BY <4>1
      <4>3. f[i] = Obey(f[i - 1], q[i])
        BY <1>2, <3>2 DEF Along
      <4>4. QED
        BY <1>1, <3>2, <4>2, <4>3
    <3>3. QED
      BY <1>1, <3>1, <3>2
  <2>3. QED
    BY <2>1, <2>2 DEF Along
<1>4. g[n + 1] = Obey(f[n], m)
  BY <1>1
<1>5. WhenRead(a, r) = g[n + 1]
  <2> HIDE DEF g
  <2>1. Len(r) \in Nat
    BY <1>1
  <2>2. QED
    BY <1>1, <1>3, <2>1, WhenReadIsLast
<1>6. QED
  BY <1>2, <1>4, <1>5 DEF n, r

\* The message at the head is obeyed first.
LEMMA WhenReadHead ==
    ASSUME NEW a, NEW S, NEW q \in Seq(S), q # <<>>
    PROVE  WhenRead(a, q) = WhenRead(Obey(a, Head(q)), Tail(q))
<1> DEFINE n == Len(q)
           r == Tail(q)
           b == Obey(a, Head(q))
<1>1. n \in Nat \ {0} /\ Len(r) = n - 1 /\ Head(q) = q[1]
      /\ \A i \in 1..(n - 1) : r[i] = q[i + 1]
  BY HeadTailProperties, EmptySeq
<1>2. PICK f : Along(f, a, q, n) /\ WhenRead(a, q) = f[n]
  BY <1>1, WhenReadIsLast
<1> DEFINE g == [i \in 0..(n - 1) |-> f[i + 1]]
<1>3. f[1] = b
  BY <1>1, <1>2 DEF Along
<1> HIDE DEF n, r, b
<1>4. Along(g, b, r, n - 1)
  <2>1. g[0] = b
    BY <1>1, <1>3
  <2>2. ASSUME NEW i \in 1..(n - 1)
        PROVE  g[i] = Obey(g[i - 1], r[i])
    <3>1. g[i] = f[i + 1] /\ g[i - 1] = f[i] /\ i + 1 \in 1..n
          /\ (i + 1) - 1 = i
      BY <1>1
    <3>2. f[i + 1] = Obey(f[i], q[i + 1])
      BY <1>2, <3>1 DEF Along
    <3>3. QED
      BY <1>1, <3>1, <3>2
  <2>3. QED
    BY <2>1, <2>2 DEF Along
<1>5. g[n - 1] = f[n]
  BY <1>1
<1>6. WhenRead(b, r) = g[n - 1]
  <2> HIDE DEF g
  <2>1. Len(r) \in Nat
    BY <1>1
  <2>2. QED
    BY <1>1, <1>4, <2>1, WhenReadIsLast
<1>7. QED
  BY <1>2, <1>5, <1>6 DEF r, b

\* A fault in the queue makes them forget.
LEMMA FaultForgets ==
    ASSUME NEW a, NEW b, NEW S, NEW q \in Seq(S),
           Contains(q, "error_disabled")
    PROVE  WhenRead(a, q) = WhenRead(b, q)
<1> DEFINE n == Len(q)
<1>1. n \in Nat
  OBVIOUS
<1>2. PICK f : Along(f, a, q, n) /\ WhenRead(a, q) = f[n]
  BY <1>1, WhenReadIsLast
<1>3. PICK h : Along(h, b, q, n) /\ WhenRead(b, q) = h[n]
  BY <1>1, WhenReadIsLast
<1>4. PICK k \in 1..n : q[k] = "error_disabled"
  BY DEF Contains
<1> DEFINE g == [i \in 0..n |-> IF i < k THEN h[i] ELSE f[i]]
<1> HIDE DEF n
<1>5. Along(g, b, q, n)
  <2>1. g[0] = b
    BY <1>1, <1>3, <1>4 DEF Along
  <2>2. ASSUME NEW i \in 1..n
        PROVE  g[i] = Obey(g[i - 1], q[i])
    <3>1. i \in 0..n /\ i - 1 \in 0..n
      BY <1>1
    <3>2. f[i] = Obey(f[i - 1], q[i]) /\ h[i] = Obey(h[i - 1], q[i])
      BY <1>2, <1>3 DEF Along
    <3>3. CASE i < k
      <4>1. g[i] = h[i] /\ g[i - 1] = h[i - 1]
        BY <1>1, <3>1, <3>3
      <4>2. QED
        BY <3>2, <4>1
    <3>4. CASE i = k
      <4>1. g[i] = f[i]
        BY <3>1, <3>4
      <4>2. f[i] = FALSE /\ Obey(g[i - 1], q[i]) = FALSE
        BY <1>4, <3>2, <3>4 DEF Obey
      <4>3. QED
        BY <4>1, <4>2
    <3>5. CASE i > k
      <4>1. g[i] = f[i] /\ g[i - 1] = f[i - 1]
        BY <1>1, <3>1, <3>5
      <4>2. QED
        BY <3>2, <4>1
    <3>6. QED
      BY <1>1, <3>3, <3>4, <3>5
  <2>3. QED
    BY <2>1, <2>2 DEF Along
<1>6. g[n] = f[n]
  BY <1>1, <1>4
<1>7. WhenRead(b, q) = g[n]
  <2> HIDE DEF g
  <2>1. QED
    BY <1>1, <1>5, WhenReadIsLast DEF n
<1>8. QED
  BY <1>2, <1>6, <1>7

-----------------------------------------------------------------------------
(* How often a message stands in a queue with a message more or less.      *)

LEMMA CountOfEmpty ==
    ASSUME NEW m
    PROVE  Count(m, <<>>) = 0
<1>1. {i \in 1..Len(<<>>) : <<>>[i] = m} = {}
  OBVIOUS
<1>2. QED
  BY <1>1, FS_EmptySet DEF Count

\* The places of a message are finitely many.
LEMMA PlacesFinite ==
    ASSUME NEW m, NEW S, NEW q \in Seq(S)
    PROVE  /\ IsFiniteSet({i \in 1..Len(q) : q[i] = m})
           /\ Count(m, q) \in Nat
<1>1. IsFiniteSet(1..Len(q))
  BY FS_Interval
<1>2. IsFiniteSet({i \in 1..Len(q) : q[i] = m})
  BY <1>1, FS_Subset
<1>3. QED
  BY <1>2, FS_CardinalityType DEF Count

\* A message appended counts one more, if it is the one counted.
LEMMA CountOfAppend ==
    ASSUME NEW m, NEW S, NEW q \in Seq(S), NEW x \in S
    PROVE  Count(m, Append(q, x)) = Count(m, q) + IF x = m THEN 1 ELSE 0
<1> DEFINE n == Len(q)
           P == {i \in 1..n : q[i] = m}
           r == Append(q, x)
           R == {i \in 1..Len(r) : r[i] = m}
<1>1. n \in Nat /\ Len(r) = n + 1 /\ r[n + 1] = x
      /\ \A i \in 1..n : r[i] = q[i]
  BY LenProperties
<1>2. IsFiniteSet(P) /\ Cardinality(P) \in Nat
  BY PlacesFinite DEF Count
<1> HIDE DEF n, r
<1>3. R = IF x = m THEN P \cup {n + 1} ELSE P
  BY <1>1
<1>4. n + 1 \notin P
  BY <1>1
<1> HIDE DEF P, R
<1>5. Cardinality(P \cup {n + 1}) = Cardinality(P) + 1
  BY <1>2, <1>4, FS_AddElement
<1>6. Cardinality(R) = Cardinality(P) + IF x = m THEN 1 ELSE 0
  BY <1>2, <1>3, <1>5
<1>7. QED
  BY <1>6 DEF Count, n, P, r, R

\* A message taken counts one less, if it is the one counted.
LEMMA CountOfTail ==
    ASSUME NEW m, NEW S, NEW q \in Seq(S), q # <<>>
    PROVE  Count(m, Tail(q)) = Count(m, q) - IF Head(q) = m THEN 1 ELSE 0
<1> DEFINE n == Len(q)
           P == {i \in 1..n : q[i] = m}
           r == Tail(q)
           R == {i \in 1..Len(r) : r[i] = m}
           f == [i \in R |-> i + 1]
<1>1. n \in Nat \ {0} /\ Len(r) = n - 1 /\ Head(q) = q[1]
      /\ \A i \in 1..(n - 1) : r[i] = q[i + 1]
  BY HeadTailProperties, EmptySeq
<1>2. IsFiniteSet(P) /\ Cardinality(P) \in Nat
  BY PlacesFinite DEF Count
<1>3. IsFiniteSet(R)
  BY PlacesFinite, HeadTailProperties
<1> HIDE DEF n, r
<1>4. f \in Bijection(R, P \ {1})
  <2>1. f \in [R -> P \ {1}]
    BY <1>1
  <2>2. \A i, j \in R : f[i] = f[j] => i = j
    BY <1>1
  <2>3. \A p \in P \ {1} : p - 1 \in R /\ f[p - 1] = p
    BY <1>1
  <2> HIDE DEF f, P, R
  <2>4. \A p \in P \ {1} : \E i \in R : f[i] = p
    BY <2>3
  <2>5. QED
    BY <2>1, <2>2, <2>4
       DEF Bijection, Injection, IsInjective, Surjection
<1>5. 1 \in P <=> Head(q) = m
  BY <1>1
<1> HIDE DEF f, P, R
<1>6. Cardinality(R) = Cardinality(P \ {1})
  BY <1>3, <1>4, FS_Bijection DEF ExistsBijection
<1>7. Cardinality(P \ {1}) =
          IF 1 \in P THEN Cardinality(P) - 1 ELSE Cardinality(P)
  BY <1>2, FS_RemoveElement
<1>8. Cardinality(R) = Cardinality(P) - IF Head(q) = m THEN 1 ELSE 0
  BY <1>2, <1>5, <1>6, <1>7
<1>9. QED
  BY <1>8 DEF Count, n, P, r, R

-----------------------------------------------------------------------------
(* What a step makes of the queue of the dashboard.                        *)

\* A message is sent to the dashboard.
LEMMA QueueGrows ==
    ASSUME NEW q \in Seq(Messages), NEW m \in Messages
    PROVE  /\ Append(q, m) \in Seq(Messages)
           /\ Len(Append(q, m)) = Len(q) + 1
           /\ Append(q, m)[Len(q) + 1] = m
           /\ \A i \in 1..Len(q) : Append(q, m)[i] = q[i]
OBVIOUS

\* The dashboard takes a message.
LEMMA QueueShrinks ==
    ASSUME NEW q \in Seq(Messages), q # <<>>
    PROVE  /\ Head(q) = q[1] /\ Head(q) \in Messages
           /\ Tail(q) \in Seq(Messages)
           /\ Len(q) \in Nat \ {0}
           /\ Len(Tail(q)) = Len(q) - 1
           /\ \A i \in 1..(Len(q) - 1) : Tail(q)[i] = q[i + 1]
BY HeadTailProperties, EmptySeq

EngineMessages == {"ENGINE_OFF", "RESTART"}

\* A step adds at most one message to a queue; to the one of the dashboard a
\* member of S.
PowertrainGrows ==
    \/ to_powertrain' = to_powertrain
    \/ \E m \in Commands : to_powertrain' = Append(to_powertrain, m)

DashboardGrows(S) ==
    \/ to_dashboard' = to_dashboard
    \/ \E m \in S : to_dashboard' = Append(to_dashboard, m)

\* What is sent to the dashboard reaches it as it is, as nothing it knows, or
\* not at all.
LEMMA Reached ==
    ASSUME NEW m, NEW whole \in BOOLEAN, ReachDashboard(m, whole)
    PROVE  /\ DashboardGrows({m, "other"})
           /\ ~whole => DashboardGrows({"other"})
           /\ whole => to_dashboard' = Append(to_dashboard, m)
BY DEF ReachDashboard, DashboardGrows

\* A command lengthens both queues by at most one message, and none of the
\* engine's.
LEMMA CommandGrows ==
    ASSUME NEW m \in Commands, SendCommand(m)
    PROVE  PowertrainGrows /\ DashboardGrows(Messages \ EngineMessages)
<1>1. PICK atPowertrain, atDashboard \in BOOLEAN :
        /\ to_powertrain' = IF atPowertrain THEN Append(to_powertrain, m)
                                            ELSE to_powertrain
        /\ ReachDashboard(m, atDashboard)
  BY DEF SendCommand
<1>2. PowertrainGrows
  BY <1>1 DEF PowertrainGrows
<1>3. DashboardGrows({m, "other"})
  BY <1>1, Reached
<1>4. {m, "other"} \subseteq Messages \ EngineMessages
  BY DEF Commands, Messages, EngineMessages
<1>5. QED
  BY <1>2, <1>3, <1>4 DEF DashboardGrows

-----------------------------------------------------------------------------
(* The agreement of the two flags.                                         *)

\* A message that says nothing changes nothing, whether it arrives or not.
LEMMA NothingSaid ==
    ASSUME TypeOK, NEW m \in Messages \ Commands, DashboardGrows({m, "other"}),
           UNCHANGED start_stop_active
    PROVE  ActiveWhenRead' = ActiveWhenRead
<1>1. to_dashboard \in Seq(Messages)
  BY DEF TypeOK
<1>2. CASE to_dashboard' = to_dashboard
  BY <1>2 DEF ActiveWhenRead
<1>3. ASSUME NEW x \in {m, "other"}, to_dashboard' = Append(to_dashboard, x)
      PROVE  ActiveWhenRead' = ActiveWhenRead
  <2>1. x \in Messages \ Commands
    BY DEF Messages, Commands
  <2>2. ActiveWhenRead' = Obey(ActiveWhenRead, x)
    BY <1>1, <1>3, <2>1, WhenReadAppend DEF ActiveWhenRead
  <2>3. QED
    BY <2>1, <2>2 DEF Obey, Commands
<1>4. QED
  BY <1>2, <1>3 DEF DashboardGrows

\* A command that reaches both or neither keeps what they agree on, and a
\* fault that reaches both makes them agree.
LEMMA CommandKeepsAgreement ==
    ASSUME TypeOK, AgreeUnlessParted, NEW m \in Commands, SendCommand(m),
           UNCHANGED <<start_stop_manual, start_stop_active>>
    PROVE  AgreeUnlessParted' /\ parted' \in BOOLEAN
<1>1. PICK atPowertrain, atDashboard \in BOOLEAN :
        /\ to_powertrain' = IF atPowertrain THEN Append(to_powertrain, m)
                                            ELSE to_powertrain
        /\ ReachDashboard(m, atDashboard)
        /\ parted' = \/ atPowertrain # atDashboard
                     \/ parted /\ ~(atPowertrain /\ m = "error_disabled")
  BY DEF SendCommand
<1>2. /\ to_powertrain \in Seq(Commands) /\ to_dashboard \in Seq(Messages)
      /\ m \in Messages /\ "other" \in Messages \ Commands
  BY DEF TypeOK, Commands, Messages
<1>3. ASSUME ~parted'
      PROVE  ManualWhenRead' = ActiveWhenRead'
  <2>1. /\ atPowertrain = atDashboard
        /\ ~parted \/ (atPowertrain /\ m = "error_disabled")
    BY <1>1, <1>3
  <2>2. CASE atPowertrain
    <3>1. /\ to_powertrain' = Append(to_powertrain, m)
          /\ to_dashboard' = Append(to_dashboard, m)
      BY <1>1, <2>1, <2>2, Reached
    <3>2. ManualWhenRead' = Obey(ManualWhenRead, m)
      BY <1>2, <3>1, WhenReadAppend DEF ManualWhenRead
    <3>3. ActiveWhenRead' = Obey(ActiveWhenRead, m)
      BY <1>2, <3>1, WhenReadAppend DEF ActiveWhenRead
    <3>4. CASE m = "error_disabled"
      BY <3>2, <3>3, <3>4 DEF Obey
    <3>5. CASE ~parted
      <4>1. ManualWhenRead = ActiveWhenRead
        BY <3>5 DEF AgreeUnlessParted
      <4>2. QED
        BY <3>2, <3>3, <4>1
    <3>6. QED
      BY <2>1, <3>4, <3>5
  <2>3. CASE ~atPowertrain
    <3>1. /\ to_powertrain' = to_powertrain
          /\ DashboardGrows({"other"})
      BY <1>1, <2>1, <2>3, Reached
    <3>2. DashboardGrows({"other", "other"})
      BY <3>1
    <3>3. ManualWhenRead' = ManualWhenRead
      BY <3>1 DEF ManualWhenRead
    <3>4. ActiveWhenRead' = ActiveWhenRead
      BY <1>2, <3>2, NothingSaid
    <3>5. ManualWhenRead = ActiveWhenRead
      BY <2>1, <2>3 DEF AgreeUnlessParted
    <3>6. QED
      BY <3>3, <3>4, <3>5
  <2>4. QED
    BY <2>2, <2>3
<1>4. parted' \in BOOLEAN
  BY <1>1
<1>5. QED
  BY <1>3, <1>4 DEF AgreeUnlessParted

\* What only the dashboard gets is no command.
LEMMA ShowKeepsAgreement ==
    ASSUME TypeOK, AgreeUnlessParted, NEW m \in Messages \ Commands,
           DashboardGrows({m, "other"}),
           UNCHANGED <<to_powertrain, start_stop_manual, start_stop_active,
                       parted>>
    PROVE  AgreeUnlessParted'
<1>1. ManualWhenRead' = ManualWhenRead
  BY DEF ManualWhenRead
<1>2. ActiveWhenRead' = ActiveWhenRead
  BY NothingSaid
<1>3. QED
  BY <1>1, <1>2 DEF AgreeUnlessParted

\* Reading does not change what a flag will be.
LEMMA ReadKeepsManual ==
    ASSUME TypeOK, PowertrainRead
    PROVE  ManualWhenRead' = ManualWhenRead
<1>1. to_powertrain \in Seq(Commands) /\ to_powertrain # <<>>
  BY DEF TypeOK, PowertrainRead
<1>2. /\ start_stop_manual' = Obey(start_stop_manual, Head(to_powertrain))
      /\ to_powertrain' = Tail(to_powertrain)
  BY DEF PowertrainRead
<1>3. QED
  BY <1>1, <1>2, WhenReadHead DEF ManualWhenRead

\* What a message makes of the flags and of the rows of the dashboard.
LEMMA OneMessage ==
    ASSUME TypeOK, NEW m \in Messages, parse_input_received(m)
    PROVE  /\ start_stop_active' = Obey(start_stop_active, m)
           /\ error_system' = IF m = "error_disabled" THEN 1 ELSE error_system
           /\ system_row' = IF m # "press_start_stop" THEN system_row
                            ELSE IF start_stop_active' THEN "ON" ELSE "OFF"
           /\ engine_row' = engine_row_after(m)
           /\ num_deactivs' = num_deactivs + IF counts_stop(m) THEN 1 ELSE 0
<1>1. start_stop_active' = Obey(start_stop_active, m)
  BY DEF parse_input_received, process_user_commands, process_errors, Obey
<1>2. error_system' = IF m = "error_disabled" THEN 1 ELSE error_system
  BY DEF parse_input_received, process_errors
<1>3. system_row' = IF m # "press_start_stop" THEN system_row
                    ELSE IF start_stop_active' THEN "ON" ELSE "OFF"
  BY DEF parse_input_received, process_user_commands
<1>4. QED
  BY <1>1, <1>2, <1>3 DEF parse_input_received, process_engine_commands

LEMMA DashboardReadKeepsAgreement ==
    ASSUME TypeOK, AgreeUnlessParted, DashboardRead
    PROVE  AgreeUnlessParted'
<1> DEFINE m == Head(to_dashboard)
<1>1. /\ to_dashboard \in Seq(Messages) /\ to_dashboard # <<>>
      /\ to_dashboard' = Tail(to_dashboard)
      /\ UNCHANGED <<start_stop_manual, to_powertrain, parted>>
  BY DEF TypeOK, DashboardRead, powertrain, history
<1>2. m \in Messages
  BY <1>1, QueueShrinks
<1>3. start_stop_active' = Obey(start_stop_active, m)
  BY <1>2, OneMessage DEF DashboardRead
<1>4. ActiveWhenRead' = ActiveWhenRead
  BY <1>1, <1>3, WhenReadHead DEF ActiveWhenRead
<1>5. ManualWhenRead' = ManualWhenRead
  BY <1>1 DEF ManualWhenRead
<1>6. QED
  BY <1>1, <1>4, <1>5 DEF AgreeUnlessParted

\* A press that is spoilt parts the flags, unless a fault comes after it.
LEMMA SpoiltReadKeepsAgreement ==
    ASSUME TypeOK, AgreeUnlessParted, DashboardReadSpoilt
    PROVE  AgreeUnlessParted'
<1> DEFINE T == Tail(to_dashboard)
<1>1. /\ to_dashboard \in Seq(Messages) /\ to_dashboard # <<>>
      /\ to_dashboard' = T
      /\ UNCHANGED <<start_stop_manual, to_powertrain>>
      /\ parted' = (parted \/ ~Contains(T, "error_disabled"))
  BY DEF TypeOK, DashboardReadSpoilt, powertrain
<1>2. start_stop_active' = start_stop_active
  <2>1. start_stop_active' = Obey(start_stop_active, "other")
    BY OneMessage DEF DashboardReadSpoilt, Messages
  <2>2. QED
    BY <2>1 DEF Obey
<1>3. T \in Seq(Messages)
  BY <1>1, QueueShrinks
<1>4. ASSUME ~parted'
      PROVE  ManualWhenRead' = ActiveWhenRead'
  <2>1. ~parted /\ Contains(T, "error_disabled")
    BY <1>1, <1>4
  <2>2. ActiveWhenRead
          = WhenRead(Obey(start_stop_active, Head(to_dashboard)), T)
    BY <1>1, WhenReadHead DEF ActiveWhenRead
  <2>3. ActiveWhenRead' = WhenRead(start_stop_active, T)
    BY <1>1, <1>2 DEF ActiveWhenRead
  <2>4. ActiveWhenRead' = ActiveWhenRead
    BY <1>3, <2>1, <2>2, <2>3, FaultForgets
  <2>5. ManualWhenRead' = ManualWhenRead
    BY <1>1 DEF ManualWhenRead
  <2>6. QED
    BY <2>1, <2>4, <2>5 DEF AgreeUnlessParted
<1>5. QED
  BY <1>4 DEF AgreeUnlessParted

-----------------------------------------------------------------------------
(* The engine row and the count of the stops.                              *)

\* The row follows the engine through q: the predicate of EngineRowFollows,
\* for any queue, row and state of the engine.
Follows(row, off, q) ==
    LET C == {i \in 1..Len(q) : q[i] \in EngineMessages}
    IN  /\ C = {} => (row = "OFF" <=> off)
        /\ \A last \in C :
              (\A i \in C : i <= last) => (q[last] = "ENGINE_OFF" <=> off)

LEMMA RowFollows ==
    EngineRowFollows
        <=> (error_system = 0 /\ ~unheard
               => Follows(engine_row, engine_off, to_dashboard))
BY DEF EngineRowFollows, Follows, EngineCommands, EngineMessages

\* A message that is no engine command changes nothing at the end of the
\* queue.
LEMMA FollowsAppend ==
    ASSUME NEW q \in Seq(Messages), NEW m \in Messages, NEW row, NEW off \in BOOLEAN,
           Follows(row, off, q), m \notin EngineMessages
    PROVE  Follows(row, off, Append(q, m))
<1> DEFINE r == Append(q, m)
           C == {i \in 1..Len(q) : q[i] \in EngineMessages}
           D == {i \in 1..Len(r) : r[i] \in EngineMessages}
<1>1. /\ Len(q) \in Nat /\ Len(r) = Len(q) + 1 /\ r[Len(q) + 1] = m
      /\ \A i \in 1..Len(q) : r[i] = q[i]
  BY QueueGrows, LenProperties
<1> HIDE DEF r
<1>2. D = C
  BY <1>1
<1>3. \A i \in C : r[i] = q[i]
  BY <1>1
<1> HIDE DEF C, D
<1>4. /\ D = {} => (row = "OFF" <=> off)
      /\ \A last \in D :
            (\A i \in D : i <= last) => (r[last] = "ENGINE_OFF" <=> off)
  BY <1>2, <1>3 DEF Follows, C
<1>5. QED
  BY <1>4 DEF Follows, D, r

\* The command that goes with the new state of the engine is the last one.
LEMMA FollowsCommand ==
    ASSUME NEW q \in Seq(Messages), NEW m \in Messages, NEW row, NEW off \in BOOLEAN,
           m \in EngineMessages, m = "ENGINE_OFF" <=> off
    PROVE  Follows(row, off, Append(q, m))
<1> DEFINE r == Append(q, m)
           D == {i \in 1..Len(r) : r[i] \in EngineMessages}
<1>1. Len(q) \in Nat /\ Len(r) = Len(q) + 1 /\ r[Len(q) + 1] = m
  BY QueueGrows, LenProperties
<1> HIDE DEF r
<1>2. Len(q) + 1 \in D /\ D \subseteq 1..(Len(q) + 1)
  BY <1>1
<1>3. ASSUME NEW last \in D, \A i \in D : i <= last
      PROVE  last = Len(q) + 1
  BY <1>1, <1>2, <1>3
<1> HIDE DEF D
<1>4. /\ D # {}
      /\ \A last \in D :
            (\A i \in D : i <= last) => (r[last] = "ENGINE_OFF" <=> off)
  BY <1>1, <1>2, <1>3
<1>5. QED
  BY <1>4 DEF Follows, D, r

\* The row shows the command that is taken, or stays.
LEMMA FollowsTail ==
    ASSUME NEW q \in Seq(Messages), q # <<>>, NEW row, NEW off \in BOOLEAN,
           NEW row1, Follows(row, off, q),
           Head(q) \in EngineMessages =>
               (row1 = "OFF" <=> Head(q) = "ENGINE_OFF"),
           Head(q) \notin EngineMessages => row1 = row
    PROVE  Follows(row1, off, Tail(q))
<1> DEFINE r == Tail(q)
           C == {i \in 1..Len(q) : q[i] \in EngineMessages}
           D == {i \in 1..Len(r) : r[i] \in EngineMessages}
<1>1. /\ Len(q) \in Nat \ {0} /\ Len(r) = Len(q) - 1 /\ Head(q) = q[1]
      /\ \A i \in 1..(Len(q) - 1) : r[i] = q[i + 1]
  BY QueueShrinks
<1> HIDE DEF r
<1>2. \A i \in D : i + 1 \in C /\ r[i] = q[i + 1] /\ i \in Nat /\ i >= 1
  BY <1>1
<1>3. \A i \in C : i = 1 \/ i - 1 \in D
  BY <1>1
<1>4. 1 \in C <=> Head(q) \in EngineMessages
  BY <1>1
<1>5. C \subseteq Nat
  OBVIOUS
<1> HIDE DEF C, D
<1>6. ASSUME NEW last \in D, \A i \in D : i <= last
      PROVE  r[last] = "ENGINE_OFF" <=> off
  <2>1. \A i \in C : i <= last + 1
    <3> SUFFICES ASSUME NEW i \in C
                 PROVE  i <= last + 1
      OBVIOUS
    <3>1. CASE i = 1
      BY <1>2, <3>1
    <3>2. CASE i - 1 \in D
      <4>1. i - 1 <= last /\ last \in Nat /\ i \in Nat
        BY <1>2, <1>5, <1>6, <3>2
      <4>2. QED
        BY <4>1
    <3>3. QED
      BY <1>3, <3>1, <3>2
  <2>2. last + 1 \in C /\ r[last] = q[last + 1]
    BY <1>2
  <2>3. q[last + 1] = "ENGINE_OFF" <=> off
    BY <2>1, <2>2 DEF Follows, C
  <2>4. QED
    BY <2>2, <2>3
<1>7. ASSUME D = {}
      PROVE  row1 = "OFF" <=> off
  <2>1. C \subseteq {1}
    BY <1>3, <1>7
  <2>2. CASE 1 \in C
    <3>1. \A i \in C : i <= 1
      BY <2>1
    <3>2. q[1] = "ENGINE_OFF" <=> off
      BY <2>2, <3>1 DEF Follows, C
    <3>3. QED
      BY <1>1, <1>4, <2>2, <3>2
  <2>3. CASE 1 \notin C
    <3>1. C = {}
      BY <2>1, <2>3
    <3>2. row = "OFF" <=> off
      BY <3>1 DEF Follows, C
    <3>3. QED
      BY <1>4, <2>3, <3>2
  <2>4. QED
    BY <2>2, <2>3
<1>8. QED
  BY <1>6, <1>7 DEF Follows, D, r

\* A step of the dashboard: the row follows, and the count takes over what
\* leaves the queue.
LEMMA DashboardReadKeepsPanel ==
    ASSUME IInv, DashboardRead
    PROVE  EngineRowFollows' /\ RowAndFlag' /\ StopsCounted'
           /\ num_deactivs' \in 0..stops' /\ engine_row' \in {"ON", "OFF", "ERR"}
<1> DEFINE m == Head(to_dashboard)
<1>1. /\ TypeOK
      /\ to_dashboard \in Seq(Messages) /\ to_dashboard # <<>>
      /\ to_dashboard' = Tail(to_dashboard)
      /\ UNCHANGED <<engine_off, stops, missed_stops, unheard>>
      /\ engine_off \in BOOLEAN /\ missed_stops \in Nat
      /\ error_system \in {0, 1} /\ start_stop_active \in BOOLEAN
      /\ engine_row \in {"ON", "OFF", "ERR"}
      /\ num_deactivs \in 0..stops /\ stops \in Nat
  BY DEF IInv, TypeOK, DashboardRead, powertrain, history
<1>2. m \in Messages
  BY <1>1, QueueShrinks
<1>3. /\ start_stop_active' = Obey(start_stop_active, m)
      /\ error_system' = IF m = "error_disabled" THEN 1 ELSE error_system
      /\ system_row' = IF m # "press_start_stop" THEN system_row
                       ELSE IF start_stop_active' THEN "ON" ELSE "OFF"
      /\ engine_row' = engine_row_after(m)
      /\ num_deactivs' = num_deactivs + IF counts_stop(m) THEN 1 ELSE 0
  BY <1>1, <1>2, OneMessage DEF DashboardRead
<1>4. EngineRowFollows'
  <2> SUFFICES ASSUME error_system' = 0, ~unheard'
               PROVE  Follows(engine_row', engine_off', to_dashboard')
    BY DEF EngineRowFollows, Follows, EngineCommands, EngineMessages
  <2>1. error_system = 0 /\ ~unheard
    BY <1>1, <1>3
  <2>2. Follows(engine_row, engine_off, to_dashboard)
    BY <2>1, RowFollows DEF IInv
  <2>3. m \in EngineMessages => (engine_row' = "OFF" <=> m = "ENGINE_OFF")
    BY <1>3, <2>1 DEF engine_row_after, EngineMessages
  <2>4. m \notin EngineMessages => engine_row' = engine_row
    BY <1>3, <2>1 DEF engine_row_after, EngineMessages
  <2>5. Follows(engine_row', engine_off, Tail(to_dashboard))
    <3> HIDE DEF m
    <3>1. QED
      BY <1>1, <2>2, <2>3, <2>4, FollowsTail DEF m
  <2>6. QED
    BY <1>1, <2>5
<1>5. RowAndFlag'
  <2>1. CASE m = "press_start_stop"
    BY <1>3, <2>1 DEF RowAndFlag
  <2>2. CASE m = "error_disabled"
    <3>1. start_stop_active' = FALSE /\ error_system' = 1
      BY <1>3, <2>2 DEF Obey
    <3>2. QED
      BY <3>1 DEF RowAndFlag
  <2>3. CASE m \notin Commands
    <3>1. UNCHANGED <<start_stop_active, error_system, system_row>>
      BY <1>3, <2>3 DEF Obey, Commands
    <3>2. QED
      BY <3>1 DEF IInv, RowAndFlag
  <2>4. QED
    BY <2>1, <2>2, <2>3 DEF Commands
<1>6. StopsCounted' /\ num_deactivs' \in 0..stops'
  <2> DEFINE before == Count("ENGINE_OFF", to_dashboard)
             after == Count("ENGINE_OFF", Tail(to_dashboard))
  <2>1. before \in Nat /\ after \in Nat
        /\ after = before - IF m = "ENGINE_OFF" THEN 1 ELSE 0
    BY <1>1, PlacesFinite, CountOfTail, QueueShrinks
  <2>2. error_system = 0 => num_deactivs + before + missed_stops = stops
    BY DEF IInv, StopsCounted
  <2> HIDE DEF before, after
  <2>3. error_system = 0 => num_deactivs' + after + missed_stops = stops'
    BY <1>1, <1>3, <2>1, <2>2 DEF counts_stop
  <2>4. num_deactivs' \in 0..stops'
    BY <1>1, <1>3, <2>1, <2>3 DEF counts_stop
  <2>5. error_system' = 0 => num_deactivs' + after + missed_stops' = stops'
    BY <1>1, <1>3, <2>3
  <2>6. StopsCounted'
    BY <1>1, <2>5 DEF StopsCounted, after
  <2>7. QED
    BY <2>4, <2>6
<1>7. engine_row' \in {"ON", "OFF", "ERR"}
  BY <1>1, <1>3 DEF engine_row_after
<1>8. QED
  BY <1>4, <1>5, <1>6, <1>7

\* A spoilt press is no command: it leaves the rows and the count alone, but
\* for the fault there is already.
LEMMA SpoiltReadKeepsPanel ==
    ASSUME IInv, DashboardReadSpoilt
    PROVE  EngineRowFollows' /\ RowAndFlag' /\ StopsCounted'
           /\ num_deactivs' \in 0..stops' /\ engine_row' \in {"ON", "OFF", "ERR"}
           /\ UNCHANGED <<start_stop_active, error_system, system_row>>
<1>1. /\ TypeOK
      /\ to_dashboard \in Seq(Messages) /\ to_dashboard # <<>>
      /\ Head(to_dashboard) = "press_start_stop"
      /\ to_dashboard' = Tail(to_dashboard)
      /\ UNCHANGED <<engine_off, stops, missed_stops, unheard>>
      /\ engine_off \in BOOLEAN /\ missed_stops \in Nat
      /\ error_system \in {0, 1} /\ engine_row \in {"ON", "OFF", "ERR"}
      /\ num_deactivs \in 0..stops /\ stops \in Nat
  BY DEF IInv, TypeOK, DashboardReadSpoilt, powertrain
<1>2. /\ start_stop_active' = Obey(start_stop_active, "other")
      /\ error_system' = error_system
      /\ system_row' = system_row
      /\ engine_row' = engine_row_after("other")
      /\ num_deactivs' = num_deactivs + IF counts_stop("other") THEN 1 ELSE 0
  BY <1>1, OneMessage DEF DashboardReadSpoilt, Messages
<1>3. start_stop_active' = start_stop_active /\ num_deactivs' = num_deactivs
  BY <1>1, <1>2 DEF Obey, counts_stop
<1>4. engine_row' = IF error_system = 1 THEN "ERR" ELSE engine_row
  BY <1>1, <1>2 DEF engine_row_after
<1>5. EngineRowFollows'
  <2> SUFFICES ASSUME error_system' = 0, ~unheard'
               PROVE  Follows(engine_row', engine_off', to_dashboard')
    BY DEF EngineRowFollows, Follows, EngineCommands, EngineMessages
  <2>1. Follows(engine_row, engine_off, to_dashboard)
    BY <1>1, <1>2, RowFollows DEF IInv
  <2>2. Head(to_dashboard) \notin EngineMessages /\ engine_row' = engine_row
    BY <1>1, <1>2, <1>4 DEF EngineMessages
  <2>3. Follows(engine_row', engine_off, Tail(to_dashboard))
    BY <1>1, <2>1, <2>2, FollowsTail
  <2>4. QED
    BY <1>1, <2>3
<1>6. RowAndFlag'
  BY <1>2, <1>3 DEF IInv, RowAndFlag
<1>7. Count("ENGINE_OFF", Tail(to_dashboard))
          = Count("ENGINE_OFF", to_dashboard)
  <2>1. Count("ENGINE_OFF", to_dashboard) \in Nat
    BY <1>1, PlacesFinite
  <2>2. Count("ENGINE_OFF", Tail(to_dashboard))
          = Count("ENGINE_OFF", to_dashboard)
              - IF Head(to_dashboard) = "ENGINE_OFF" THEN 1 ELSE 0
    BY <1>1, CountOfTail
  <2>3. QED
    BY <1>1, <2>1, <2>2
<1>8. StopsCounted'
  BY <1>1, <1>2, <1>3, <1>7 DEF IInv, StopsCounted
<1>9. QED
  BY <1>1, <1>2, <1>3, <1>4, <1>5, <1>6, <1>8

\* What is added is no engine command: the stops on their way stay as many.
LEMMA NoStopAdded ==
    ASSUME TypeOK, DashboardGrows(Messages \ EngineMessages)
    PROVE  Count("ENGINE_OFF", to_dashboard')
             = Count("ENGINE_OFF", to_dashboard)
<1>1. to_dashboard \in Seq(Messages)
  BY DEF TypeOK
<1>2. Count("ENGINE_OFF", to_dashboard) \in Nat
  BY <1>1, PlacesFinite
<1>3. ASSUME NEW m \in Messages \ EngineMessages,
             to_dashboard' = Append(to_dashboard, m)
      PROVE  Count("ENGINE_OFF", to_dashboard')
               = Count("ENGINE_OFF", to_dashboard)
  <2>1. m # "ENGINE_OFF"
    BY DEF EngineMessages
  <2>2. Count("ENGINE_OFF", Append(to_dashboard, m))
          = Count("ENGINE_OFF", to_dashboard)
              + IF m = "ENGINE_OFF" THEN 1 ELSE 0
    BY <1>1, CountOfAppend
  <2>3. QED
    BY <1>2, <1>3, <2>1, <2>2
<1>4. QED
  BY <1>3 DEF DashboardGrows

\* A message for the dashboard that is no engine command.
LEMMA SendKeepsPanel ==
    ASSUME IInv, DashboardGrows(Messages \ EngineMessages),
           UNCHANGED <<dashboard, engine_off, stops, missed_stops, unheard>>
    PROVE  EngineRowFollows' /\ RowAndFlag' /\ StopsCounted'
<1>1. /\ TypeOK /\ to_dashboard \in Seq(Messages) /\ engine_off \in BOOLEAN
      /\ UNCHANGED <<start_stop_active, error_system, system_row, engine_row,
                     num_deactivs>>
  BY DEF IInv, TypeOK, dashboard, actuators, panel_dash
<1>2. EngineRowFollows'
  <2> SUFFICES ASSUME error_system' = 0, ~unheard'
               PROVE  Follows(engine_row', engine_off', to_dashboard')
    BY DEF EngineRowFollows, Follows, EngineCommands, EngineMessages
  <2>1. Follows(engine_row, engine_off, to_dashboard)
    BY <1>1, RowFollows DEF IInv
  <2>2. CASE to_dashboard' = to_dashboard
    BY <1>1, <2>1, <2>2
  <2>3. ASSUME NEW m \in Messages \ EngineMessages,
               to_dashboard' = Append(to_dashboard, m)
        PROVE  Follows(engine_row', engine_off', to_dashboard')
    <3>1. Follows(engine_row, engine_off, Append(to_dashboard, m))
      BY <1>1, <2>1, FollowsAppend
    <3>2. QED
      BY <1>1, <2>3, <3>1
  <2>4. QED
    BY <2>2, <2>3 DEF DashboardGrows
<1>3. RowAndFlag'
  BY <1>1 DEF IInv, RowAndFlag
<1>4. Count("ENGINE_OFF", to_dashboard') = Count("ENGINE_OFF", to_dashboard)
  BY <1>1, NoStopAdded
<1>5. StopsCounted'
  BY <1>1, <1>4 DEF IInv, StopsCounted
<1>6. QED
  BY <1>2, <1>3, <1>5

-----------------------------------------------------------------------------
(* The invariant.                                                          *)

\* What TypeOK and RoomToAbort say of the two queues.
QueuesOK ==
    /\ to_powertrain \in Seq(Commands)
    /\ to_dashboard \in Seq(Messages)
    /\ Len(to_powertrain) <= MaxBus + 1
    /\ Len(to_dashboard) <= MaxBus + 1
    /\ RoomToAbort

\* The queues are typed and have room.
LEMMA QueuesAreOK ==
    ASSUME IInv
    PROVE  /\ QueuesOK
           /\ Len(to_powertrain) \in Nat /\ Len(to_dashboard) \in Nat
           /\ MaxBus \in Nat \ {0} /\ MaxStops \in Nat
BY BoundsAssumption, LenProperties DEF IInv, TypeOK, QueuesOK

\* A message makes each queue longer by one at most.
LEMMA OneLonger ==
    ASSUME IInv, PowertrainGrows, DashboardGrows(Messages)
    PROVE  /\ to_powertrain' \in Seq(Commands)
           /\ Len(to_powertrain') \in Nat
           /\ Len(to_powertrain') <= Len(to_powertrain) + 1
           /\ to_dashboard' \in Seq(Messages)
           /\ Len(to_dashboard') \in Nat
           /\ Len(to_dashboard') <= Len(to_dashboard) + 1
<1>1. /\ to_powertrain \in Seq(Commands) /\ to_dashboard \in Seq(Messages)
      /\ Len(to_powertrain) \in Nat /\ Len(to_dashboard) \in Nat
  BY QueuesAreOK DEF QueuesOK
<1>2. /\ to_powertrain' \in Seq(Commands)
      /\ Len(to_powertrain') \in Nat
      /\ Len(to_powertrain') <= Len(to_powertrain) + 1
  <2>1. CASE to_powertrain' = to_powertrain
    BY <1>1, <2>1
  <2>2. ASSUME NEW m \in Commands, to_powertrain' = Append(to_powertrain, m)
        PROVE  /\ to_powertrain' \in Seq(Commands)
               /\ Len(to_powertrain') = Len(to_powertrain) + 1
    BY <1>1, <2>2
  <2>3. QED
    BY <1>1, <2>1, <2>2 DEF PowertrainGrows
<1>3. /\ to_dashboard' \in Seq(Messages)
      /\ Len(to_dashboard') \in Nat
      /\ Len(to_dashboard') <= Len(to_dashboard) + 1
  <2>1. CASE to_dashboard' = to_dashboard
    BY <1>1, <2>1
  <2>2. ASSUME NEW m \in Messages, to_dashboard' = Append(to_dashboard, m)
        PROVE  /\ to_dashboard' \in Seq(Messages)
               /\ Len(to_dashboard') = Len(to_dashboard) + 1
    BY <1>1, <2>2, QueueGrows
  <2>3. QED
    BY <1>1, <2>1, <2>2 DEF DashboardGrows
<1>4. QED
  BY <1>2, <1>3

\* A message that needs room finds it.
LEMMA SendQueues ==
    ASSUME IInv, RoomOnBus, PowertrainGrows, DashboardGrows(Messages)
    PROVE  QueuesOK'
<1>1. /\ Len(to_powertrain) < MaxBus /\ Len(to_dashboard) < MaxBus
      /\ Len(to_powertrain) \in Nat /\ Len(to_dashboard) \in Nat
      /\ MaxBus \in Nat
  BY QueuesAreOK DEF RoomOnBus
<1>2. QED
  BY <1>1, OneLonger DEF QueuesOK, RoomToAbort

\* A command of the driver or of the BCM.
LEMMA CommandStep ==
    ASSUME IInv, NEW m \in Commands, RoomOnBus, SendCommand(m),
           UNCHANGED <<dashboard, powertrain, stops, missed_stops, unheard>>,
           bcm_running' \in BOOLEAN
    PROVE  IInv'
<1>1. PowertrainGrows /\ DashboardGrows(Messages \ EngineMessages)
      /\ DashboardGrows(Messages)
  BY CommandGrows DEF DashboardGrows
<1>2. UNCHANGED <<start_stop_active, error_system, system_row, engine_row,
                  num_deactivs, start_stop_manual, engine_off, giving_up,
                  stops, missed_stops, unheard>>
  BY DEF dashboard, actuators, panel_dash, powertrain
<1>3. QueuesOK'
  BY <1>1, SendQueues
<1>4. AgreeUnlessParted' /\ parted' \in BOOLEAN
  BY <1>2, CommandKeepsAgreement DEF IInv
<1>5. EngineRowFollows' /\ RowAndFlag' /\ StopsCounted'
  BY <1>1, <1>2, SendKeepsPanel
<1>6. TypeOK'
  BY <1>2, <1>3, <1>4 DEF IInv, TypeOK, QueuesOK
<1>7. QED
  BY <1>3, <1>4, <1>5, <1>6 DEF IInv, QueuesOK

\* What is shown by the dashboard only, and is no engine command.
LEMMA ShowStep ==
    ASSUME IInv, NEW m \in Messages \ (Commands \cup EngineMessages),
           NEW whole \in BOOLEAN, RoomOnBus, SendDashboard(m, whole),
           UNCHANGED <<dashboard, start_stop_manual, engine_off, bcm_running,
                       stops, missed_stops, unheard>>,
           giving_up' \in BOOLEAN
    PROVE  IInv'
<1>1. /\ DashboardGrows({m, "other"}) /\ DashboardGrows(Messages)
      /\ DashboardGrows(Messages \ EngineMessages)
      /\ PowertrainGrows
  <2>1. DashboardGrows({m, "other"}) /\ to_powertrain' = to_powertrain
    BY Reached DEF SendDashboard
  <2>2. {m, "other"} \subseteq Messages \ EngineMessages
    BY DEF Messages, EngineMessages
  <2>3. QED
    BY <2>1, <2>2 DEF DashboardGrows, PowertrainGrows
<1>2. UNCHANGED <<start_stop_active, error_system, system_row, engine_row,
                  num_deactivs, to_powertrain, parted>>
  BY DEF SendDashboard, dashboard, actuators, panel_dash
<1>3. QueuesOK'
  BY <1>1, SendQueues
<1>4. AgreeUnlessParted'
  BY <1>1, <1>2, ShowKeepsAgreement DEF IInv
<1>5. EngineRowFollows' /\ RowAndFlag' /\ StopsCounted'
  BY <1>1, SendKeepsPanel
<1>6. TypeOK'
  BY <1>2, <1>3 DEF IInv, TypeOK, QueuesOK
<1>7. QED
  BY <1>3, <1>4, <1>5, <1>6 DEF IInv, QueuesOK

\* An engine command, whether it reaches the dashboard or not: it is no
\* command of the activation, and if it does, the row will follow it.
LEMMA EngineCommandSent ==
    ASSUME IInv, NEW m \in EngineMessages, NEW whole \in BOOLEAN, RoomOnBus,
           SendDashboard(m, whole), unheard' = ~whole,
           m = "ENGINE_OFF" <=> engine_off', engine_off' \in BOOLEAN,
           UNCHANGED <<dashboard, start_stop_manual>>
    PROVE  /\ QueuesOK' /\ AgreeUnlessParted' /\ EngineRowFollows'
           /\ RowAndFlag'
<1>1. m \in Messages \ Commands /\ "other" \in Messages
  BY DEF Commands, Messages, EngineMessages
<1>2. DashboardGrows({m, "other"}) /\ UNCHANGED <<to_powertrain, parted>>
  BY Reached DEF SendDashboard
<1>3. DashboardGrows(Messages) /\ PowertrainGrows
  BY <1>1, <1>2 DEF DashboardGrows, PowertrainGrows
<1>4. UNCHANGED <<start_stop_active, error_system, system_row, engine_row>>
  BY DEF dashboard, actuators, panel_dash
<1>5. QueuesOK'
  BY <1>3, SendQueues
<1>6. AgreeUnlessParted'
  BY <1>1, <1>2, <1>4, ShowKeepsAgreement DEF IInv
<1>7. EngineRowFollows'
  <2>1. ASSUME ~unheard'
        PROVE  Follows(engine_row', engine_off', to_dashboard')
    <3>1. to_dashboard' = Append(to_dashboard, m)
      BY <2>1, Reached DEF SendDashboard
    <3>2. to_dashboard \in Seq(Messages) /\ m \in Messages
      BY <1>1 DEF IInv, TypeOK
    <3>3. Follows(engine_row', engine_off', Append(to_dashboard, m))
      BY <3>2, FollowsCommand
    <3>4. QED
      BY <3>1, <3>3
  <2>2. QED
    BY <2>1 DEF EngineRowFollows, Follows, EngineCommands, EngineMessages
<1>8. RowAndFlag'
  BY <1>4 DEF IInv, RowAndFlag
<1>9. QED
  BY <1>5, <1>6, <1>7, <1>8

\* The stop of the engine: one stop more is on its way to the count, or is
\* missed by the dashboard.
LEMMA StopStep ==
    ASSUME IInv, PowertrainStop
    PROVE  IInv'
<1>1. PICK whole \in BOOLEAN :
        /\ SendDashboard("ENGINE_OFF", whole)
        /\ unheard' = ~whole
        /\ missed_stops' = missed_stops + IF whole THEN 0 ELSE 1
  BY DEF PowertrainStop
<1>2. /\ UNCHANGED <<start_stop_active, error_system, system_row, engine_row,
                     num_deactivs, start_stop_manual, giving_up, bcm_running,
                     parted>>
      /\ engine_off' = TRUE /\ stops' = stops + 1 /\ stops < MaxStops
      /\ ReachDashboard("ENGINE_OFF", whole)
  BY <1>1 DEF PowertrainStop, SendDashboard, dashboard, actuators, panel_dash
<1>3. "ENGINE_OFF" \in EngineMessages /\ "ENGINE_OFF" \in Messages
  BY DEF EngineMessages, Messages
<1>4. /\ QueuesOK' /\ AgreeUnlessParted' /\ EngineRowFollows' /\ RowAndFlag'
  BY <1>1, <1>2, <1>3, EngineCommandSent DEF PowertrainStop
<1>5. /\ to_dashboard \in Seq(Messages) /\ TypeOK
      /\ num_deactivs \in 0..stops /\ missed_stops \in 0..stops
      /\ stops \in 0..MaxStops /\ MaxStops \in Nat
  BY QueuesAreOK DEF IInv, TypeOK
<1>6. StopsCounted'
  <2> DEFINE before == Count("ENGINE_OFF", to_dashboard)
             after == Count("ENGINE_OFF", to_dashboard')
  <2>1. before \in Nat
    BY <1>5, PlacesFinite
  <2>2. after = before + IF whole THEN 1 ELSE 0
    <3>1. CASE whole
      <4>1. to_dashboard' = Append(to_dashboard, "ENGINE_OFF")
        BY <1>2, <3>1, Reached
      <4>2. QED
        BY <1>3, <1>5, <2>1, <3>1, <4>1, CountOfAppend
    <3>2. CASE ~whole
      <4>1. DashboardGrows({"other"})
        BY <1>2, <3>2, Reached
      <4>2. DashboardGrows(Messages \ EngineMessages)
        BY <4>1 DEF DashboardGrows, Messages, EngineMessages
      <4>3. after = before
        BY <1>5, <4>2, NoStopAdded
      <4>4. QED
        BY <2>1, <3>2, <4>3
    <3>3. QED
      BY <3>1, <3>2
  <2>3. error_system = 0 => num_deactivs + before + missed_stops = stops
    BY DEF IInv, StopsCounted
  <2> HIDE DEF before, after
  <2>4. missed_stops' = missed_stops + IF whole THEN 0 ELSE 1
    BY <1>1
  <2>5. error_system' = 0 => num_deactivs' + after + missed_stops' = stops'
    BY <1>2, <1>5, <2>1, <2>2, <2>3, <2>4
  <2>6. QED
    BY <2>5 DEF StopsCounted, after
<1>7. TypeOK'
  <2>1. /\ stops' \in 0..MaxStops /\ num_deactivs' \in 0..stops'
        /\ missed_stops' \in 0..stops' /\ unheard' \in BOOLEAN
    BY <1>1, <1>2, <1>5
  <2>2. QED
    BY <1>2, <1>4, <2>1 DEF IInv, TypeOK, QueuesOK
<1>8. QED
  BY <1>4, <1>6, <1>7 DEF IInv, QueuesOK

LEMMA RestartStep ==
    ASSUME IInv, PowertrainRestart
    PROVE  IInv'
<1>1. PICK whole \in BOOLEAN :
        SendDashboard("RESTART", whole) /\ unheard' = ~whole
  BY DEF PowertrainRestart
<1>2. /\ UNCHANGED <<start_stop_active, error_system, system_row, engine_row,
                     num_deactivs, start_stop_manual, giving_up, bcm_running,
                     stops, missed_stops, parted>>
      /\ engine_off' = FALSE
      /\ ReachDashboard("RESTART", whole)
  BY <1>1
     DEF PowertrainRestart, SendDashboard, dashboard, actuators, panel_dash
<1>3. "RESTART" \in EngineMessages /\ "RESTART" \in Messages
      /\ "other" \in Messages \ EngineMessages
  BY DEF EngineMessages, Messages
<1>4. /\ QueuesOK' /\ AgreeUnlessParted' /\ EngineRowFollows' /\ RowAndFlag'
  BY <1>1, <1>2, <1>3, EngineCommandSent DEF PowertrainRestart
<1>5. to_dashboard \in Seq(Messages) /\ TypeOK
  BY DEF IInv, TypeOK
<1>6. Count("ENGINE_OFF", to_dashboard') = Count("ENGINE_OFF", to_dashboard)
  <2>1. Count("ENGINE_OFF", to_dashboard) \in Nat
    BY <1>5, PlacesFinite
  <2>2. CASE whole
    <3>1. to_dashboard' = Append(to_dashboard, "RESTART")
      BY <1>2, <2>2, Reached
    <3>2. QED
      BY <1>3, <1>5, <2>1, <3>1, CountOfAppend
  <2>3. CASE ~whole
    <3>1. DashboardGrows({"other"})
      BY <1>2, <2>3, Reached
    <3>2. DashboardGrows(Messages \ EngineMessages)
      BY <1>3, <3>1 DEF DashboardGrows
    <3>3. QED
      BY <1>5, <3>2, NoStopAdded
  <2>4. QED
    BY <2>2, <2>3
<1>7. StopsCounted'
  BY <1>2, <1>6 DEF IInv, StopsCounted
<1>8. TypeOK'
  BY <1>1, <1>2, <1>4 DEF IInv, TypeOK, QueuesOK
<1>9. QED
  BY <1>4, <1>7, <1>8 DEF IInv, QueuesOK

\* A restart is given up: the first message needs room, and leaves some for
\* the second.
LEMMA GiveUpStep ==
    ASSUME IInv, PowertrainGiveUp
    PROVE  IInv'
<1>1. "error_battery" \in Messages \ (Commands \cup EngineMessages)
  BY DEF Commands, Messages, EngineMessages
<1>2. PICK whole \in BOOLEAN : SendDashboard("error_battery", whole)
  BY DEF PowertrainGiveUp
<1>3. QED
  BY <1>1, <1>2, ShowStep DEF PowertrainGiveUp

LEMMA BcmSampleStep ==
    ASSUME IInv, BcmSample
    PROVE  IInv'
<1>1. "other" \in Messages \ (Commands \cup EngineMessages)
  BY DEF Commands, Messages, EngineMessages
<1>2. giving_up' \in BOOLEAN /\ UNCHANGED <<start_stop_manual, engine_off>>
  BY DEF BcmSample, powertrain, IInv, TypeOK
<1>3. QED
  BY <1>1, <1>2, ShowStep DEF BcmSample

LEMMA AbortStep ==
    ASSUME IInv, PowertrainAbort
    PROVE  IInv'
<1>1. "error_disabled" \in Commands
  BY DEF Commands
<1>2. /\ UNCHANGED <<start_stop_active, error_system, system_row, engine_row,
                     num_deactivs, start_stop_manual, engine_off, bcm_running,
                     stops, missed_stops, unheard>>
      /\ giving_up' = FALSE
      /\ SendCommand("error_disabled")
  BY DEF PowertrainAbort, dashboard, actuators, panel_dash
<1>3. PowertrainGrows /\ DashboardGrows(Messages \ EngineMessages)
      /\ DashboardGrows(Messages)
  BY <1>1, <1>2, CommandGrows DEF DashboardGrows
<1>4. QueuesOK'
  <2>1. /\ Len(to_powertrain) <= MaxBus /\ Len(to_dashboard) <= MaxBus
        /\ Len(to_powertrain) \in Nat /\ Len(to_dashboard) \in Nat
        /\ MaxBus \in Nat
    BY QueuesAreOK DEF PowertrainAbort, IInv, RoomToAbort
  <2>2. QED
    BY <1>2, <1>3, <2>1, OneLonger DEF QueuesOK, RoomToAbort
<1>5. AgreeUnlessParted' /\ parted' \in BOOLEAN
  BY <1>1, <1>2, CommandKeepsAgreement DEF IInv
<1>6. EngineRowFollows' /\ RowAndFlag' /\ StopsCounted'
  BY <1>3, SendKeepsPanel DEF PowertrainAbort
<1>7. TypeOK'
  BY <1>2, <1>4, <1>5 DEF IInv, TypeOK, QueuesOK
<1>8. QED
  BY <1>4, <1>5, <1>6, <1>7 DEF IInv, QueuesOK

LEMMA PowertrainReadStep ==
    ASSUME IInv, PowertrainRead
    PROVE  IInv'
<1>1. /\ UNCHANGED <<start_stop_active, error_system, system_row, engine_row,
                     num_deactivs, engine_off, giving_up, bcm_running, stops,
                     missed_stops, unheard, parted, to_dashboard>>
      /\ to_powertrain # <<>> /\ to_powertrain' = Tail(to_powertrain)
      /\ ~giving_up
      /\ start_stop_manual' = Obey(start_stop_manual, Head(to_powertrain))
  BY DEF PowertrainRead, dashboard, actuators, panel_dash, history
<1>2. QueuesOK'
  <2>1. to_powertrain' \in Seq(Commands)
        /\ Len(to_powertrain') = Len(to_powertrain) - 1
    BY <1>1, HeadTailProperties, QueuesAreOK DEF QueuesOK
  <2>2. QED
    BY <1>1, <2>1, QueuesAreOK DEF QueuesOK, RoomToAbort
<1>3. AgreeUnlessParted'
  <2>1. ManualWhenRead' = ManualWhenRead
    BY ReadKeepsManual DEF IInv
  <2>2. ActiveWhenRead' = ActiveWhenRead
    BY <1>1 DEF ActiveWhenRead
  <2>3. QED
    BY <1>1, <2>1, <2>2 DEF IInv, AgreeUnlessParted
<1>4. EngineRowFollows' /\ RowAndFlag' /\ StopsCounted'
  BY <1>1
     DEF IInv, EngineRowFollows, EngineCommands, RowAndFlag,
         StopsCounted
<1>5. start_stop_manual' \in BOOLEAN
  <2>1. start_stop_manual \in BOOLEAN
    BY DEF IInv, TypeOK
  <2>2. Obey(start_stop_manual, Head(to_powertrain)) \in BOOLEAN
    BY <2>1 DEF Obey
  <2>3. QED
    BY <1>1, <2>2
<1>6. TypeOK'
  BY <1>1, <1>2, <1>5 DEF IInv, TypeOK, QueuesOK
<1>7. QED
  BY <1>2, <1>3, <1>4, <1>6 DEF IInv, QueuesOK

\* The dashboard takes a message: the queue is shorter and the powertrain as
\* it was.
LEMMA TakenQueue ==
    ASSUME IInv, to_dashboard # <<>>, to_dashboard' = Tail(to_dashboard),
           UNCHANGED <<to_powertrain, giving_up>>
    PROVE  QueuesOK'
<1>1. to_dashboard' \in Seq(Messages)
      /\ Len(to_dashboard') = Len(to_dashboard) - 1
  BY QueueShrinks, QueuesAreOK DEF QueuesOK
<1>2. QED
  BY <1>1, QueuesAreOK DEF QueuesOK, RoomToAbort

LEMMA DashboardReadStep ==
    ASSUME IInv, DashboardRead
    PROVE  IInv'
<1> DEFINE m == Head(to_dashboard)
<1>1. /\ UNCHANGED <<to_powertrain, start_stop_manual, engine_off, giving_up,
                     bcm_running, stops, missed_stops, unheard, parted>>
      /\ to_dashboard # <<>> /\ to_dashboard' = Tail(to_dashboard)
      /\ to_dashboard \in Seq(Messages) /\ TypeOK
  BY DEF DashboardRead, powertrain, history, IInv, TypeOK
<1>2. QueuesOK'
  BY <1>1, TakenQueue
<1>3. AgreeUnlessParted'
  BY DashboardReadKeepsAgreement DEF IInv
<1>4. /\ EngineRowFollows' /\ RowAndFlag' /\ StopsCounted'
      /\ num_deactivs' \in 0..stops' /\ engine_row' \in {"ON", "OFF", "ERR"}
  BY DashboardReadKeepsPanel
<1>5. m \in Messages
  BY <1>1, QueueShrinks
<1>6. /\ start_stop_active' = Obey(start_stop_active, m)
      /\ error_system' = IF m = "error_disabled" THEN 1 ELSE error_system
      /\ system_row' = IF m # "press_start_stop" THEN system_row
                       ELSE IF start_stop_active' THEN "ON" ELSE "OFF"
  BY <1>1, <1>5, OneMessage DEF DashboardRead
<1>7. start_stop_active' \in BOOLEAN
  <2>1. start_stop_active \in BOOLEAN
    BY <1>1 DEF TypeOK
  <2>2. Obey(start_stop_active, m) \in BOOLEAN
    BY <2>1 DEF Obey
  <2>3. QED
    BY <1>1, <1>6, <2>1, <2>2
<1>8. error_system' \in {0, 1} /\ system_row' \in {"ON", "OFF"}
  BY <1>1, <1>6 DEF TypeOK
<1>9. TypeOK'
  BY <1>1, <1>2, <1>4, <1>7, <1>8 DEF TypeOK, QueuesOK
<1>10. QED
  BY <1>2, <1>3, <1>4, <1>9 DEF IInv, QueuesOK

LEMMA DashboardReadSpoiltStep ==
    ASSUME IInv, DashboardReadSpoilt
    PROVE  IInv'
<1>1. /\ UNCHANGED <<to_powertrain, start_stop_manual, engine_off, giving_up,
                     bcm_running, stops, missed_stops, unheard>>
      /\ to_dashboard # <<>> /\ to_dashboard' = Tail(to_dashboard)
      /\ parted' \in BOOLEAN
  BY DEF DashboardReadSpoilt, powertrain
<1>2. QueuesOK'
  BY <1>1, TakenQueue
<1>3. AgreeUnlessParted'
  BY SpoiltReadKeepsAgreement DEF IInv
<1>4. /\ EngineRowFollows' /\ RowAndFlag' /\ StopsCounted'
      /\ num_deactivs' \in 0..stops' /\ engine_row' \in {"ON", "OFF", "ERR"}
      /\ UNCHANGED <<start_stop_active, error_system, system_row>>
  BY SpoiltReadKeepsPanel
<1>5. TypeOK'
  BY <1>1, <1>2, <1>4 DEF IInv, TypeOK, QueuesOK
<1>6. QED
  BY <1>2, <1>3, <1>4, <1>5 DEF IInv, QueuesOK

\* A stuttering step keeps the invariant.
LEMMA Stuttering ==
    ASSUME IInv, UNCHANGED <<dashboard, bus, powertrain, history>>,
           bcm_running' \in BOOLEAN
    PROVE  IInv'
<1>1. UNCHANGED <<start_stop_active, error_system, system_row, engine_row,
                  num_deactivs, to_powertrain, to_dashboard,
                  start_stop_manual, engine_off, giving_up, stops,
                  missed_stops, unheard, parted>>
  BY DEF dashboard, actuators, panel_dash, bus, powertrain, history
<1>2. TypeOK' /\ RoomToAbort'
  BY <1>1 DEF IInv, TypeOK, RoomToAbort
<1>3. AgreeUnlessParted'
  BY <1>1
     DEF IInv, AgreeUnlessParted, ManualWhenRead, ActiveWhenRead
<1>4. EngineRowFollows' /\ RowAndFlag' /\ StopsCounted'
  BY <1>1
     DEF IInv, EngineRowFollows, EngineCommands, RowAndFlag,
         StopsCounted
<1>5. QED
  BY <1>2, <1>3, <1>4 DEF IInv

LEMMA InitIInv == Init => IInv
<1> SUFFICES ASSUME Init
             PROVE  IInv
  OBVIOUS
<1>1. /\ start_stop_active = FALSE /\ error_system = 0
      /\ system_row = "OFF" /\ engine_row = "ON" /\ num_deactivs = 0
      /\ to_powertrain = <<>> /\ to_dashboard = <<>>
      /\ start_stop_manual = FALSE /\ engine_off = FALSE
      /\ giving_up = FALSE /\ bcm_running = TRUE /\ stops = 0
      /\ missed_stops = 0 /\ unheard = FALSE /\ parted = FALSE
  BY DEF Init, DashboardInit
<1>2. /\ to_powertrain \in Seq(Commands) /\ to_dashboard \in Seq(Messages)
      /\ Len(to_powertrain) = 0 /\ Len(to_dashboard) = 0
  BY <1>1, EmptySeq
<1>3. TypeOK
  <2>1. MaxBus \in Nat /\ MaxStops \in Nat
    BY BoundsAssumption
  <2>2. /\ Len(to_powertrain) <= MaxBus + 1
        /\ Len(to_dashboard) <= MaxBus + 1
        /\ stops \in 0..MaxStops /\ num_deactivs \in 0..stops
        /\ missed_stops \in 0..stops
    BY <1>1, <1>2, <2>1
  <2>3. QED
    BY <1>1, <1>2, <2>2 DEF TypeOK
<1>4. RoomToAbort /\ RowAndFlag
  BY <1>1 DEF RoomToAbort, RowAndFlag
<1>5. AgreeUnlessParted
  <2>1. ManualWhenRead = FALSE /\ ActiveWhenRead = FALSE
    BY <1>1, WhenReadEmpty DEF ManualWhenRead, ActiveWhenRead
  <2>2. QED
    BY <1>1, <2>1 DEF AgreeUnlessParted
<1>6. EngineRowFollows
  <2>1. EngineCommands = {}
    BY <1>2 DEF EngineCommands
  <2>2. QED
    BY <1>1, <2>1 DEF EngineRowFollows
<1>7. StopsCounted
  BY <1>1, CountOfEmpty DEF StopsCounted
<1>8. QED
  BY <1>3, <1>4, <1>5, <1>6, <1>7 DEF IInv

\* Every step of every ECU keeps the invariant.
LEMMA NextIInv == IInv /\ [Next]_vars => IInv'
<1> SUFFICES ASSUME IInv, [Next]_vars
             PROVE  IInv'
  OBVIOUS
<1>1. CASE Press
  <2>1. "press_start_stop" \in Commands /\ bcm_running' \in BOOLEAN
    BY <1>1 DEF Commands, Press, IInv, TypeOK
  <2>2. QED
    BY <1>1, <2>1, CommandStep DEF Press
<1>2. CASE BcmFault
  <2>1. "error_disabled" \in Commands /\ bcm_running' \in BOOLEAN
    BY <1>2 DEF Commands, BcmFault
  <2>2. QED
    BY <1>2, <2>1, CommandStep DEF BcmFault
<1>3. CASE BcmSample
  BY <1>3, BcmSampleStep
<1>4. CASE BcmStop
  BY <1>4, Stuttering DEF BcmStop
<1>5. CASE PowertrainStop
  BY <1>5, StopStep
<1>6. CASE PowertrainRestart
  BY <1>6, RestartStep
<1>7. CASE PowertrainGiveUp
  BY <1>7, GiveUpStep
<1>8. CASE PowertrainAbort
  BY <1>8, AbortStep
<1>9. CASE PowertrainRead
  BY <1>9, PowertrainReadStep
<1>10. CASE DashboardRead
  BY <1>10, DashboardReadStep
<1>11. CASE DashboardReadSpoilt
  BY <1>11, DashboardReadSpoiltStep
<1>12. CASE UNCHANGED vars
  <2>1. bcm_running' \in BOOLEAN
    BY <1>12 DEF vars, IInv, TypeOK
  <2>2. QED
    BY <1>12, <2>1, Stuttering DEF vars
<1>13. QED
  BY <1>1, <1>2, <1>3, <1>4, <1>5, <1>6, <1>7, <1>8, <1>9, <1>10, <1>11, <1>12
     DEF Next

\* For any bound on the bus and on the stops, the invariant holds.
THEOREM Inductive == Spec => []IInv
BY InitIInv, NextIInv, PTL DEF Spec

\* The variables keep to their types, the queues to their lengths, and the
\* count of the panel never passes the stops of the engine
\* (dashboard_func.c:81-110).
THEOREM TypeCorrect == Spec => []TypeOK
<1>1. IInv => TypeOK
  BY DEF IInv
<1>2. QED
  BY <1>1, Inductive, PTL

\* SWR1.2, SWR1.3: the powertrain and the dashboard will agree on the
\* activation, whichever messages either of them misses, unless one missed a
\* command that the other did not (powertrain_func.c:287-324,
\* dashboard_func.c:60-79, 188-207, can_socket.c:167-193).
THEOREM FlagsAgree == Spec => []AgreeUnlessParted
<1>1. IInv => AgreeUnlessParted
  BY DEF IInv
<1>2. QED
  BY <1>1, Inductive, PTL

\* SWR5.1, SWR5.3: without a fault the engine row follows the engine, if the
\* last engine command reached the dashboard (dashboard_func.c:81-110).
THEOREM RowShowsEngine == Spec => []EngineRowFollows
<1>1. IInv => EngineRowFollows
  BY DEF IInv
<1>2. QED
  BY <1>1, Inductive, PTL

\* SWR1.4: with the bus read and the flags not parted, the system row says ON
\* for every active system, and only for one until there was a fault
\* (dashboard_func.c:60-79, 188-207).
THEOREM SystemRowShows == Spec => []SystemRowFollows
<1>1. IInv => SystemRowFollows
  <2> SUFFICES ASSUME IInv, ~parted, to_powertrain = <<>>, to_dashboard = <<>>
               PROVE  /\ start_stop_manual => system_row = "ON"
                      /\ error_system = 0 =>
                           (system_row = "ON" <=> start_stop_manual)
    BY DEF SystemRowFollows
  <2>1. ManualWhenRead = start_stop_manual
    BY WhenReadEmpty DEF ManualWhenRead
  <2>2. ActiveWhenRead = start_stop_active
    BY WhenReadEmpty DEF ActiveWhenRead
  <2>3. start_stop_manual = start_stop_active
    BY <2>1, <2>2 DEF IInv, AgreeUnlessParted
  <2>4. QED
    BY <2>3 DEF IInv, RowAndFlag, TypeOK
<1>2. QED
  BY <1>1, Inductive, PTL

\* The panel counts each stop once until a fault, but for those whose command
\* did not reach it (dashboard_func.c:81-110).
THEOREM EveryStopCounted == Spec => []StopsCounted
<1>1. IInv => StopsCounted
  BY DEF IInv
<1>2. QED
  BY <1>1, Inductive, PTL

=============================================================================
