-------------------------- MODULE SampleStreamProofs --------------------------
(***************************************************************************)
(* Proofs about SampleStream: whatever rows the file has, however many     *)
(* samples are sent and whenever the powertrain evaluates its conditions   *)
(* between two messages, it judges the battery by what was measured and    *)
(* stops the engine of a standing car only, and the panel shows what it    *)
(* decided on.                                                             *)
(*                                                                         *)
(* The messages of the bus are counted: the t-th one is message            *)
(* t % 12 + 1 of sample t \div 12 + 1, counted from 0.  A reader that has  *)
(* taken t messages has each field from a sample that t alone tells.       *)
(***************************************************************************)
EXTENDS SampleStream, SequenceTheorems, WellFoundedInduction, TLAPS

-----------------------------------------------------------------------------
(* Induction over the positions of a queue.                                *)

\* A set of natural numbers that is not empty has a least element.
LEMMA LeastElement ==
    ASSUME NEW T, T \subseteq Nat, T # {}
    PROVE  \E x \in T : \A y \in T : x <= y
<1> DEFINE R == OpToRel(<, Nat)
<1>1. \A x, y \in Nat : x < y => <<x, y>> \in R
  BY DEF OpToRel
<1>2. IsWellFoundedOn(R, Nat)
  BY NatLessThanWellFounded
<1>3. PICK x \in T : \A y \in T : ~ (<<y, x>> \in R)
  <2> HIDE DEF R
  <2>1. QED
    BY <1>2, WFMin
<1> HIDE DEF R
<1>4. ASSUME NEW y \in T
      PROVE  x <= y
  <2>1. x \in Nat /\ y \in Nat
    OBVIOUS
  <2>2. ~ (<<y, x>> \in R)
    BY <1>3
  <2>3. ~ (y < x)
    BY <1>1, <2>1, <2>2
  <2>4. QED
    BY <2>1, <2>3
<1>5. QED
  BY <1>4

\* A set of positions that has 0 and with each position the next has all.
LEMMA PositionInduction ==
    ASSUME NEW n \in Nat, NEW S, 0 \in S,
           \A i \in 0..(n - 1) : i \in S => i + 1 \in S
    PROVE  \A i \in 0..n : i \in S
<1> DEFINE T == {i \in 0..n : i \notin S}
<1>1. SUFFICES ASSUME T # {}
               PROVE  FALSE
  OBVIOUS
<1>2. PICK x \in T : \A y \in T : x <= y
  <2>1. T \subseteq Nat
    OBVIOUS
  <2> HIDE DEF T
  <2>2. QED
    BY <1>1, <2>1, LeastElement
<1>3. x # 0 /\ x - 1 \in 0..(n - 1) /\ x - 1 \in 0..n
  BY <1>2
<1>4. x - 1 \in S
  BY <1>2, <1>3
<1>5. QED
  BY <1>2, <1>3, <1>4

-----------------------------------------------------------------------------
(* The twelve messages of a sample.                                        *)

\* Where the field stands among the messages of a sample.
Position(f) == CHOOSE i \in 1..Len(SendOrder) : SendOrder[i] = f

\* The order of the messages: one for each field (bcm_func.c:284-321).
LEMMA TwelveMessages ==
    /\ Len(SendOrder) = 12
    /\ \A i \in 1..12 : SendOrder[i] \in Fields
    /\ \A i, j \in 1..12 : SendOrder[i] = SendOrder[j] => i = j
    /\ \A f \in Fields : \E i \in 1..12 : SendOrder[i] = f
<1>1. Len(SendOrder) = 12
  BY DEF SendOrder
<1>2. \A i \in 1..12 : SendOrder[i] \in Fields
  BY DEF SendOrder, Fields
<1>3. \A i, j \in 1..12 : SendOrder[i] = SendOrder[j] => i = j
  BY DEF SendOrder
<1>4. \A f \in Fields : \E i \in 1..12 : SendOrder[i] = f
  <2>1. /\ SendOrder[1] = "speed" /\ SendOrder[2] = "in_temp"
        /\ SendOrder[3] = "ex_temp" /\ SendOrder[4] = "door"
        /\ SendOrder[5] = "tilt" /\ SendOrder[6] = "accel"
        /\ SendOrder[7] = "brake" /\ SendOrder[8] = "temp_set"
        /\ SendOrder[9] = "batt_soc" /\ SendOrder[10] = "batt_volt"
        /\ SendOrder[11] = "engi_temp" /\ SendOrder[12] = "gear"
    BY DEF SendOrder
  <2>2. QED
    BY <2>1 DEF Fields
<1>5. QED
  BY <1>1, <1>2, <1>3, <1>4

\* Positions and fields go together one to one.
LEMMA PositionOf ==
    /\ \A f \in Fields : Position(f) \in 1..12 /\ SendOrder[Position(f)] = f
    /\ \A i \in 1..12 : Position(SendOrder[i]) = i
<1>1. ASSUME NEW f \in Fields
      PROVE  Position(f) \in 1..12 /\ SendOrder[Position(f)] = f
  <2>1. \E i \in 1..Len(SendOrder) : SendOrder[i] = f
    BY TwelveMessages
  <2>2. QED
    BY <2>1, TwelveMessages DEF Position
<1>2. ASSUME NEW i \in 1..12
      PROVE  Position(SendOrder[i]) = i
  BY <1>1, TwelveMessages
<1>3. QED
  BY <1>1, <1>2

\* The sample a reader that has taken t messages has the field from.
NoOf(t, f) == SampleNo(t, Position(f))

\* The sample and the message of the message that follows t others.
SampleAfter(t) == t \div 12 + 1
MessageAfter(t) == (t % 12) + 1

\* A number, its quotient by twelve and the rest.
LEMMA Division ==
    ASSUME NEW t \in Nat
    PROVE  /\ t \div 12 \in Nat
           /\ t % 12 \in 0..11
           /\ t = 12 * (t \div 12) + (t % 12)
OBVIOUS

\* A sum of that form has the one quotient and the one rest.
LEMMA DivisionUnique ==
    ASSUME NEW w \in Nat, NEW r \in 0..11
    PROVE  (12 * w + r) \div 12 = w /\ (12 * w + r) % 12 = r
OBVIOUS

\* The message that follows t others is one of the twelve.
LEMMA MessageAfterIs ==
    ASSUME NEW t \in Nat
    PROVE  /\ MessageAfter(t) \in 1..12
           /\ SampleAfter(t) \in Nat \ {0}
           /\ t + 1 = (SampleAfter(t) - 1) * 12 + MessageAfter(t)
BY Division DEF MessageAfter, SampleAfter

\* With one message more, one field is from another sample.
LEMMA OneMore ==
    ASSUME NEW t \in Nat, NEW j \in 1..12
    PROVE  SampleNo(t + 1, j) = IF j = MessageAfter(t) THEN SampleAfter(t)
                                                       ELSE SampleNo(t, j)
<1> DEFINE w == t \div 12
           r == t % 12
<1>1. w \in Nat /\ r \in 0..11 /\ t = 12 * w + r
  BY Division
<1>2. SampleNo(t, j) = IF j <= r THEN w + 1 ELSE w
  BY TwelveMessages DEF SampleNo
<1>3. CASE r < 11
  <2>1. r + 1 \in 0..11 /\ t + 1 = 12 * w + (r + 1)
    BY <1>1, <1>3
  <2>2. (t + 1) \div 12 = w /\ (t + 1) % 12 = r + 1
    BY <1>1, <2>1, DivisionUnique
  <2>3. SampleNo(t + 1, j) = IF j <= r + 1 THEN w + 1 ELSE w
    BY <2>2, TwelveMessages DEF SampleNo
  <2> HIDE DEF w, r
  <2>4. QED
    BY <1>1, <1>2, <2>3 DEF MessageAfter, SampleAfter, w, r
<1>4. CASE r = 11
  <2>1. t + 1 = 12 * (w + 1) + 0 /\ w + 1 \in Nat /\ 0 \in 0..11
    BY <1>1, <1>4
  <2>2. (t + 1) \div 12 = w + 1 /\ (t + 1) % 12 = 0
    BY <2>1, DivisionUnique
  <2>3. SampleNo(t + 1, j) = w + 1
    BY <2>2, TwelveMessages DEF SampleNo
  <2> HIDE DEF w, r
  <2>4. QED
    BY <1>1, <1>2, <1>4, <2>3 DEF MessageAfter, SampleAfter, w, r
<1>5. QED
  BY <1>1, <1>3, <1>4

\* Only samples that were sent, and at the end the last one.
LEMMA SampleNoBound ==
    ASSUME NEW t \in Nat, NEW n \in Nat, t <= 12 * n, NEW j \in 1..12
    PROVE  SampleNo(t, j) \in 0..n
<1>1. /\ t \div 12 \in Nat /\ t % 12 \in 0..11
      /\ t = 12 * (t \div 12) + (t % 12)
  BY Division
<1>2. SampleNo(t, j) = IF j <= t % 12 THEN t \div 12 + 1 ELSE t \div 12
  BY TwelveMessages DEF SampleNo
<1>3. QED
  BY <1>1, <1>2

\* A reader that has taken n whole samples has all from the n-th.
LEMMA SampleNoAtEnd ==
    ASSUME NEW n \in Nat, NEW j \in 1..12
    PROVE  SampleNo(n * 12, j) = n
<1>1. n * 12 = 12 * n + 0 /\ 0 \in 0..11
  OBVIOUS
<1>2. (n * 12) \div 12 = n /\ (n * 12) % 12 = 0
  BY <1>1, DivisionUnique
<1>3. QED
  BY <1>2, TwelveMessages DEF SampleNo

-----------------------------------------------------------------------------
(* A queue that holds the rest of the messages of the samples.             *)

Samples ==
    [data : Snapshots, soc : 0..MAX_BATTERY_SOC, measured : BOOLEAN]

\* The messages that the reader of q has taken, when s was sent.
TakenOf(q, s) == Len(s) * 12 - Len(q)

Message(s, n, i) ==
    [field |-> SendOrder[i], value |-> s[n].data[SendOrder[i]]]

\* HoldsTheRest for any queue and samples.
TheRest(q, s) ==
    /\ TakenOf(q, s) >= 0
    /\ \A n \in 1..Len(s), i \in 1..12 :
          LET k == (n - 1) * 12 + i - TakenOf(q, s)
          IN  k > 0 => q[k] = Message(s, n, i)

\* TheRest is the model's HoldsTheRest.
LEMMA RestIs ==
    ASSUME NEW q
    PROVE  HoldsTheRest(q) <=> TheRest(q, sent)
<1>1. Len(SendOrder) = 12
  BY TwelveMessages
<1>2. Taken(q) = TakenOf(q, sent)
  BY <1>1 DEF Taken, TakenOf
<1>3. QED
  BY <1>1, <1>2 DEF HoldsTheRest, TheRest, Message

\* The j-th message of the queue.
LEMMA RestElement ==
    ASSUME NEW q \in Seq(CanMessages), NEW s \in Seq(Samples), TheRest(q, s),
           NEW j \in 1..Len(q)
    PROVE  LET t == TakenOf(q, s) + j - 1
           IN  /\ t \in Nat /\ t + 1 <= 12 * Len(s)
               /\ SampleAfter(t) \in 1..Len(s)
               /\ q[j] = Message(s, SampleAfter(t), MessageAfter(t))
<1> DEFINE t == TakenOf(q, s) + j - 1
           n == SampleAfter(t)
           i == MessageAfter(t)
<1>1. Len(s) \in Nat /\ Len(q) \in Nat /\ TakenOf(q, s) = Len(s) * 12 - Len(q)
      /\ TakenOf(q, s) >= 0
  BY DEF TakenOf, TheRest
<1>2. t \in Nat /\ t + 1 <= 12 * Len(s)
  BY <1>1
<1> HIDE DEF t
<1>3. i \in 1..12 /\ n \in Nat \ {0} /\ t + 1 = (n - 1) * 12 + i
  BY <1>2, MessageAfterIs
<1> HIDE DEF n, i
<1>4. n \in 1..Len(s)
  BY <1>1, <1>2, <1>3
<1>5. (n - 1) * 12 + i - TakenOf(q, s) = j
  BY <1>1, <1>3 DEF t
<1>6. q[j] = Message(s, n, i)
  <2>1. (n - 1) * 12 + i - TakenOf(q, s) > 0
    BY <1>5
  <2>2. q[(n - 1) * 12 + i - TakenOf(q, s)] = Message(s, n, i)
    BY <1>3, <1>4, <2>1 DEF TheRest
  <2>3. QED
    BY <1>5, <2>2
<1>7. QED
  BY <1>2, <1>4, <1>6 DEF t, n, i

\* Its reader takes the first one.
LEMMA RestShrinks ==
    ASSUME NEW q \in Seq(CanMessages), NEW s \in Seq(Samples), TheRest(q, s),
           q # <<>>
    PROVE  /\ TakenOf(Tail(q), s) = TakenOf(q, s) + 1
           /\ TheRest(Tail(q), s)
           /\ Head(q) = q[1] /\ 1 \in 1..Len(q)
<1> DEFINE r == Tail(q)
<1>1. /\ Len(q) \in Nat \ {0} /\ Len(r) = Len(q) - 1 /\ Head(q) = q[1]
      /\ \A k \in 1..(Len(q) - 1) : r[k] = q[k + 1]
      /\ Len(s) \in Nat
  BY HeadTailProperties, EmptySeq
<1> HIDE DEF r
<1>2. TakenOf(q, s) = Len(s) * 12 - Len(q) /\ TakenOf(q, s) >= 0
  BY DEF TakenOf, TheRest
<1>3. TakenOf(r, s) = TakenOf(q, s) + 1
  BY <1>1, <1>2 DEF TakenOf
<1>4. ASSUME NEW n \in 1..Len(s), NEW i \in 1..12,
             (n - 1) * 12 + i - TakenOf(r, s) > 0
      PROVE  r[(n - 1) * 12 + i - TakenOf(r, s)] = Message(s, n, i)
  <2> DEFINE k == (n - 1) * 12 + i - TakenOf(q, s)
  <2>1. k > 1 /\ k <= Len(q) /\ k \in Int
        /\ (n - 1) * 12 + i - TakenOf(r, s) = k - 1
    BY <1>1, <1>2, <1>3, <1>4
  <2>2. q[k] = Message(s, n, i)
    <3>1. (n - 1) * 12 + i - TakenOf(q, s) > 0
      BY <2>1
    <3>2. q[(n - 1) * 12 + i - TakenOf(q, s)] = Message(s, n, i)
      BY <3>1 DEF TheRest
    <3>3. QED
      BY <3>2
  <2> HIDE DEF k
  <2>3. r[k - 1] = q[k]
    <3>1. k - 1 \in 1..(Len(q) - 1) /\ (k - 1) + 1 = k
      BY <1>1, <2>1
    <3>2. QED
      BY <1>1, <3>1
  <2>4. QED
    BY <2>1, <2>2, <2>3
<1>5. TheRest(r, s)
  <2>1. TakenOf(r, s) >= 0
    BY <1>1, <1>2, <1>3
  <2>2. QED
    BY <1>4, <2>1 DEF TheRest
<1>6. QED
  BY <1>1, <1>3, <1>5 DEF r

\* The empty queue holds the rest when everything was taken.
LEMMA RestEmpty ==
    ASSUME NEW s \in Seq(Samples)
    PROVE  TheRest(<<>>, s) /\ TakenOf(<<>>, s) = Len(s) * 12
<1>1. Len(s) \in Nat /\ TakenOf(<<>>, s) = Len(s) * 12
  BY DEF TakenOf
<1>2. ASSUME NEW n \in 1..Len(s), NEW i \in 1..12
      PROVE  ~ ((n - 1) * 12 + i - TakenOf(<<>>, s) > 0)
  BY <1>1
<1>3. QED
  BY <1>1, <1>2 DEF TheRest

\* The messages of a sample, in their order.
LEMMA MessagesTyped ==
    ASSUME NEW d \in Snapshots
    PROVE  /\ MessagesOf(d) \in Seq(CanMessages)
           /\ Len(MessagesOf(d)) = 12
           /\ \A i \in 1..12 :
                 MessagesOf(d)[i] = [field |-> SendOrder[i],
                                     value |-> d[SendOrder[i]]]
<1>1. MessagesOf(d) = [i \in 1..12 |-> [field |-> SendOrder[i],
                                        value |-> d[SendOrder[i]]]]
  BY TwelveMessages DEF MessagesOf
<1>2. \A i \in 1..12 : [field |-> SendOrder[i], value |-> d[SendOrder[i]]]
                          \in CanMessages
  BY TwelveMessages DEF CanMessages, Snapshots
<1>3. QED
  BY <1>1, <1>2

\* A sample is sent.
LEMMA RestGrows ==
    ASSUME NEW q \in Seq(CanMessages), NEW s \in Seq(Samples), TheRest(q, s),
           NEW x \in Samples
    PROVE  /\ q \o MessagesOf(x.data) \in Seq(CanMessages)
           /\ Len(q \o MessagesOf(x.data)) = Len(q) + 12
           /\ TakenOf(q \o MessagesOf(x.data), Append(s, x)) = TakenOf(q, s)
           /\ TheRest(q \o MessagesOf(x.data), Append(s, x))
<1> DEFINE m == MessagesOf(x.data)
           r == q \o m
           u == Append(s, x)
<1>1. x.data \in Snapshots
  BY DEF Samples
<1>2. /\ m \in Seq(CanMessages) /\ Len(m) = 12
      /\ \A i \in 1..12 : m[i] = [field |-> SendOrder[i],
                                  value |-> x.data[SendOrder[i]]]
  BY <1>1, MessagesTyped
<1> HIDE DEF m
<1>3. /\ r \in Seq(CanMessages) /\ Len(r) = Len(q) + 12
      /\ Len(q) \in Nat
      /\ \A k \in 1..(Len(q) + 12) :
            r[k] = IF k <= Len(q) THEN q[k] ELSE m[k - Len(q)]
  <2>1. /\ r \in Seq(CanMessages) /\ Len(r) = Len(q) + Len(m)
        /\ \A k \in 1..(Len(q) + Len(m)) :
              r[k] = IF k <= Len(q) THEN q[k] ELSE m[k - Len(q)]
    BY <1>2, ConcatProperties
  <2>2. Len(q) \in Nat
    BY LenProperties
  <2> HIDE DEF r
  <2>3. QED
    BY <1>2, <2>1, <2>2
<1>4. /\ Len(s) \in Nat /\ Len(u) = Len(s) + 1 /\ u[Len(s) + 1] = x
      /\ \A n \in 1..Len(s) : u[n] = s[n]
  OBVIOUS
<1> HIDE DEF r, u
<1>5. TakenOf(q, s) = Len(s) * 12 - Len(q) /\ TakenOf(q, s) >= 0
  BY DEF TakenOf, TheRest
<1>6. TakenOf(r, u) = TakenOf(q, s)
  BY <1>3, <1>4, <1>5 DEF TakenOf
<1>7. ASSUME NEW n \in 1..Len(u), NEW i \in 1..12,
             (n - 1) * 12 + i - TakenOf(r, u) > 0
      PROVE  r[(n - 1) * 12 + i - TakenOf(r, u)] = Message(u, n, i)
  <2> DEFINE k == (n - 1) * 12 + i - TakenOf(q, s)
  <2>1. k \in Int /\ k > 0 /\ (n - 1) * 12 + i - TakenOf(r, u) = k
    BY <1>4, <1>5, <1>6, <1>7
  <2>2. CASE n \in 1..Len(s)
    <3>1. q[k] = Message(s, n, i)
      BY <2>1, <2>2 DEF TheRest
    <3>2. k <= Len(q)
      BY <1>3, <1>4, <1>5, <2>2
    <3> HIDE DEF k
    <3>3. r[k] = q[k]
      BY <1>3, <2>1, <3>2
    <3>4. Message(u, n, i) = Message(s, n, i)
      BY <1>4, <2>2 DEF Message
    <3>5. QED
      BY <2>1, <3>1, <3>3, <3>4
  <2>3. CASE n = Len(s) + 1
    <3>1. k = Len(q) + i
      BY <1>3, <1>4, <1>5, <2>3
    <3> HIDE DEF k
    <3>2. k \in 1..(Len(q) + 12) /\ ~ (k <= Len(q)) /\ k - Len(q) = i
      BY <1>3, <3>1
    <3>3. r[k] = m[i]
      BY <1>3, <3>2
    <3>4. Message(u, n, i) = m[i]
      BY <1>2, <1>4, <2>3 DEF Message
    <3>5. QED
      BY <2>1, <3>3, <3>4
  <2>4. QED
    BY <1>4, <2>2, <2>3
<1>8. TheRest(r, u)
  BY <1>5, <1>6, <1>7 DEF TheRest
<1>9. QED
  BY <1>3, <1>6, <1>8 DEF m, r, u

-----------------------------------------------------------------------------
(* What a reader that has taken t messages knows and shows.                *)

KnownData(d, t, s) ==
    \A f \in Fields :
        d[f] = IF NoOf(t, f) = 0 THEN 0 ELSE s[NoOf(t, f)].data[f]

RowOf(s, n, f) ==
    IF n = 0 THEN EmptyRow(f) ELSE Shown([field |-> f, value |-> s[n].data[f]])

ShownRows(rows, t, s) ==
    \A f \in Fields \ {"temp_set"} : rows[f] = RowOf(s, NoOf(t, f), f)

\* The sample of a field, by the number of messages taken.
LEMMA LastSampleIs ==
    ASSUME NEW q, NEW f
    PROVE  LastSample(q, f) = NoOf(TakenOf(q, sent), f)
<1>1. Taken(q) = TakenOf(q, sent)
  BY TwelveMessages DEF Taken, TakenOf
<1>2. QED
  BY <1>1 DEF LastSample, NoOf, Position

\* DataIsSent, by the number of messages taken.
LEMMA DataIs ==
    DataIsSent <=> KnownData(rec_data, TakenOf(to_powertrain, sent), sent)
BY LastSampleIs DEF DataIsSent, SampleOf, KnownData

\* RowsAreSent, by the number of messages taken.
LEMMA RowsAre ==
    RowsAreSent <=> ShownRows(sensor_rows, TakenOf(to_dashboard, sent), sent)
BY LastSampleIs DEF RowsAreSent, ShownRows, RowOf

\* The field of the next message has its sample from there.
LEMMA NoOfNext ==
    ASSUME NEW t \in Nat, NEW f \in Fields
    PROVE  NoOf(t + 1, f) =
             IF f = SendOrder[MessageAfter(t)] THEN SampleAfter(t)
                                               ELSE NoOf(t, f)
<1>1. Position(f) \in 1..12 /\ MessageAfter(t) \in 1..12
  BY PositionOf, MessageAfterIs
<1>2. Position(f) = MessageAfter(t) <=> f = SendOrder[MessageAfter(t)]
  BY <1>1, PositionOf
<1>3. QED
  BY <1>1, <1>2, OneMore DEF NoOf

\* Reading one message more keeps the readings those of the last samples.
LEMMA DataTaken ==
    ASSUME NEW d \in Snapshots, NEW s \in Seq(Samples), NEW t \in Nat,
           KnownData(d, t, s), SampleAfter(t) \in 1..Len(s)
    PROVE  LET m == Message(s, SampleAfter(t), MessageAfter(t))
           IN  /\ [d EXCEPT ![m.field] = m.value] \in Snapshots
               /\ KnownData([d EXCEPT ![m.field] = m.value], t + 1, s)
<1> DEFINE m == Message(s, SampleAfter(t), MessageAfter(t))
           e == [d EXCEPT ![m.field] = m.value]
<1>1. MessageAfter(t) \in 1..12
  BY MessageAfterIs
<1>2. /\ m.field = SendOrder[MessageAfter(t)] /\ m.field \in Fields
      /\ m.value = s[SampleAfter(t)].data[m.field]
  BY <1>1, TwelveMessages DEF Message
<1>3. s[SampleAfter(t)].data \in Snapshots
  <2>1. s[SampleAfter(t)] \in Samples
    BY ElementOfSeq
  <2>2. QED
    BY <2>1 DEF Samples
<1> HIDE DEF m
<1>4. m.value \in Int
  BY <1>2, <1>3 DEF Snapshots
<1>5. e \in Snapshots
      /\ \A f \in Fields : e[f] = IF f = m.field THEN m.value ELSE d[f]
  BY <1>2, <1>4 DEF Snapshots
<1> HIDE DEF e
<1>6. ASSUME NEW f \in Fields
      PROVE  e[f] = IF NoOf(t + 1, f) = 0 THEN 0
                    ELSE s[NoOf(t + 1, f)].data[f]
  <2>1. CASE f = m.field
    <3>1. NoOf(t + 1, f) = SampleAfter(t) /\ SampleAfter(t) # 0
      BY <1>2, <2>1, NoOfNext
    <3>2. e[f] = s[SampleAfter(t)].data[f]
      BY <1>2, <1>5, <2>1
    <3>3. QED
      BY <3>1, <3>2
  <2>2. CASE f # m.field
    <3>1. NoOf(t + 1, f) = NoOf(t, f)
      BY <1>2, <2>2, NoOfNext
    <3>2. e[f] = d[f]
      BY <1>5, <2>2
    <3>3. QED
      BY <3>1, <3>2 DEF KnownData
  <2>3. QED
    BY <2>1, <2>2
<1>7. KnownData(e, t + 1, s)
  BY <1>6 DEF KnownData
<1>8. QED
  BY <1>5, <1>7 DEF e, m

\* So does handling one message more for the rows of the panel.
LEMMA RowTaken ==
    ASSUME NEW rows, DOMAIN rows = Fields, NEW s \in Seq(Samples),
           NEW t \in Nat, ShownRows(rows, t, s), SampleAfter(t) \in 1..Len(s)
    PROVE  LET m == Message(s, SampleAfter(t), MessageAfter(t))
           IN  /\ DOMAIN process_sensor_readings(rows, m) = Fields
               /\ ShownRows(process_sensor_readings(rows, m), t + 1, s)
<1> DEFINE m == Message(s, SampleAfter(t), MessageAfter(t))
           e == process_sensor_readings(rows, m)
<1>1. MessageAfter(t) \in 1..12
  BY MessageAfterIs
<1>2. /\ m.field = SendOrder[MessageAfter(t)] /\ m.field \in Fields
      /\ m = [field |-> m.field, value |-> s[SampleAfter(t)].data[m.field]]
  BY <1>1, TwelveMessages DEF Message
<1> HIDE DEF m
<1>3. /\ DOMAIN e = Fields
      /\ \A f \in Fields : f # m.field => e[f] = rows[f]
      /\ m.field # "temp_set" => e[m.field] = Shown(m)
  BY <1>2 DEF process_sensor_readings
<1> HIDE DEF e
<1>4. ASSUME NEW f \in Fields \ {"temp_set"}
      PROVE  e[f] = RowOf(s, NoOf(t + 1, f), f)
  <2>1. CASE f = m.field
    <3>1. NoOf(t + 1, f) = SampleAfter(t) /\ SampleAfter(t) # 0
      BY <1>2, <2>1, NoOfNext
    <3>2. e[f] = Shown(m)
      BY <1>3, <2>1
    <3>3. QED
      BY <1>2, <2>1, <3>1, <3>2 DEF RowOf
  <2>2. CASE f # m.field
    <3>1. NoOf(t + 1, f) = NoOf(t, f)
      BY <1>2, <2>2, NoOfNext
    <3>2. e[f] = rows[f]
      BY <1>3, <2>2
    <3>3. QED
      BY <3>1, <3>2 DEF ShownRows
  <2>3. QED
    BY <2>1, <2>2
<1>5. ShownRows(e, t + 1, s)
  BY <1>4 DEF ShownRows
<1>6. QED
  BY <1>3, <1>5 DEF e, m

\* A sample more on the bus is none that was taken.
LEMMA SentLater ==
    ASSUME NEW s \in Seq(Samples), NEW x \in Samples, NEW t \in Nat,
           t <= 12 * Len(s)
    PROVE  /\ \A d : KnownData(d, t, s) => KnownData(d, t, Append(s, x))
           /\ \A rows : ShownRows(rows, t, s)
                          => ShownRows(rows, t, Append(s, x))
<1> DEFINE u == Append(s, x)
<1>1. Len(s) \in Nat /\ \A n \in 1..Len(s) : u[n] = s[n]
  OBVIOUS
<1>2. ASSUME NEW f \in Fields
      PROVE  NoOf(t, f) \in 0..Len(s)
  BY <1>1, PositionOf, SampleNoBound DEF NoOf
<1> HIDE DEF u
<1>3. \A f \in Fields : NoOf(t, f) = 0 \/ u[NoOf(t, f)] = s[NoOf(t, f)]
  BY <1>1, <1>2
<1>4. ASSUME NEW d, KnownData(d, t, s)
      PROVE  KnownData(d, t, u)
  BY <1>3, <1>4 DEF KnownData
<1>5. ASSUME NEW rows, ShownRows(rows, t, s)
      PROVE  ShownRows(rows, t, u)
  BY <1>3, <1>5 DEF ShownRows, RowOf
<1>6. QED
  BY <1>4, <1>5 DEF u

-----------------------------------------------------------------------------
(* The dashboard handles a whole queue.                                    *)

\* Handled is the last value of a function along the queue.
LEMMA HandledAlong ==
    ASSUME NEW rows, NEW q, Len(q) \in Nat
    PROVE  \E g : /\ g[0] = rows
                  /\ \A i \in 1..Len(q) :
                        g[i] = process_sensor_readings(g[i - 1], q[i])
                  /\ Handled(rows, q) = g[Len(q)]
<1> DEFINE IsReading(g, k) ==
               g = [i \in 0..k |->
                       IF i = 0 THEN rows
                                ELSE process_sensor_readings(g[i - 1], q[i])]
           S == {k \in Nat : \E g : IsReading(g, k)}
<1>1. 0 \in S
  <2>1. IsReading([i \in 0..0 |-> rows], 0)
    OBVIOUS
  <2>2. \E g : IsReading(g, 0)
    <3> HIDE DEF IsReading
    <3>1. QED
      BY <2>1
  <2>3. QED
    BY <2>2
<1>2. ASSUME NEW k \in 0..(Len(q) - 1), k \in S
      PROVE  k + 1 \in S
  <2>1. PICK g : IsReading(g, k)
    BY <1>2
  <2> DEFINE h == [i \in 0..(k + 1) |->
                     IF i = k + 1 THEN process_sensor_readings(g[k], q[k + 1])
                                  ELSE g[i]]
  <2>2. ASSUME NEW i \in 0..(k + 1)
        PROVE  h[i] = IF i = 0 THEN rows
                               ELSE process_sensor_readings(h[i - 1], q[i])
    <3>1. CASE i = 0
      BY <2>1, <3>1
    <3>2. CASE i = k + 1
      <4>1. h[i] = process_sensor_readings(g[k], q[i]) /\ h[i - 1] = g[k]
            /\ i # 0
        BY <3>2
      <4>2. QED
        BY <4>1
    <3>3. CASE i \in 1..k
      <4>1. i \in 0..k /\ i # 0 /\ i # k + 1 /\ i - 1 \in 0..(k + 1)
            /\ i - 1 # k + 1
        BY <3>3
      <4>2. h[i] = g[i] /\ h[i - 1] = g[i - 1]
        BY <4>1
      <4>3. g[i] = process_sensor_readings(g[i - 1], q[i])
        BY <2>1, <4>1
      <4>4. QED
        BY <4>1, <4>2, <4>3
    <3>4. QED
      BY <3>1, <3>2, <3>3
  <2>3. IsReading(h, k + 1)
    BY <2>2
  <2>4. \E g1 : IsReading(g1, k + 1)
    <3> HIDE DEF IsReading, h
    <3>1. QED
      BY <2>3
  <2>5. k + 1 \in Nat
    OBVIOUS
  <2>6. QED
    BY <2>4, <2>5
<1> HIDE DEF S
<1>3. Len(q) \in S
  <2>1. \A i \in 0..Len(q) : i \in S
    BY <1>1, <1>2, PositionInduction
  <2>2. QED
    BY <2>1
<1> DEFINE after == CHOOSE g : IsReading(g, Len(q))
<1>4. IsReading(after, Len(q))
  BY <1>3 DEF S
<1>5. Handled(rows, q) = after[Len(q)]
  BY DEF Handled
<1> HIDE DEF after
<1>6. after[0] = rows
      /\ \A i \in 1..Len(q) :
            after[i] = process_sensor_readings(after[i - 1], q[i])
  BY <1>4
<1>7. QED
  BY <1>5, <1>6

\* The rows that were handled are those of everything taken.
LEMMA AllHandled ==
    ASSUME NEW rows, DOMAIN rows = Fields, NEW s \in Seq(Samples),
           NEW q \in Seq(CanMessages), TheRest(q, s),
           ShownRows(rows, TakenOf(q, s), s)
    PROVE  /\ DOMAIN Handled(rows, q) = Fields
           /\ ShownRows(Handled(rows, q), Len(s) * 12, s)
<1>1. Len(q) \in Nat /\ Len(s) \in Nat
  BY LenProperties
<1>2. PICK g : /\ g[0] = rows
               /\ \A i \in 1..Len(q) :
                     g[i] = process_sensor_readings(g[i - 1], q[i])
               /\ Handled(rows, q) = g[Len(q)]
  BY <1>1, HandledAlong
<1> DEFINE t == TakenOf(q, s)
           S == {i \in Nat : DOMAIN g[i] = Fields /\ ShownRows(g[i], t + i, s)}
<1>3. t \in Nat /\ t + Len(q) = Len(s) * 12
  BY <1>1 DEF TakenOf, TheRest
<1> HIDE DEF t
<1>4. 0 \in S
  <2>1. t + 0 = t
    BY <1>3
  <2>2. ShownRows(g[0], t + 0, s)
    BY <1>2, <2>1 DEF t
  <2>3. QED
    BY <1>2, <2>2
<1>5. ASSUME NEW i \in 0..(Len(q) - 1), i \in S
      PROVE  i + 1 \in S
  <2>1. i + 1 \in 1..Len(q) /\ (i + 1) - 1 = i /\ i \in Nat
        /\ t + i \in Nat /\ t + (i + 1) - 1 = t + i
        /\ (t + i) + 1 = t + (i + 1)
    BY <1>1, <1>3
  <2>2. g[i + 1] = process_sensor_readings(g[i], q[i + 1])
    BY <1>2, <2>1
  <2>3. /\ SampleAfter(t + i) \in 1..Len(s)
        /\ q[i + 1] = Message(s, SampleAfter(t + i), MessageAfter(t + i))
    <3>1. TakenOf(q, s) + (i + 1) - 1 = t + i
      BY <2>1 DEF t
    <3>2. QED
      BY <2>1, <3>1, RestElement
  <2>4. DOMAIN g[i] = Fields /\ ShownRows(g[i], t + i, s)
    BY <1>5
  <2>5. DOMAIN g[i + 1] = Fields /\ ShownRows(g[i + 1], (t + i) + 1, s)
    BY <2>1, <2>2, <2>3, <2>4, RowTaken
  <2>6. QED
    BY <2>1, <2>5
<1> HIDE DEF S
<1>6. Len(q) \in S
  <2>1. \A i \in 0..Len(q) : i \in S
    BY <1>1, <1>4, <1>5, PositionInduction
  <2>2. QED
    BY <1>1, <2>1
<1>7. QED
  BY <1>2, <1>3, <1>6 DEF S

-----------------------------------------------------------------------------
(* The battery and the controls of a row.                                  *)

LEMMA Range0 ==
    ASSUME NEW n \in Nat
    PROVE  \A x : x \in 0..n <=> x \in Nat /\ x <= n
OBVIOUS

\* The limits as inequalities: the prover would write their interval out.
LEMMA ChargeRange ==
    ASSUME NEW soc
    PROVE  /\ soc \in 0..MAX_BATTERY_SOC <=> soc \in Nat /\ soc <= 10000
           /\ soc \in 0..(MAX_BATTERY_SOC \div SocTenth)
                <=> soc \in Nat /\ soc <= 1000
<1>1. MAX_BATTERY_SOC = 10000
  BY DEF MAX_BATTERY_SOC
<1>2. MAX_BATTERY_SOC \div SocTenth = 1000
  BY SMT DEF MAX_BATTERY_SOC, SocTenth
<1>3. MAX_BATTERY_SOC \in Nat /\ MAX_BATTERY_SOC \div SocTenth \in Nat
  BY <1>1, <1>2
<1>4. /\ soc \in 0..MAX_BATTERY_SOC <=> soc \in Nat /\ soc <= MAX_BATTERY_SOC
      /\ soc \in 0..(MAX_BATTERY_SOC \div SocTenth)
           <=> soc \in Nat /\ soc <= MAX_BATTERY_SOC \div SocTenth
  BY <1>3, Range0
<1>5. QED
  BY <1>1, <1>2, <1>4

\* The charge keeps to its limits, in even steps.
LEMMA ChargeKept ==
    ASSUME NEW soc \in 0..MAX_BATTERY_SOC, soc % 2 = 0, NEW speed \in Nat
    PROVE  /\ NextSoc(soc, speed) \in 0..MAX_BATTERY_SOC
           /\ NextSoc(soc, speed) % 2 = 0
<1> DEFINE next == NextSoc(soc, speed)
<1>1. soc \in Nat /\ soc <= 10000
  BY ChargeRange
<1>2. next = IF speed > 0
               THEN IF soc + 4 > 10000 THEN 10000 ELSE soc + 4
               ELSE IF soc < 10 THEN 0 ELSE soc - 10
  BY SMT DEF NextSoc, MAX_BATTERY_SOC, BATTERY_SOC_INCREMENT,
             BATTERY_SOC_DECREMENT, BATTERY_SOC_MUL
<1> HIDE DEF next
<1>3. next \in Nat /\ next <= 10000
  BY <1>1, <1>2, SMT
<1>4. next % 2 = 0
  BY <1>1, <1>2, SMT
<1>5. next \in 0..MAX_BATTERY_SOC
  BY <1>3, ChargeRange
<1>6. QED
  BY <1>4, <1>5 DEF next

\* No even charge is a tie, and 70.0 % is sent from 69.95 % on.
LEMMA ChargeSent ==
    ASSUME NEW soc \in 0..MAX_BATTERY_SOC, soc % 2 = 0,
           NEW v \in OneDecimal(soc, SocTenth)
    PROVE  /\ v \in 0..(MAX_BATTERY_SOC \div SocTenth)
           /\ v >= MIN_BATTERY_SOC <=> soc * 2 >= 2 * 7000 - SocTenth
<1> DEFINE n == (2 * soc + 10) \div 20
<1>1. soc \in Nat /\ soc <= 10000
  BY ChargeRange
<1>2. n \in Int /\ 20 * n <= 2 * soc + 10 /\ 2 * soc + 10 < 20 * n + 20
  BY <1>1, SMT
<1>3. PICK h \in Nat : soc = 2 * h
  <2>1. soc \div 2 \in Nat /\ soc = 2 * (soc \div 2)
    BY <1>1, SMT
  <2>2. QED
    BY <2>1
<1>4. v \in IF 2 * (n * 10 - soc) = 10 THEN {n - 1, n} ELSE {n}
  BY SMT DEF OneDecimal, SocTenth
<1> HIDE DEF n
<1>5. 2 * (n * 10 - soc) # 10
  <2>1. 2 * (n * 10 - soc) = 4 * (5 * n - h)
    BY <1>2, <1>3, SMT
  <2>2. 5 * n - h \in Int
    BY <1>2, <1>3, SMT
  <2>3. QED
    BY <2>1, <2>2, SMT
<1>6. v = n
  BY <1>4, <1>5
<1>7. v \in Nat /\ v <= 1000
  BY <1>1, <1>2, <1>6, SMT
<1>8. v >= MIN_BATTERY_SOC <=> soc * 2 >= 2 * 7000 - SocTenth
  BY <1>1, <1>2, <1>6, SMT DEF MIN_BATTERY_SOC, SocTenth
<1>9. QED
  BY <1>7, <1>8, ChargeRange

\* The voltage of the model never falls to the limit of the powertrain.
LEMMA VoltageSent ==
    ASSUME NEW soc \in 0..MAX_BATTERY_SOC, NEW speed \in Nat,
           NEW v \in OneDecimal(BattVolt(soc, speed), VoltTenth)
    PROVE  v \in 100..130
<1> DEFINE x == BattVolt(soc, speed)
           n == (2 * x + 1000000) \div 2000000
<1>1. soc \in Nat /\ soc <= 10000
  BY ChargeRange
<1>2. x \in Int /\ x >= 103000000 /\ x <= 128000000
  BY <1>1, SMT
     DEF BattVolt, BATTERY_VOLT_MUL, BATTERY_VOLT_SUM, VOLTAGE_OFFSET_VALUE,
         SOC_THRESHOLD, VOLTAGE_DEC
<1>3. v \in {n - 1, n}
  BY SMT DEF OneDecimal, VoltTenth
<1> HIDE DEF x
<1>4. n \in Int /\ 2000000 * n <= 2 * x + 1000000
      /\ 2 * x + 1000000 < 2000000 * n + 2000000
  BY <1>2, SMT
<1> HIDE DEF n
<1>5. n >= 101 /\ n <= 130
  BY <1>2, <1>4, SMT
<1>6. QED
  BY <1>3, <1>4, <1>5, SMT

\* A row as it is sent.
LEMMA RowsTyped ==
    ASSUME TypeOK
    PROVE  /\ row # NoRow =>
                row \in [speed : Nat, in_temp : Int, ex_temp : Int,
                         door : Int, tilt : Int, engi_temp : Int]
           /\ next_row # NoRow =>
                next_row \in [speed : Nat, in_temp : Int, ex_temp : Int,
                              door : Int, tilt : Int, engi_temp : Int]
BY RowAssumption DEF TypeOK

\* The controls of a row; PARKING is said of a standing car only.
LEMMA ControlsKnown ==
    ASSUME TypeOK, row # NoRow
    PROVE  /\ Controls.accel \in Int /\ Controls.brake \in Int
           /\ Controls.gear \in Int
           /\ next_row # NoRow /\ Controls.gear = PARKING => row.speed = 0
<1>1. row.speed \in Nat
  BY RowsTyped
<1>2. CASE next_row = NoRow
  BY <1>2 DEF Controls, NoControls
<1>3. CASE next_row # NoRow
  <2>1. next_row.speed \in Nat
    BY <1>3, RowsTyped
  <2>2. Controls = ControlsOf(row.speed, next_row.speed)
    BY <1>3 DEF Controls
  <2>3. QED
    BY <1>1, <2>1, <2>2
       DEF ControlsOf, Accelerates, Brakes, PARKING, DRIVE
<1>4. QED
  BY <1>2, <1>3

\* What is sent is a snapshot of the row with its controls and readings.
LEMMA SampleTyped ==
    ASSUME TypeOK, row # NoRow
    PROVE  /\ Sample \in Snapshots
           /\ Sample.speed = row.speed /\ Sample.gear = Controls.gear
           /\ Sample.batt_soc = battery.batt_soc
           /\ Sample.batt_volt = battery.batt_volt
<1>1. row \in [speed : Nat, in_temp : Int, ex_temp : Int, door : Int,
               tilt : Int, engi_temp : Int]
  BY RowsTyped
<1>2. battery.batt_soc \in Int /\ battery.batt_volt \in Int
  <2>1. battery.batt_soc \in 0..(MAX_BATTERY_SOC \div SocTenth)
        /\ battery.batt_volt \in 0..130
    BY DEF TypeOK
  <2>2. QED
    BY <2>1, ChargeRange
<1>3. Controls.accel \in Int /\ Controls.brake \in Int /\ Controls.gear \in Int
  BY ControlsKnown
<1>4. /\ Sample["speed"] = row["speed"] /\ Sample["in_temp"] = row["in_temp"]
      /\ Sample["ex_temp"] = row["ex_temp"] /\ Sample["door"] = row["door"]
      /\ Sample["tilt"] = row["tilt"] /\ Sample["engi_temp"] = row["engi_temp"]
      /\ Sample["accel"] = Controls["accel"]
      /\ Sample["brake"] = Controls["brake"]
      /\ Sample["gear"] = Controls["gear"]
      /\ Sample["batt_soc"] = battery["batt_soc"]
      /\ Sample["batt_volt"] = battery["batt_volt"]
      /\ Sample["temp_set"] = DEFAULT_SET_TEMP
  BY DEF Sample, Fields
<1>5. \A f \in Fields : Sample[f] \in Int
  BY <1>1, <1>2, <1>3, <1>4 DEF Fields, DEFAULT_SET_TEMP
<1>6. Sample \in Snapshots
  <2>1. Sample = [f \in Fields |-> Sample[f]]
    BY DEF Sample
  <2>2. QED
    BY <1>5, <2>1 DEF Snapshots
<1>7. QED
  BY <1>1, <1>2, <1>3, <1>4, <1>6

-----------------------------------------------------------------------------
(* The invariant.                                                          *)

\* The bus, what its readers know and show, in the terms above.
BusOK ==
    /\ TheRest(to_powertrain, sent)
    /\ TheRest(to_dashboard, sent)
    /\ KnownData(rec_data, TakenOf(to_powertrain, sent), sent)
    /\ ShownRows(sensor_rows, TakenOf(to_dashboard, sent), sent)

\* The invariant, with the queues by the number of messages taken.
LEMMA BusIs ==
    /\ IInv <=> TypeOK /\ BusOK /\ SamplesOK
    /\ (TypeOK /\ BusOK /\ SamplesOK)' => IInv'
<1>1. IInv <=> TypeOK /\ BusOK /\ SamplesOK
  BY RestIs, DataIs, RowsAre DEF IInv, BusOK
<1>2. (TypeOK /\ BusOK /\ SamplesOK => IInv)'
  BY <1>1, PTL
<1>3. QED
  BY <1>1, <1>2

\* The queues have their types; nobody has taken more than was sent.
LEMMA BusTyped ==
    ASSUME TypeOK, BusOK
    PROVE  /\ to_powertrain \in Seq(CanMessages)
           /\ to_dashboard \in Seq(CanMessages)
           /\ sent \in Seq(Samples)
           /\ rec_data \in Snapshots /\ DOMAIN sensor_rows = Fields
           /\ TakenOf(to_powertrain, sent) \in Nat
           /\ TakenOf(to_powertrain, sent) <= 12 * Len(sent)
           /\ TakenOf(to_dashboard, sent) \in Nat
           /\ TakenOf(to_dashboard, sent) <= 12 * Len(sent)
           /\ Len(sent) \in Nat /\ Len(to_powertrain) \in Nat
<1>1. /\ to_powertrain \in Seq(CanMessages)
      /\ to_dashboard \in Seq(CanMessages)
      /\ sent \in Seq(Samples)
      /\ rec_data \in Snapshots /\ DOMAIN sensor_rows = Fields
  BY DEF TypeOK, Samples
<1>2. Len(sent) \in Nat /\ Len(to_powertrain) \in Nat
      /\ Len(to_dashboard) \in Nat
  BY <1>1, LenProperties
<1>3. TakenOf(to_powertrain, sent) >= 0 /\ TakenOf(to_dashboard, sent) >= 0
  BY DEF BusOK, TheRest
<1>4. QED
  BY <1>1, <1>2, <1>3 DEF TakenOf

LEMMA InitIInv == Init => IInv
<1> SUFFICES ASSUME Init
             PROVE  TypeOK /\ BusOK /\ SamplesOK
  BY BusIs
<1>1. /\ row \in CsvRows /\ next_row \in CsvRows /\ data_updated = FALSE
      /\ batt_soc \in StartSoc /\ battery = NoReadings /\ ticks = 0
      /\ to_dashboard = <<>> /\ to_powertrain = <<>> /\ sent = <<>>
      /\ sensor_rows = [f \in Fields |-> EmptyRow(f)]
      /\ enabled = FALSE /\ stopped = FALSE /\ wanted = FALSE
      /\ rec_data = ZeroData
  BY DEF Init, Logic!Init, Logic!ZeroData, Logic!Fields, ZeroData, Fields
<1>2. batt_soc \in 0..MAX_BATTERY_SOC
  BY <1>1, StartAssumption
<1>3. batt_soc % 2 = 0
  <2>1. batt_soc \in Nat /\ (batt_soc - 8000) % 2 = 0
    BY <1>1, <1>2, StartAssumption, ChargeRange DEF DEFAULT_BATTERY_SOC
  <2>2. QED
    BY <2>1, SMT
<1>4. TypeOK
  <2>1. /\ to_powertrain \in Seq(CanMessages) /\ to_dashboard \in Seq(CanMessages)
        /\ sent \in Seq(Samples)
        /\ Len(to_powertrain) = 0 /\ Len(sent) = 0
    BY <1>1, EmptySeq
  <2>2. Len(to_powertrain) <= MaxLag + Len(SendOrder) /\ Len(sent) <= MaxSamples
        /\ ticks \in 0..MaxTicks
    BY <1>1, <2>1, BoundsAssumption, TwelveMessages
  <2>3. rec_data \in Snapshots /\ DOMAIN sensor_rows = Fields
    BY <1>1 DEF Snapshots, ZeroData
  <2>4. battery \in [batt_soc : 0..(MAX_BATTERY_SOC \div SocTenth),
                     batt_volt : 0..130]
    <3>1. 0 \in 0..(MAX_BATTERY_SOC \div SocTenth)
      BY ChargeRange
    <3>2. QED
      BY <1>1, <3>1 DEF NoReadings
  <2>5. QED
    BY <1>1, <1>2, <2>1, <2>2, <2>3, <2>4 DEF TypeOK, Samples
<1>5. BusOK
  <2>1. sent \in Seq(Samples) /\ Len(sent) = 0
    BY <1>1, EmptySeq
  <2>2. TheRest(<<>>, sent) /\ TakenOf(<<>>, sent) = 0
    <3>1. TheRest(<<>>, sent) /\ TakenOf(<<>>, sent) = Len(sent) * 12
      BY <2>1, RestEmpty
    <3>2. QED
      BY <2>1, <3>1
  <2>3. \A f \in Fields : NoOf(0, f) = 0
    <3>1. ASSUME NEW f \in Fields
          PROVE  NoOf(0, f) = 0
      <4>1. Position(f) \in 1..12
        BY PositionOf
      <4>2. SampleNo(0 * 12, Position(f)) = 0
        BY <4>1, SampleNoAtEnd
      <4>3. QED
        BY <4>2 DEF NoOf
    <3>2. QED
      BY <3>1
  <2>4. KnownData(rec_data, 0, sent) /\ ShownRows(sensor_rows, 0, sent)
    BY <1>1, <2>3 DEF KnownData, ShownRows, RowOf, ZeroData
  <2>5. QED
    BY <1>1, <2>2, <2>4 DEF BusOK
<1>6. SamplesOK
  <2>1. Len(sent) = 0
    BY <1>1
  <2>2. ReadingsOf(batt_soc, ticks > 0, battery)
    BY <1>1, <1>3 DEF ReadingsOf, NoReadings
  <2>3. QED
    BY <2>1, <2>2, BoundsAssumption DEF SamplesOK
<1>7. QED
  BY <1>4, <1>5, <1>6

\* Nothing happens on the bus.
LEMMA BusUntouched ==
    ASSUME BusOK,
           UNCHANGED <<to_powertrain, to_dashboard, rec_data, sensor_rows, sent>>
    PROVE  BusOK'
BY DEF BusOK

\* A tick of sensor_battery: the readings go with the new charge.
LEMMA BatteryStep ==
    ASSUME IInv, BatteryUpdate
    PROVE  IInv'
<1>1. TypeOK /\ BusOK /\ SamplesOK
  BY BusIs
<1>2. /\ row # NoRow /\ ticks < MaxTicks /\ ticks' = ticks + 1
      /\ batt_soc' = NextSoc(batt_soc, row.speed)
      /\ UNCHANGED <<row, next_row, data_updated, to_dashboard, sensor_rows,
                     to_powertrain, enabled, stopped, wanted, rec_data, sent>>
  BY DEF BatteryUpdate, dashboard, powertrain
<1>3. PICK soc \in OneDecimal(batt_soc', SocTenth),
           volt \in OneDecimal(BattVolt(batt_soc', row.speed), VoltTenth) :
           battery' = [batt_soc |-> soc, batt_volt |-> volt]
  BY DEF BatteryUpdate
<1>4. row.speed \in Nat
  BY <1>1, <1>2, RowsTyped
<1>5. batt_soc' \in 0..MAX_BATTERY_SOC /\ batt_soc' % 2 = 0
  <2>1. batt_soc \in 0..MAX_BATTERY_SOC /\ batt_soc % 2 = 0
    BY <1>1 DEF TypeOK, SamplesOK, ReadingsOf
  <2>2. QED
    BY <1>2, <1>4, <2>1, ChargeKept
<1>6. soc \in 0..(MAX_BATTERY_SOC \div SocTenth) /\ volt \in 100..130
  <2>1. soc \in 0..(MAX_BATTERY_SOC \div SocTenth)
    <3>1. \A charge \in 0..MAX_BATTERY_SOC : charge % 2 = 0
             => \A v \in OneDecimal(charge, SocTenth) :
                   v \in 0..(MAX_BATTERY_SOC \div SocTenth)
      BY ChargeSent
    <3>2. QED
      BY <1>5, <3>1, Zenon
  <2>2. volt \in 100..130
    BY <1>4, <1>5, VoltageSent
  <2>3. QED
    BY <2>1, <2>2
<1>7. ticks' \in 0..MaxTicks /\ ticks' > 0
  BY <1>1, <1>2, BoundsAssumption DEF TypeOK
<1>8. TypeOK'
  <2>1. battery' \in [batt_soc : 0..(MAX_BATTERY_SOC \div SocTenth),
                      batt_volt : 0..130]
    BY <1>3, <1>6
  <2>2. QED
    BY <1>1, <1>2, <1>5, <1>7, <2>1 DEF TypeOK
<1>9. BusOK'
  BY <1>1, <1>2, BusUntouched
<1>10. SamplesOK'
  <2>1. battery'.batt_soc = soc /\ battery'.batt_volt = volt
    BY <1>3
  <2>2. battery'.batt_soc \in OneDecimal(batt_soc', SocTenth)
    BY <2>1
  <2>3. battery'.batt_volt >= MIN_BATTERY_VOLTAGE
    BY <1>6, <2>1 DEF MIN_BATTERY_VOLTAGE
  <2>4. ReadingsOf(batt_soc', ticks' > 0, battery')
    BY <1>5, <1>7, <2>2, <2>3 DEF ReadingsOf
  <2>5. QED
    BY <1>1, <1>2, <2>4 DEF SamplesOK
<1>11. QED
  BY <1>8, <1>9, <1>10, BusIs

\* The record of a sample in the history.
SentNow == [data |-> Sample, soc |-> batt_soc, measured |-> ticks > 0]

\* A sample is sent: both queues get it, the history has it, and the row that
\* follows is empty again.
LEMMA SendStep ==
    ASSUME IInv, CommsSend
    PROVE  IInv'
<1>1. TypeOK /\ BusOK /\ SamplesOK
  BY BusIs
<1>2. /\ row # NoRow /\ Len(to_powertrain) <= MaxLag
      /\ to_powertrain' = to_powertrain \o MessagesOf(Sample)
      /\ to_dashboard' = to_dashboard \o MessagesOf(Sample)
      /\ sent' = Append(sent, SentNow)
      /\ row' = next_row
      /\ next_row' \in IF next_row = NoRow \/ Len(sent) + 2 >= MaxSamples
                         THEN {NoRow} ELSE CsvRows \cup {NoRow}
      /\ data_updated' = FALSE /\ battery' = NoReadings /\ ticks' = 0
      /\ UNCHANGED <<batt_soc, sensor_rows, enabled, stopped, wanted, rec_data>>
  BY DEF CommsSend, SentNow
<1>3. /\ Sample \in Snapshots
      /\ Sample.speed = row.speed /\ Sample.gear = Controls.gear
      /\ Sample.batt_soc = battery.batt_soc
      /\ Sample.batt_volt = battery.batt_volt
  BY <1>1, <1>2, SampleTyped
<1>4. SentNow \in Samples /\ SentNow.data = Sample
  <2>1. batt_soc \in 0..MAX_BATTERY_SOC
    BY <1>1 DEF TypeOK
  <2>2. QED
    BY <1>3, <2>1 DEF SentNow, Samples
<1>5. /\ to_powertrain \in Seq(CanMessages)
      /\ to_dashboard \in Seq(CanMessages)
      /\ sent \in Seq(Samples) /\ Len(sent) \in Nat /\ Len(to_powertrain) \in Nat
  BY <1>1, BusTyped
<1>6. /\ to_powertrain' \in Seq(CanMessages)
      /\ Len(to_powertrain') = Len(to_powertrain) + 12
      /\ TakenOf(to_powertrain', sent') = TakenOf(to_powertrain, sent)
      /\ TheRest(to_powertrain', sent')
  <2>1. TheRest(to_powertrain, sent)
    BY <1>1 DEF BusOK
  <2>2. /\ to_powertrain \o MessagesOf(SentNow.data) \in Seq(CanMessages)
        /\ Len(to_powertrain \o MessagesOf(SentNow.data))
             = Len(to_powertrain) + 12
        /\ TakenOf(to_powertrain \o MessagesOf(SentNow.data),
                   Append(sent, SentNow)) = TakenOf(to_powertrain, sent)
        /\ TheRest(to_powertrain \o MessagesOf(SentNow.data),
                   Append(sent, SentNow))
    BY <1>4, <1>5, <2>1, RestGrows
  <2>3. QED
    BY <1>2, <1>4, <2>2
<1>7. /\ to_dashboard' \in Seq(CanMessages)
      /\ TakenOf(to_dashboard', sent') = TakenOf(to_dashboard, sent)
      /\ TheRest(to_dashboard', sent')
  <2>1. TheRest(to_dashboard, sent)
    BY <1>1 DEF BusOK
  <2>2. /\ to_dashboard \o MessagesOf(SentNow.data) \in Seq(CanMessages)
        /\ TakenOf(to_dashboard \o MessagesOf(SentNow.data),
                   Append(sent, SentNow)) = TakenOf(to_dashboard, sent)
        /\ TheRest(to_dashboard \o MessagesOf(SentNow.data),
                   Append(sent, SentNow))
    BY <1>4, <1>5, <2>1, RestGrows
  <2>3. QED
    BY <1>2, <1>4, <2>2
<1>8. /\ sent' \in Seq(Samples) /\ Len(sent') = Len(sent) + 1
      /\ sent'[Len(sent) + 1] = SentNow
      /\ \A n \in 1..Len(sent) : sent'[n] = sent[n]
  <2> HIDE DEF SentNow
  <2>1. QED
    BY <1>2, <1>4, <1>5
<1>9. TypeOK'
  <2>1. Len(to_powertrain') <= MaxLag + Len(SendOrder)
    BY <1>2, <1>5, <1>6, BoundsAssumption, TwelveMessages
  <2>2. Len(sent') <= MaxSamples
    BY <1>1, <1>2, <1>5, <1>8, BoundsAssumption DEF SamplesOK
  <2>3. battery' \in [batt_soc : 0..(MAX_BATTERY_SOC \div SocTenth),
                      batt_volt : 0..130]
    <3>1. 0 \in 0..(MAX_BATTERY_SOC \div SocTenth)
      BY ChargeRange
    <3>2. QED
      BY <1>2, <3>1 DEF NoReadings
  <2>4. ticks' \in 0..MaxTicks
    BY <1>2, BoundsAssumption
  <2>5. row' \in CsvRows \cup {NoRow} /\ next_row' \in CsvRows \cup {NoRow}
    BY <1>1, <1>2 DEF TypeOK
  <2>6. QED
    BY <1>1, <1>2, <1>6, <1>7, <1>8, <2>1, <2>2, <2>3, <2>4, <2>5
       DEF TypeOK, Samples
<1>10. BusOK'
  <2>1. /\ TakenOf(to_powertrain, sent) \in Nat
        /\ TakenOf(to_powertrain, sent) <= 12 * Len(sent)
        /\ TakenOf(to_dashboard, sent) \in Nat
        /\ TakenOf(to_dashboard, sent) <= 12 * Len(sent)
    BY <1>1, BusTyped
  <2>2. KnownData(rec_data, TakenOf(to_powertrain, sent), Append(sent, SentNow))
    <3>1. KnownData(rec_data, TakenOf(to_powertrain, sent), sent)
      BY <1>1 DEF BusOK
    <3>2. QED
      BY <1>4, <1>5, <2>1, <3>1, SentLater
  <2>3. ShownRows(sensor_rows, TakenOf(to_dashboard, sent),
                  Append(sent, SentNow))
    <3>1. ShownRows(sensor_rows, TakenOf(to_dashboard, sent), sent)
      BY <1>1 DEF BusOK
    <3>2. QED
      BY <1>4, <1>5, <2>1, <3>1, SentLater
  <2>4. QED
    BY <1>2, <1>6, <1>7, <2>2, <2>3 DEF BusOK
<1>11. SamplesOK'
  <2>1. ReadingsOf(batt_soc', ticks' > 0, battery')
    BY <1>1, <1>2 DEF SamplesOK, ReadingsOf, NoReadings
  <2>2. /\ row' # NoRow => Len(sent') < MaxSamples
        /\ row' # NoRow /\ next_row' # NoRow => Len(sent') + 1 < MaxSamples
    BY <1>1, <1>2, <1>5, <1>8, BoundsAssumption DEF SamplesOK
  <2>3. ASSUME NEW n \in 1..Len(sent')
        PROVE  /\ ReadingsOf(sent'[n].soc, sent'[n].measured, sent'[n].data)
               /\ (n < Len(sent') \/ row' # NoRow)
                    /\ sent'[n].data.gear = PARKING
                    => sent'[n].data.speed = 0
    <3>1. CASE n \in 1..Len(sent)
      <4>1. sent'[n] = sent[n]
        BY <1>8, <3>1
      <4>2. QED
        BY <1>1, <1>2, <3>1, <4>1 DEF SamplesOK
    <3>2. CASE n = Len(sent) + 1
      <4>1. /\ sent'[n].soc = batt_soc /\ sent'[n].measured = (ticks > 0)
            /\ sent'[n].data = Sample /\ ~ (n < Len(sent'))
        BY <1>5, <1>8, <3>2 DEF SentNow
      <4>2. ReadingsOf(sent'[n].soc, sent'[n].measured, sent'[n].data)
        BY <1>1, <1>3, <4>1 DEF SamplesOK, ReadingsOf
      <4>3. row' # NoRow /\ sent'[n].data.gear = PARKING
              => sent'[n].data.speed = 0
        BY <1>1, <1>2, <1>3, <4>1, ControlsKnown
      <4>4. QED
        BY <4>1, <4>2, <4>3
    <3>3. QED
      BY <1>5, <1>8, <3>1, <3>2
  <2>4. QED
    BY <2>1, <2>2, <2>3 DEF SamplesOK
<1>12. QED
  BY <1>9, <1>10, <1>11, BusIs

\* The powertrain takes a message: its data has one field newer.
LEMMA ReadStep ==
    ASSUME IInv, PowertrainRead
    PROVE  IInv'
<1> DEFINE t == TakenOf(to_powertrain, sent)
           m == Message(sent, SampleAfter(t), MessageAfter(t))
<1>1. TypeOK /\ BusOK /\ SamplesOK
  BY BusIs
<1>2. /\ to_powertrain # <<>>
      /\ rec_data' = [rec_data EXCEPT ![Head(to_powertrain).field] =
                                          Head(to_powertrain).value]
      /\ to_powertrain' = Tail(to_powertrain)
      /\ UNCHANGED <<row, next_row, data_updated, batt_soc, battery, ticks,
                     to_dashboard, sensor_rows, enabled, stopped, wanted, sent>>
  BY DEF PowertrainRead, bcm, dashboard
<1>3. /\ to_powertrain \in Seq(CanMessages) /\ sent \in Seq(Samples)
      /\ rec_data \in Snapshots /\ t \in Nat
      /\ TheRest(to_powertrain, sent) /\ KnownData(rec_data, t, sent)
  BY <1>1, BusTyped DEF BusOK
<1>4. /\ TakenOf(Tail(to_powertrain), sent) = t + 1
      /\ TheRest(Tail(to_powertrain), sent)
      /\ Head(to_powertrain) = to_powertrain[1] /\ 1 \in 1..Len(to_powertrain)
  BY <1>2, <1>3, RestShrinks
<1>5. /\ SampleAfter(t) \in 1..Len(sent) /\ to_powertrain[1] = m
  <2>1. t + 1 - 1 = t
    BY <1>3
  <2>2. /\ SampleAfter(TakenOf(to_powertrain, sent) + 1 - 1) \in 1..Len(sent)
        /\ to_powertrain[1] =
             Message(sent, SampleAfter(TakenOf(to_powertrain, sent) + 1 - 1),
                     MessageAfter(TakenOf(to_powertrain, sent) + 1 - 1))
    BY <1>3, <1>4, RestElement
  <2>3. QED
    BY <2>1, <2>2
<1> HIDE DEF t
<1>6. /\ [rec_data EXCEPT ![m.field] = m.value] \in Snapshots
      /\ KnownData([rec_data EXCEPT ![m.field] = m.value], t + 1, sent)
  BY <1>3, <1>5, DataTaken
<1>7. rec_data' = [rec_data EXCEPT ![m.field] = m.value]
  BY <1>2, <1>4, <1>5
<1> HIDE DEF m
<1>8. BusOK'
  BY <1>1, <1>2, <1>4, <1>6, <1>7 DEF BusOK
<1>9. TypeOK'
  <2>1. to_powertrain' \in Seq(CanMessages)
        /\ Len(to_powertrain') = Len(to_powertrain) - 1
    BY <1>2, <1>3, HeadTailProperties
  <2>2. Len(to_powertrain') <= MaxLag + Len(SendOrder)
    BY <1>1, <2>1, BusTyped, BoundsAssumption, TwelveMessages DEF TypeOK
  <2>3. QED
    BY <1>1, <1>2, <1>6, <1>7, <2>1, <2>2 DEF TypeOK
<1>10. SamplesOK'
  BY <1>1, <1>2 DEF SamplesOK
<1>11. QED
  BY <1>8, <1>9, <1>10, BusIs

\* The dashboard handles its queue: its rows are those of the last sample.
LEMMA DashboardStep ==
    ASSUME IInv, DashboardRead
    PROVE  IInv'
<1>1. TypeOK /\ BusOK /\ SamplesOK
  BY BusIs
<1>2. /\ sensor_rows' = Handled(sensor_rows, to_dashboard)
      /\ to_dashboard' = <<>>
      /\ UNCHANGED <<row, next_row, data_updated, batt_soc, battery, ticks,
                     to_powertrain, enabled, stopped, wanted, rec_data, sent>>
  BY DEF DashboardRead, bcm, powertrain
<1>3. /\ to_dashboard \in Seq(CanMessages) /\ sent \in Seq(Samples)
      /\ DOMAIN sensor_rows = Fields
      /\ TheRest(to_dashboard, sent)
      /\ ShownRows(sensor_rows, TakenOf(to_dashboard, sent), sent)
  BY <1>1, BusTyped DEF BusOK
<1>4. /\ DOMAIN Handled(sensor_rows, to_dashboard) = Fields
      /\ ShownRows(Handled(sensor_rows, to_dashboard), Len(sent) * 12, sent)
  BY <1>3, AllHandled
<1>5. TheRest(<<>>, sent) /\ TakenOf(<<>>, sent) = Len(sent) * 12
  BY <1>3, RestEmpty
<1>6. BusOK'
  BY <1>1, <1>2, <1>4, <1>5 DEF BusOK
<1>7. TypeOK'
  <2>1. to_dashboard' \in Seq(CanMessages)
    BY <1>2, EmptySeq
  <2>2. QED
    BY <1>1, <1>2, <1>4, <2>1 DEF TypeOK
<1>8. SamplesOK'
  BY <1>1, <1>2 DEF SamplesOK
<1>9. QED
  BY <1>6, <1>7, <1>8, BusIs

\* The other steps change neither the bus nor the battery.
LEMMA OtherSteps ==
    ASSUME IInv,
           UNCHANGED <<row, next_row, batt_soc, battery, ticks, to_powertrain,
                       to_dashboard, sensor_rows, rec_data, sent>>,
           data_updated' \in BOOLEAN, enabled' \in BOOLEAN,
           stopped' \in BOOLEAN, wanted' \in BOOLEAN
    PROVE  IInv'
<1>1. TypeOK /\ BusOK /\ SamplesOK
  BY BusIs
<1>2. TypeOK'
  BY <1>1 DEF TypeOK
<1>3. BusOK'
  BY <1>1, BusUntouched
<1>4. SamplesOK'
  BY <1>1 DEF SamplesOK
<1>5. QED
  BY <1>2, <1>3, <1>4, BusIs

LEMMA NextIInv == IInv /\ [Next]_vars => IInv'
<1> SUFFICES ASSUME IInv, [Next]_vars
             PROVE  IInv'
  OBVIOUS
<1>1. /\ data_updated \in BOOLEAN /\ enabled \in BOOLEAN
      /\ stopped \in BOOLEAN /\ wanted \in BOOLEAN
  BY DEF IInv, TypeOK
<1>2. CASE SpeedStep
  BY <1>1, <1>2, OtherSteps DEF SpeedStep, dashboard, powertrain
<1>3. CASE BatteryUpdate
  BY <1>3, BatteryStep
<1>4. CASE CommsSend
  BY <1>4, SendStep
<1>5. CASE PowertrainRead
  BY <1>5, ReadStep
<1>6. CASE PowertrainStep
  <2>1. /\ enabled' \in BOOLEAN /\ stopped' \in BOOLEAN /\ wanted' \in BOOLEAN
        /\ rec_data' = rec_data
    BY <1>1, <1>6
       DEF PowertrainStep, Logic!Enable, Logic!Stop, Logic!Restart,
           Logic!Postpone
  <2>2. UNCHANGED <<row, next_row, data_updated, batt_soc, battery, ticks,
                    to_powertrain, to_dashboard, sensor_rows, sent>>
    BY <1>6 DEF PowertrainStep, bcm, dashboard
  <2>3. QED
    BY <1>1, <2>1, <2>2, OtherSteps
<1>7. CASE DashboardRead
  BY <1>7, DashboardStep
<1>8. CASE UNCHANGED vars
  BY <1>1, <1>8, OtherSteps DEF vars, bcm, dashboard, powertrain
<1>9. QED
  BY <1>2, <1>3, <1>4, <1>5, <1>6, <1>7, <1>8 DEF Next

-----------------------------------------------------------------------------
(* The properties.                                                         *)

\* For any file, any number of samples and any lag of the readers, the
\* invariant holds.
THEOREM Inductive == Spec => []IInv
BY InitIInv, NextIInv, PTL DEF Spec

\* The variables keep to their types, and the charge to its limits
\* (bcm_func.c:510-539).
THEOREM TypeCorrect == Spec => []TypeOK
<1>1. IInv => TypeOK
  BY DEF IInv
<1>2. QED
  BY <1>1, Inductive, PTL

\* The speed is sent first, the engine temperature next to last, the gear last.
LEMMA WherePositions ==
    /\ Position("speed") = 1 /\ Position("engi_temp") = 11
    /\ Position("gear") = 12
    /\ \A f \in Fields : f # "gear" => Position(f) \in 1..11
<1>1. SendOrder[1] = "speed" /\ SendOrder[11] = "engi_temp"
      /\ SendOrder[12] = "gear"
  BY DEF SendOrder
<1>2. QED
  BY <1>1, PositionOf

\* The samples the readers have their data from are among those sent.
LEMMA KnownSamples ==
    ASSUME TypeOK, BusOK, NEW f \in Fields
    PROVE  /\ SampleOf(f) = NoOf(TakenOf(to_powertrain, sent), f)
           /\ SampleOf(f) \in 0..Len(sent)
           /\ rec_data[f] = IF SampleOf(f) = 0 THEN 0
                            ELSE sent[SampleOf(f)].data[f]
<1>1. SampleOf(f) = NoOf(TakenOf(to_powertrain, sent), f)
  BY LastSampleIs DEF SampleOf
<1>2. NoOf(TakenOf(to_powertrain, sent), f) \in 0..Len(sent)
  <2> DEFINE t == TakenOf(to_powertrain, sent)
             n == Len(sent)
             j == Position(f)
  <2>1. t \in Nat /\ n \in Nat /\ t <= 12 * n
    BY BusTyped
  <2>2. j \in 1..12
    BY PositionOf
  <2>3. NoOf(t, f) = SampleNo(t, j)
    BY DEF NoOf
  <2> HIDE DEF t, n, j
  <2>4. SampleNo(t, j) \in 0..n
    BY <2>1, <2>2, SampleNoBound
  <2>5. QED
    BY <2>3, <2>4 DEF t, n
<1>3. QED
  BY <1>1, <1>2 DEF BusOK, KnownData

\* The battery test of the restart passes exactly on what was measured to be
\* enough (bcm_func.c:310, 311, 510-539, powertrain_func.c).
THEOREM BatteryIsJudged == Spec => []BatteryJudged
<1>1. ASSUME IInv
      PROVE  BatteryJudged
  <2> DEFINE a == SampleOf("batt_soc")
             b == SampleOf("batt_volt")
  <2>1. TypeOK /\ BusOK /\ SamplesOK
    BY <1>1, BusIs
  <2>2. "batt_soc" \in Fields /\ "batt_volt" \in Fields
    BY DEF Fields
  <2>3. /\ a \in 0..Len(sent) /\ b \in 0..Len(sent)
        /\ rec_data.batt_soc = IF a = 0 THEN 0 ELSE sent[a].data.batt_soc
        /\ rec_data.batt_volt = IF b = 0 THEN 0 ELSE sent[b].data.batt_volt
    BY <2>1, <2>2, KnownSamples
  <2>4. \A n \in 1..Len(sent) :
           /\ sent[n].soc \in 0..MAX_BATTERY_SOC
           /\ sent[n].measured \in BOOLEAN
           /\ ReadingsOf(sent[n].soc, sent[n].measured, sent[n].data)
    <3>1. \A n \in 1..Len(sent) : sent[n] \in Samples
      BY <2>1, BusTyped, ElementOfSeq
    <3>2. QED
      BY <2>1, <3>1 DEF SamplesOK, Samples
  <2> HIDE DEF a, b
  <2>5. rec_data.batt_volt >= MIN_BATTERY_VOLTAGE
          <=> b # 0 /\ sent[b].measured
    <3>1. CASE b = 0
      BY <2>3, <3>1 DEF MIN_BATTERY_VOLTAGE
    <3>2. CASE b \in 1..Len(sent)
      <4>1. rec_data.batt_volt = sent[b].data.batt_volt /\ b # 0
        BY <2>3, <3>2
      <4>2. CASE sent[b].measured
        BY <2>4, <3>2, <4>1, <4>2 DEF ReadingsOf
      <4>3. CASE ~ sent[b].measured
        BY <2>4, <3>2, <4>1, <4>3 DEF ReadingsOf, MIN_BATTERY_VOLTAGE
      <4>4. QED
        BY <4>2, <4>3
    <3>3. QED
      BY <2>3, <3>1, <3>2
  <2>6. rec_data.batt_soc >= MIN_BATTERY_SOC
          <=> /\ a # 0 /\ sent[a].measured
              /\ sent[a].soc * 2 >= 2 * 7000 - SocTenth
    <3>1. CASE a = 0
      BY <2>3, <3>1 DEF MIN_BATTERY_SOC
    <3>2. CASE a \in 1..Len(sent)
      <4>1. rec_data.batt_soc = sent[a].data.batt_soc /\ a # 0
        BY <2>3, <3>2
      <4>2. CASE sent[a].measured
        <5>1. /\ sent[a].soc \in 0..MAX_BATTERY_SOC /\ sent[a].soc % 2 = 0
              /\ sent[a].data.batt_soc \in OneDecimal(sent[a].soc, SocTenth)
          BY <2>4, <3>2, <4>2 DEF ReadingsOf
        <5>2. sent[a].data.batt_soc >= MIN_BATTERY_SOC
                <=> sent[a].soc * 2 >= 2 * 7000 - SocTenth
          BY <5>1, ChargeSent
        <5>3. QED
          BY <4>1, <4>2, <5>2
      <4>3. CASE ~ sent[a].measured
        BY <2>4, <3>2, <4>1, <4>3 DEF ReadingsOf, MIN_BATTERY_SOC
      <4>4. QED
        BY <4>2, <4>3
    <3>3. QED
      BY <2>3, <3>1, <3>2
  <2>7. QED
    BY <2>5, <2>6 DEF BatteryJudged, Measured, restart_battery_ok, a, b
<1>2. QED
  BY <1>1, Inductive, PTL

\* When both have read the bus, the panel shows the data that the powertrain
\* decides on (dashboard_func.c:107-186, can_comms.c:47-118).
THEOREM PanelShows == Spec => []PanelShowsDecision
<1>1. ASSUME IInv
      PROVE  PanelShowsDecision
  <2> SUFFICES ASSUME to_powertrain = <<>>, to_dashboard = <<>>, sent # <<>>
               PROVE  /\ sensor_rows["door"] =
                           IF rec_data.door = 0 THEN "No" ELSE "Yes"
                      /\ sensor_rows["gear"] =
                           IF rec_data.gear = 0 THEN "P" ELSE "D"
                      /\ \A f \in Fields \ {"door", "gear", "temp_set"} :
                             sensor_rows[f] = rec_data[f]
    BY DEF PanelShowsDecision
  <2> DEFINE n == Len(sent)
  <2>1. TypeOK /\ BusOK
    BY <1>1, BusIs
  <2>2. sent \in Seq(Samples) /\ n \in Nat \ {0}
    BY <2>1, BusTyped, EmptySeq
  <2>3. TakenOf(<<>>, sent) = n * 12
    BY <2>2, RestEmpty
  <2>4. KnownData(rec_data, n * 12, sent) /\ ShownRows(sensor_rows, n * 12, sent)
    BY <2>1, <2>3 DEF BusOK
  <2>5. \A f \in Fields : NoOf(n * 12, f) = n
    BY <2>2, PositionOf, SampleNoAtEnd DEF NoOf
  <2> HIDE DEF n
  <2>6. \A f \in Fields : rec_data[f] = sent[n].data[f]
    BY <2>2, <2>4, <2>5 DEF KnownData
  <2>7. \A f \in Fields \ {"temp_set"} :
           sensor_rows[f] = Shown([field |-> f, value |-> rec_data[f]])
    BY <2>2, <2>4, <2>5, <2>6 DEF ShownRows, RowOf
  <2>8. QED
    BY <2>7 DEF Shown, Fields
<1>2. QED
  BY <1>1, Inductive, PTL

\* The conditions of the stop hold on data of which all but the gear has
\* arrived, and that may mix two samples of a standing car.
LEMMA StopsOnStanding ==
    ASSUME IInv, Logic!AllConditions(rec_data), NEW f \in Fields
    PROVE  /\ f # "gear" => SampleOf(f) # 0
           /\ SampleOf(f) # 0 => sent[SampleOf(f)].data.speed = 0
<1> DEFINE t == TakenOf(to_powertrain, sent)
           w == t \div 12
           r == t % 12
           no(g) == IF Position(g) <= r THEN w + 1 ELSE w
<1>1. TypeOK /\ BusOK /\ SamplesOK
  BY BusIs
<1>2. t \in Nat /\ w \in Nat /\ r \in 0..11 /\ Len(sent) \in Nat
  BY <1>1, BusTyped, Division
<1>3. \A g \in Fields : SampleOf(g) = no(g) /\ no(g) \in 0..Len(sent)
  <2>1. \A g \in Fields : SampleOf(g) = NoOf(t, g) /\ SampleOf(g) \in 0..Len(sent)
    BY <1>1, KnownSamples
  <2>2. \A g \in Fields : NoOf(t, g) = no(g)
    BY TwelveMessages DEF NoOf, SampleNo
  <2>3. QED
    BY <2>1, <2>2
<1>4. /\ rec_data.engi_temp >= 200
      /\ rec_data.speed = 0 /\ rec_data.gear = 0
  BY DEF Logic!AllConditions, Logic!check_movement_conditions,
         Logic!check_engine_temp_conditions, Logic!MIN_ENGINE_TEMP
<1> HIDE DEF t, w, r
<1>5. "speed" \in Fields /\ "gear" \in Fields /\ "engi_temp" \in Fields
  BY DEF Fields
<1>6. /\ no("gear") = w /\ no("speed") = IF 1 <= r THEN w + 1 ELSE w
      /\ no("engi_temp") = IF 11 <= r THEN w + 1 ELSE w
  BY <1>2, WherePositions
<1>7. no("engi_temp") # 0
  <2>1. rec_data["engi_temp"] # 0
    BY <1>4
  <2>2. SampleOf("engi_temp") # 0
    BY <1>1, <1>5, <2>1, KnownSamples
  <2>3. QED
    BY <1>3, <1>5, <2>2
<1>8. no("speed") # 0 /\ sent[no("speed")].data.speed = 0
  <2>1. no("speed") # 0
    BY <1>2, <1>6, <1>7
  <2>2. rec_data["speed"] = sent[no("speed")].data["speed"]
    <3>1. SampleOf("speed") = no("speed")
      BY <1>3, <1>5
    <3> HIDE DEF no
    <3>2. QED
      BY <1>1, <1>5, <2>1, <3>1, KnownSamples
  <2>3. QED
    BY <1>4, <2>1, <2>2
<1>9. w # 0 => sent[w].data.gear = 0 /\ w \in 1..Len(sent)
  <2>1. SampleOf("gear") = w /\ w \in 0..Len(sent)
    BY <1>3, <1>5, <1>6
  <2>2. w # 0 => rec_data["gear"] = sent[w].data["gear"]
    BY <1>1, <1>5, <2>1, KnownSamples
  <2>3. QED
    BY <1>2, <1>4, <2>1, <2>2
<1>10. w # 0 => sent[w].data.speed = 0
  <2> SUFFICES ASSUME w # 0
               PROVE  sent[w].data.speed = 0
    OBVIOUS
  <2>1. CASE r = 0
    <3>1. no("speed") = w
      BY <1>6, <2>1
    <3> HIDE DEF no
    <3>2. QED
      BY <1>8, <3>1
  <2>2. CASE r >= 1
    <3>1. w + 1 \in 0..Len(sent)
      BY <1>2, <1>3, <1>5, <1>6, <2>2
    <3>2. w < Len(sent)
      BY <1>2, <3>1
    <3>3. QED
      BY <1>1, <1>9, <3>2 DEF SamplesOK, PARKING
  <2>3. QED
    BY <1>2, <2>1, <2>2
<1>11. f # "gear" => no(f) # 0
  BY <1>2, <1>6, <1>7, WherePositions
<1>12. no(f) # 0 => sent[no(f)].data.speed = 0
  <2>1. CASE no(f) = w
    BY <1>10, <2>1
  <2>2. CASE no(f) = w + 1 /\ no(f) # w
    <3>1. r >= 1
      BY <1>2, <2>2, PositionOf
    <3>2. no("speed") = w + 1
      BY <1>2, <1>6, <3>1
    <3> HIDE DEF no
    <3>3. QED
      BY <1>8, <2>2, <3>2
  <2>3. QED
    BY <2>1, <2>2
<1>13. SampleOf(f) = no(f)
  BY <1>3
<1> HIDE DEF no
<1>14. QED
  BY <1>11, <1>12, <1>13

\* The engine is stopped only while the car stands: in both samples the data
\* may mix (bcm_func.c:284-321, powertrain_func.c:183).
THEOREM StopsOnlyStanding == Spec => StopsStanding
<1> DEFINE Stands ==
       ~stopped /\ stopped' =>
          \A f \in Fields :
              /\ f # "gear" => SampleOf(f) # 0
              /\ SampleOf(f) # 0 => sent[SampleOf(f)].data.speed = 0
<1>1. IInv /\ [Next]_vars => [Stands]_vars
  <2> SUFFICES ASSUME IInv, Next, ~stopped, stopped', NEW f \in Fields
               PROVE  /\ f # "gear" => SampleOf(f) # 0
                      /\ SampleOf(f) # 0 => sent[SampleOf(f)].data.speed = 0
    OBVIOUS
  <2>1. Logic!Stop
    BY DEF Next, SpeedStep, BatteryUpdate, CommsSend, PowertrainRead,
           PowertrainStep, DashboardRead, Logic!Enable, Logic!Restart,
           Logic!Postpone, powertrain
  <2>2. Logic!AllConditions(rec_data)
    BY <2>1 DEF Logic!Stop
  <2>3. QED
    BY <2>2, StopsOnStanding
<1>2. QED
  BY <1>1, Inductive, PTL DEF Spec, StopsStanding

=============================================================================
