----------------------- MODULE InstrumentClusterProofs -----------------------
(***************************************************************************)
(* Proofs about InstrumentCluster: whatever the number of commands and the *)
(* order of their opens, writes and closes, a command that was given to a  *)
(* waiting program and left alone is read as it was written.               *)
(***************************************************************************)
EXTENDS InstrumentCluster, SequenceTheorems, TLAPS

\* A command waits in its open() only while main is not reading.
OpenersWait ==
    \A w \in Writers : writer[w] = "open" => main_pc \in {"open", "end"}

\* Nothing is left in a pipe that nobody has open.
UnusedIsEmpty ==
    main_pc \in {"open", "end"} /\ ~WriterOpen => pipe = <<>>

\* The lone command is the only one under way.
OthersIdle ==
    \A w \in lone : \A v \in Writers \ {w} : writer[v] = "idle"

\* The four places its text goes through, with how far the command is.
Given(w) == writer[w] = "open" /\ main_pc = "open" /\ pipe = <<>>
Opened(w) == writer[w] = "write" /\ main_pc = "read" /\ pipe = <<>>
Written(w) ==
    writer[w] \in {"close", "idle"} /\ main_pc = "read" /\ pipe = <<text[w]>>
TakenUp(w) ==
    /\ writer[w] \in {"close", "idle"}
    /\ main_pc = "close"
    /\ pipe = <<>>
    /\ input = text[w]

LonePlaces ==
    \A w \in lone :
        /\ text[w] \in Texts
        /\ Given(w) \/ Opened(w) \/ Written(w) \/ TakenUp(w)

IInv ==
    /\ TypeOK
    /\ OpenersWait
    /\ UnusedIsEmpty
    /\ OthersIdle
    /\ LonePlaces

-----------------------------------------------------------------------------
(* Types.                                                                  *)

PipeTexts == Texts \cup {"rest"}

\* What a read leaves in the pipe is a shorter sequence of texts.
LEMMA RestOfPipe ==
    ASSUME NEW p \in Seq(PipeTexts), NEW n \in 2..Len(p)
    PROVE  /\ SubSeq(p, n + 1, Len(p)) \in Seq(PipeTexts)
           /\ Len(SubSeq(p, n + 1, Len(p))) = Len(p) - n
           /\ <<"rest">> \o SubSeq(p, n + 1, Len(p)) \in Seq(PipeTexts)
           /\ Len(<<"rest">> \o SubSeq(p, n + 1, Len(p))) = Len(p) - n + 1
<1> DEFINE q == SubSeq(p, n + 1, Len(p))
<1>1. Len(p) \in Nat /\ n + 1 \in 1..Len(p) + 1
  OBVIOUS
<1>2. q \in Seq(PipeTexts) /\ Len(q) = Len(p) - n
  BY <1>1, SubSeqProperties
<1>3. <<"rest">> \in Seq(PipeTexts) /\ Len(<<"rest">>) = 1
  BY DEF PipeTexts
<1> HIDE DEF q
<1>4. /\ <<"rest">> \o q \in Seq(PipeTexts)
      /\ Len(<<"rest">> \o q) = 1 + Len(q)
  BY <1>2, <1>3, ConcatProperties
<1>5. QED
  BY <1>1, <1>2, <1>4 DEF q

LEMMA LongerPipe ==
    ASSUME NEW S, NEW p \in Seq(S), NEW e \in S
    PROVE  Append(p, e) \in Seq(S) /\ Len(Append(p, e)) = Len(p) + 1
BY AppendProperties

LEMMA TailOfPipe ==
    ASSUME NEW S, NEW p \in Seq(S), p # <<>>
    PROVE  /\ Tail(p) \in Seq(S)
           /\ Head(p) \in S
           /\ Len(p) \in Nat
           /\ Len(Tail(p)) = Len(p) - 1
BY HeadTailProperties

LEMMA OneMoreFits ==
    ASSUME NEW l \in Nat, NEW m \in Nat, l < m
    PROVE  l + 1 <= m
OBVIOUS

LEMMA ShorterFits ==
    ASSUME NEW l \in Nat, NEW m \in Nat, l <= m, NEW k \in 2..l
    PROVE  l - k <= m /\ l - k + 1 <= m
OBVIOUS

LEMMA LengthIsNat ==
    ASSUME NEW S, NEW p \in Seq(S)
    PROVE  Len(p) \in Nat
OBVIOUS

LEMMA KeptIsPart ==
    ASSUME NEW used \in BOOLEAN, TypeOK, KeptInPipe(used, pipe)
    PROVE  pipe' \in Seq(PipeTexts) /\ Len(pipe') <= MaxPipe
<1>1. pipe \in Seq(PipeTexts) /\ Len(pipe) <= MaxPipe
  BY DEF TypeOK, PipeTexts
<1>2. <<>> \in Seq(PipeTexts) /\ Len(<<>>) = 0
  BY EmptySeq
<1>3. pipe' = pipe \/ pipe' = <<>>
  BY DEF KeptInPipe
<1>4. CASE pipe' = pipe
  BY <1>1, <1>4
<1>5. CASE pipe' = <<>>
  <2>1. 0 <= MaxPipe
    BY MaxPipeAssumption
  <2>2. QED
    BY <1>2, <1>5, <2>1
<1>6. QED
  BY <1>3, <1>4, <1>5

\* Whatever is read or left in the pipe, main and the commands keep to their
\* states and the pipe to its size.
THEOREM TypeCorrect == Spec => []TypeOK
<1>1. Init => TypeOK
  BY MaxPipeAssumption DEF Init, TypeOK
<1>2. TypeOK /\ [Next]_vars => TypeOK'
  <2> SUFFICES ASSUME TypeOK, [Next]_vars
               PROVE  TypeOK'
    OBVIOUS
  <2> USE DEF TypeOK, cluster, shell
  <2>1. ASSUME NEW w \in Writers, NEW t \in Texts, StartWriter(w, t)
        PROVE  TypeOK'
    BY <2>1 DEF StartWriter
  <2>2. ASSUME NEW w \in Writers, Write(w)
        PROVE  TypeOK'
    <3>1. text[w] \in Texts
      BY <2>2 DEF Write
    <3>2. /\ pipe \in Seq(PipeTexts)
          /\ Len(pipe) < MaxPipe
          /\ pipe' = Append(pipe, text[w])
      BY <2>2 DEF Write, PipeTexts
    <3>3. text[w] \in PipeTexts
      BY <3>1 DEF PipeTexts
    <3>4. /\ pipe' \in Seq(PipeTexts)
          /\ Len(pipe') = Len(pipe) + 1
          /\ Len(pipe) \in Nat
      BY <3>2, <3>3, LongerPipe, LengthIsNat
    <3>5. Len(pipe') <= MaxPipe
      BY <3>2, <3>4, OneMoreFits, MaxPipeAssumption
    <3>6. QED
      BY <2>2, <3>4, <3>5 DEF Write, PipeTexts
  <2>3. ASSUME NEW w \in Writers, WriteFails(w)
        PROVE  TypeOK'
    BY <2>3, KeptIsPart DEF WriteFails, OthersOpen, ReaderOpen, PipeTexts
  <2>4. ASSUME NEW w \in Writers, CloseWriter(w)
        PROVE  TypeOK'
    BY <2>4, KeptIsPart DEF CloseWriter, OthersOpen, ReaderOpen, PipeTexts
  <2>5. CASE Open
    BY <2>5 DEF Open
  <2>6. CASE Read
    <3>1. pipe' \in Seq(PipeTexts) /\ Len(pipe') <= MaxPipe
      <4>1. CASE pipe = <<>> /\ UNCHANGED pipe
        BY <4>1 DEF PipeTexts
      <4>2. CASE pipe # <<>> /\ pipe' = Tail(pipe)
        <5>1. pipe \in Seq(PipeTexts) /\ Len(pipe) <= MaxPipe
          BY DEF PipeTexts
        <5>2. /\ Tail(pipe) \in Seq(PipeTexts)
              /\ Len(pipe) \in Nat
              /\ Len(Tail(pipe)) = Len(pipe) - 1
          BY <4>2, <5>1, TailOfPipe
        <5> HIDE DEF TypeOK
        <5>3. QED
          BY <4>2, <5>1, <5>2, MaxPipeAssumption
      <4>3. ASSUME NEW n \in 2..Len(pipe),
                   \/ pipe' = SubSeq(pipe, n + 1, Len(pipe))
                   \/ pipe' = <<"rest">> \o SubSeq(pipe, n + 1, Len(pipe))
            PROVE  pipe' \in Seq(PipeTexts) /\ Len(pipe') <= MaxPipe
        <5>1. pipe \in Seq(PipeTexts)
          BY DEF PipeTexts
        <5>2. /\ pipe' \in Seq(PipeTexts)
              /\ Len(pipe') = Len(pipe) - n \/ Len(pipe') = Len(pipe) - n + 1
          BY <4>3, <5>1, RestOfPipe
        <5>3. Len(pipe) \in Nat /\ Len(pipe) <= MaxPipe /\ MaxPipe \in Nat
          BY <5>1, LengthIsNat, MaxPipeAssumption
        <5>4. Len(pipe) - n <= MaxPipe /\ Len(pipe) - n + 1 <= MaxPipe
          BY <4>3, <5>3, ShorterFits
        <5>5. QED
          BY <5>2, <5>4
      <4>4. QED
        BY <2>6, <4>1, <4>2, <4>3 DEF Read
    <3>2. input' \in Texts \cup {"none", "", "rest", "run together"}
      <4>1. pipe # <<>> => Head(pipe) \in PipeTexts
        BY HeadTailProperties DEF PipeTexts
      <4>2. QED
        BY <2>6, <4>1 DEF Read, InputOf, PipeTexts
    <3>3. QED
      BY <2>6, <3>1, <3>2 DEF Read, PipeTexts
  <2>7. CASE CloseAndObey
    BY <2>7, KeptIsPart DEF CloseAndObey, WriterOpen, AfterInput, PipeTexts
  <2>8. CASE UNCHANGED vars
    BY <2>8 DEF vars
  <2>9. QED
    BY <2>1, <2>2, <2>3, <2>4, <2>5, <2>6, <2>7, <2>8
       DEF Next, Main, ShellStep
<1>3. QED
  BY <1>1, <1>2, PTL DEF Spec

-----------------------------------------------------------------------------
(* The lone command.                                                       *)

\* The places of the lone command, with what makes them the only ones: the
\* others are idle, and an unused pipe is empty.
THEOREM Inductive == Spec => []IInv
<1>1. Init => IInv
  <2> SUFFICES ASSUME Init
               PROVE  IInv
    OBVIOUS
  <2>1. TypeOK
    BY MaxPipeAssumption DEF Init, TypeOK
  <2>2. OpenersWait /\ UnusedIsEmpty /\ OthersIdle /\ LonePlaces
    BY DEF Init, OpenersWait, UnusedIsEmpty, OthersIdle, LonePlaces
  <2>3. QED
    BY <2>1, <2>2 DEF IInv
<1>2. IInv /\ TypeOK' /\ [Next]_vars => IInv'
  <2> SUFFICES ASSUME IInv, TypeOK', [Next]_vars
               PROVE  IInv'
    OBVIOUS
  <2> USE DEF cluster, shell, Given, Opened, Written, TakenUp
  <2>0. /\ TypeOK /\ OpenersWait /\ UnusedIsEmpty
        /\ OthersIdle /\ LonePlaces
    BY DEF IInv
  <2>1. ASSUME NEW w \in Writers, NEW t \in Texts, StartWriter(w, t)
        PROVE  IInv'
    <3>1. /\ writer[w] = "idle"
          /\ writer' = [writer EXCEPT
                           ![w] = IF ReaderOpen THEN "write" ELSE "open"]
          /\ text' = [text EXCEPT ![w] = t]
          /\ UNCHANGED <<main_pc, input, pipe>>
          /\ lone' = IF main_pc = "open" /\ ~WriterOpen THEN {w} ELSE {}
      BY <2>1 DEF StartWriter
    <3>2. OpenersWait'
      BY <2>0, <3>1 DEF TypeOK, OpenersWait, ReaderOpen
    <3>3. UnusedIsEmpty'
      BY <2>0, <3>1 DEF TypeOK, UnusedIsEmpty, WriterOpen, ReaderOpen
    <3>4. OthersIdle'
      BY <2>0, <3>1 DEF TypeOK, OthersIdle, WriterOpen
    <3>5. LonePlaces'
      BY <2>0, <3>1 DEF TypeOK, LonePlaces, UnusedIsEmpty, WriterOpen,
                        ReaderOpen
    <3>6. QED
      BY <3>2, <3>3, <3>4, <3>5 DEF IInv
  <2>2. ASSUME NEW w \in Writers, Write(w)
        PROVE  IInv'
    <3>1. /\ writer[w] = "write"
          /\ main_pc \in {"read", "close"}
          /\ pipe' = Append(pipe, text[w])
          /\ writer' = [writer EXCEPT ![w] = "close"]
          /\ UNCHANGED <<main_pc, input, text, lone>>
      BY <2>2 DEF Write, ReaderOpen
    <3>2. OpenersWait'
      BY <2>0, <3>1 DEF TypeOK, OpenersWait
    <3>3. UnusedIsEmpty'
      BY <3>1 DEF UnusedIsEmpty
    <3>4. OthersIdle'
      BY <2>0, <3>1 DEF TypeOK, OthersIdle
    <3>5. LonePlaces'
      <4> SUFFICES ASSUME NEW v \in lone
                   PROVE  /\ text[v] \in Texts
                          /\ Written(v)'
        BY <3>1 DEF LonePlaces
      <4>1. v = w
        BY <2>0, <3>1 DEF TypeOK, OthersIdle
      <4>2. Opened(w) /\ text[w] \in Texts
        BY <2>0, <3>1, <4>1 DEF LonePlaces
      <4>3. pipe' = <<text[w]>>
        BY <3>1, <4>2
      <4>4. QED
        BY <2>0, <3>1, <4>1, <4>2, <4>3 DEF TypeOK
    <3>6. QED
      BY <3>2, <3>3, <3>4, <3>5 DEF IInv
  <2>3. ASSUME NEW w \in Writers, WriteFails(w)
        PROVE  IInv'
    <3>1. /\ writer[w] = "write"
          /\ main_pc \notin {"read", "close"}
          /\ writer' = [writer EXCEPT ![w] = "idle"]
          /\ UNCHANGED <<main_pc, input, text, lone>>
          /\ pipe' = IF \E v \in Writers \ {w} : writer[v] # "idle"
                       THEN pipe ELSE <<>>
      BY <2>3 DEF WriteFails, ReaderOpen, KeptInPipe, OthersOpen
    <3>2. OpenersWait'
      BY <2>0, <3>1 DEF TypeOK, OpenersWait
    <3>3. UnusedIsEmpty'
      BY <2>0, <3>1 DEF TypeOK, UnusedIsEmpty, WriterOpen
    <3>4. OthersIdle'
      BY <2>0, <3>1 DEF TypeOK, OthersIdle
    <3>5. lone = {}
      BY <2>0, <3>1 DEF TypeOK, OthersIdle, LonePlaces
    <3>6. QED
      BY <3>1, <3>2, <3>3, <3>4, <3>5 DEF IInv, LonePlaces
  <2>4. ASSUME NEW w \in Writers, CloseWriter(w)
        PROVE  IInv'
    <3>1. /\ writer[w] = "close"
          /\ writer' = [writer EXCEPT ![w] = "idle"]
          /\ UNCHANGED <<main_pc, input, text, lone>>
          /\ pipe' = IF \/ main_pc \in {"read", "close"}
                        \/ \E v \in Writers \ {w} : writer[v] # "idle"
                       THEN pipe ELSE <<>>
      BY <2>4 DEF CloseWriter, ReaderOpen, KeptInPipe, OthersOpen
    <3>2. OpenersWait'
      BY <2>0, <3>1 DEF TypeOK, OpenersWait
    <3>3. UnusedIsEmpty'
      BY <2>0, <3>1 DEF TypeOK, UnusedIsEmpty, WriterOpen
    <3>4. OthersIdle'
      BY <2>0, <3>1 DEF TypeOK, OthersIdle
    <3>5. LonePlaces'
      <4> SUFFICES ASSUME NEW v \in lone
                   PROVE  /\ text[v] \in Texts
                          /\ Written(v)' \/ TakenUp(v)'
        BY <3>1 DEF LonePlaces
      <4>1. v = w
        BY <2>0, <3>1 DEF TypeOK, OthersIdle
      <4>2. text[w] \in Texts /\ (Written(w) \/ TakenUp(w))
        BY <2>0, <3>1, <4>1 DEF LonePlaces
      <4>3. pipe' = pipe
        BY <3>1, <4>2
      <4>4. QED
        BY <2>0, <3>1, <4>1, <4>2, <4>3 DEF TypeOK
    <3>6. QED
      BY <3>2, <3>3, <3>4, <3>5 DEF IInv
  <2>5. CASE Open
    <3>1. /\ main_pc = "open"
          /\ main_pc' = "read"
          /\ writer' = [w \in Writers |->
                           IF writer[w] = "open" THEN "write" ELSE writer[w]]
          /\ UNCHANGED <<input, pipe, text, lone>>
      BY <2>5 DEF Open
    <3>2. OpenersWait' /\ UnusedIsEmpty'
      BY <2>0, <3>1 DEF TypeOK, OpenersWait, UnusedIsEmpty
    <3>3. OthersIdle'
      BY <2>0, <3>1 DEF TypeOK, OthersIdle
    <3>4. LonePlaces'
      BY <2>0, <3>1 DEF TypeOK, LonePlaces
    <3>5. QED
      BY <3>2, <3>3, <3>4 DEF IInv
  <2>6. CASE Read
    <3>1. /\ main_pc = "read"
          /\ main_pc' = "close"
          /\ pipe # <<>> \/ \A w \in Writers : writer[w] = "idle"
          /\ UNCHANGED <<writer, text, lone>>
      BY <2>6 DEF Read, ReadReturns
    <3>2. OpenersWait' /\ UnusedIsEmpty'
      BY <2>0, <3>1 DEF OpenersWait, UnusedIsEmpty
    <3>3. OthersIdle'
      BY <2>0, <3>1 DEF OthersIdle
    <3>4. LonePlaces'
      <4> SUFFICES ASSUME NEW v \in lone
                   PROVE  /\ text[v] \in Texts
                          /\ TakenUp(v)'
        BY <3>1 DEF LonePlaces
      <4>1. v \in Writers
        BY <2>0 DEF TypeOK
      <4>2. Written(v) /\ text[v] \in Texts
        BY <2>0, <3>1, <4>1 DEF LonePlaces
      <4>3. pipe = <<text[v]>>
        BY <4>2
      <4>4. /\ pipe # <<>>
            /\ Len(pipe) = 1
            /\ Head(pipe) = text[v]
            /\ Tail(pipe) = <<>>
        BY <4>3
      <4>5. /\ pipe # <<>>
            /\ ~(Len(pipe) > 1)
        BY <4>4
      <4> HIDE DEF cluster, shell, Given, Opened, Written, TakenUp
      <4>6. input' = Head(pipe) /\ pipe' = Tail(pipe)
        BY <2>6, <4>5 DEF Read, InputOf
      <4>7. input' = text[v] /\ pipe' = <<>>
        BY <4>4, <4>6
      <4>8. writer[v] \in {"close", "idle"}
        BY <4>2 DEF Written
      <4>9. QED
        BY <3>1, <4>2, <4>7, <4>8 DEF TakenUp
    <3>5. QED
      BY <3>2, <3>3, <3>4 DEF IInv
  <2>7. CASE CloseAndObey
    <3>1. /\ main_pc = "close"
          /\ pipe' = IF \E w \in Writers : writer[w] # "idle"
                       THEN pipe ELSE <<>>
          /\ main_pc' \in {"open", "end"}
          /\ UNCHANGED <<input, writer, text>>
          /\ lone' = IF input \in Texts
                       THEN {w \in lone : input # text[w]} ELSE lone
      BY <2>7 DEF CloseAndObey, KeptInPipe, WriterOpen, AfterInput,
                  is_press, Texts
    <3>2. OpenersWait' /\ UnusedIsEmpty'
      BY <2>0, <3>1 DEF OpenersWait, UnusedIsEmpty, WriterOpen
    <3>3. lone' = {}
      BY <2>0, <3>1 DEF TypeOK, LonePlaces
    <3>4. QED
      BY <3>2, <3>3 DEF IInv, OthersIdle, LonePlaces
  <2>8. CASE UNCHANGED vars
    BY <2>0, <2>8 DEF vars, IInv, OpenersWait, UnusedIsEmpty, WriterOpen,
                      OthersIdle, LonePlaces
  <2>9. QED
    BY <2>1, <2>2, <2>3, <2>4, <2>5, <2>6, <2>7, <2>8
       DEF Next, Main, ShellStep
<1>3. QED
  BY <1>1, <1>2, TypeCorrect, PTL DEF Spec

\* A command that begins while main waits, and that no other joins, is with
\* its writer, alone in the pipe or read as it was written, until main obeys
\* it (instrument_cluster.c:39-45).
THEOREM LoneIsKept == Spec => []LoneTextKept
<1>1. IInv => LoneTextKept
  BY DEF IInv, LonePlaces, LoneTextKept, TypeOK,
         Given, Opened, Written, TakenUp
<1>2. QED
  BY <1>1, Inductive, PTL

=============================================================================
