-------------------------- MODULE InstrumentCluster --------------------------
(***************************************************************************)
(* The instrument cluster (instrument_cluster.c): its loop opens the named *)
(* pipe, reads once, closes the pipe and obeys what it has read.  The      *)
(* button is a shell command that opens the pipe, writes one text and      *)
(* closes it.                                                              *)
(*                                                                         *)
(* The pipe is the operating system's: opening one end waits for the other *)
(* end, a write without a reader fails, a read without data waits for a    *)
(* writer and returns nothing when there is none, and what is in the pipe  *)
(* when its last user closes it is gone.                                   *)
(***************************************************************************)
EXTENDS Naturals, Sequences

CONSTANTS
    Writers,    \* the commands that can be running at one time
    MaxPipe     \* bound: the texts in the pipe (it holds 64 KiB)

ASSUME MaxPipeAssumption == MaxPipe \in Nat \ {0}

\* What is written: the one command, which fills a read of AES_BLOCK_SIZE
\* bytes, or the shorter word that ends the program.
Texts == {"press_start_stop", "exit"}
Filling == {"press_start_stop"}

VARIABLES
    main_pc,   \* where main is: before open, before read, before close, "end"
    input,     \* the text read last
    pipe,      \* the texts in the pipe, or what is left of them
    writer,    \* for each command, how far it is
    text,      \* for each command, the text it writes
    lone       \* history: the command that began while main was waiting for
               \*   one, which no other has joined and which is not obeyed yet

cluster == <<main_pc, input>>
shell == <<writer, text>>
vars == <<cluster, pipe, shell, lone>>

-----------------------------------------------------------------------------

Init ==
    /\ main_pc = "open"
    /\ input = "none"
    /\ pipe = <<>>
    /\ writer = [w \in Writers |-> "idle"]
    /\ text = [w \in Writers |-> "none"]
    /\ lone = {}

ReaderOpen == main_pc \in {"read", "close"}
WriterOpen == \E w \in Writers : writer[w] # "idle"

\* The pipe when one of its users leaves: used says whether others stay.
KeptInPipe(used, content) == pipe' = IF used THEN content ELSE <<>>

-----------------------------------------------------------------------------
(* The shell commands.                                                     *)

\* A command is started: its open() returns at once if main reads.
StartWriter(w, t) ==
    /\ writer[w] = "idle"
    /\ main_pc # "end"
    /\ writer' = [writer EXCEPT ![w] = IF ReaderOpen THEN "write" ELSE "open"]
    /\ text' = [text EXCEPT ![w] = t]
    /\ lone' = IF main_pc = "open" /\ ~WriterOpen THEN {w} ELSE {}
    /\ UNCHANGED <<cluster, pipe>>

Write(w) ==
    /\ writer[w] = "write"
    /\ ReaderOpen
    /\ Len(pipe) < MaxPipe
    /\ pipe' = Append(pipe, text[w])
    /\ writer' = [writer EXCEPT ![w] = "close"]
    /\ UNCHANGED <<cluster, text, lone>>

OthersOpen(w) == ReaderOpen \/ \E v \in Writers \ {w} : writer[v] # "idle"

\* SIGPIPE: main has closed the pipe since the open() of this command.
WriteFails(w) ==
    /\ writer[w] = "write"
    /\ ~ReaderOpen
    /\ writer' = [writer EXCEPT ![w] = "idle"]
    /\ KeptInPipe(OthersOpen(w), pipe)
    /\ UNCHANGED <<cluster, text, lone>>

CloseWriter(w) ==
    /\ writer[w] = "close"
    /\ writer' = [writer EXCEPT ![w] = "idle"]
    /\ KeptInPipe(OthersOpen(w), pipe)
    /\ UNCHANGED <<cluster, text, lone>>

-----------------------------------------------------------------------------
(* main                                                                    *)

\* open(FIFO_PATH, O_RDONLY) returns when there is a writer; every command
\* that waits in its own open() goes on, whatever main does next.
Open ==
    /\ main_pc = "open"
    /\ WriterOpen
    /\ main_pc' = "read"
    /\ writer' = [w \in Writers |->
                     IF writer[w] = "open" THEN "write" ELSE writer[w]]
    /\ UNCHANGED <<input, pipe, text, lone>>

\* A defect: the pipe is opened with O_NONBLOCK, read never waits.
ReadNonBlocking == TRUE

\* read() has something to return.
ReadReturns ==
    pipe # <<>> \/ \A w \in Writers : writer[w] = "idle"

\* A defect: without the memset a short text leaves the end of the last one.
InputOver(t) == IF t \notin Filling /\ input \in Filling THEN "overlaid" ELSE t

\* A defect: AES_BLOCK_SIZE - 1 bytes are read, which cuts a press.
InputCut(t) == IF t \in Filling THEN "rest" ELSE t

\* memset(input, 0, sizeof(input)) leaves nothing of the last text.
InputOf(t) == t

\* read(fifo_fd, input, AES_BLOCK_SIZE) and the removal of the newline.  A
\* text that fills the read, or is alone, is read as it was written; a shorter
\* one runs into the next texts, the last of which may be cut.
Read ==
    /\ main_pc = "read"
    /\ ReadReturns
    /\ main_pc' = "close"
    /\ \/ /\ pipe = <<>>
          /\ input' = InputOf("")
          /\ UNCHANGED pipe
       \/ /\ pipe # <<>>
          /\ Head(pipe) \in Filling \/ Len(pipe) = 1
          /\ input' = InputOf(Head(pipe))
          /\ pipe' = Tail(pipe)
       \/ /\ Len(pipe) > 1
          /\ Head(pipe) \notin Filling
          /\ input' = InputOf("run together")
          /\ \E n \in 2..Len(pipe) :
                \/ pipe' = SubSeq(pipe, n + 1, Len(pipe))
                \/ pipe' = <<"rest">> \o SubSeq(pipe, n + 1, Len(pipe))
    /\ UNCHANGED <<shell, lone>>

\* check_input_command: strcmp(option, "press_start_stop") == 0
is_press(t) == t = "press_start_stop"

\* A defect: an empty text is no reason to open the pipe again.
ReadAgain(t) ==
    IF t = "exit" THEN "end" ELSE IF is_press(t) THEN "open" ELSE "read"

\* The loop ends with "exit", and goes on after anything else.
AfterInput(t) == IF t = "exit" THEN "end" ELSE "open"

\* close(fifo_fd), then the input is obeyed: "exit" ends the program, a press
\* is sent (CAN_ID_COMMAND), an empty or unknown text is nothing.
CloseAndObey ==
    /\ main_pc = "close"
    /\ KeptInPipe(WriterOpen, pipe)
    /\ main_pc' = AfterInput(input)
    /\ lone' = IF is_press(input) \/ input = "exit"
                  THEN {w \in lone : input # text[w]} ELSE lone
    /\ UNCHANGED <<input, shell>>

-----------------------------------------------------------------------------

ShellStep(w) == Write(w) \/ WriteFails(w) \/ CloseWriter(w)

Main == Open \/ Read \/ CloseAndObey

Next ==
    \/ \E w \in Writers : (\E t \in Texts : StartWriter(w, t)) \/ ShellStep(w)
    \/ Main

Spec == Init /\ [][Next]_vars

\* Both programs run when nothing makes them wait.  Nobody has to press.
FairSpec == Spec /\ WF_vars(Main) /\ \A w \in Writers : WF_vars(ShellStep(w))

-----------------------------------------------------------------------------

\* The variables have their types, and a command under way has a text.
TypeOK ==
    /\ main_pc \in {"open", "read", "close", "end"}
    /\ input \in Texts \cup {"none", "", "rest", "run together"}
    /\ pipe \in Seq(Texts \cup {"rest"})
    /\ Len(pipe) <= MaxPipe
    /\ writer \in [Writers -> {"idle", "open", "write", "close"}]
    /\ text \in [Writers -> Texts \cup {"none"}]
    /\ \A w \in Writers : writer[w] # "idle" => text[w] \in Texts
    /\ lone \subseteq Writers

\* A command given to a waiting program and left alone is not lost, cut or
\* joined to what an earlier command left behind: until main has obeyed it,
\* its text is still with the command, is all there is in the pipe, or is
\* what main has read (instrument_cluster.c:39-45).
LoneTextKept ==
    \A w \in lone :
        \/ /\ writer[w] = "open"
           /\ main_pc = "open"
           /\ pipe = <<>>
        \/ /\ writer[w] = "write"
           /\ main_pc = "read"
           /\ pipe = <<>>
        \/ /\ main_pc = "read"
           /\ pipe = <<text[w]>>
        \/ /\ main_pc = "close"
           /\ input = text[w]

\* Such a command is obeyed in the end, or another one joins it.
LoneObeyed == \A w \in Writers : lone = {w} ~> lone # {w}

\* However the commands overlap, main does not stay in its read: it comes back
\* to wait for the next command, or ends (instrument_cluster.c:31-56).
RoundEnds == main_pc = "read" ~> main_pc \in {"open", "end"}

=============================================================================
