------------------------------ MODULE PanelLog ------------------------------
(***************************************************************************)
(* The message log of the dashboard (dashboard/panels.c, add_to_log): a    *)
(* ring of lines that the receiving and the processing thread write while  *)
(* they hold can_buffer.mutex, and a window that shows the newest ones.    *)
(* add_to_log takes no lock of its own: the model has its statements as    *)
(* steps of the thread that calls it.                                      *)
(***************************************************************************)
EXTENDS Integers, Sequences

CONSTANTS
    MAX_LOG_LINES,  \* the lines of the ring
    Heights,        \* the heights a panel can be created with
    Threads,        \* the threads that call add_to_log
    NoThread,
    Texts,          \* the lines that are added
    Blank           \* what a slot holds that no line has gone to

ASSUME LogAssumption ==
    /\ MAX_LOG_LINES \in Nat \ {0}
    /\ Heights \subseteq Nat /\ \A h \in Heights : h > 2
    /\ NoThread \notin Threads
    /\ Blank \notin Texts

VARIABLES
    line_buffer,    \* the ring
    buffer_index,   \* the slot the next line goes to
    line_count,     \* panel->line_count
    height,         \* panel->height, fixed when the panel is created
    content,        \* the lines the window shows
    mutex,          \* the thread that holds can_buffer.mutex
    pc,             \* where each thread is in add_to_log
    text            \* the line each thread adds

panel == <<line_buffer, buffer_index, line_count>>
threads == <<mutex, pc, text>>
vars == <<panel, height, content, threads>>

Slots == 0..MAX_LOG_LINES - 1

\* create_log_panel
Init ==
    /\ line_buffer = [s \in Slots |-> Blank]
    /\ buffer_index = 0
    /\ line_count = 0
    /\ height \in Heights
    /\ content = <<>>
    /\ mutex = NoThread
    /\ pc = [t \in Threads |-> "out"]
    /\ text = [t \in Threads |-> Blank]

\* i % MAX_LOG_LINES, for the i that occur: 0..2 * MAX_LOG_LINES - 1.
Wrap(i) == IF i >= MAX_LOG_LINES THEN i - MAX_LOG_LINES ELSE i

\* The slot of the i-th line, from 0, when n lines end before slot next.
buf_index(next, n, i) == Wrap(next - n + i + MAX_LOG_LINES)

-----------------------------------------------------------------------------

\* A defect: add_to_log is called without the mutex.
NoMutex == TRUE

MutexFree == mutex = NoThread

\* A thread that holds can_buffer.mutex has something to log.
Call(t, line) ==
    /\ pc[t] = "out"
    /\ MutexFree
    /\ mutex' = t
    /\ pc' = [pc EXCEPT ![t] = "store"]
    /\ text' = [text EXCEPT ![t] = line]
    /\ UNCHANGED <<panel, height, content>>

\* strncpy(line_buffer[buffer_index], formatted_text, MAX_MSG_WIDTH - 1)
StoreLine(t) ==
    /\ pc[t] = "store"
    /\ line_buffer' = [line_buffer EXCEPT ![buffer_index] = text[t]]
    /\ pc' = [pc EXCEPT ![t] = "advance"]
    /\ UNCHANGED <<buffer_index, line_count, height, content, mutex, text>>

AdvanceIndex(t) ==
    /\ pc[t] = "advance"
    /\ buffer_index' = Wrap(buffer_index + 1)
    /\ pc' = [pc EXCEPT ![t] = "count"]
    /\ UNCHANGED <<line_buffer, line_count, height, content, mutex, text>>

Capped(n) == IF n < MAX_LOG_LINES THEN n + 1 ELSE n

CountLine(t) ==
    /\ pc[t] = "count"
    /\ line_count' = Capped(line_count)
    /\ pc' = [pc EXCEPT ![t] = "draw"]
    /\ UNCHANGED <<line_buffer, buffer_index, height, content, mutex, text>>

inner_height == height - 2

lines_to_display ==
    IF line_count < inner_height THEN line_count ELSE inner_height

\* A defect: the oldest lines are shown.
start_line_oldest == 0

start_line ==
    IF line_count <= inner_height THEN 0 ELSE line_count - inner_height

\* The window is drawn anew, or derwin fails and it stays as it is.
DrawLines(t) ==
    /\ pc[t] = "draw"
    /\ \/ content' =
            [i \in 1..lines_to_display |->
                line_buffer[buf_index(buffer_index, line_count,
                                      start_line + i - 1)]]
       \/ UNCHANGED content
    /\ pc' = [pc EXCEPT ![t] = "out"]
    /\ mutex' = NoThread
    /\ UNCHANGED <<panel, height, text>>

Next ==
    \E t \in Threads :
        \/ \E line \in Texts : Call(t, line)
        \/ StoreLine(t)
        \/ AdvanceIndex(t)
        \/ CountLine(t)
        \/ DrawLines(t)

Spec == Init /\ [][Next]_vars

-----------------------------------------------------------------------------

\* The variables have their types.
TypeOK ==
    /\ line_buffer \in [Slots -> Texts \cup {Blank}]
    /\ buffer_index \in Slots
    /\ line_count \in 0..MAX_LOG_LINES
    /\ height \in Heights
    /\ Len(content) <= MAX_LOG_LINES
    /\ mutex \in Threads \cup {NoThread}
    /\ pc \in [Threads -> {"out", "store", "advance", "count", "draw"}]
    /\ text \in [Threads -> Texts \cup {Blank}]

\* Only the owner of the mutex is in add_to_log.
OwnerOnly == \A t \in Threads : mutex = t <=> pc[t] # "out"

\* A thread on its way into the ring has a line.
TextInHand == \A t \in Threads : pc[t] = "store" => text[t] \in Texts

InStep(at) == \E t \in Threads : pc[t] = at

\* The lines the ring holds, the oldest first.  A line counts from the moment
\* it is stored: until the index has advanced it is in slot buffer_index.
LinesKept ==
    LET n == IF InStep("advance") \/ InStep("count")
               THEN Capped(line_count) ELSE line_count
        next == IF InStep("advance") THEN Wrap(buffer_index + 1)
                                     ELSE buffer_index
    IN  [i \in 1..n |-> line_buffer[buf_index(next, n, i - 1)]]

\* While the ring is not full, the index and the count agree, but for the two
\* statements between which they differ; so the line a full ring overwrites
\* is its oldest one, and no line is shown that was never written.
IndexIsCount ==
    line_count < MAX_LOG_LINES =>
        buffer_index = IF InStep("count") THEN Wrap(line_count + 1)
                                          ELSE line_count

\* The inductive invariant: add_to_log runs for one thread at a time, and the
\* count and the index of the ring stay in step.
IInv == TypeOK /\ OwnerOnly /\ TextInHand /\ IndexIsCount

\* The ring and the window are the log LogView promises, whichever threads
\* write to it and however often the ring has gone round (panels.c:42-104).
LogViewAbstract ==
    INSTANCE LogView WITH
        Kept <- MAX_LOG_LINES,
        rows <- inner_height,
        lines <- LinesKept,
        shown <- content,
        undrawn <- InStep("advance") \/ InStep("count") \/ InStep("draw")

ImplementsLogView == LogViewAbstract!Spec

=============================================================================
