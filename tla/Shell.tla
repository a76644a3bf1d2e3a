------------------------------- MODULE Shell -------------------------------
(***************************************************************************)
(* The line editor of the text shell (Shell in shell.rs) and the parts of  *)
(* the main loop that write on its line: the Clear and Help buttons and    *)
(* the return from the desktop.                                            *)
(*                                                                         *)
(* A line is a sequence of characters, all shorter than the screen is      *)
(* wide; WIDE are the characters of two bytes.  `shown` is what stands     *)
(* after the prompt.  `said`, `draft` and `asked` only remember, for the   *)
(* properties: the lines kept so far, the line that was being typed when   *)
(* the history was entered, and the line that stood on the screen when a   *)
(* command was run.                                                        *)
(***************************************************************************)
EXTENDS Integers, Sequences, SequencesExt, FiniteSetsExt

CONSTANTS
  Keys,               \* the characters that are typed
  WIDE,
  HELP, GUI,          \* the lines of these commands
  HISTORY_SIZE,
  MAX_LINE,           \* characters the line buffer holds
  MAX_COMMAND,        \* bytes the command buffer holds
  MaxSaid             \* bound on the lines run

VARIABLES
  buffer, history, history_count, history_cursor, temp_buffer,
  shown, ran, gui,
  said, draft, asked, pending

lineVars == <<buffer, history, history_count, history_cursor, temp_buffer>>
ghostVars == <<said, draft, asked, pending>>
shellVars == <<lineVars, shown, ran, gui, ghostVars>>

Ring == 0 .. HISTORY_SIZE - 1
Kept == Min({history_count, HISTORY_SIZE})

Init ==
  /\ buffer = <<>> /\ temp_buffer = <<>>
  /\ history = [i \in Ring |-> <<>>]
  /\ history_count = 0 /\ history_cursor = 0
  /\ shown = <<>> /\ ran = <<>> /\ gui = FALSE
  /\ said = <<>> /\ draft = <<>> /\ pending = FALSE
  /\ asked = [line |-> <<>>, pending |-> FALSE]

-----------------------------------------------------------------------------
Erased(line) == IF line = <<>> THEN <<>> ELSE Front(line)

\* A character is kept while there is room for it; Backspace takes the last
\* one of the buffer and of the screen.
Type(c) ==
  /\ Len(buffer) < MAX_LINE
  /\ buffer' = Append(buffer, c)
  /\ shown' = Append(shown, c)
  /\ UNCHANGED <<history, history_count, history_cursor, temp_buffer, ran, gui, ghostVars>>

Backspace ==
  /\ buffer # <<>>
  /\ buffer' = Front(buffer)
  /\ shown' = Erased(shown)
  /\ UNCHANGED <<history, history_count, history_cursor, temp_buffer, ran, gui, ghostVars>>

Slot(cursor) == (history_count - cursor) % HISTORY_SIZE

\* A line like the one before it is not kept again.
Repeats(line) == history_count > 0 /\ history[Slot(1)] = line
push_history(line) ==
  IF Repeats(line) THEN UNCHANGED <<history, history_count, said>>
  ELSE /\ history' = [history EXCEPT ![history_count % HISTORY_SIZE] = line]
       /\ history_count' = history_count + 1
       /\ said' = Append(said, line)

Bytes(c) == IF c \in WIDE THEN 2 ELSE 1
SizeOf(line) == FoldLeft(LAMBDA n, c : n + Bytes(c), 0, line)

\* The command is the bytes of the line that fit; a character cut in two leaves
\* no text at all, and the empty command does nothing.
Command(line) ==
  LET whole == {i \in 0 .. Len(line) : SizeOf(SubSeq(line, 1, i)) <= MAX_COMMAND}
      fits == SubSeq(line, 1, Max(whole))
  IN IF SizeOf(line) > MAX_COMMAND /\ SizeOf(fits) < MAX_COMMAND THEN <<>> ELSE fits

Started(line) == gui' = (Command(line) = GUI)

\* A wrong form of LineDone: the line stays in the buffer.
LineStays(line) == line
LineDone(line) == <<>>

\* Enter on a line: it is kept, it is run, and a new prompt comes.
Run(line) ==
  /\ push_history(line)
  /\ ran' = Command(line)
  /\ Started(line)
  /\ buffer' = LineDone(line)
  /\ history_cursor' = 0 /\ shown' = <<>> /\ pending' = FALSE

Enter ==
  /\ IF buffer = <<>>
     THEN /\ history_cursor' = 0 /\ shown' = <<>> /\ pending' = FALSE
          /\ UNCHANGED <<buffer, history, history_count, ran, gui, said, asked>>
     ELSE Run(buffer) /\ asked' = [line |-> shown, pending |-> pending]
  /\ UNCHANGED <<temp_buffer, draft>>

\* Where Up and Down lead to; a wrong form of it knows the lines there were, not
\* the lines that are kept.
LedToAll(delta) == Min({history_count, Max({0, history_cursor + delta})})
LedTo(delta) == Min({Kept, Max({0, history_cursor + delta})})

\* The line being typed is saved on the way into the history; a wrong form of it
\* saves on every move.
SavedAlways == buffer
Saved == IF history_cursor = 0 THEN buffer ELSE temp_buffer

navigate_history(delta) ==
  /\ history_count # 0 /\ LedTo(delta) # history_cursor
  /\ temp_buffer' = Saved
  /\ draft' = IF history_cursor = 0 THEN buffer ELSE draft
  /\ history_cursor' = LedTo(delta)
  /\ buffer' = IF LedTo(delta) = 0 THEN temp_buffer ELSE history[Slot(LedTo(delta))]
  /\ shown' = SubSeq(shown, 1, Len(shown) - Len(buffer)) \o buffer'
  /\ UNCHANGED <<history, history_count, ran, gui, said, asked, pending>>

\* The Clear button empties the screen and shows a prompt, and the line that was
\* being typed is still in the buffer.
ClickClear ==
  /\ ~gui
  /\ shown' = <<>>
  /\ pending' = (pending \/ buffer # <<>>)
  /\ UNCHANGED <<lineVars, ran, gui, said, draft, asked>>

\* The Help button types "help" and Enter, after whatever is in the buffer.
ClickHelp ==
  /\ LET line == SubSeq(buffer \o HELP, 1, Min({MAX_LINE, Len(buffer \o HELP)}))
     IN Run(line)
  /\ asked' = [line |-> HELP, pending |-> buffer # <<>>]
  /\ UNCHANGED <<temp_buffer, draft>>

\* Leaving the desktop shows a prompt on an empty screen.
ExitGui ==
  /\ gui
  /\ gui' = FALSE /\ shown' = <<>>
  /\ UNCHANGED <<lineVars, ran, ghostVars>>

Next ==
  \/ ~gui /\ \E c \in Keys : Type(c)
  \/ ~gui /\ Backspace
  \/ ~gui /\ Len(said) < MaxSaid /\ Enter
  \/ ~gui /\ \E delta \in {1, -1} : navigate_history(delta)
  \/ ClickClear
  \/ ~gui /\ Len(said) < MaxSaid /\ ClickHelp
  \/ ExitGui

Spec == Init /\ [][Next]_shellVars

-----------------------------------------------------------------------------
TypeOK ==
  /\ buffer \in BoundedSeq(Keys \cup Range(HELP), MAX_LINE)
  /\ history_cursor \in 0 .. MaxSaid
  /\ history_count \in 0 .. MaxSaid
  /\ Len(shown) <= MAX_LINE
  /\ {gui, pending} \subseteq BOOLEAN

\* The prompt shows the line that Enter will run, through typing, erasing and
\* every way through the history; only a button pressed on a half-typed line
\* comes between them, until Enter.
PromptShowsTheLine == ~pending => shown = buffer

\* The history holds the last lines that were run, each where Up finds it: the
\* k-th press shows the k-th line back, also when the ring has come around.
HistoryIsWhatWasRun ==
  /\ history_cursor <= Kept
  /\ \A k \in 1 .. Kept : history[Slot(k)] = said[Len(said) + 1 - k]

\* On the way back from the history stands the line that was being typed.
DraftComesBack == history_cursor > 0 => temp_buffer = draft

\* What runs is what was shown when Enter was pressed, as far as it fits into the
\* command, or nothing; never what was left of an earlier line.
RunsWhatWasShown == ~asked.pending => IsPrefix(ran, asked.line)

=============================================================================
