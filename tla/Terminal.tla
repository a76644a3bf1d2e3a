------------------------------ MODULE Terminal ------------------------------
(***************************************************************************)
(* The terminal window (the Terminal arms of handle_key, tick and the      *)
(* painting of windows, and run_terminal_command, in window.rs): keys go   *)
(* to an input line, Enter runs it, and what it was and said is scrolled   *)
(* back; the window shows the end of that, wrapped, with the prompt last.  *)
(*                                                                         *)
(* A line is a sequence of characters.  `said` only remembers every line   *)
(* since the screen was cleared.                                           *)
(***************************************************************************)
EXTENDS Integers, Sequences, SequencesExt, FiniteSetsExt

CONSTANTS
  Keys, Blank,        \* the characters, and the one that is trimmed
  PROMPT,
  CLEAR, ECHO,        \* the word of one command, and the letter of another
  Files,              \* the lines each of the other commands prints
  Unknown,            \* what is printed for what is no command
  MAX_INPUT, CAP,
  max_cols, max_lines,
  MaxSaid             \* bound on the lines since the screen was cleared

VARIABLES scrollback, input, blink_on, said

terminalVars == <<scrollback, input, blink_on, said>>

Init == scrollback = <<>> /\ input = <<>> /\ blink_on = TRUE /\ said = <<>>

-----------------------------------------------------------------------------
\* A character that finds no room only lights the cursor.
Type(c) ==
  /\ input' = IF Len(input) < MAX_INPUT THEN Append(input, c) ELSE input
  /\ blink_on' = TRUE /\ UNCHANGED <<scrollback, said>>

Backspace ==
  /\ input' = IF input = <<>> THEN input ELSE Front(input)
  /\ blink_on' = TRUE /\ UNCHANGED <<scrollback, said>>

Blink == blink_on' = ~blink_on /\ UNCHANGED <<scrollback, input, said>>

Trimmed(line) ==
  LET ink == {i \in DOMAIN line : line[i] # Blank}
  IN IF ink = {} THEN <<>> ELSE SubSeq(line, Min(ink), Max(ink))

\* The lines a command prints; an echo of nothing prints nothing.
run_terminal_command(cmd) ==
  IF cmd \in DOMAIN Files THEN Files[cmd]
  ELSE IF cmd = <<ECHO>> THEN <<>>
  ELSE IF Len(cmd) > 2 /\ cmd[1] = ECHO /\ cmd[2] = Blank THEN <<SubSeq(cmd, 3, Len(cmd))>>
  ELSE <<Unknown>>

Echoed(cmd) == PROMPT \o cmd

\* What stands after the command, of the lines there were: nothing after a clear.
Printed(lines, cmd) ==
  IF cmd = CLEAR THEN <<>>
  ELSE Append(lines, Echoed(cmd)) \o (IF cmd = <<>> THEN <<>> ELSE run_terminal_command(cmd))

\* The oldest lines go when there are too many; a wrong form of it drops the newest.
CappedAtFront(lines) == IF Len(lines) > CAP THEN SubSeq(lines, 1, CAP) ELSE lines
Capped(lines) == IF Len(lines) > CAP THEN SubSeq(lines, Len(lines) - CAP + 1, Len(lines)) ELSE lines

Enter ==
  LET cmd == Trimmed(input)
  IN /\ scrollback' = Capped(Printed(scrollback, cmd))
     /\ said' = Printed(said, cmd)
     /\ input' = <<>> /\ blink_on' = TRUE

-----------------------------------------------------------------------------
(* What is painted.                                                        *)

\* A line in pieces of the width, and an empty line as one empty piece.
Wrapped(line) ==
  IF line = <<>> THEN <<<<>>>>
  ELSE [i \in 1 .. (Len(line) + max_cols - 1) \div max_cols |->
          SubSeq(line, (i - 1) * max_cols + 1, Min({i * max_cols, Len(line)}))]

PromptPieces == Wrapped(PROMPT \o input)
Pieces == FoldLeft(LAMBDA all, line : all \o Wrapped(line), <<>>, scrollback) \o PromptPieces

\* The pieces from here fit; a wrong form of it leaves no room for the prompt.
StartWithoutPrompt == Max({0, Len(Pieces) - Len(PromptPieces) - max_lines})
PaintFrom == Max({0, Len(Pieces) - max_lines})
Painted == SubSeq(Pieces, PaintFrom + 1, Min({PaintFrom + max_lines, Len(Pieces)}))

\* The cursor stands behind the last piece, when there is a column for it.
CursorPainted == blink_on /\ Len(Last(Painted)) < max_cols

Next ==
  \/ \E c \in Keys : Type(c)
  \/ Backspace
  \/ Len(said) < MaxSaid /\ Enter
  \/ Blink

Spec == Init /\ [][Next]_terminalVars

-----------------------------------------------------------------------------
TypeOK ==
  /\ Len(scrollback) <= CAP
  /\ Len(input) <= MAX_INPUT
  /\ blink_on \in BOOLEAN

\* What is scrolled back is the end of all that was said since the last clear.
KeepsTheLastLines == IsSuffix(scrollback, said) /\ Len(scrollback) = Min({CAP, Len(said)})

\* The end of the line that is being typed is always in view, however much was
\* printed and however many rows the line itself takes; and above it stands what
\* was printed last.
InputIsInView ==
  LET text == FoldLeft(LAMBDA all, piece : all \o piece, <<>>, Painted)
      line == PROMPT \o input
  IN IF Len(text) >= Len(line) THEN IsSuffix(line, text) ELSE IsSuffix(text, line)

=============================================================================
