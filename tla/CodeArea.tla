------------------------------- MODULE CodeArea -------------------------------
(***************************************************************************)
(* The Code Editor's text (Widget::CodeArea, kernel/src/window.rs): typing *)
(* and deleting at a cursor or over a selection, the clipboard, moving by  *)
(* the rows the text is wrapped into, and selecting with the mouse.  A     *)
(* cursor is the number of characters before it.                           *)
(***************************************************************************)
EXTENDS Naturals, Sequences, FiniteSets, SequencesExt, FiniteSetsExt

CONSTANTS
  Letters,         \* characters that make words
  Newline, Space,
  TAB,             \* spaces a tab is
  max_chars,       \* characters in a row
  CAP,             \* characters typing may fill
  Files            \* texts New and Open replace it with

VARIABLES
  text, cursor,
  selection,       \* where a selection began, or NoSelection
  TEXT_CLIPBOARD,
  held             \* whether a press in the text has not been released

vars == <<text, cursor, selection, TEXT_CLIPBOARD, held>>

Chars == Letters \cup {Newline, Space}
NoSelection == CAP + 1

\* code_area_selected_range: where it starts and ends, if it is not empty.
Selected == selection # NoSelection /\ selection # cursor
Low == IF Selected THEN Min({selection, cursor}) ELSE cursor
High == IF Selected THEN Max({selection, cursor}) ELSE cursor

Cut(s, lo, hi) == SubSeq(s, 1, lo) \o SubSeq(s, hi + 1, Len(s))
Inserted(s, at, new) == SubSeq(s, 1, at) \o new \o SubSeq(s, at + 1, Len(s))

-----------------------------------------------------------------------------
(* Rows: [start, end) pairs; a row ends at a newline or when it is full.      *)

Step(acc, i) ==
  LET full == i - acc.start >= max_chars
  IN IF text[i] = Newline
     THEN [start |-> i, rows |-> Append(acc.rows, [start |-> acc.start, end |-> i - 1])]
     ELSE IF full THEN [start |-> i, rows |-> Append(acc.rows, [start |-> acc.start, end |-> i])]
     ELSE acc
WrapRows ==
  LET acc == FoldLeft(Step, [start |-> 0, rows |-> <<>>], [i \in 1 .. Len(text) |-> i])
  IN Append(acc.rows, [start |-> acc.start, end |-> Len(text)])

\* cursor_row_col: the first row that does not end before the cursor.
RowOf(rows, at) == CHOOSE r \in DOMAIN rows : /\ at <= rows[r].end
                                              /\ \A q \in 1 .. r - 1 : rows[q].end < at
ColumnOf(rows, at) == at - rows[RowOf(rows, at)].start

\* code_area_cursor_at: past the end of a row, its end.
CursorAt(rows, row, col) == Min({rows[row].start + col, rows[row].end})

\* word_bounds_at: the run of one class around a character.
Class(c) == IF c \in Letters THEN "word" ELSE "blank"
WordBounds(at) ==
  LET probe == IF at < Len(text) THEN at + 1 ELSE at
      Run(i, j) == \A k \in i .. j : Class(text[k]) = Class(text[probe])
  IN IF text = <<>> THEN [start |-> 0, end |-> 0]
     ELSE [start |-> Min({i \in 1 .. probe : Run(i, probe)}) - 1,
           end |-> Max({j \in probe .. Len(text) : Run(probe, j)})]

-----------------------------------------------------------------------------
(* Keys.  A selection goes first, then what is typed takes its place.        *)

\* A variant that leaves the cursor where it was (for the mutation checks).
AtCursor == cursor

\* code_area_delete_selection moves the cursor to where the selection began.
AfterDeletion == Low
Rest == IF Selected THEN Cut(text, Low, High) ELSE text

\* Room is asked for once the selection is gone, which it is either way.
Put(new, room) ==
  /\ text' = IF room THEN Inserted(Rest, Min({AfterDeletion, Len(Rest)}), new) ELSE Rest
  /\ cursor' = IF room THEN AfterDeletion + Len(new) ELSE AfterDeletion
  /\ selection' = NoSelection
  /\ UNCHANGED <<TEXT_CLIPBOARD, held>>

TypeKey(c) == Put(<<c>>, Len(Rest) < CAP)
TabKey == Put([i \in 1 .. TAB |-> Space], Len(Rest) + TAB < CAP)
Paste == Put(TEXT_CLIPBOARD, TEXT_CLIPBOARD # <<>> /\ Len(Rest) + Len(TEXT_CLIPBOARD) < CAP)

Backspace ==
  /\ text' = IF Selected THEN Rest ELSE IF cursor > 0 THEN Cut(text, cursor - 1, cursor) ELSE text
  /\ cursor' = IF Selected THEN AfterDeletion ELSE IF cursor > 0 THEN cursor - 1 ELSE cursor
  /\ selection' = NoSelection
  /\ UNCHANGED <<TEXT_CLIPBOARD, held>>

Delete ==
  /\ text' = IF Selected THEN Rest
             ELSE IF cursor < Len(text) THEN Cut(text, cursor, cursor + 1) ELSE text
  /\ cursor' = AfterDeletion
  /\ selection' = NoSelection
  /\ UNCHANGED <<TEXT_CLIPBOARD, held>>

Copy ==
  /\ TEXT_CLIPBOARD' = IF Selected THEN SubSeq(text, Low + 1, High) ELSE TEXT_CLIPBOARD
  /\ UNCHANGED <<text, cursor, selection, held>>

CutKey ==
  /\ Selected
  /\ TEXT_CLIPBOARD' = SubSeq(text, Low + 1, High)
  /\ text' = Rest /\ cursor' = Low /\ selection' = NoSelection
  /\ UNCHANGED held

SelectAll ==
  /\ selection' = 0 /\ cursor' = Len(text)
  /\ UNCHANGED <<text, TEXT_CLIPBOARD, held>>

\* The arrows and Home and End drop the selection; to the side, at its end.
MoveTo(at) ==
  /\ cursor' = at
  /\ selection' = NoSelection
  /\ UNCHANGED <<text, TEXT_CLIPBOARD, held>>

Sideways ==
  \/ MoveTo(IF Selected THEN Low ELSE IF cursor > 0 THEN cursor - 1 ELSE 0)
  \/ MoveTo(IF Selected THEN High ELSE Min({cursor + 1, Len(text)}))

ByRow ==
  LET rows == WrapRows
      row == RowOf(rows, cursor)
      col == ColumnOf(rows, cursor)
  IN \/ \E r \in {row - 1, row + 1} \cap DOMAIN rows : MoveTo(Min({rows[r].start + col, rows[r].end}))
     \/ MoveTo(rows[row].start)
     \/ MoveTo(rows[row].end)

-----------------------------------------------------------------------------
(* The mouse.  A press starts a selection where it lands, or takes a word;   *)
(* moving with the button held carries the cursor along.                     *)

Spots ==
  LET rows == WrapRows
  IN {CursorAt(rows, row, col) : row \in DOMAIN rows, col \in 0 .. max_chars}

Click ==
  /\ \E at \in Spots, dbl \in BOOLEAN :
       /\ selection' = IF dbl THEN WordBounds(at).start ELSE at
       /\ cursor' = IF dbl THEN WordBounds(at).end ELSE at
  /\ held' = TRUE
  /\ UNCHANGED <<text, TEXT_CLIPBOARD>>

Drag ==
  /\ held /\ selection # NoSelection
  /\ cursor' \in Spots
  /\ UNCHANGED <<text, selection, TEXT_CLIPBOARD, held>>

Release ==
  /\ held' = FALSE
  /\ UNCHANGED <<text, cursor, selection, TEXT_CLIPBOARD>>

-----------------------------------------------------------------------------
\* New, Open, and a file opened from the File Manager.
Replace ==
  /\ text' \in Files
  /\ cursor' = Len(text')
  /\ selection' = NoSelection
  /\ UNCHANGED <<TEXT_CLIPBOARD, held>>

Init ==
  /\ text \in Files /\ cursor = Len(text) /\ selection = NoSelection
  /\ TEXT_CLIPBOARD = <<>> /\ held = FALSE

Next ==
  \/ \E c \in Chars : TypeKey(c)
  \/ TabKey \/ Paste \/ Backspace \/ Delete \/ Copy \/ CutKey \/ SelectAll \/ Sideways \/ ByRow
  \/ Click \/ Drag \/ Release \/ Replace

Spec == Init /\ [][Next]_vars

-----------------------------------------------------------------------------
(* Every variable keeps its type; the cursor and the selection stay inside   *)
(* the text (window.rs, "a keystroke can never index past the buffer").      *)
TypeOK ==
  /\ text \in Seq(Chars) /\ TEXT_CLIPBOARD \in Seq(Chars)
  /\ Len(text) <= CAP
  /\ cursor \in 0 .. Len(text)
  /\ selection \in 0 .. Len(text) \cup {NoSelection}
  /\ held \in BOOLEAN

(* A key changes nothing but the selection, or one character beside the      *)
(* cursor when there is none, and leaves the cursor after what it put there: *)
(* positions taken before the selection went are not used after it           *)
(* (handle_key and code_area_delete_selection, window.rs).                   *)
EditsAreLocal ==
  [][text' # text =>
       \/ text' \in Files /\ selection' = NoSelection /\ cursor' = Len(text')
       \/ LET after == Len(text') - cursor'
              hi == Len(text) - after
              lo == IF Selected THEN Low ELSE Min({cursor, cursor'})
          IN /\ after <= Len(text)
             /\ SubSeq(text', 1, lo) = SubSeq(text, 1, lo)
             /\ SubSeq(text', cursor' + 1, Len(text')) = SubSeq(text, hi + 1, Len(text))
             /\ IF Selected THEN hi = High ELSE hi - lo <= 1 /\ cursor \in lo .. hi]_vars
=============================================================================
