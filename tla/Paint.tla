-------------------------------- MODULE Paint --------------------------------
(***************************************************************************)
(* The Paint window (create_paint_window, the Canvas arm of                *)
(* handle_mouse_buttons, try_paint_drag and paint_* of window.rs): a press *)
(* on the canvas stamps or fills, the moves that follow draw a stroke from *)
(* the last place the mouse was seen at, and the release ends it.          *)
(*                                                                         *)
(* A pixel is a pair of its column and its row.                            *)
(***************************************************************************)
EXTENDS Integers, Sequences, FiniteSetsExt, SequencesExt

CONSTANTS
  CW, CH,             \* the size of the canvas
  PALETTE,            \* the colours of the swatches, in their order
  CANVAS_BG,
  Brushes,            \* the radii of the brush buttons
  FirstColour, FirstBrush,
  None

VARIABLES
  canvas, drawing, last, color, brush, tool,
  selected,           \* the swatch that is marked
  held,               \* the window manager's mouse_left_down
  covered             \* another window is the topmost

paintVars == <<canvas, drawing, last, color, brush, tool, selected, held, covered>>

Pixels == (0 .. CW - 1) \X (0 .. CH - 1)
Tools == {"Brush", "Eraser", "Fill"}
Clear == [p \in Pixels |-> CANVAS_BG]

Init ==
  /\ canvas = Clear /\ drawing = FALSE /\ last = None
  /\ color = PALETTE[FirstColour] /\ selected = FirstColour
  /\ brush = FirstBrush /\ tool = "Brush"
  /\ held = FALSE /\ covered = FALSE

-----------------------------------------------------------------------------
Square(n) == n * n
Abs(n) == IF n < 0 THEN -n ELSE n

\* The disc of the brush around a place, of which the canvas shows its part.
paint_stamp(on, at, radius, colour) ==
  [p \in Pixels |->
     IF Square(p[1] - at[1]) + Square(p[2] - at[2]) <= Square(radius) THEN colour ELSE on[p]]

\* A division that goes towards zero, as the processor's does.
Quotient(a, b) == IF a < 0 THEN -((-a) \div b) ELSE a \div b

\* The places the brush is stamped at between two samples.
Ends(from, to) == {from, to}
Between(from, to) ==
  LET dx == to[1] - from[1]
      dy == to[2] - from[2]
      steps == Max({Abs(dx), Abs(dy), 1})
  IN {<<from[1] + Quotient(dx * s, steps), from[2] + Quotient(dy * s, steps)>> : s \in 0 .. steps}

paint_stroke(on, from, to, radius, colour) ==
  FoldLeft(LAMBDA c, at : paint_stamp(c, at, radius, colour), on, SetToSeq(Between(from, to)))

\* The pixels of a row that start a run of the colour; a wrong form of it takes the
\* first of them alone.
FirstRun(on, left, right, row, target) ==
  {x \in left .. right : on[<<x, row>>] = target /\ \A l \in left .. x - 1 : on[<<l, row>>] # target}
Runs(on, left, right, row, target) ==
  {x \in left .. right : on[<<x, row>>] = target /\ (x = left \/ on[<<x - 1, row>>] # target)}

\* A row gives one seed for each run of the colour over or under the pixels just filled.
Seeds(on, left, right, row, target) ==
  IF row \notin 0 .. CH - 1 THEN <<>>
  ELSE LET starts == SetToSortSeq(Runs(on, left, right, row, target), <)
       IN [i \in DOMAIN starts |-> <<starts[i], row>>]

\* The scanline fill: the run around the seed on top of the stack is filled, and
\* the rows above and below it give the next seeds.
RECURSIVE Flooded(_, _, _, _)
Flooded(on, stack, target, colour) ==
  IF stack = <<>> THEN on
  ELSE LET x == Last(stack)[1]
           y == Last(stack)[2]
           left == Min({l \in 0 .. x : \A q \in l .. x - 1 : on[<<q, y>>] = target})
           right == Max({r \in x .. CW - 1 : \A q \in x + 1 .. r : on[<<q, y>>] = target})
           filled == [p \in Pixels |->
                        IF p[2] = y /\ p[1] \in left .. right THEN colour ELSE on[p]]
       IN Flooded(filled,
                  Front(stack) \o Seeds(filled, left, right, y - 1, target)
                               \o Seeds(filled, left, right, y + 1, target),
                  target, colour)

paint_fill(on, at, colour) ==
  IF on[at] = colour THEN on ELSE Flooded(on, <<at>>, on[at], colour)

-----------------------------------------------------------------------------
Ink == IF tool = "Eraser" THEN CANVAS_BG ELSE color

\* A press on any widget raises the window; only on the canvas does it draw.
Pressed == ~held /\ held' = TRUE /\ covered' = FALSE

PressCanvas(at) ==
  /\ Pressed /\ UNCHANGED <<color, brush, tool, selected>>
  /\ IF tool = "Fill"
     THEN canvas' = paint_fill(canvas, at, color) /\ UNCHANGED <<drawing, last>>
     ELSE /\ canvas' = paint_stamp(canvas, at, brush, Ink)
          /\ drawing' = TRUE /\ last' = at

\* A move over the canvas; off it, or under another window, nothing is drawn and
\* the last place stays.
try_paint_drag(at) ==
  /\ held /\ ~covered /\ drawing
  /\ canvas' = IF last = None THEN paint_stamp(canvas, at, brush, Ink)
               ELSE paint_stroke(canvas, last, at, brush, Ink)
  /\ last' = at
  /\ UNCHANGED <<drawing, color, brush, tool, selected, held, covered>>

\* The release, wherever the mouse is and whatever window is on top; a wrong form
\* of it ends nothing but the press.
Kept == UNCHANGED <<drawing, last>>
Ended == drawing' = FALSE /\ last' = IF drawing THEN None ELSE last
Release == /\ held /\ held' = FALSE /\ Ended
           /\ UNCHANGED <<canvas, color, brush, tool, selected, covered>>

paint_clear ==
  /\ Pressed /\ canvas' = Clear /\ drawing' = FALSE /\ last' = None
  /\ UNCHANGED <<color, brush, tool, selected>>

\* To pick a colour is to want to paint with it, and not to erase; a wrong form of
\* it keeps the tool.
SameTool == tool
ToolFor == IF tool = "Eraser" THEN "Brush" ELSE tool
paint_set_color(i) ==
  /\ Pressed /\ color' = PALETTE[i] /\ selected' = i /\ tool' = ToolFor
  /\ UNCHANGED <<canvas, drawing, last, brush>>

paint_set_brush(size) ==
  Pressed /\ brush' = size /\ UNCHANGED <<canvas, drawing, last, color, tool, selected>>

paint_set_tool(t) ==
  Pressed /\ tool' = t /\ UNCHANGED <<canvas, drawing, last, color, brush, selected>>

\* A key opens or raises another window, with the button up or down.
Cover ==
  /\ ~covered /\ covered' = TRUE
  /\ UNCHANGED <<canvas, drawing, last, color, brush, tool, selected, held>>

Next ==
  \/ \E at \in Pixels : PressCanvas(at)
  \/ \E at \in Pixels : try_paint_drag(at)
  \/ Release
  \/ paint_clear
  \/ \E i \in DOMAIN PALETTE : paint_set_color(i)
  \/ \E size \in Brushes : paint_set_brush(size)
  \/ \E t \in Tools : paint_set_tool(t)
  \/ Cover

Spec == Init /\ [][Next]_paintVars

-----------------------------------------------------------------------------
TypeOK ==
  /\ canvas \in [Pixels -> {CANVAS_BG} \cup {PALETTE[i] : i \in DOMAIN PALETTE}]
  /\ drawing \in BOOLEAN /\ held \in BOOLEAN /\ covered \in BOOLEAN
  /\ last \in Pixels \cup {None}
  /\ brush \in Brushes /\ tool \in Tools /\ selected \in DOMAIN PALETTE

\* A stroke is under way only while the button is down, and then there is a last
\* place to go on from: the next stroke never starts where this one ended.
StrokeEndsWithTheButton == (drawing <=> last # None) /\ (drawing => held)

\* The marked swatch is the colour one paints with; and the colour that was just
\* picked is what the canvas gets.
SwatchIsTheColour == color = PALETTE[selected]
PickedIsUsed == [][(\E i \in DOMAIN PALETTE : paint_set_color(i)) => Ink' = color']_paintVars

Beside(p, q) == Abs(p[1] - q[1]) + Abs(p[2] - q[2]) = 1
Touching(p, q) == Abs(p[1] - q[1]) <= 1 /\ Abs(p[2] - q[2]) <= 1

\* The pixels one comes to from some of them, over a set of pixels, where the ones
\* that are near each other are given.
RECURSIVE Reached(_, _, _)
Reached(from, over, near) ==
  LET more == {p \in over \ from : \E q \in from : <<p, q>> \in near}
  IN IF more = {} THEN from ELSE Reached(from \cup more, over, near)

BesideEach == {pq \in Pixels \X Pixels : Beside(pq[1], pq[2])}
TouchingEach == {pq \in Pixels \X Pixels : Touching(pq[1], pq[2])}

\* A fill colours the pixels of one colour that hang together with the one that was
\* pressed, every one of them and no other.
FillIsTheRegion ==
  [][LET changed == {p \in Pixels : canvas'[p] # canvas[p]}
         start == CHOOSE p \in changed : TRUE
         same == {p \in Pixels : canvas[p] = canvas[start]}
     IN tool = "Fill" /\ changed # {} /\ ~paint_clear =>
          changed = Reached({start}, same, BesideEach)]_paintVars

\* A stroke has no gap, however far the mouse went between two samples: its ink
\* leads from the one to the other.
StrokeIsUnbroken ==
  [][drawing /\ last' # None /\ last' # last =>
       last' \in Reached({last}, {p \in Pixels : canvas'[p] = Ink}, TouchingEach)]_paintVars

=============================================================================
