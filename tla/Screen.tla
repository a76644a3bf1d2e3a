------------------------------- MODULE Screen -------------------------------
(***************************************************************************)
(* The double-buffered screen (FramebufferWriter, kernel/src/              *)
(* framebuffer.rs) as the main loop drives it (kernel/src/main.rs).  All   *)
(* drawing goes to the back buffer; the mouse pointer is drawn into it too,*)
(* over a saved copy of what it covers.  present copies the rectangle that *)
(* bounds the changes to VRAM, whose 2x2 block of a pixel is one pixel     *)
(* here.  scene is the back buffer as it would be had no pointer ever been *)
(* drawn: the same operations, applied to a writer without one.            *)
(***************************************************************************)
EXTENDS Naturals, Sequences, FiniteSets, SequencesExt, FiniteSetsExt

CONSTANTS
  Width, Height, MARGIN, CHAR_WIDTH, ROW_HEIGHT, BOTTOM_RESERVED,
  CARET_ROWS,                \* rows of a cell the text cursor fills
  MOUSE_WIDTH, MOUSE_HEIGHT,
  Sprite,                    \* pixels of the pointer that are not transparent
  Positions,                 \* where the mouse may be
  Glyphs, Lines,             \* what is typed, and what a command prints
  Button,                    \* one of the buttons below the text
  Windows,                   \* the window in front: its box, a button in it
  Taskbar,
  MaxTyped,                  \* bound: characters on the shell's line
  MaxEvents                  \* bound: events of one pass of the loop

VARIABLES
  writer,    \* FramebufferWriter: back, dirty, mouse_bg, mouse_last_pos, cursor_x, cursor_y
  front,     \* VRAM
  at,        \* where the main loop is
  gui, top, lit, GUI_DIRTY,  \* the desktop, what render_window draws, request_redraw
  events,    \* events of this pass; got_event is events > 0
  typed, hovered,
  scene,     \* history: the back buffer without a pointer
  clean      \* history: nothing was drawn over the pointer, or around it only

vars == <<writer, front, at, gui, top, lit, GUI_DIRTY, events, typed, hovered, scene, clean>>

Pixels == (0 .. Width - 1) \X (0 .. Height - 1)
NoPos == <<>>
NoRect == [x |-> 0, y |-> 0, w |-> 0, h |-> 0]
Rect(x, y, w, h) == [x |-> x, y |-> y, w |-> w, h |-> h]
InRect(r, p) == /\ p[1] \in r.x .. r.x + r.w - 1
                /\ p[2] \in r.y .. r.y + r.h - 1
Within(r) == {p \in Pixels : InRect(r, p)}

\* mark_dirty_rect: clipped to the screen, and joined with what was dirty.
Clipped(r) ==
  LET x0 == Min({r.x, Width})  x1 == Min({r.x + r.w, Width})
      y0 == Min({r.y, Height}) y1 == Min({r.y + r.h, Height})
  IN IF x0 >= x1 \/ y0 >= y1 THEN NoRect ELSE Rect(x0, y0, x1 - x0, y1 - y0)

\* A variant that keeps the extent of the later rectangle (for the mutation checks).
LastExtent(r, s) == Rect(Min({r.x, s.x}), Min({r.y, s.y}), s.w, s.h)

Bounding(r, s) ==
  LET x0 == Min({r.x, s.x}) x1 == Max({r.x + r.w, s.x + s.w})
      y0 == Min({r.y, s.y}) y1 == Max({r.y + r.h, s.y + s.h})
  IN Rect(x0, y0, x1 - x0, y1 - y0)
Mark(w, r) ==
  LET new == Clipped(r)
  IN IF new = NoRect THEN w
     ELSE [w EXCEPT !.dirty = IF w.dirty = NoRect THEN new ELSE Bounding(w.dirty, new)]

\* plot, fill_rect, blit and the text paths: pixels of one colour, marked.
Fill(w, r, colour) ==
  Mark([w EXCEPT !.back = [p \in Pixels |-> IF InRect(r, p) THEN colour ELSE w.back[p]]], r)

PointerBox(pos) == Rect(pos[1], pos[2], MOUSE_WIDTH, MOUSE_HEIGHT)
Offsets == (0 .. MOUSE_WIDTH - 1) \X (0 .. MOUSE_HEIGHT - 1)
Offset(p, pos) == <<p[1] - pos[1], p[2] - pos[2]>>
Shifted(o, pos) == <<o[1] + pos[1], o[2] + pos[2]>>
PointerPixels(pos) == {Shifted(o, pos) : o \in Sprite} \cap Pixels

\* erase_mouse_cursor
Erase(w) ==
  IF w.mouse_last_pos = NoPos THEN w
  ELSE LET pos == w.mouse_last_pos
       IN Mark([w EXCEPT !.mouse_last_pos = NoPos,
                         !.back = [p \in Pixels |->
                            IF InRect(PointerBox(pos), p) THEN w.mouse_bg[Offset(p, pos)]
                            ELSE w.back[p]]],
               PointerBox(pos))

\* draw_mouse_cursor: nothing when the pointer is there already.
DrawPointer(w, pos) ==
  IF w.mouse_last_pos = pos THEN w
  ELSE LET e == Erase(w)
       IN Mark([e EXCEPT !.mouse_last_pos = pos,
                         !.mouse_bg = [o \in Offsets |->
                            IF Shifted(o, pos) \in Pixels THEN e.back[Shifted(o, pos)]
                            ELSE e.mouse_bg[o]],
                         !.back = [p \in Pixels |->
                            IF p \in PointerPixels(pos) THEN "pointer" ELSE e.back[p]]],
               PointerBox(pos))

\* Every text and widget operation lifts the pointer and puts it back.
Lifted(Op(_), w) ==
  IF w.mouse_last_pos = NoPos THEN Op(w) ELSE DrawPointer(Op(Erase(w)), w.mouse_last_pos)

TextBottom == Height - BOTTOM_RESERVED
Cell(w) == Rect(w.cursor_x, w.cursor_y, CHAR_WIDTH, ROW_HEIGHT)

WholeText == Rect(0, 0, Width, TextBottom)

\* scroll_up: the text rows move up by one; what is below them stays.
ScrollUp(w) ==
  LET moved == [p \in Pixels |->
                  IF p[2] >= TextBottom THEN w.back[p]
                  ELSE IF p[2] + ROW_HEIGHT < TextBottom THEN w.back[<<p[1], p[2] + ROW_HEIGHT>>]
                  ELSE "bg"]
      up == [w EXCEPT !.cursor_y = @ - ROW_HEIGHT]
  IN IF TextBottom > ROW_HEIGHT THEN Mark([up EXCEPT !.back = moved], WholeText) ELSE up

Newline(w) ==
  LET next == [w EXCEPT !.cursor_x = MARGIN, !.cursor_y = @ + ROW_HEIGHT]
  IN IF next.cursor_y + ROW_HEIGHT > TextBottom THEN ScrollUp(next) ELSE next

Backspace(w) ==
  IF w.cursor_x < MARGIN + CHAR_WIDTH THEN w
  ELSE LET back == [w EXCEPT !.cursor_x = @ - CHAR_WIDTH] IN Fill(back, Cell(back), "bg")

Glyph(w, c) ==
  LET here == IF w.cursor_x + CHAR_WIDTH > Width - MARGIN THEN Newline(w) ELSE w
  IN [Fill(here, Cell(here), c) EXCEPT !.cursor_x = @ + CHAR_WIDTH]

WriteChar(w, c) ==
  LET Put(v) == CASE c = "newline" -> Newline(v)
                  [] c = "backspace" -> Backspace(v)
                  [] OTHER -> Glyph(v, c)
  IN Lifted(Put, w)
PrintText(w, text) == FoldLeft(WriteChar, w, text)

ClearScreen(w) ==
  LET Blank(v) == [Fill(v, WholeText, "bg") EXCEPT !.cursor_x = MARGIN, !.cursor_y = MARGIN]
  IN Lifted(Blank, w)

DrawButton(w, state) ==
  LET Paint(v) == Fill(v, Button, state) IN Lifted(Paint, w)

DrawStatusBar(w, text) ==
  LET Paint(v) == Fill(v, Rect(MARGIN, Height - ROW_HEIGHT - MARGIN, Width - 2 * MARGIN, ROW_HEIGHT),
                       text)
  IN Lifted(Paint, w)

\* render_cursor plots straight into the back buffer.
CaretBox(w) == Rect(w.cursor_x, w.cursor_y + ROW_HEIGHT - CARET_ROWS, CHAR_WIDTH, CARET_ROWS)
RenderCursor(w, visible) == Fill(w, CaretBox(w), IF visible THEN "caret" ELSE "bg")

\* A variant that keeps it (for the mutation checks).
KeepMouseCache(w) == w

\* invalidate_mouse_cache forgets the pointer without restoring what it covers.
InvalidateMouseCache(w) == [w EXCEPT !.mouse_last_pos = NoPos]
RenderTopWindow(w, win, shade) ==
  Fill(Fill(w, win.box, "window"), win.button, IF shade THEN "lit" ELSE "button")
Render(w, win, shade) ==
  Fill(RenderTopWindow(Fill(w, Rect(0, 0, Width, Height), "desktop"), win, shade),
       Taskbar, "taskbar")

Present(w) == [w EXCEPT !.dirty = NoRect]
Shown(w) == [p \in Pixels |-> IF InRect(w.dirty, p) THEN w.back[p] ELSE front[p]]

-----------------------------------------------------------------------------

Fresh == [back |-> [p \in Pixels |-> "bg"], dirty |-> Rect(0, 0, Width, Height),
          mouse_bg |-> [o \in Offsets |-> "none"], mouse_last_pos |-> NoPos,
          cursor_x |-> MARGIN, cursor_y |-> MARGIN]
\* The screen as the loop finds it: the prompt and the buttons, presented.
Prompted == DrawButton(PrintText(Fresh, <<"prompt">>), "normal")

Init ==
  /\ writer = Present(Prompted)
  /\ front = Prompted.back
  /\ scene = Prompted.back
  /\ at = "events" /\ gui = FALSE /\ GUI_DIRTY = FALSE /\ events = 0
  /\ top = (CHOOSE win \in Windows : TRUE) /\ lit = FALSE
  /\ typed = 0 /\ hovered = FALSE
  /\ clean = TRUE

\* A drawing step, on the writer and on one that never had a pointer.
Does(Op(_)) ==
  /\ writer' = Op(writer)
  /\ scene' = Op([writer EXCEPT !.back = scene, !.mouse_last_pos = NoPos]).back

\* The text cursor goes over the pointer if they meet.
CaretClean == clean /\ (writer.mouse_last_pos # NoPos =>
                Within(CaretBox(writer)) \cap Within(PointerBox(writer.mouse_last_pos)) = {})

\* The next event of the queue.
Event == at = "events" /\ events < MaxEvents

\* A key in the shell: handle_key hides the text cursor and then prints.
ShellPrints(text) ==
  /\ Event /\ ~gui
  /\ LET Typing(w) == PrintText(RenderCursor(w, FALSE), text) IN Does(Typing)
  /\ clean' = CaretClean
  /\ events' = events + 1
  /\ UNCHANGED <<front, at, gui, top, lit, GUI_DIRTY, hovered>>

TypeKey == \E c \in Glyphs : typed < MaxTyped /\ ShellPrints(<<c>>) /\ typed' = typed + 1
BackspaceKey == typed > 0 /\ ShellPrints(<<"backspace">>) /\ typed' = typed - 1
EnterKey == \E out \in Lines :
              ShellPrints(<<"newline">> \o out \o <<"prompt">>) /\ typed' = 0

\* The clear command, and the button that does the same.
ClearKey ==
  /\ Event /\ ~gui
  /\ LET Clearing(w) == PrintText(ClearScreen(RenderCursor(w, FALSE)), <<"prompt">>)
     IN Does(Clearing)
  /\ clean' = CaretClean
  /\ events' = events + 1 /\ typed' = 0
  /\ UNCHANGED <<front, at, gui, top, lit, GUI_DIRTY, hovered>>

\* The gui command: the desktop is drawn later in the same pass.
StartGui ==
  /\ Event /\ ~gui
  /\ LET Leaving(w) == RenderCursor(w, FALSE) IN Does(Leaving)
  /\ clean' = CaretClean
  /\ gui' = TRUE /\ GUI_DIRTY' = TRUE /\ lit' = FALSE
  /\ events' = events + 1 /\ typed' = 0
  /\ UNCHANGED <<front, at, top, hovered>>

\* An event of the desktop that asks for a redraw: another window comes first.
DesktopEvent ==
  /\ Event /\ gui
  /\ top' \in Windows
  /\ GUI_DIRTY' = TRUE /\ lit' = FALSE
  /\ events' = events + 1
  /\ UNCHANGED <<writer, front, at, gui, typed, hovered, scene, clean>>

\* Leaving the desktop restores the shell's text and buttons.
ExitGui ==
  /\ Event /\ gui
  /\ LET Restoring(w) ==
           PrintText(DrawButton(ClearScreen(w), "normal"), <<"newline", "prompt">>)
     IN Does(Restoring)
  /\ gui' = FALSE /\ hovered' = FALSE
  /\ events' = events + 1
  /\ UNCHANGED <<front, at, top, lit, GUI_DIRTY, typed, clean>>

\* The queue is empty: the pointer goes to where the mouse is.  In the shell,
\* shell_paint_pointer_frame: the pointer, the button under it, the status bar.
ShellPointer(pos) ==
  /\ ~gui
  /\ LET over == InRect(Button, pos)
         Chrome(w) == IF over # hovered
                      THEN DrawStatusBar(DrawButton(w, IF over THEN "hover" ELSE "normal"), "status")
                      ELSE w
         Late(w) == DrawStatusBar(w, "status")
     IN /\ \/ /\ writer' = Chrome(DrawPointer(writer, pos))
              /\ scene' = Chrome([writer EXCEPT !.back = scene, !.mouse_last_pos = NoPos]).back
           \/ /\ over = hovered
              /\ writer' = Late(DrawPointer(writer, pos))
              /\ scene' = Late([writer EXCEPT !.back = scene, !.mouse_last_pos = NoPos]).back
        /\ hovered' = over
  /\ UNCHANGED <<lit, GUI_DIRTY, clean>>

\* On the desktop: the whole scene if a redraw was requested, the window in
\* front if only a button of it changed.
DesktopPointer(pos) ==
  /\ gui
  /\ lit' = InRect(top.button, pos)
  /\ GUI_DIRTY' = FALSE
  /\ LET old == writer.mouse_last_pos
         Redrawn(w) == IF GUI_DIRTY THEN Render(InvalidateMouseCache(w), top, lit')
                       ELSE IF lit' # lit
                       THEN RenderTopWindow(InvalidateMouseCache(w), top, lit')
                       ELSE w
     IN /\ writer' = DrawPointer(Redrawn(writer), pos)
        /\ scene' = Redrawn([writer EXCEPT !.back = scene, !.mouse_last_pos = NoPos]).back
        /\ clean' = \/ GUI_DIRTY
                    \/ clean /\ (lit' # lit /\ old # NoPos =>
                                   PointerPixels(old) \subseteq Within(top.box))
  /\ UNCHANGED hovered

PointerFrame ==
  /\ at = "events"
  /\ \E pos \in Positions : ShellPointer(pos) \/ DesktopPointer(pos)
  /\ at' = "caret"
  /\ UNCHANGED <<front, gui, top, events, typed>>

\* Without an event the shell's text cursor blinks.
Caret ==
  /\ at = "caret"
  /\ \/ /\ events = 0 /\ ~gui
        /\ \E visible \in BOOLEAN :
             LET Blink(w) == RenderCursor(w, visible) IN Does(Blink)
        /\ clean' = CaretClean
     \/ /\ events > 0 \/ gui
        /\ UNCHANGED <<writer, scene, clean>>
  /\ at' = "present"
  /\ UNCHANGED <<front, gui, top, lit, GUI_DIRTY, events, typed, hovered>>

Show ==
  /\ at = "present"
  /\ front' = Shown(writer)
  /\ writer' = Present(writer)
  /\ at' = "events" /\ events' = 0
  /\ UNCHANGED <<gui, top, lit, GUI_DIRTY, typed, hovered, scene, clean>>

Next ==
  \/ TypeKey \/ BackspaceKey \/ EnterKey \/ ClearKey \/ StartGui
  \/ DesktopEvent \/ ExitGui \/ PointerFrame \/ Caret \/ Show

Spec == Init /\ [][Next]_vars

-----------------------------------------------------------------------------

Colours == {"bg", "caret", "prompt", "pointer", "normal", "hover", "status", "desktop",
            "window", "button", "lit", "taskbar"} \cup Glyphs

(* Every variable keeps its type; the text cursor stays in a row of the text  *)
(* region, and what is dirty stays on the screen (framebuffer.rs).           *)
TypeOK ==
  /\ writer.back \in [Pixels -> Colours] /\ front \in [Pixels -> Colours]
  /\ scene \in [Pixels -> Colours]
  /\ writer.mouse_bg \in [Offsets -> Colours \cup {"none"}]
  /\ writer.mouse_last_pos \in Positions \cup {NoPos}
  /\ writer.dirty.x + writer.dirty.w <= Width /\ writer.dirty.y + writer.dirty.h <= Height
  /\ writer.cursor_x \in MARGIN .. Width - MARGIN
  /\ writer.cursor_y \in MARGIN .. TextBottom - ROW_HEIGHT
  /\ at \in {"events", "caret", "present"}
  /\ gui \in BOOLEAN /\ lit \in BOOLEAN /\ GUI_DIRTY \in BOOLEAN /\ events \in 0 .. MaxEvents
  /\ typed \in 0 .. MaxTyped /\ hovered \in BOOLEAN /\ clean \in BOOLEAN
  /\ top \in Windows

(* The screen never shows anything but the back buffer, except where the next *)
(* present will copy: every operation marks all it changed, through the       *)
(* joining of rectangles, the scrolling and the pointer's save and restore    *)
(* (mark_dirty_rect and present, framebuffer.rs).                            *)
VramFollows ==
  \A p \in Pixels : front[p] # writer.back[p] => InRect(writer.dirty, p)

(* Lifting the pointer uncovers exactly what would be there had it never been *)
(* drawn, whatever was printed, scrolled or cleared meanwhile, until the text *)
(* cursor is drawn over it or a window alone is repainted around it           *)
(* (draw_mouse_cursor and erase_mouse_cursor, framebuffer.rs).               *)
PointerLeavesNoMark == clean => Erase(writer).back = scene

=============================================================================
