---------------------------- MODULE WindowManager ----------------------------
(***************************************************************************)
(* The window manager (kernel/src/window.rs): stacking, dragging,          *)
(* minimising and maximising, and the queues that carry the clicks on a    *)
(* process's buttons to that process.  The user's hand, the right button   *)
(* and the keyboard act independently of each other: a key may raise a     *)
(* window while another is being dragged.                                  *)
(***************************************************************************)
EXTENDS WindowList

CONSTANTS
  Pids,                   \* processes the launcher may start, each once
  MAX_PENDING_EVENTS,     \* undelivered clicks kept per window
  MAX_WINDOWS_PER_PROCESS,
  MaxWindowId,            \* bound: windows created in a behaviour
  MaxPresses              \* bound: clicks on the buttons of processes

VARIABLES
  windows,    \* WM.windows, bottom to top
  dragging,   \* the index WM.dragging holds, 0 for None
  pressed,    \* the left button, as of the last event (prev_left in main.rs)
  gui,        \* GUI_MODE
  process,    \* of each pid: not started, alive or ended
  nextId,     \* NEXT_WINDOW_ID
  presses     \* history: clicks on processes' buttons so far

vars == <<windows, dragging, pressed, gui, process, nextId, presses>>

Kernel == 0                  \* owner_pid = None
Here == {"part", "full"}     \* of the desktop: what x, y, w and h cover
Nowhere == "nowhere"         \* restore = None

Window == [id : 1 .. MaxWindowId, kind : {"Launcher", "FileManager", "Generic"},
           owner : Pids \cup {Kernel}, place : Here, restore : Here \cup {Nowhere},
           minimized : BOOLEAN, maximized : BOOLEAN,
           events : Seq([win : 1 .. MaxWindowId, n : 1 .. MaxPresses]),
           last : 0 .. MaxPresses, got : 0 .. MaxPresses]

\* last and got are history: the last click on the window's buttons and the
\* last one its process has fetched.
NewWindow(kind, owner) ==
  [id |-> nextId, kind |-> kind, owner |-> owner, place |-> "part", restore |-> Nowhere,
   minimized |-> FALSE, maximized |-> FALSE, events |-> <<>>, last |-> 0, got |-> 0]

CanCreate == nextId <= MaxWindowId

Terminated(p) == IF p = Kernel THEN process ELSE [process EXCEPT ![p] = "ended"]

Top == Len(windows)

-----------------------------------------------------------------------------
(* Geometry of one window.                                                   *)

SaveRestoreIfNeeded(w) ==
  IF w.restore = Nowhere /\ ~w.maximized THEN [w EXCEPT !.restore = w.place] ELSE w

ApplyMinimize(w) ==
  [SaveRestoreIfNeeded(w) EXCEPT !.minimized = TRUE, !.maximized = FALSE]

ApplyRestoreMid(w) ==
  [w EXCEPT !.minimized = FALSE, !.maximized = FALSE, !.restore = Nowhere,
            !.place = IF w.restore = Nowhere THEN "part" ELSE w.restore]

ApplyMaximize(w) ==
  IF w.maximized THEN ApplyRestoreMid(w)
  ELSE [SaveRestoreIfNeeded([w EXCEPT !.minimized = FALSE])
          EXCEPT !.place = "full", !.maximized = TRUE]

\* topmost_at: a window can be hit where no visible one covers it; one that
\* fills the desktop covers all of those below it.
Hit(i) ==
  /\ ~windows[i].minimized
  /\ \A j \in i + 1 .. Top : ~windows[j].minimized => windows[j].place # "full"

-----------------------------------------------------------------------------
(* Pressing the left button: every press raises the window it hits first.    *)

Press == gui /\ ~pressed /\ pressed' = TRUE

\* The taskbar entry of a minimised window.
PressTaskbar(i) ==
  /\ Press
  /\ windows[i].minimized
  /\ windows' = Raise(windows, i)
  /\ UNCHANGED <<dragging, gui, process, nextId, presses>>

\* The close button ends the process the window belongs to.
PressClose(i) ==
  /\ Press
  /\ Hit(i)
  /\ windows' = Front(Raise(windows, i))
  /\ dragging' = 0
  /\ process' = Terminated(windows[i].owner)
  /\ UNCHANGED <<gui, nextId, presses>>

\* The minimise, mid and maximise buttons.
PressChrome(i) ==
  /\ Press
  /\ Hit(i)
  /\ \E apply \in {ApplyMinimize(windows[i]), ApplyRestoreMid(windows[i]), ApplyMaximize(windows[i])} :
       windows' = Append(RemoveAt(windows, i), apply)
  /\ dragging' = 0
  /\ UNCHANGED <<gui, process, nextId, presses>>

PressTitlebar(i) ==
  /\ Press
  /\ Hit(i)
  /\ windows' = Raise(windows, i)
  /\ IF windows[i].maximized THEN UNCHANGED dragging
     ELSE dragging' = Top
  /\ UNCHANGED <<gui, process, nextId, presses>>

\* A variant that drops the newest click (for the mutation checks).
PushIfRoom(q, e) == IF Len(q) >= MAX_PENDING_EVENTS THEN q ELSE Append(q, e)

\* A variant without a bound (for the mutation checks).
PushAlways(q, e) == Append(q, e)

\* Removing the oldest click to make room, as in apply_action.
PushEvent(q, e) ==
  Append(IF Len(q) >= MAX_PENDING_EVENTS THEN Tail(q) ELSE q, e)

\* A button of a process's window: handle_mouse_button returns its action and
\* apply_action gives it to whichever window is topmost by then.
PressButton(i) ==
  LET raised == Raise(windows, i)
      to == TopmostIdx(raised)
      hit == [raised EXCEPT ![Top].last = presses + 1]
  IN  /\ Press
      /\ Hit(i)
      /\ windows[i].kind = "Generic"
      /\ presses < MaxPresses
      /\ presses' = presses + 1
      /\ windows' = [hit EXCEPT ![to].events =
                       PushEvent(@, [win |-> windows[i].id, n |-> presses + 1])]
      /\ UNCHANGED <<dragging, gui, process, nextId>>

\* Elsewhere in a window, or on the bare desktop.
PressNothing ==
  /\ Press
  /\ windows' \in {windows} \cup {Raise(windows, i) : i \in {j \in 1 .. Top : Hit(j)}}
  /\ UNCHANGED <<dragging, gui, process, nextId, presses>>

\* raise_or_spawn: the one window of its kind.
Show(kind) ==
  /\ windows' = RaiseOrSpawn(windows, NewWindow(kind, Kernel))
  /\ IF kind \in Kinds(windows) THEN UNCHANGED nextId ELSE CanCreate /\ nextId' = nextId + 1

\* The Applications button, and the launcher's entry for a built-in.
OpenBuiltin(kind) ==
  /\ Press
  /\ Show(kind)
  /\ UNCHANGED <<dragging, gui, process, presses>>

\* A drive: always a fresh File Manager, so that its title shows the path.
OpenDrive ==
  /\ Press
  /\ CanCreate
  /\ windows' = Spawn(RemoveKind(windows, "FileManager"), NewWindow("FileManager", Kernel))
  /\ nextId' = nextId + 1
  /\ UNCHANGED <<dragging, gui, process, presses>>

\* The launcher's entry for an ELF application.
LaunchElf(p) ==
  /\ Press
  /\ process[p] = "new"
  /\ \A q \in Pids : q < p => process[q] # "new"
  /\ process' = [process EXCEPT ![p] = "alive"]
  /\ UNCHANGED <<windows, dragging, gui, nextId, presses>>

Release ==
  /\ gui /\ pressed
  /\ pressed' = FALSE
  /\ dragging' = 0
  /\ UNCHANGED <<windows, gui, process, nextId, presses>>

-----------------------------------------------------------------------------
(* The pointer, the right button and the keyboard, with the left button held *)
(* or not.                                                                   *)

MouseMove ==
  /\ gui
  /\ dragging \in 1 .. Top
  /\ windows' = [windows EXCEPT ![dragging].place = "part"]
  /\ UNCHANGED <<dragging, pressed, gui, process, nextId, presses>>

\* file_manager_intercept and browser_intercept raise what the right button hits.
RightClick(i) ==
  /\ gui
  /\ Hit(i) /\ windows[i].kind = "FileManager"
  /\ windows' = Raise(windows, i)
  /\ UNCHANGED <<dragging, pressed, gui, process, nextId, presses>>

\* F2 opens the launcher from anywhere.
KeyF2 ==
  /\ gui
  /\ Show("Launcher")
  /\ UNCHANGED <<dragging, pressed, gui, process, presses>>

\* Escape leaves the desktop and drops every window, without ending anyone.
ExitGui ==
  /\ gui
  /\ gui' = FALSE
  /\ windows' = <<>>
  /\ dragging' = 0
  /\ UNCHANGED <<pressed, process, nextId, presses>>

EnterGui ==
  /\ ~gui
  /\ gui' = TRUE
  /\ pressed' \in {pressed, FALSE}
  /\ UNCHANGED <<windows, dragging, process, nextId, presses>>

-----------------------------------------------------------------------------
(* Processes, one slice at a time.                                           *)

OwnedBy(p) == {i \in 1 .. Top : windows[i].owner = p}

SysCreateWindow(p) ==
  /\ CanCreate
  /\ Cardinality(OwnedBy(p)) < MAX_WINDOWS_PER_PROCESS
  /\ windows' = Spawn(windows, NewWindow("Generic", p))
  /\ nextId' = nextId + 1
  /\ UNCHANGED <<dragging, pressed, gui, process, presses>>

SysGetEvent(p, i) ==
  /\ i \in OwnedBy(p)
  /\ windows[i].events # <<>>
  /\ windows' = [windows EXCEPT ![i].events = Tail(@), ![i].got = Head(windows[i].events).n]
  /\ UNCHANGED <<dragging, pressed, gui, process, nextId, presses>>

\* Exit or page fault: close_windows_for_pid.
ProcessEnds(p) ==
  /\ process' = Terminated(p)
  /\ windows' = SelectSeq(windows, LAMBDA w : w.owner # p)
  /\ IF OwnedBy(p) # {} THEN dragging' = 0 ELSE UNCHANGED dragging
  /\ UNCHANGED <<pressed, gui, nextId, presses>>

-----------------------------------------------------------------------------
Init ==
  /\ windows = <<>> /\ dragging = 0 /\ pressed = FALSE /\ gui = TRUE
  /\ process = [p \in Pids |-> "new"] /\ nextId = 1 /\ presses = 0

Next ==
  \/ \E i \in 1 .. Top :
       \/ PressTaskbar(i) \/ PressClose(i) \/ PressChrome(i) \/ PressTitlebar(i)
       \/ PressButton(i) \/ RightClick(i)
  \/ PressNothing \/ OpenDrive \/ Release \/ MouseMove \/ KeyF2 \/ ExitGui \/ EnterGui
  \/ \E kind \in {"Launcher", "FileManager"} : OpenBuiltin(kind)
  \/ \E p \in Pids : LaunchElf(p)
  \/ \E p \in {q \in Pids : process[q] = "alive"} :
       \/ SysCreateWindow(p) \/ ProcessEnds(p)
       \/ \E i \in 1 .. Top : SysGetEvent(p, i)

Spec == Init /\ [][Next]_vars

-----------------------------------------------------------------------------
(* Every variable keeps its type.                                            *)
TypeOK ==
  /\ windows \in Seq(Window)
  /\ \A i \in DOMAIN windows : Len(windows[i].events) <= MAX_PENDING_EVENTS
  /\ dragging \in Nat
  /\ pressed \in BOOLEAN /\ gui \in BOOLEAN
  /\ process \in [Pids -> {"new", "alive", "ended"}]
  /\ nextId \in 1 .. MaxWindowId + 1
  /\ presses \in 0 .. MaxPresses

(* A process gets the clicks on the buttons of its own windows, in order,    *)
(* and when it is too slow it loses the oldest ones: the last click on a     *)
(* window is still in its queue or was the last one fetched from it          *)
(* (apply_action picks the receiver after handle_mouse_button has dropped    *)
(* the lock, and bounds the queue).                                          *)
EventsReachTheirWindow ==
  \A i \in 1 .. Top : LET w == windows[i] IN
    /\ \A k \in DOMAIN w.events :
         /\ w.events[k].win = w.id
         /\ w.got < w.events[k].n
         /\ k > 1 => w.events[k - 1].n < w.events[k].n
    /\ IF w.events = <<>> THEN w.last = w.got ELSE Last(w.events).n = w.last
=============================================================================
