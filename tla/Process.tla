------------------------------- MODULE Process -------------------------------
(***************************************************************************)
(* Processes, their address spaces and the cooperative scheduler           *)
(* (kernel/src/process.rs, memory.rs, the syscalls of syscall.rs that      *)
(* change them, the user page fault of interrupts.rs, and the part of the  *)
(* window manager that owns or ends a process).                            *)
(*                                                                         *)
(* The kernel is one thread of control: ring 3 runs only inside            *)
(* run_scheduler_once, and syscalls run with interrupts masked.  pc says   *)
(* where that thread is, and a step is one call of the memory manager (a   *)
(* page mapped, a space freed) or one syscall, so that what holds BETWEEN  *)
(* the calls of a handler can be stated.                                   *)
(*                                                                         *)
(* Abstracted: addresses to <<region, index>>; the three lower page-table  *)
(* levels of a region to the one table frame whose absence costs an        *)
(* allocation; the order of the free list (free frames differ in nothing   *)
(* but their name, so the allocator picks a fixed one); bytes to           *)
(* heap units.  sleep_on_window has no caller, so SLEEP_QUEUE stays empty  *)
(* and is left out.                                                        *)
(***************************************************************************)
EXTENDS Integers, Sequences, FiniteSets

CONSTANTS
  Frames,        \* physical frames handed to the allocator at boot
  NoFrame,       \* AddressSpace::NONE, and an entry that is not present
  MaxPid,        \* bound: pids ever given out
  MaxWindow,     \* bound: user windows ever opened
  MAX_WINDOWS_PER_PROCESS,
  ImagePages,    \* pages an image may map
  StackPages,    \* USER_STACK_SIZE in pages
  PageUnits,     \* heap units in a page
  USER_HEAP_MAX, \* in heap units
  Images,        \* what spawn may be given: [pages |-> page sequence, ok |-> BOOLEAN]
  Increments,    \* the sbrk arguments applications use
  AppFaults      \* what applications may do wrong

PageOf(r, n) == {r} \X (0 .. n - 1)
HeapPages == USER_HEAP_MAX \div PageUnits
Page == PageOf("image", ImagePages) \cup PageOf("stack", StackPages)
          \cup PageOf("heap", HeapPages)
Pid == 1 .. MaxPid
Window == 1 .. MaxWindow

ASSUME FrameAssumption == NoFrame \notin Frames
ASSUME BoundAssumption ==
  /\ MaxPid \in Nat /\ MaxWindow \in Nat /\ MAX_WINDOWS_PER_PROCESS \in Nat
  /\ ImagePages \in Nat /\ StackPages \in Nat
ASSUME HeapAssumption ==
  /\ PageUnits \in Nat \ {0} /\ HeapPages \in Nat
  /\ USER_HEAP_MAX = HeapPages * PageUnits  \* checked at boot by selftest
  /\ Increments \subseteq Int
ASSUME ImageAssumption ==
  Images \subseteq [pages : Seq(PageOf("image", ImagePages)), ok : BOOLEAN]

\* The entries of an address space: its pages, and the page table of each region.
Table(p) == <<"table", p[1]>>
Entry == Page \cup ({"table"} \X {"image", "stack", "heap"})

VARIABLES
  free,      \* frames the allocator can still hand out
  pt,        \* pt[s][e]: the frame entry e of the space rooted at s points to
  slot,      \* level-4 slot 1: the space the active page tables show
  spaceOf,   \* PROCESS_SPACES
  brk,       \* PROCESS_BREAK
  runQueue,  \* RUN_QUEUE
  current,   \* CURRENT_PROCESS
  nextPid,   \* NEXT_PID
  owner,     \* owner_pid of each window that is open, 0 for the others
  nextWin,   \* NEXT_WINDOW_ID
  pc,        \* where the kernel thread is
  loading,   \* the space spawn_into_new_space is filling
  todo,      \* pages the loader or sbrk has still to map
  bad,       \* the image being loaded turns out invalid after its pages
  goal,      \* the break sbrk is moving to
  dying,     \* the pid being torn down
  after,     \* where its teardown continues
  capture,   \* OUTPUT_CAPTURE is Some
  runner,    \* history: the process the Code Editor asked to run
  captured,  \* history: the processes whose writes it captured
  lost       \* history: frames whose only mapping was overwritten

memVars == <<free, pt, slot, lost>>
procVars == <<spaceOf, brk, runQueue, current, nextPid>>
winVars == <<owner, nextWin>>
loadVars == <<loading, todo, bad, goal>>
capVars == <<capture, runner, captured>>
vars == <<memVars, procVars, winVars, pc, loadVars, dying, after, capVars>>

Proc == [pid : Pid, space : Frames]
NoProc == [pid |-> 0, space |-> NoFrame]

-----------------------------------------------------------------------------
(* The memory manager: memory.rs.                                          *)

\* allocate_frame, when free is not empty.
NextFrame(f) == CHOOSE x \in f : TRUE

EmptySpace == [e \in Entry |-> NoFrame]

\* Every frame destroy_address_space finds by walking the space rooted at s.
FramesOf(s) == {s} \cup ({pt[s][e] : e \in Entry} \ {NoFrame})

TableMissing(p) == pt[slot][Table(p)] = NoFrame

\* map_page panics when it cannot get a page-table frame after the page's own.
MapPanics(p) == TableMissing(p) /\ free \ {NextFrame(free)} = {}

\* Mutation: the allocator reads the frame it hands out and leaves it in the pool.
PeekedMapUserPage(p) ==
  /\ free # {} /\ ~MapPanics(p)
  /\ pt' = [pt EXCEPT ![slot] = [@ EXCEPT ![p] = NextFrame(free)]]
  /\ UNCHANGED <<free, lost>>

\* map_user_page: the frame first, then the table on the way to it, then the
\* entry, which is written whatever it held.
MapUserPage(p) ==
  LET f == NextFrame(free)
      t == NextFrame(free \ {f})
  IN  /\ free # {} /\ ~MapPanics(p)
      /\ IF TableMissing(p)
         THEN /\ pt' = [pt EXCEPT ![slot] = [@ EXCEPT ![p] = f, ![Table(p)] = t]]
              /\ free' = free \ {f, t}
         ELSE /\ pt' = [pt EXCEPT ![slot] = [@ EXCEPT ![p] = f]]
              /\ free' = free \ {f}
      /\ lost' = lost \cup ({pt[slot][p]} \ {NoFrame})

\* Mutation: the root of the space is forgotten.
RootlessDestroySpace(s) ==
  /\ free' = free \cup (FramesOf(s) \ {s})
  /\ pt' = [pt EXCEPT ![s] = EmptySpace]
  /\ UNCHANGED lost

\* destroy_address_space.  A freed table is read again only after it has been
\* cleared, so its old contents are forgotten here.
DestroySpace(s) ==
  /\ free' = free \cup FramesOf(s)
  /\ pt' = [pt EXCEPT ![s] = EmptySpace]
  /\ UNCHANGED lost

-----------------------------------------------------------------------------
(* Spawning: spawn_into_new_space and its callers.                         *)

\* Mutation: the space to restore is read after the new one was installed.
InstalledSpace == slot

\* current_space: the running process's, whatever the page tables show.
CurrentSpace == current.space

\* Mutation: the queue serves the last to arrive.
PushFront(p) == <<p>> \o runQueue

PushBack(p) == Append(runQueue, p)

\* The stack's pages, in the order map_user_stack maps them.
Stack == [i \in 1 .. StackPages |-> <<"stack", i - 1>>]

\* create_address_space, and the new space made the active one.  With run, the
\* Code Editor has begun capturing before it spawns.
Spawn(image, run) ==
  /\ pc = "loop"
  /\ nextPid <= MaxPid
  /\ free # {}
  /\ LET s == NextFrame(free) IN
       /\ free' = free \ {s}
       /\ pt' = [pt EXCEPT ![s] = EmptySpace]
       /\ slot' = s
       /\ loading' = s
  /\ todo' = IF image.ok THEN image.pages \o Stack ELSE image.pages
  /\ bad' = ~image.ok
  /\ pc' = "load"
  /\ capture' = run
  /\ runner' = IF run THEN nextPid ELSE 0
  /\ UNCHANGED <<lost, procVars, winVars, goal, dying, after, captured>>

LaunchElfApp == \E image \in Images : Spawn(image, FALSE)
CodeEditorRun == \E image \in Images : Spawn(image, TRUE)

LoadPage ==
  /\ pc = "load" /\ todo # <<>>
  /\ MapUserPage(Head(todo))
  /\ todo' = Tail(todo)
  /\ UNCHANGED <<slot, procVars, winVars, pc, loading, bad, goal, dying, after, capVars>>

\* The image is rejected, or there is no frame for a page: the partial space
\* is destroyed.
LoadFails ==
  /\ pc = "load"
  /\ IF todo = <<>> THEN bad ELSE free = {}
  /\ slot' = CurrentSpace
  /\ DestroySpace(loading)
  /\ loading' = NoFrame /\ todo' = <<>> /\ bad' = FALSE
  /\ pc' = "loop"
  /\ capture' = FALSE /\ runner' = 0
  /\ UNCHANGED <<procVars, winVars, goal, dying, after, captured>>

\* push_run_queue.  code_editor_run goes on to run_scheduler_once itself.
LoadDone ==
  /\ pc = "load" /\ todo = <<>> /\ ~bad
  /\ slot' = CurrentSpace
  /\ spaceOf' = [spaceOf EXCEPT ![nextPid] = loading]
  /\ runQueue' = PushBack([pid |-> nextPid, space |-> loading])
  /\ nextPid' = nextPid + 1
  /\ loading' = NoFrame
  /\ pc' = IF capture THEN "schedule" ELSE "loop"
  /\ UNCHANGED <<free, pt, lost, brk, current, winVars, todo, bad, goal, dying, after, capVars>>

-----------------------------------------------------------------------------
(* The scheduler.                                                          *)

RunSchedulerOnce ==
  /\ pc \in {"loop", "schedule"}
  /\ runQueue # <<>>
  /\ current' = Head(runQueue)
  /\ runQueue' = Tail(runQueue)
  /\ slot' = Head(runQueue).space
  /\ pc' = "user"
  /\ UNCHANGED <<free, pt, lost, spaceOf, brk, nextPid, winVars, loadVars, dying, after, capVars>>

YieldCurrent ==
  /\ pc = "user"
  /\ runQueue' = PushBack(current)
  /\ current' = NoProc
  /\ pc' = "back"
  /\ UNCHANGED <<memVars, spaceOf, brk, nextPid, winVars, loadVars, dying, after, capVars>>

\* Control lands after enter_user_mode; the Code Editor ends its capture.
ReturnToKernel ==
  /\ pc = "back"
  /\ slot' = NoFrame
  /\ pc' = "loop"
  /\ capture' = FALSE /\ runner' = 0 /\ captured' = {}
  /\ UNCHANGED <<free, pt, lost, procVars, winVars, loadVars, dying, after>>

-----------------------------------------------------------------------------
(* Leaving for good: exit, a fault, the user closing a window.             *)

\* exit_current and the page-fault handler take CURRENT_PROCESS before anything
\* is freed.
TakeCurrent ==
  /\ pc = "user"
  /\ dying' = current.pid
  /\ current' = NoProc
  /\ pc' = "free" /\ after' = "close"
  /\ UNCHANGED <<memVars, spaceOf, brk, runQueue, nextPid, winVars, loadVars, capVars>>

ExitCurrent == TakeCurrent
PageFault == "page fault" \in AppFaults /\ TakeCurrent

\* free_process_memory
FreeProcessMemory ==
  /\ pc = "free"
  /\ brk' = [brk EXCEPT ![dying] = 0]
  /\ pc' = after
  /\ IF spaceOf[dying] = NoFrame
     THEN UNCHANGED <<memVars, spaceOf>>
     ELSE /\ slot' = IF CurrentSpace = spaceOf[dying] THEN NoFrame ELSE slot
          /\ DestroySpace(spaceOf[dying])
          /\ spaceOf' = [spaceOf EXCEPT ![dying] = NoFrame]
  /\ dying' = IF after = "loop" THEN 0 ELSE dying
  /\ UNCHANGED <<runQueue, current, nextPid, winVars, loadVars, after, capVars>>

CloseWindowsForPid ==
  /\ pc = "close"
  /\ owner' = [w \in Window |-> IF owner[w] = dying THEN 0 ELSE owner[w]]
  /\ dying' = 0
  /\ pc' = "back"
  /\ UNCHANGED <<memVars, procVars, nextWin, loadVars, after, capVars>>

\* Mutation: the process is left on the run queue.
WithoutNone(q, pid) == q

\* RUN_QUEUE.retain(|p| p.pid != pid): a pid is queued at most once.
Without(q, pid) ==
  IF \A i \in DOMAIN q : q[i].pid # pid THEN q
  ELSE LET k == CHOOSE i \in DOMAIN q : q[i].pid = pid
       IN  [i \in 1 .. Len(q) - 1 |-> IF i < k THEN q[i] ELSE q[i + 1]]

\* The close button: the window goes, then process::terminate(owner_pid).
CloseButton(w) ==
  /\ pc = "loop"
  /\ owner[w] # 0
  /\ owner' = [owner EXCEPT ![w] = 0]
  /\ runQueue' = Without(runQueue, owner[w])
  /\ current' = IF current.pid = owner[w] THEN NoProc ELSE current
  /\ dying' = owner[w]
  /\ pc' = "free" /\ after' = "loop"
  /\ UNCHANGED <<memVars, spaceOf, brk, nextPid, nextWin, loadVars, capVars>>

-----------------------------------------------------------------------------
(* The other syscalls, and the faults that stop the machine.               *)

\* Mutation: the limit is not checked.
UnlimitedBreak(requested) == requested >= 0

BreakAllowed(requested) == requested >= 0 /\ requested <= USER_HEAP_MAX

PagesUpTo(units) == (units + PageUnits - 1) \div PageUnits  \* align_up

Sbrk(increment) ==
  LET requested == brk[current.pid] + increment
      mapped == PagesUpTo(brk[current.pid])
      needed == PagesUpTo(requested)
  IN  /\ pc = "user"
      /\ BreakAllowed(requested)
      /\ goal' = requested
      /\ todo' = [i \in 1 .. needed - mapped |-> <<"heap", mapped + i - 1>>]
      /\ pc' = "sbrk"
      /\ UNCHANGED <<memVars, procVars, winVars, loading, bad, dying, after, capVars>>

SbrkPage ==
  /\ pc = "sbrk" /\ todo # <<>>
  /\ MapUserPage(Head(todo))
  /\ todo' = Tail(todo)
  /\ UNCHANGED <<slot, procVars, winVars, pc, loading, bad, goal, dying, after, capVars>>

\* Mutation: out of frames partway, and the break moves all the same.
HalfGrownSbrk ==
  /\ pc = "sbrk" /\ todo # <<>> /\ free = {}
  /\ brk' = [brk EXCEPT ![current.pid] = goal]
  /\ todo' = <<>> /\ goal' = 0
  /\ pc' = "user"
  /\ UNCHANGED <<memVars, spaceOf, runQueue, current, nextPid, winVars,
                 loading, bad, dying, after, capVars>>

\* Out of frames partway: the break stays where it was.
SbrkFails ==
  /\ pc = "sbrk" /\ todo # <<>> /\ free = {}
  /\ todo' = <<>> /\ goal' = 0
  /\ pc' = "user"
  /\ UNCHANGED <<memVars, procVars, winVars, loading, bad, dying, after, capVars>>

SbrkDone ==
  /\ pc = "sbrk" /\ todo = <<>>
  /\ brk' = [brk EXCEPT ![current.pid] = goal]
  /\ goal' = 0
  /\ pc' = "user"
  /\ UNCHANGED <<memVars, spaceOf, runQueue, current, nextPid, winVars,
                 loading, todo, bad, dying, after, capVars>>

SysCreateWindow ==
  /\ pc = "user"
  /\ nextWin <= MaxWindow
  /\ Cardinality({w \in Window : owner[w] = current.pid}) < MAX_WINDOWS_PER_PROCESS
  /\ owner' = [owner EXCEPT ![nextWin] = current.pid]
  /\ nextWin' = nextWin + 1
  /\ UNCHANGED <<memVars, procVars, pc, loadVars, dying, after, capVars>>

\* SYS_WRITE while OUTPUT_CAPTURE is Some; otherwise it only prints.
SysWrite ==
  /\ pc = "user" /\ capture
  /\ captured' = captured \cup {current.pid}
  /\ UNCHANGED <<memVars, procVars, winVars, pc, loadVars, dying, after, capture, runner>>

\* A syscall given a pointer inside the user range that no page backs faults in
\* kernel mode: page_fault_handler_rust panics.
BadPointer ==
  /\ pc = "user" /\ "bad pointer" \in AppFaults
  /\ pc' = "panic"
  /\ UNCHANGED <<memVars, procVars, winVars, loadVars, dying, after, capVars>>

\* #UD, #GP, #NP, #SS: the handler halts with interrupts masked.
OtherException ==
  /\ pc = "user" /\ "exception" \in AppFaults
  /\ pc' = "hang"
  /\ UNCHANGED <<memVars, procVars, winVars, loadVars, dying, after, capVars>>

\* map_page's expect("out of memory for page tables").
TablePanic ==
  /\ pc \in {"load", "sbrk"} /\ todo # <<>> /\ free # {}
  /\ MapPanics(Head(todo))
  /\ pc' = "panic"
  /\ UNCHANGED <<memVars, procVars, winVars, loadVars, dying, after, capVars>>

-----------------------------------------------------------------------------
Init ==
  /\ free = Frames
  /\ pt = [s \in Frames |-> EmptySpace]
  /\ slot = NoFrame
  /\ spaceOf = [p \in Pid |-> NoFrame]
  /\ brk = [p \in Pid |-> 0]
  /\ runQueue = <<>>
  /\ current = NoProc
  /\ nextPid = 1
  /\ owner = [w \in Window |-> 0]
  /\ nextWin = 1
  /\ pc = "loop"
  /\ loading = NoFrame /\ todo = <<>> /\ bad = FALSE /\ goal = 0
  /\ dying = 0 /\ after = "loop"
  /\ capture = FALSE /\ runner = 0 /\ captured = {}
  /\ lost = {}

KernelStep ==
  \/ LoadPage \/ LoadFails \/ LoadDone \/ RunSchedulerOnce \/ ReturnToKernel
  \/ FreeProcessMemory \/ CloseWindowsForPid
  \/ SbrkPage \/ SbrkFails \/ SbrkDone \/ TablePanic

UserInput ==
  LaunchElfApp \/ CodeEditorRun \/ (\E w \in Window : CloseButton(w))

\* What ends an application's turn, and what it may do before.
TurnEnds == YieldCurrent \/ ExitCurrent \/ PageFault \/ BadPointer \/ OtherException
AppStep == (\E n \in Increments : Sbrk(n)) \/ SysCreateWindow \/ SysWrite

Next == KernelStep \/ UserInput \/ TurnEnds \/ AppStep

Spec == Init /\ [][Next]_vars

\* The kernel thread runs whenever it can.  Every iteration of the main loop calls
\* run_scheduler_once after the input it drained (main.rs:522), so no stream of
\* clicks keeps it away.  Applications are cooperative: each gives the processor
\* back in the end (nothing in the kernel takes it from them).
FairSpec ==
  Spec /\ WF_vars(KernelStep) /\ SF_vars(RunSchedulerOnce) /\ SF_vars(TurnEnds)
-----------------------------------------------------------------------------
(* What the code promises.                                                 *)

Spaces == ({spaceOf[p] : p \in Pid} \cup {loading}) \ {NoFrame}
Halted == pc \in {"panic", "hang"}

TypeOK ==
  /\ free \subseteq Frames /\ lost \subseteq Frames
  /\ pt \in [Frames -> [Entry -> Frames \cup {NoFrame}]]
  /\ slot \in Frames \cup {NoFrame} /\ loading \in Frames \cup {NoFrame}
  /\ spaceOf \in [Pid -> Frames \cup {NoFrame}]
  /\ brk \in [Pid -> 0 .. USER_HEAP_MAX]
  /\ runQueue \in Seq(Proc) /\ current \in Proc \cup {NoProc}
  /\ nextPid \in 1 .. MaxPid + 1 /\ nextWin \in 1 .. MaxWindow + 1
  /\ owner \in [Window -> 0 .. MaxPid]
  /\ pc \in {"loop", "load", "schedule", "user", "sbrk", "free", "close",
             "back", "panic", "hang"}
  /\ todo \in Seq(Page) /\ bad \in BOOLEAN /\ goal \in 0 .. USER_HEAP_MAX
  /\ dying \in 0 .. MaxPid /\ after \in {"loop", "close"}
  /\ capture \in BOOLEAN /\ runner \in 0 .. MaxPid /\ captured \subseteq Pid

\* No frame is handed out twice: the frames of the spaces in use are their own,
\* entry by entry and space by space, and none is on the free list.  This is
\* what keeps one process from naming another's memory, and it is where a space
\* destroyed twice (two windows of one process closed in turn) would show.
NoFrameUsedTwice ==
  /\ \A s \in Spaces : FramesOf(s) \cap (free \cup lost) = {}
  /\ free \cap lost = {}
  /\ \A p, q \in Pid : spaceOf[p] # NoFrame /\ spaceOf[p] = spaceOf[q] => p = q
  /\ \A p \in Pid : spaceOf[p] # NoFrame => spaceOf[p] # loading
  /\ \A s, t \in Spaces : \A d, e \in Entry :
       /\ pt[s][d] # t
       /\ pt[s][d] # NoFrame /\ pt[s][d] = pt[t][e] => s = t /\ d = e

\* Every frame is free, reachable from a space in use, or was lost by mapping
\* over it: a failed spawn, a fault and every other way out of a process return
\* all the frames its tables still show.
FramesAccounted == Frames = free \cup lost \cup UNION {FramesOf(s) : s \in Spaces}

\* A live process is in exactly one place (queued once, running, or being torn
\* down), and the copy of its space that place holds is the registered one.
OnePlacePerProcess ==
  /\ \A i \in DOMAIN runQueue : LET p == runQueue[i] IN
       /\ p.space = spaceOf[p.pid]
       /\ p.pid # current.pid /\ p.pid # dying
       /\ \A j \in DOMAIN runQueue : runQueue[j].pid = p.pid => i = j
  /\ current # NoProc => current.space = spaceOf[current.pid] /\ current.pid # dying
  /\ \A p \in Pid : spaceOf[p] # NoFrame =>
       \/ \E i \in DOMAIN runQueue : runQueue[i].pid = p
       \/ current.pid = p
       \/ dying = p

\* Ring 3 runs, and sbrk maps, in the running process's own space; the main loop
\* runs with no process's memory visible, whichever way the last turn ended.
RunsInOwnSpace ==
  /\ pc \in {"user", "sbrk"} => current # NoProc /\ slot = spaceOf[current.pid]
  /\ pc = "load" => slot = loading
  /\ pc \in {"loop", "schedule"} => slot = NoFrame /\ current = NoProc

\* Every page below the break of a live process is mapped, also after an sbrk
\* that ran out of frames halfway and after shrinking and growing again.
HeapBackedBelowBreak ==
  \A p \in Pid : spaceOf[p] # NoFrame =>
    \A n \in 0 .. PagesUpTo(brk[p]) - 1 : pt[spaceOf[p]][<<"heap", n>>] # NoFrame

\* A queued process gets the processor or is terminated, however many others
\* yield in turn: the run queue is first in, first out.
EveryProcessRuns ==
  \A p \in Pid : (\E i \in DOMAIN runQueue : runQueue[i].pid = p)
                  ~> (current.pid = p \/ spaceOf[p] = NoFrame \/ Halted)

\* process.rs:587-588: "Unhook the space before freeing its frames, so the active
\* page tables never point at memory that is back on the free list."
ActiveTablesNeverFree == slot # NoFrame => slot \notin free

\* memory.rs:370-372: every frame is handed back "so an exiting process leaks
\* nothing": with no process left, every frame is free.
ExitLeaksNothing == Spaces = {} => free = Frames

\* window.rs:3106-3107: "Build, then run the resulting binary, capturing its
\* stdout into the output pane."
CapturesItsOwnRun == captured \subseteq {runner}
=============================================================================
