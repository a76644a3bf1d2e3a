--------------------------- MODULE Process_proofs ---------------------------
(***************************************************************************)
(* Type correctness and the frame and scheduling invariants of Process,    *)
(* for every number of frames, pids and pages, every set of images and of  *)
(* sbrk increments, and every kind of application fault.                   *)
(***************************************************************************)
EXTENDS Process, TLAPS

-----------------------------------------------------------------------------
(* Entries and frames.                                                     *)

\* A page and the table that maps it are two different entries of a space.
LEMMA PageAndTable ==
  ASSUME NEW p \in Page
  PROVE  p \in Entry /\ Table(p) \in Entry /\ p # Table(p)
BY DEF Page, PageOf, Entry, Table

\* A pool that is not empty hands out one of its frames.
LEMMA NextFrameInPool ==
  ASSUME NEW f, f # {}
  PROVE  NextFrame(f) \in f
BY DEF NextFrame

\* The whole pages that hold a heap no larger than the limit fit in the heap
\* window, and an empty heap has none.
LEMMA PagesUpToBounds ==
  ASSUME NEW u \in 0 .. USER_HEAP_MAX
  PROVE  PagesUpTo(u) \in 0 .. HeapPages /\ PagesUpTo(0) = 0
<1> DEFINE q == PagesUpTo(u)
<1>1. PageUnits \in Nat \ {0} /\ HeapPages \in Nat /\ USER_HEAP_MAX = HeapPages * PageUnits
  BY HeapAssumption
<1> HIDE DEF HeapPages
<1>2. u \in Nat /\ u <= HeapPages * PageUnits
  BY <1>1
<1>3. q \in Int /\ q * PageUnits <= u + PageUnits - 1 /\ u + PageUnits - 1 < (q + 1) * PageUnits
  BY <1>1, <1>2 DEF PagesUpTo
<1>4. q >= 0
  BY <1>1, <1>2, <1>3
<1>5. q <= HeapPages
  BY <1>1, <1>2, <1>3
<1>6. PagesUpTo(0) = 0
  BY <1>1 DEF PagesUpTo
<1> QED BY <1>3, <1>4, <1>5, <1>6, <1>1

\* The heap pages from one index up to another, none when the second is smaller.
LEMMA HeapPageRun ==
  ASSUME NEW m \in 0 .. HeapPages, NEW k \in 0 .. HeapPages
  PROVE  [i \in 1 .. k - m |-> <<"heap", m + i - 1>>] \in Seq(Page)
<1> DEFINE run == [i \in 1 .. k - m |-> <<"heap", m + i - 1>>]
<1>1. HeapPages \in Nat
  BY HeapAssumption
<1>2. \A i \in 1 .. k - m : <<"heap", m + i - 1>> \in Page
  <2>1. \A i \in 1 .. k - m : m + i - 1 \in 0 .. HeapPages - 1
    BY <1>1
  <2> QED BY <2>1 DEF Page, PageOf
<1>3. CASE k - m \in Nat
  BY <1>2, <1>3
<1>4. CASE k - m \notin Nat
  <2>1. 1 .. k - m = {}
    BY <1>1, <1>4
  <2>2. run = << >>
    BY <2>1
  <2> QED BY <2>2
<1> QED BY <1>3, <1>4

-----------------------------------------------------------------------------
(* The inductive invariant: what the run checks, and what the position of   *)
(* the kernel thread says of the other variables.                           *)

\* Who is running, loading or being torn down at each position of the thread;
\* pids not given out yet, and those already torn down, own nothing.
Control ==
  /\ pc \in {"user", "sbrk"} => current \in Proc
  /\ pc \notin {"user", "sbrk", "panic", "hang"} => current = NoProc
  /\ pc = "load" => loading \in Frames /\ nextPid \in Pid
  /\ pc \notin {"load", "panic"} => loading = NoFrame
  /\ dying # 0 <=> pc \in {"free", "close"}
  /\ pc = "close" => spaceOf[dying] = NoFrame
  /\ pc = "free" /\ after = "loop" => slot = NoFrame
  /\ \A p \in Pid : p >= nextPid => spaceOf[p] = NoFrame
  /\ \A p \in Pid : spaceOf[p] = NoFrame => brk[p] = 0

\* The pages sbrk still has to map are those it has found missing.
HeapProgress ==
  pc = "sbrk" => \A n \in 0 .. PagesUpTo(goal) - 1 :
    pt[slot][<<"heap", n>>] = NoFrame =>
      \E i \in DOMAIN todo : todo[i] = <<"heap", n>>

Inv ==
  /\ TypeOK /\ Control /\ RunsInOwnSpace /\ OnePlacePerProcess
  /\ NoFrameUsedTwice /\ FramesAccounted
  /\ HeapBackedBelowBreak /\ HeapProgress

\* Everything a step can be, one disjunct per action.
LEMMA NextCases ==
  ASSUME Next
  PROVE  \/ \E image \in Images, run \in BOOLEAN : Spawn(image, run)
         \/ LoadPage \/ LoadFails \/ LoadDone
         \/ RunSchedulerOnce \/ YieldCurrent \/ ReturnToKernel
         \/ TakeCurrent \/ FreeProcessMemory \/ CloseWindowsForPid
         \/ \E w \in Window : CloseButton(w)
         \/ \E n \in Increments : Sbrk(n)
         \/ SbrkPage \/ SbrkFails \/ SbrkDone
         \/ SysCreateWindow \/ SysWrite
         \/ BadPointer \/ OtherException \/ TablePanic
BY DEF Next, KernelStep, UserInput, TurnEnds, AppStep, LaunchElfApp, CodeEditorRun,
       ExitCurrent, PageFault

\* The machine boots into a state of the invariant.
LEMMA InitInv == Init => Inv
<1> SUFFICES ASSUME Init PROVE Inv
  OBVIOUS
<1> USE FrameAssumption, BoundAssumption, HeapAssumption DEF Init
<1>1. TypeOK
  <2>1. 0 \in 0 .. USER_HEAP_MAX
    BY DEF HeapPages
  <2>2. pt \in [Frames -> [Entry -> Frames \cup {NoFrame}]]
    BY DEF EmptySpace
  <2>3. runQueue \in Seq(Proc) /\ todo \in Seq(Page)
    OBVIOUS
  <2>4. nextPid \in 1 .. MaxPid + 1 /\ nextWin \in 1 .. MaxWindow + 1
    OBVIOUS
  <2>5. spaceOf \in [Pid -> Frames \cup {NoFrame}] /\ owner \in [Window -> 0 .. MaxPid]
    BY DEF Pid, Window
  <2>6. brk \in [Pid -> 0 .. USER_HEAP_MAX] /\ goal \in 0 .. USER_HEAP_MAX
    BY <2>1
  <2>7. dying \in 0 .. MaxPid /\ runner \in 0 .. MaxPid
    OBVIOUS
  <2>8. bad \in BOOLEAN /\ capture \in BOOLEAN
    BY Zenon
  <2> QED BY <2>2, <2>3, <2>4, <2>5, <2>6, <2>7, <2>8, Zenon DEF TypeOK
<1>2. Control /\ RunsInOwnSpace /\ OnePlacePerProcess
  BY DEF Control, RunsInOwnSpace, OnePlacePerProcess, NoProc, Pid
<1>3. Spaces = {}
  BY DEF Spaces
<1>4. NoFrameUsedTwice /\ FramesAccounted
  BY <1>3 DEF NoFrameUsedTwice, FramesAccounted
<1>5. HeapBackedBelowBreak /\ HeapProgress
  BY DEF HeapBackedBelowBreak, HeapProgress
<1> QED BY <1>1, <1>2, <1>4, <1>5 DEF Inv

-----------------------------------------------------------------------------
(* Steps that leave page tables, registry and free list alone.             *)

\* A step that touches neither page tables nor registry, and leaves the space being
\* loaded alone, keeps every statement about frames.
LEMMA FramesKept ==
  ASSUME NoFrameUsedTwice, FramesAccounted,
         UNCHANGED <<free, pt, lost, spaceOf, loading>>
  PROVE  NoFrameUsedTwice' /\ FramesAccounted'
<1>1. Spaces' = Spaces /\ \A s : FramesOf(s)' = FramesOf(s)
  BY DEF Spaces, FramesOf
<1> QED BY <1>1 DEF NoFrameUsedTwice, FramesAccounted

\* A step that touches neither page tables, registry nor breaks keeps every heap
\* backed.
LEMMA HeapKept ==
  ASSUME HeapBackedBelowBreak, UNCHANGED <<pt, spaceOf, brk>>
  PROVE  HeapBackedBelowBreak'
BY DEF HeapBackedBelowBreak, PagesUpTo

\* Yielding queues the process that was running, which was not queued.
LEMMA YieldCurrentInv == Inv /\ YieldCurrent => Inv'
<1> SUFFICES ASSUME Inv, YieldCurrent PROVE Inv'
  OBVIOUS
<1> USE DEF YieldCurrent, memVars, winVars, loadVars, capVars
<1>0. current \in Proc /\ runQueue \in Seq(Proc)
  BY DEF Inv, Control, TypeOK
<1>1. TypeOK'
  BY <1>0 DEF Inv, TypeOK, PushBack
<1>2. Control'
  BY DEF Inv, Control
<1>3. RunsInOwnSpace' /\ OnePlacePerProcess'
  <2>1. /\ Len(runQueue) \in Nat /\ DOMAIN runQueue = 1 .. Len(runQueue)
        /\ DOMAIN runQueue' = 1 .. Len(runQueue) + 1
        /\ \A i \in 1 .. Len(runQueue) : runQueue'[i] = runQueue[i]
        /\ runQueue'[Len(runQueue) + 1] = current
    BY <1>0 DEF PushBack
  <2>2. current # NoProc /\ current.pid \in Pid /\ dying = 0 /\ current'.pid = 0
    BY <1>0 DEF Inv, Control, Proc, NoProc, Pid
  <2>3. RunsInOwnSpace'
    BY DEF RunsInOwnSpace
  <2>4. ASSUME NEW i \in DOMAIN runQueue'
        PROVE  /\ runQueue'[i].space = spaceOf[runQueue'[i].pid]
               /\ runQueue'[i].pid \in Pid
               /\ \A j \in DOMAIN runQueue' : runQueue'[j].pid = runQueue'[i].pid => i = j
    <3>1. \A j \in 1 .. Len(runQueue) :
            /\ runQueue'[j].pid \in Pid /\ runQueue'[j].pid # current.pid
            /\ runQueue'[j].space = spaceOf[runQueue'[j].pid]
      <4>1. \A j \in 1 .. Len(runQueue) : runQueue[j] \in Proc
        BY <1>0
      <4> QED BY <2>1, <4>1 DEF Inv, OnePlacePerProcess, Proc
    <3>2. \A j, k \in 1 .. Len(runQueue) : runQueue'[j].pid = runQueue'[k].pid => j = k
      BY <2>1 DEF Inv, OnePlacePerProcess
    <3>3. current.space = spaceOf[current.pid]
      BY <2>2 DEF Inv, OnePlacePerProcess
    <3> QED BY <2>1, <2>2, <3>1, <3>2, <3>3
  <2>5. ASSUME NEW p \in Pid, spaceOf[p] # NoFrame
        PROVE  \E i \in DOMAIN runQueue' : runQueue'[i].pid = p
    <3>1. CASE current.pid = p
      BY <2>1, <3>1
    <3>2. CASE current.pid # p
      <4>1. PICK i \in DOMAIN runQueue : runQueue[i].pid = p
        BY <2>2, <2>5, <3>2 DEF Inv, OnePlacePerProcess, Pid
      <4> QED BY <2>1, <4>1
    <3> QED BY <3>1, <3>2
  <2> QED BY <2>2, <2>3, <2>4, <2>5 DEF OnePlacePerProcess, NoProc, Pid
<1>4. NoFrameUsedTwice' /\ FramesAccounted'
  BY FramesKept DEF Inv
<1>5. HeapBackedBelowBreak' /\ HeapProgress'
  BY HeapKept DEF Inv, HeapProgress
<1> QED BY <1>1, <1>2, <1>3, <1>4, <1>5 DEF Inv

\* exit_current and the page fault take the running process out of CURRENT_PROCESS;
\* until its space is freed it is the dying one.
LEMMA TakeCurrentInv == Inv /\ TakeCurrent => Inv'
<1> SUFFICES ASSUME Inv, TakeCurrent PROVE Inv'
  OBVIOUS
<1> USE DEF TakeCurrent, memVars, winVars, loadVars, capVars
<1>0. current \in Proc /\ runQueue \in Seq(Proc) /\ MaxPid \in Nat
  BY BoundAssumption DEF Inv, Control, TypeOK
<1>1. TypeOK'
  BY <1>0 DEF Inv, TypeOK, Proc, Pid
<1>2. Control'
  BY <1>0 DEF Inv, Control, Proc, Pid
<1>3. RunsInOwnSpace' /\ OnePlacePerProcess'
  BY <1>0 DEF Inv, TypeOK, Control, RunsInOwnSpace, OnePlacePerProcess, Proc, NoProc, Pid
<1>4. NoFrameUsedTwice' /\ FramesAccounted'
  BY FramesKept DEF Inv
<1>5. HeapBackedBelowBreak' /\ HeapProgress'
  BY HeapKept DEF Inv, HeapProgress
<1> QED BY <1>1, <1>2, <1>3, <1>4, <1>5 DEF Inv

\* The head of the queue becomes the running process, in the space it registered.
LEMMA RunSchedulerOnceInv == Inv /\ RunSchedulerOnce => Inv'
<1> SUFFICES ASSUME Inv, RunSchedulerOnce PROVE Inv'
  OBVIOUS
<1> USE DEF RunSchedulerOnce, winVars, loadVars, capVars
<1>0. runQueue \in Seq(Proc) /\ Head(runQueue) \in Proc /\ Tail(runQueue) \in Seq(Proc)
  BY DEF Inv, TypeOK
<1>1. TypeOK'
  BY <1>0 DEF Inv, TypeOK, Proc
<1>2. Control'
  BY <1>0 DEF Inv, Control
<1>3. RunsInOwnSpace' /\ OnePlacePerProcess'
  <2>1. Head(runQueue).space = spaceOf[Head(runQueue).pid] /\ Head(runQueue).pid # dying
    BY <1>0 DEF Inv, OnePlacePerProcess
  <2>2. DOMAIN Tail(runQueue) = 1 .. Len(runQueue) - 1
        /\ \A i \in 1 .. Len(runQueue) - 1 : Tail(runQueue)[i] = runQueue[i + 1]
        /\ Len(runQueue) \in Nat \ {0} /\ DOMAIN runQueue = 1 .. Len(runQueue)
        /\ Head(runQueue) = runQueue[1]
    BY <1>0
  <2>3. RunsInOwnSpace'
    BY <1>0, <2>1 DEF Inv, Control, RunsInOwnSpace, Proc, NoProc, Pid
  <2>4. \A i \in DOMAIN runQueue' :
          /\ runQueue'[i].space = spaceOf[runQueue'[i].pid]
          /\ runQueue'[i].pid # current'.pid /\ runQueue'[i].pid # dying
          /\ \A j \in DOMAIN runQueue' : runQueue'[j].pid = runQueue'[i].pid => i = j
    BY <2>2 DEF Inv, OnePlacePerProcess
  <2>5. ASSUME NEW p \in Pid, spaceOf[p] # NoFrame, current'.pid # p, dying # p
        PROVE  \E i \in DOMAIN runQueue' : runQueue'[i].pid = p
    <3>1. PICK i \in DOMAIN runQueue : runQueue[i].pid = p
      BY <2>5 DEF Inv, OnePlacePerProcess, Control, NoProc, Pid
    <3>2. i # 1
      BY <2>2, <2>5, <3>1
    <3>3. PICK j \in 1 .. Len(runQueue) - 1 : i = j + 1
      <4>1. i \in 1 .. Len(runQueue) /\ i - 1 \in Int
        BY <2>2, <3>1
      <4>2. i - 1 \in 1 .. Len(runQueue) - 1 /\ i = (i - 1) + 1
        BY <2>2, <3>2, <4>1
      <4> QED BY <4>2
    <3>4. j \in DOMAIN runQueue' /\ runQueue'[j] = runQueue[i]
      BY <2>2, <3>3
    <3>5. runQueue'[j].pid = p
      BY <3>1, <3>4
    <3> QED BY <3>4, <3>5
  <2> QED BY <2>1, <2>3, <2>4, <2>5 DEF OnePlacePerProcess
<1>4. NoFrameUsedTwice' /\ FramesAccounted'
  BY FramesKept DEF Inv
<1>5. HeapBackedBelowBreak' /\ HeapProgress'
  BY HeapKept DEF Inv, HeapProgress
<1> QED BY <1>1, <1>2, <1>3, <1>4, <1>5 DEF Inv

\* The main loop gets the processor back with no space installed.
LEMMA ReturnToKernelInv == Inv /\ ReturnToKernel => Inv'
<1> SUFFICES ASSUME Inv, ReturnToKernel PROVE Inv'
  OBVIOUS
<1> USE DEF ReturnToKernel, memVars, procVars, winVars, loadVars, capVars
<1>1. TypeOK'
  <2>1. captured' \subseteq Pid /\ runner' \in 0 .. MaxPid
    BY BoundAssumption
  <2>2. capture' \in BOOLEAN
    BY Zenon
  <2> QED BY <2>1, <2>2 DEF Inv, TypeOK
<1>2. Control'
  BY DEF Inv, Control
<1>3. RunsInOwnSpace' /\ OnePlacePerProcess'
  BY DEF Inv, Control, RunsInOwnSpace, OnePlacePerProcess
<1>4. NoFrameUsedTwice' /\ FramesAccounted'
  BY FramesKept DEF Inv
<1>5. HeapBackedBelowBreak' /\ HeapProgress'
  BY HeapKept DEF Inv, HeapProgress
<1> QED BY <1>1, <1>2, <1>3, <1>4, <1>5 DEF Inv

\* By the time the windows go the space is gone, so nothing else is owned.
LEMMA CloseWindowsForPidInv == Inv /\ CloseWindowsForPid => Inv'
<1> SUFFICES ASSUME Inv, CloseWindowsForPid PROVE Inv'
  OBVIOUS
<1> USE DEF CloseWindowsForPid, memVars, procVars, winVars, loadVars, capVars
<1>1. TypeOK'
  BY BoundAssumption DEF Inv, TypeOK
<1>2. Control'
  BY DEF Inv, Control
<1>3. RunsInOwnSpace' /\ OnePlacePerProcess'
  BY DEF Inv, TypeOK, Control, RunsInOwnSpace, OnePlacePerProcess, Pid, NoProc
<1>4. NoFrameUsedTwice' /\ FramesAccounted'
  BY FramesKept DEF Inv
<1>5. HeapBackedBelowBreak' /\ HeapProgress'
  BY HeapKept DEF Inv, HeapProgress
<1> QED BY <1>1, <1>2, <1>3, <1>4, <1>5 DEF Inv

\* A write changes only what has been captured.
LEMMA SysWriteInv == Inv /\ SysWrite => Inv'
<1> SUFFICES ASSUME Inv, SysWrite PROVE Inv'
  OBVIOUS
<1> USE DEF SysWrite, memVars, procVars, winVars, loadVars, capVars
<1>1. TypeOK'
  BY DEF Inv, TypeOK, Control, Proc
<1>2. Control'
  BY DEF Inv, Control
<1>3. RunsInOwnSpace' /\ OnePlacePerProcess'
  BY DEF Inv, Control, RunsInOwnSpace, OnePlacePerProcess
<1>4. NoFrameUsedTwice' /\ FramesAccounted'
  BY FramesKept DEF Inv
<1>5. HeapBackedBelowBreak' /\ HeapProgress'
  BY HeapKept DEF Inv, HeapProgress
<1> QED BY <1>1, <1>2, <1>3, <1>4, <1>5 DEF Inv

\* A new window belongs to a live pid and takes an identifier not yet given out.
LEMMA SysCreateWindowInv == Inv /\ SysCreateWindow => Inv'
<1> SUFFICES ASSUME Inv, SysCreateWindow PROVE Inv'
  OBVIOUS
<1> USE DEF SysCreateWindow, memVars, procVars, winVars, loadVars, capVars
<1>1. TypeOK'
  BY BoundAssumption DEF Inv, TypeOK, Control, Proc, Pid, Window
<1>2. Control'
  BY DEF Inv, Control
<1>3. RunsInOwnSpace' /\ OnePlacePerProcess'
  BY DEF Inv, Control, RunsInOwnSpace, OnePlacePerProcess
<1>4. NoFrameUsedTwice' /\ FramesAccounted'
  BY FramesKept DEF Inv
<1>5. HeapBackedBelowBreak' /\ HeapProgress'
  BY HeapKept DEF Inv, HeapProgress
<1> QED BY <1>1, <1>2, <1>3, <1>4, <1>5 DEF Inv

\* A kernel-mode fault stops the machine where it stands.
LEMMA BadPointerInv == Inv /\ BadPointer => Inv'
<1> SUFFICES ASSUME Inv, BadPointer PROVE Inv'
  OBVIOUS
<1> USE DEF BadPointer, memVars, procVars, winVars, loadVars, capVars
<1>1. TypeOK'
  BY DEF Inv, TypeOK
<1>2. Control'
  BY DEF Inv, Control
<1>3. RunsInOwnSpace' /\ OnePlacePerProcess'
  BY DEF Inv, Control, RunsInOwnSpace, OnePlacePerProcess
<1>4. NoFrameUsedTwice' /\ FramesAccounted'
  BY FramesKept DEF Inv
<1>5. HeapBackedBelowBreak' /\ HeapProgress'
  BY HeapKept DEF Inv, HeapProgress
<1> QED BY <1>1, <1>2, <1>3, <1>4, <1>5 DEF Inv

\* Any other exception stops the machine where it stands.
LEMMA OtherExceptionInv == Inv /\ OtherException => Inv'
<1> SUFFICES ASSUME Inv, OtherException PROVE Inv'
  OBVIOUS
<1> USE DEF OtherException, memVars, procVars, winVars, loadVars, capVars
<1>1. TypeOK'
  BY DEF Inv, TypeOK
<1>2. Control'
  BY DEF Inv, Control
<1>3. RunsInOwnSpace' /\ OnePlacePerProcess'
  BY DEF Inv, Control, RunsInOwnSpace, OnePlacePerProcess
<1>4. NoFrameUsedTwice' /\ FramesAccounted'
  BY FramesKept DEF Inv
<1>5. HeapBackedBelowBreak' /\ HeapProgress'
  BY HeapKept DEF Inv, HeapProgress
<1> QED BY <1>1, <1>2, <1>3, <1>4, <1>5 DEF Inv

\* Running out of page tables stops the machine where it stands.
LEMMA TablePanicInv == Inv /\ TablePanic => Inv'
<1> SUFFICES ASSUME Inv, TablePanic PROVE Inv'
  OBVIOUS
<1> USE DEF TablePanic, memVars, procVars, winVars, loadVars, capVars
<1>1. TypeOK'
  BY DEF Inv, TypeOK
<1>2. Control'
  BY DEF Inv, Control
<1>3. RunsInOwnSpace' /\ OnePlacePerProcess'
  BY DEF Inv, Control, RunsInOwnSpace, OnePlacePerProcess
<1>4. NoFrameUsedTwice' /\ FramesAccounted'
  BY FramesKept DEF Inv
<1>5. HeapBackedBelowBreak' /\ HeapProgress'
  BY HeapKept DEF Inv, HeapProgress
<1> QED BY <1>1, <1>2, <1>3, <1>4, <1>5 DEF Inv

\* An sbrk that runs out keeps the old break, below which all is still mapped.
LEMMA SbrkFailsInv == Inv /\ SbrkFails => Inv'
<1> SUFFICES ASSUME Inv, SbrkFails PROVE Inv'
  OBVIOUS
<1> USE DEF SbrkFails, memVars, procVars, winVars, loadVars, capVars
<1>1. TypeOK'
  BY HeapAssumption, PagesUpToBounds DEF Inv, TypeOK
<1>2. Control'
  BY DEF Inv, Control
<1>3. RunsInOwnSpace' /\ OnePlacePerProcess'
  BY DEF Inv, Control, RunsInOwnSpace, OnePlacePerProcess
<1>4. NoFrameUsedTwice' /\ FramesAccounted'
  BY FramesKept DEF Inv
<1>5. HeapBackedBelowBreak' /\ HeapProgress'
  BY HeapKept DEF Inv, HeapProgress
<1> QED BY <1>1, <1>2, <1>3, <1>4, <1>5 DEF Inv

\* When no page is left to map, the heap is backed up to the goal.
LEMMA SbrkDoneInv == Inv /\ SbrkDone => Inv'
<1> SUFFICES ASSUME Inv, SbrkDone PROVE Inv'
  OBVIOUS
<1> USE DEF SbrkDone, memVars, procVars, winVars, loadVars, capVars
<1> DEFINE me == current.pid
<1>0. /\ me \in Pid /\ spaceOf[me] # NoFrame /\ slot = spaceOf[me]
      /\ brk \in [Pid -> 0 .. USER_HEAP_MAX] /\ goal \in 0 .. USER_HEAP_MAX
      /\ USER_HEAP_MAX \in Nat /\ current \in Proc
  <2>1. current \in Proc /\ current # NoProc
    BY BoundAssumption DEF Inv, Control, Proc, NoProc, Pid
  <2>2. current.space = spaceOf[me] /\ slot = spaceOf[me]
    BY <2>1 DEF Inv, RunsInOwnSpace, OnePlacePerProcess
  <2>3. USER_HEAP_MAX \in Nat
    BY HeapAssumption DEF HeapPages
  <2> QED BY <2>1, <2>2, <2>3, FrameAssumption DEF Inv, TypeOK, Proc
<1>1. TypeOK'
  BY <1>0 DEF Inv, TypeOK
<1>2. Control'
  BY <1>0 DEF Inv, Control
<1>3. RunsInOwnSpace' /\ OnePlacePerProcess'
  BY DEF Inv, Control, RunsInOwnSpace, OnePlacePerProcess
<1>4. NoFrameUsedTwice' /\ FramesAccounted'
  BY FramesKept DEF Inv
<1>5. HeapBackedBelowBreak' /\ HeapProgress'
  <2>1. \A n \in 0 .. PagesUpTo(goal) - 1 : pt[spaceOf[me]][<<"heap", n>>] # NoFrame
    <3>1. DOMAIN todo = {} /\ pc = "sbrk"
      OBVIOUS
    <3> QED BY <1>0, <3>1 DEF Inv, HeapProgress
  <2>2. ASSUME NEW p \in Pid, spaceOf'[p] # NoFrame, NEW n \in 0 .. PagesUpTo(brk'[p]) - 1
        PROVE  pt'[spaceOf'[p]][<<"heap", n>>] # NoFrame
    <3>1. CASE p = me
      BY <1>0, <2>1, <2>2, <3>1
    <3>2. CASE p # me
      BY <1>0, <2>2, <3>2 DEF Inv, HeapBackedBelowBreak
    <3> QED BY <3>1, <3>2
  <2>3. HeapBackedBelowBreak'
    BY <2>2 DEF HeapBackedBelowBreak, PagesUpTo
  <2> QED BY <2>3 DEF HeapProgress
<1> QED BY <1>1, <1>2, <1>3, <1>4, <1>5 DEF Inv

\* Taking a pid off a queue that holds it at most once keeps all the others, in
\* their order, and nothing else.
LEMMA WithoutProperties ==
  ASSUME NEW q \in Seq(Proc), NEW pid,
         \A i, j \in DOMAIN q : q[i].pid = q[j].pid => i = j
  PROVE  LET r == Without(q, pid) IN
         /\ r \in Seq(Proc)
         /\ \A i \in DOMAIN r : r[i].pid # pid /\ \E j \in DOMAIN q : r[i] = q[j]
         /\ \A i, j \in DOMAIN r : r[i].pid = r[j].pid => i = j
         /\ \A j \in DOMAIN q : q[j].pid # pid => \E i \in DOMAIN r : r[i] = q[j]
<1> DEFINE r == Without(q, pid)
<1>0. Len(q) \in Nat /\ DOMAIN q = 1 .. Len(q) /\ \A i \in DOMAIN q : q[i] \in Proc
  OBVIOUS
<1>1. CASE \A i \in DOMAIN q : q[i].pid # pid
  BY <1>1 DEF Without
<1>2. CASE ~\A i \in DOMAIN q : q[i].pid # pid
  <2> DEFINE k == CHOOSE i \in DOMAIN q : q[i].pid = pid
  <2>1. k \in DOMAIN q /\ q[k].pid = pid
    BY <1>2
  <2>2. r = [i \in 1 .. Len(q) - 1 |-> IF i < k THEN q[i] ELSE q[i + 1]]
    BY <1>2 DEF Without
  <2> HIDE DEF k, r
  <2>3. Len(q) - 1 \in Nat /\ DOMAIN r = 1 .. Len(q) - 1
    BY <1>0, <2>1, <2>2
  <2>4. \A i \in DOMAIN r : \E j \in DOMAIN q : j # k /\ r[i] = q[j]
    <3> SUFFICES ASSUME NEW i \in DOMAIN r PROVE \E j \in DOMAIN q : j # k /\ r[i] = q[j]
      OBVIOUS
    <3>1. CASE i < k
      BY <1>0, <2>1, <2>2, <2>3, <3>1
    <3>2. CASE ~(i < k)
      <4>1. i + 1 \in DOMAIN q /\ i + 1 # k /\ r[i] = q[i + 1]
        BY <1>0, <2>1, <2>2, <2>3, <3>2
      <4> QED BY <4>1
    <3> QED BY <3>1, <3>2
  <2>5. r \in Seq(Proc)
    <3>1. \A i \in 1 .. Len(q) - 1 : r[i] \in Proc
      BY <1>0, <2>3, <2>4
    <3> QED BY <2>2, <2>3, <3>1
  <2>6. \A i, j \in DOMAIN r : r[i].pid = r[j].pid => i = j
    BY <1>0, <2>1, <2>2, <2>3
  <2>7. ASSUME NEW j \in DOMAIN q, q[j].pid # pid
        PROVE  \E i \in DOMAIN r : r[i] = q[j]
    <3>1. CASE j < k
      BY <1>0, <2>1, <2>2, <2>3, <3>1
    <3>2. CASE ~(j < k)
      <4>1. j - 1 \in DOMAIN r /\ r[j - 1] = q[j]
        BY <1>0, <2>1, <2>2, <2>3, <2>7, <3>2
      <4> QED BY <4>1
    <3> QED BY <3>1, <3>2
  <2> QED BY <2>1, <2>4, <2>5, <2>6, <2>7 DEF r
<1> QED BY <1>1, <1>2

\* The close button takes its process off the queue before its space is freed.
LEMMA CloseButtonInv ==
  ASSUME Inv, NEW w \in Window, CloseButton(w)
  PROVE  Inv'
<1> USE DEF CloseButton, memVars, procVars, winVars, loadVars, capVars
<1> DEFINE pid == owner[w]
<1>0. /\ pid \in Pid /\ current = NoProc /\ dying = 0 /\ slot = NoFrame
      /\ runQueue \in Seq(Proc)
      /\ \A i, j \in DOMAIN runQueue : runQueue[i].pid = runQueue[j].pid => i = j
      /\ runQueue' = Without(runQueue, pid) /\ current' = NoProc /\ MaxPid \in Nat
  BY BoundAssumption DEF Inv, TypeOK, Control, RunsInOwnSpace, OnePlacePerProcess, Pid, NoProc
<1>1. /\ runQueue' \in Seq(Proc)
      /\ \A i \in DOMAIN runQueue' :
           runQueue'[i].pid # pid /\ \E j \in DOMAIN runQueue : runQueue'[i] = runQueue[j]
      /\ \A i, j \in DOMAIN runQueue' : runQueue'[i].pid = runQueue'[j].pid => i = j
      /\ \A j \in DOMAIN runQueue : runQueue[j].pid # pid =>
           \E i \in DOMAIN runQueue' : runQueue'[i] = runQueue[j]
  BY <1>0, WithoutProperties
<1>2. TypeOK'
  BY <1>0, <1>1 DEF Inv, TypeOK, Pid
<1>3. Control'
  BY <1>0 DEF Inv, Control, Pid
<1>4. RunsInOwnSpace' /\ OnePlacePerProcess'
  <2>1. RunsInOwnSpace'
    BY DEF RunsInOwnSpace
  <2>2. ASSUME NEW i \in DOMAIN runQueue'
        PROVE  /\ runQueue'[i].space = spaceOf[runQueue'[i].pid]
               /\ runQueue'[i].pid # 0 /\ runQueue'[i].pid # pid
    <3>1. PICK j \in DOMAIN runQueue : runQueue'[i] = runQueue[j]
      BY <1>1
    <3>2. runQueue[j].pid # 0 /\ runQueue[j].space = spaceOf[runQueue[j].pid]
      BY <1>0 DEF Inv, OnePlacePerProcess
    <3> QED BY <1>1, <3>1, <3>2
  <2>3. ASSUME NEW p \in Pid, spaceOf[p] # NoFrame, p # pid
        PROVE  \E i \in DOMAIN runQueue' : runQueue'[i].pid = p
    <3>1. PICK j \in DOMAIN runQueue : runQueue[j].pid = p
      BY <1>0, <2>3 DEF Inv, OnePlacePerProcess, NoProc, Pid
    <3> QED BY <1>1, <2>3, <3>1
  <2> QED BY <1>0, <1>1, <2>1, <2>2, <2>3 DEF OnePlacePerProcess, NoProc
<1>5. NoFrameUsedTwice' /\ FramesAccounted'
  BY FramesKept DEF Inv
<1>6. HeapBackedBelowBreak' /\ HeapProgress'
  BY HeapKept DEF Inv, HeapProgress
<1> QED BY <1>2, <1>3, <1>4, <1>5, <1>6 DEF Inv

-----------------------------------------------------------------------------
(* Mapping a page.                                                         *)

\* What map_user_page does to the active space s: the page gets a frame from
\* the pool, a missing table gets another, and no other entry changes.
LEMMA MapEffect ==
  ASSUME TypeOK, slot \in Frames, NEW p \in Page, MapUserPage(p)
  PROVE  /\ pt' \in [Frames -> [Entry -> Frames \cup {NoFrame}]]
         /\ free' \subseteq free
         /\ \A t \in Frames : t # slot => pt'[t] = pt[t]
         /\ \A e \in Entry : e # p =>
              \/ pt'[slot][e] = pt[slot][e]
              \/ pt[slot][e] = NoFrame /\ pt'[slot][e] \in free \ free'
         /\ p \in Entry /\ pt'[slot][p] \in free \ free'
         /\ \A d, e \in Entry : pt'[slot][d] \in free \ free' /\ pt'[slot][d] = pt'[slot][e]
                             => d = e \/ pt[slot][d] \in free \/ pt[slot][e] \in free
         /\ \A f \in free : f \in free' \/ \E e \in Entry : pt'[slot][e] = f
         /\ lost' = lost \cup ({pt[slot][p]} \ {NoFrame})
<1> DEFINE f == NextFrame(free)
           t == NextFrame(free \ {f})
<1>0. pt \in [Frames -> [Entry -> Frames \cup {NoFrame}]] /\ free \subseteq Frames
  BY DEF TypeOK
<1>1. p \in Entry /\ Table(p) \in Entry /\ p # Table(p)
  BY PageAndTable
<1>2. f \in free /\ lost' = lost \cup ({pt[slot][p]} \ {NoFrame})
  BY NextFrameInPool DEF MapUserPage
<1>3. CASE TableMissing(p)
  <2>1. t \in free \ {f}
    BY <1>3, NextFrameInPool DEF MapUserPage, MapPanics
  <2>2. /\ pt' = [pt EXCEPT ![slot] = [@ EXCEPT ![p] = f, ![Table(p)] = t]]
        /\ free' = free \ {f, t}
    BY <1>3 DEF MapUserPage
  <2>3. pt[slot][Table(p)] = NoFrame
    BY <1>3 DEF TableMissing
  <2> HIDE DEF f, t
  <2>4. /\ pt'[slot] \in [Entry -> Frames \cup {NoFrame}]
        /\ pt'[slot][p] = f /\ pt'[slot][Table(p)] = t
        /\ \A e \in Entry : e # p /\ e # Table(p) => pt'[slot][e] = pt[slot][e]
        /\ \A s \in Frames : s # slot => pt'[s] = pt[s]
        /\ pt' \in [Frames -> [Entry -> Frames \cup {NoFrame}]]
    BY <1>0, <1>1, <1>2, <2>1, <2>2
  <2> HIDE DEF Table
  <2> QED BY <1>1, <1>2, <2>1, <2>2, <2>3, <2>4
<1>4. CASE ~TableMissing(p)
  <2>1. pt' = [pt EXCEPT ![slot] = [@ EXCEPT ![p] = f]] /\ free' = free \ {f}
    BY <1>4 DEF MapUserPage
  <2> HIDE DEF f
  <2>2. /\ pt'[slot] \in [Entry -> Frames \cup {NoFrame}] /\ pt'[slot][p] = f
        /\ \A e \in Entry : e # p => pt'[slot][e] = pt[slot][e]
        /\ \A s \in Frames : s # slot => pt'[s] = pt[s]
        /\ pt' \in [Frames -> [Entry -> Frames \cup {NoFrame}]]
    BY <1>0, <1>1, <1>2, <2>1
  <2> QED BY <1>1, <1>2, <2>1, <2>2
<1> QED BY <1>3, <1>4

\* Mapping a page into a space in use leaves every frame in one place.
LEMMA MapKeepsFrames ==
  ASSUME TypeOK, NoFrameUsedTwice, FramesAccounted,
         slot \in Frames, slot \in Spaces, NEW p \in Page, MapUserPage(p),
         UNCHANGED <<spaceOf, loading>>
  PROVE  NoFrameUsedTwice' /\ FramesAccounted' /\ lost' \subseteq Frames
<1>1. /\ free' \subseteq free
      /\ \A t \in Frames : t # slot => pt'[t] = pt[t]
      /\ \A e \in Entry : e # p =>
           \/ pt'[slot][e] = pt[slot][e]
           \/ pt[slot][e] = NoFrame /\ pt'[slot][e] \in free \ free'
      /\ p \in Entry /\ pt'[slot][p] \in free \ free'
      /\ \A d, e \in Entry : pt'[slot][d] \in free \ free' /\ pt'[slot][d] = pt'[slot][e]
                          => d = e \/ pt[slot][d] \in free \/ pt[slot][e] \in free
      /\ \A f \in free : f \in free' \/ \E e \in Entry : pt'[slot][e] = f
      /\ lost' = lost \cup ({pt[slot][p]} \ {NoFrame})
  BY MapEffect
<1>2. /\ Spaces' = Spaces /\ Spaces \subseteq Frames /\ NoFrame \notin Frames
      /\ free \subseteq Frames /\ lost \subseteq Frames
      /\ \A t \in Frames, e \in Entry : pt[t][e] \in Frames \cup {NoFrame}
  BY FrameAssumption DEF TypeOK, Spaces
<1>3. /\ \A t \in Spaces : t \notin free /\ t \notin lost
      /\ \A t \in Spaces, e \in Entry : pt[t][e] # NoFrame =>
           pt[t][e] \notin free /\ pt[t][e] \notin lost
      /\ \A s, t \in Spaces, d, e \in Entry : pt[s][d] # t
      /\ \A s, t \in Spaces, d, e \in Entry : pt[s][d] # NoFrame /\ pt[s][d] = pt[t][e]
           => s = t /\ d = e
      /\ free \cap lost = {}
  BY DEF NoFrameUsedTwice, FramesOf
<1>4. \A d, e \in Entry : pt'[slot][d] \in free /\ pt'[slot][d] = pt'[slot][e] => d = e
  BY <1>1, <1>2, <1>3
<1>5. \A t \in Spaces : t \notin free' /\ t \notin lost'
  BY <1>1, <1>2, <1>3
<1>6. ASSUME NEW t \in Spaces, NEW e \in Entry, pt'[t][e] # NoFrame
      PROVE  pt'[t][e] \notin free' /\ pt'[t][e] \notin lost'
  <2>1. CASE t # slot
    BY <1>1, <1>2, <1>3, <1>6, <2>1
  <2>2. CASE t = slot /\ pt'[t][e] \in free
    BY <1>1, <1>2, <1>3, <1>6, <2>2
  <2>3. CASE t = slot /\ pt'[t][e] \notin free
    <3>1. e # p /\ pt'[slot][e] = pt[slot][e]
      BY <1>1, <2>3
    <3> QED BY <1>1, <1>2, <1>3, <1>6, <2>3, <3>1
  <2> QED BY <2>1, <2>2, <2>3
<1>7. ASSUME NEW s \in Spaces, NEW t \in Spaces, NEW d \in Entry, NEW e \in Entry
      PROVE  /\ pt'[s][d] # t
             /\ pt'[s][d] # NoFrame /\ pt'[s][d] = pt'[t][e] => s = t /\ d = e
  <2>1. ASSUME NEW u \in Spaces, NEW c \in Entry
        PROVE  pt'[u][c] = pt[u][c] \/ (u = slot /\ pt'[u][c] \in free)
    <3>1. CASE u # slot
      BY <1>1, <1>2, <3>1
    <3>2. CASE u = slot /\ c = p
      BY <1>1, <3>2
    <3>3. CASE u = slot /\ c # p
      BY <1>1, <3>3
    <3> QED BY <3>1, <3>2, <3>3
  <2>2. pt'[s][d] # t
    BY <1>3, <2>1
  <2>3. ASSUME pt'[s][d] # NoFrame, pt'[s][d] = pt'[t][e]
        PROVE  s = t /\ d = e
    <3>1. CASE pt'[s][d] \in free
      <4>1. s = slot /\ t = slot
        BY <1>3, <2>1, <2>3, <3>1
      <4> QED BY <1>4, <2>3, <3>1, <4>1
    <3>2. CASE pt'[s][d] \notin free
      BY <1>3, <2>1, <2>3, <3>2
    <3> QED BY <3>1, <3>2
  <2> QED BY <2>2, <2>3
<1>8. free' \cap lost' = {} /\ lost' \subseteq Frames
  BY <1>1, <1>2, <1>3
<1>9. NoFrameUsedTwice'
  <2>1. \A t \in Spaces : FramesOf(t)' \cap (free' \cup lost') = {}
    BY <1>5, <1>6 DEF FramesOf
  <2> QED BY <1>2, <1>7, <1>8, <2>1 DEF NoFrameUsedTwice
<1>10. FramesAccounted'
  <2>1. ASSUME NEW f \in Frames
        PROVE  f \in free' \/ f \in lost' \/ \E t \in Spaces : f \in FramesOf(t)'
    <3>1. CASE f \in free
      BY <1>1, <1>2, <3>1 DEF FramesOf
    <3>2. CASE f \in lost
      BY <1>1, <3>2
    <3>3. ASSUME NEW t \in Spaces, f = t
          PROVE  f \in FramesOf(t)'
      BY <3>3 DEF FramesOf
    <3>4. ASSUME NEW t \in Spaces, NEW e \in Entry, f = pt[t][e]
          PROVE  f \in lost' \/ f \in FramesOf(t)'
      <4>1. f # NoFrame
        BY <1>2
      <4>2. CASE t = slot /\ e = p
        BY <1>1, <3>4, <4>1, <4>2
      <4>3. CASE ~(t = slot /\ e = p)
        <5>1. pt'[t][e] = f
          BY <1>1, <1>2, <3>4, <4>1, <4>3
        <5> QED BY <4>1, <5>1 DEF FramesOf
      <4> QED BY <4>2, <4>3
    <3> QED BY <3>1, <3>2, <3>3, <3>4 DEF FramesAccounted, FramesOf
  <2>2. \A t \in Spaces : FramesOf(t)' \subseteq Frames
    <3>1. \A t \in Spaces, e \in Entry : pt'[t][e] \in Frames \cup {NoFrame}
      BY <1>1, <1>2
    <3> QED BY <1>2, <3>1 DEF FramesOf
  <2> QED BY <1>1, <1>2, <1>8, <2>1, <2>2 DEF FramesAccounted
<1> QED BY <1>8, <1>9, <1>10

\* Mapping a page unmaps none.
LEMMA MapKeepsHeap ==
  ASSUME TypeOK, HeapBackedBelowBreak, slot \in Frames, NEW p \in Page, MapUserPage(p),
         UNCHANGED <<spaceOf, brk>>
  PROVE  /\ HeapBackedBelowBreak'
         /\ \A t \in Frames, e \in Entry : pt[t][e] # NoFrame => pt'[t][e] # NoFrame
         /\ pt'[slot][p] # NoFrame
         /\ pt' \in [Frames -> [Entry -> Frames \cup {NoFrame}]] /\ free' \subseteq Frames
<1>1. /\ pt' \in [Frames -> [Entry -> Frames \cup {NoFrame}]]
      /\ free' \subseteq free /\ free \subseteq Frames
      /\ \A t \in Frames : t # slot => pt'[t] = pt[t]
      /\ \A e \in Entry : e # p =>
           pt'[slot][e] = pt[slot][e] \/ pt'[slot][e] \in free
      /\ pt'[slot][p] \in free
  BY MapEffect DEF TypeOK
<1>2. ASSUME NEW t \in Frames, NEW e \in Entry, pt[t][e] # NoFrame
      PROVE  pt'[t][e] # NoFrame
  <2>1. CASE t # slot
    BY <1>1, <1>2, <2>1
  <2>2. CASE t = slot /\ e = p
    BY <1>1, <2>2, FrameAssumption
  <2>3. CASE t = slot /\ e # p
    BY <1>1, <1>2, <2>3, FrameAssumption
  <2> QED BY <2>1, <2>2, <2>3
<1>3. ASSUME NEW q \in Pid, spaceOf[q] # NoFrame, NEW n \in 0 .. PagesUpTo(brk[q]) - 1
      PROVE  pt'[spaceOf[q]][<<"heap", n>>] # NoFrame
  <2>1. spaceOf[q] \in Frames /\ brk[q] \in 0 .. USER_HEAP_MAX
    BY <1>3 DEF TypeOK
  <2>2. <<"heap", n>> \in Entry
    <3>1. PagesUpTo(brk[q]) \in 0 .. HeapPages /\ HeapPages \in Nat
      BY <2>1, PagesUpToBounds, HeapAssumption
    <3>2. n \in 0 .. HeapPages - 1
      BY <3>1
    <3> QED BY <3>2 DEF Entry, Page, PageOf
  <2>3. pt[spaceOf[q]][<<"heap", n>>] # NoFrame
    BY <1>3 DEF HeapBackedBelowBreak
  <2> QED BY <1>2, <2>1, <2>2, <2>3
<1>4. HeapBackedBelowBreak'
  BY <1>3 DEF HeapBackedBelowBreak, PagesUpTo
<1> QED BY <1>1, <1>2, <1>4, FrameAssumption

\* A page mapped for an image or a stack.
LEMMA LoadPageInv == Inv /\ LoadPage => Inv'
<1> SUFFICES ASSUME Inv, LoadPage PROVE Inv'
  OBVIOUS
<1> USE DEF LoadPage, procVars, winVars, capVars
<1>0. /\ TypeOK /\ NoFrameUsedTwice /\ FramesAccounted /\ HeapBackedBelowBreak
      /\ slot = loading /\ slot \in Frames /\ slot \in Spaces
      /\ Head(todo) \in Page /\ Tail(todo) \in Seq(Page) /\ MapUserPage(Head(todo))
      /\ UNCHANGED <<spaceOf, loading, brk>>
  BY FrameAssumption DEF Inv, TypeOK, Control, RunsInOwnSpace, Spaces
<1>1. NoFrameUsedTwice' /\ FramesAccounted' /\ lost' \subseteq Frames
  BY <1>0, MapKeepsFrames
<1>2. /\ HeapBackedBelowBreak'
      /\ pt' \in [Frames -> [Entry -> Frames \cup {NoFrame}]] /\ free' \subseteq Frames
  BY <1>0, MapKeepsHeap
<1>3. TypeOK'
  BY <1>0, <1>1, <1>2 DEF TypeOK
<1>4. Control' /\ RunsInOwnSpace' /\ OnePlacePerProcess' /\ HeapProgress'
  BY DEF Inv, Control, RunsInOwnSpace, OnePlacePerProcess, HeapProgress
<1> QED BY <1>1, <1>2, <1>3, <1>4 DEF Inv

\* A page mapped for a growing heap.
LEMMA SbrkPageInv == Inv /\ SbrkPage => Inv'
<1> SUFFICES ASSUME Inv, SbrkPage PROVE Inv'
  OBVIOUS
<1> USE DEF SbrkPage, procVars, winVars, capVars
<1>0. /\ TypeOK /\ NoFrameUsedTwice /\ FramesAccounted /\ HeapBackedBelowBreak
      /\ slot \in Frames /\ slot \in Spaces
      /\ todo \in Seq(Page) /\ Head(todo) \in Page /\ Tail(todo) \in Seq(Page)
      /\ MapUserPage(Head(todo))
      /\ UNCHANGED <<spaceOf, loading, brk>>
  <2>1. current \in Proc /\ current # NoProc
    BY DEF Inv, Control, RunsInOwnSpace
  <2>2. slot = spaceOf[current.pid] /\ slot = current.space
    BY <2>1 DEF Inv, RunsInOwnSpace, OnePlacePerProcess
  <2>3. slot \in Frames /\ slot \in Spaces
    BY <2>1, <2>2, FrameAssumption DEF Proc, Spaces
  <2> QED BY <2>3 DEF Inv, TypeOK
<1>1. NoFrameUsedTwice' /\ FramesAccounted' /\ lost' \subseteq Frames
  BY <1>0, MapKeepsFrames
<1>2. /\ HeapBackedBelowBreak'
      /\ \A t \in Frames, e \in Entry : pt[t][e] # NoFrame => pt'[t][e] # NoFrame
      /\ pt'[slot][Head(todo)] # NoFrame
      /\ pt' \in [Frames -> [Entry -> Frames \cup {NoFrame}]] /\ free' \subseteq Frames
  BY <1>0, MapKeepsHeap
<1>3. TypeOK'
  BY <1>0, <1>1, <1>2 DEF TypeOK
<1>4. Control' /\ RunsInOwnSpace' /\ OnePlacePerProcess'
  BY DEF Inv, Control, RunsInOwnSpace, OnePlacePerProcess
<1>5. HeapProgress'
  <2>1. ASSUME NEW n \in 0 .. PagesUpTo(goal) - 1, pt'[slot][<<"heap", n>>] = NoFrame
        PROVE  \E i \in DOMAIN Tail(todo) : Tail(todo)[i] = <<"heap", n>>
    <3>1. <<"heap", n>> \in Entry
      <4>1. goal \in 0 .. USER_HEAP_MAX
        BY <1>0 DEF TypeOK
      <4>2. PagesUpTo(goal) \in 0 .. HeapPages /\ HeapPages \in Nat
        BY <4>1, PagesUpToBounds, HeapAssumption
      <4>3. n \in 0 .. HeapPages - 1
        BY <4>2
      <4> QED BY <4>3 DEF Entry, Page, PageOf
    <3>2. pt[slot][<<"heap", n>>] = NoFrame /\ <<"heap", n>> # Head(todo)
      BY <1>0, <1>2, <2>1, <3>1
    <3>3. PICK i \in DOMAIN todo : todo[i] = <<"heap", n>>
      BY <3>2 DEF Inv, HeapProgress
    <3>4. i # 1
      BY <1>0, <3>2, <3>3
    <3>5. i - 1 \in DOMAIN Tail(todo) /\ Tail(todo)[i - 1] = todo[i]
      BY <1>0, <3>3, <3>4
    <3> QED BY <3>3, <3>5
  <2> QED BY <2>1 DEF HeapProgress, PagesUpTo
<1> QED BY <1>1, <1>2, <1>3, <1>4, <1>5 DEF Inv

\* sbrk's argument check leaves the break within the heap window, and the pages
\* it queues are the ones between the old break and the new.
LEMMA SbrkInv ==
  ASSUME Inv, NEW increment \in Increments, Sbrk(increment)
  PROVE  Inv'
<1> USE DEF Sbrk, memVars, procVars, winVars, capVars
<1> DEFINE old == brk[current.pid]
           requested == old + increment
           mapped == PagesUpTo(old)
           needed == PagesUpTo(requested)
<1>0. /\ current.pid \in Pid /\ spaceOf[current.pid] = slot /\ slot # NoFrame
      /\ old \in 0 .. USER_HEAP_MAX /\ USER_HEAP_MAX \in Nat /\ increment \in Int
  <2>1. current \in Proc /\ current # NoProc
    BY DEF Inv, Control, RunsInOwnSpace
  <2>2. slot = spaceOf[current.pid] /\ slot = current.space
    BY <2>1 DEF Inv, RunsInOwnSpace, OnePlacePerProcess
  <2>3. USER_HEAP_MAX \in Nat /\ increment \in Int
    BY HeapAssumption DEF HeapPages
  <2> QED BY <2>1, <2>2, <2>3, FrameAssumption DEF Inv, TypeOK, Proc
<1>1. requested \in 0 .. USER_HEAP_MAX /\ goal' = requested
  BY <1>0 DEF BreakAllowed
<1>2. mapped \in 0 .. HeapPages /\ needed \in 0 .. HeapPages /\ HeapPages \in Nat
  BY <1>0, <1>1, PagesUpToBounds, HeapAssumption
<1>3. todo' = [i \in 1 .. needed - mapped |-> <<"heap", mapped + i - 1>>]
  OBVIOUS
<1> HIDE DEF mapped, needed, requested, old
<1>4. todo' \in Seq(Page)
  BY <1>2, <1>3, HeapPageRun
<1>5. TypeOK'
  BY <1>1, <1>4 DEF Inv, TypeOK
<1>6. Control' /\ RunsInOwnSpace' /\ OnePlacePerProcess'
  BY DEF Inv, Control, RunsInOwnSpace, OnePlacePerProcess
<1>7. NoFrameUsedTwice' /\ FramesAccounted'
  BY FramesKept DEF Inv
<1>8. HeapBackedBelowBreak' /\ HeapProgress'
  <2>1. ASSUME NEW n \in 0 .. needed - 1, pt[slot][<<"heap", n>>] = NoFrame
        PROVE  \E i \in DOMAIN todo' : todo'[i] = <<"heap", n>>
    <3>1. ~(n \in 0 .. mapped - 1)
      BY <1>0, <2>1 DEF Inv, HeapBackedBelowBreak, mapped, old
    <3>2. n - mapped + 1 \in 1 .. needed - mapped
      BY <1>2, <2>1, <3>1
    <3>3. todo'[n - mapped + 1] = <<"heap", mapped + (n - mapped + 1) - 1>>
      BY <1>3, <3>2
    <3>4. mapped + (n - mapped + 1) - 1 = n
      BY <1>2
    <3> QED BY <1>3, <3>2, <3>3, <3>4
  <2>2. HeapProgress'
    BY <1>1, <2>1 DEF HeapProgress, PagesUpTo, needed, requested
  <2> QED BY <2>2, HeapKept DEF Inv
<1> QED BY <1>5, <1>6, <1>7, <1>8 DEF Inv

-----------------------------------------------------------------------------
(* Spaces made, registered and destroyed.                                  *)

\* A new space has a root that was free, and nothing else yet.
LEMMA SpawnInv ==
  ASSUME Inv, NEW image \in Images, NEW run \in BOOLEAN, Spawn(image, run)
  PROVE  Inv'
<1> USE DEF Spawn, procVars, winVars
<1>a. /\ NextFrame(free) \in free /\ NoFrame \notin Frames /\ free \subseteq Frames
      /\ free' = free \ {NextFrame(free)} /\ pt' = [pt EXCEPT ![NextFrame(free)] = EmptySpace]
      /\ slot' = NextFrame(free) /\ loading' = NextFrame(free)
      /\ loading = NoFrame /\ nextPid \in Pid
      /\ pt \in [Frames -> [Entry -> Frames \cup {NoFrame}]]
  BY NextFrameInPool, FrameAssumption, BoundAssumption DEF Inv, TypeOK, Control, Pid
<1>0. PICK s \in free :
        /\ s \in Frames /\ NoFrame \notin Frames /\ free \subseteq Frames
        /\ free' = free \ {s} /\ pt' = [pt EXCEPT ![s] = EmptySpace]
        /\ slot' = s /\ loading' = s /\ loading = NoFrame /\ nextPid \in Pid
        /\ pt \in [Frames -> [Entry -> Frames \cup {NoFrame}]]
  BY <1>a, Zenon
<1>1. /\ pt' \in [Frames -> [Entry -> Frames \cup {NoFrame}]]
      /\ \A e \in Entry : pt'[s][e] = NoFrame
      /\ \A t \in Frames : t # s => pt'[t] = pt[t]
  BY <1>0 DEF EmptySpace
<1>2. /\ Spaces' = Spaces \cup {s} /\ s \notin Spaces /\ Spaces \subseteq Frames
      /\ \A t \in Spaces : t \notin free
  <2>1. Spaces' = Spaces \cup {s} /\ Spaces \subseteq Frames
    BY <1>0 DEF Spaces, Inv, TypeOK
  <2>2. \A t \in Spaces : t \notin free
    BY DEF Inv, NoFrameUsedTwice, FramesOf
  <2> QED BY <1>0, <2>1, <2>2
<1>3. TypeOK'
  <2>1. todo' \in Seq(Page)
    <3>1. StackPages \in Nat /\ \A i \in 1 .. StackPages : <<"stack", i - 1>> \in Page
      <4>1. StackPages \in Nat /\ \A i \in 1 .. StackPages : i - 1 \in 0 .. StackPages - 1
        BY BoundAssumption
      <4> QED BY <4>1 DEF Page, PageOf
    <3>2. Stack \in Seq(Page)
      BY <3>1 DEF Stack
    <3>3. image.pages \in Seq(Page)
      <4>1. image.pages \in Seq(PageOf("image", ImagePages))
        BY ImageAssumption
      <4> QED BY <4>1 DEF Page
    <3> QED BY <3>2, <3>3
  <2>2. bad' \in BOOLEAN /\ capture' \in BOOLEAN
    BY ImageAssumption, Zenon
  <2>3. runner' \in 0 .. MaxPid
    BY <1>0, BoundAssumption DEF Pid
  <2> QED BY <1>0, <1>1, <2>1, <2>2, <2>3 DEF Inv, TypeOK
<1>4. Control' /\ RunsInOwnSpace' /\ OnePlacePerProcess'
  BY <1>0 DEF Inv, Control, RunsInOwnSpace, OnePlacePerProcess
<1>5. NoFrameUsedTwice' /\ FramesAccounted'
  <2>1. \A t \in Spaces : FramesOf(t)' = FramesOf(t)
    BY <1>1, <1>2 DEF FramesOf
  <2>2. FramesOf(s)' = {s}
    BY <1>1 DEF FramesOf
  <2>3. s \notin lost /\ \A t \in Spaces : s \notin FramesOf(t)
    BY <1>0 DEF Inv, NoFrameUsedTwice
  <2>4. ASSUME NEW t \in Spaces', NEW u \in Spaces', NEW d \in Entry, NEW e \in Entry
        PROVE  /\ pt'[t][d] # u
               /\ pt'[t][d] # NoFrame /\ pt'[t][d] = pt'[u][e] => t = u /\ d = e
    <3>1. CASE t = s
      BY <1>0, <1>1, <1>2, <3>1
    <3>2. CASE t # s
      <4>1. t \in Spaces /\ pt'[t] = pt[t] /\ pt[t][d] # s
        <5>1. t \in Spaces /\ pt'[t] = pt[t]
          BY <1>1, <1>2, <3>2
        <5>2. pt[t][d] # NoFrame => pt[t][d] \in FramesOf(t)
          BY DEF FramesOf
        <5> QED BY <1>0, <2>3, <5>1, <5>2
      <4>2. CASE u = s
        BY <1>0, <1>1, <4>1, <4>2
      <4>3. CASE u # s
        BY <1>1, <1>2, <4>1, <4>3 DEF Inv, NoFrameUsedTwice
      <4> QED BY <4>2, <4>3
    <3> QED BY <3>1, <3>2
  <2>5. \A p \in Pid : spaceOf[p] # NoFrame => spaceOf[p] # s
    BY <1>2 DEF Spaces
  <2>6. NoFrameUsedTwice'
    BY <1>0, <1>2, <2>1, <2>2, <2>3, <2>4, <2>5 DEF Inv, NoFrameUsedTwice
  <2>7. FramesAccounted'
    BY <1>0, <1>2, <2>1, <2>2 DEF Inv, FramesAccounted
  <2> QED BY <2>6, <2>7
<1>6. HeapBackedBelowBreak' /\ HeapProgress'
  <2>1. \A p \in Pid : spaceOf[p] # NoFrame => pt'[spaceOf[p]] = pt[spaceOf[p]]
    BY <1>1, <1>2 DEF Spaces
  <2>2. HeapBackedBelowBreak'
    BY <2>1 DEF Inv, HeapBackedBelowBreak, PagesUpTo
  <2> QED BY <2>2 DEF HeapProgress
<1> QED BY <1>3, <1>4, <1>5, <1>6 DEF Inv

\* A loaded space is registered under a new pid and queued once.
LEMMA LoadDoneInv == Inv /\ LoadDone => Inv'
<1> SUFFICES ASSUME Inv, LoadDone PROVE Inv'
  OBVIOUS
<1> USE DEF LoadDone, winVars
<1>0. /\ current = NoProc /\ dying = 0 /\ loading \in Frames /\ nextPid \in Pid
      /\ NoFrame \notin Frames /\ spaceOf[nextPid] = NoFrame /\ brk[nextPid] = 0
      /\ spaceOf \in [Pid -> Frames \cup {NoFrame}]
      /\ runQueue \in Seq(Proc) /\ MaxPid \in Nat
  BY FrameAssumption, BoundAssumption DEF Inv, TypeOK, Control, Pid
<1>1. TypeOK'
  <2>1. runQueue' \in Seq(Proc)
    BY <1>0 DEF PushBack, Proc
  <2>2. nextPid' \in 1 .. MaxPid + 1
    BY <1>0 DEF Pid
  <2>3. slot' = NoFrame /\ loading' = NoFrame
    BY <1>0 DEF CurrentSpace, NoProc
  <2>4. spaceOf' \in [Pid -> Frames \cup {NoFrame}]
    BY <1>0
  <2>5. pc' \in {"loop", "schedule"}
    BY Zenon
  <2> QED BY <2>1, <2>2, <2>3, <2>4, <2>5, Zenon DEF Inv, TypeOK, loadVars, capVars
<1>2. Control' /\ RunsInOwnSpace'
  <2>1. slot' = NoFrame /\ pc' \in {"loop", "schedule"}
    BY <1>0 DEF CurrentSpace, NoProc
  <2>2. \A p \in Pid : p >= nextPid' => spaceOf'[p] = NoFrame
    BY <1>0 DEF Inv, Control, Pid
  <2>3. \A p \in Pid : spaceOf'[p] = NoFrame => brk'[p] = 0
    BY <1>0 DEF Inv, Control
  <2> QED BY <1>0, <2>1, <2>2, <2>3 DEF Control, RunsInOwnSpace
<1>3. OnePlacePerProcess'
  <2>1. /\ Len(runQueue) \in Nat /\ DOMAIN runQueue = 1 .. Len(runQueue)
        /\ DOMAIN runQueue' = 1 .. Len(runQueue) + 1
        /\ \A i \in 1 .. Len(runQueue) : runQueue'[i] = runQueue[i]
        /\ runQueue'[Len(runQueue) + 1] = [pid |-> nextPid, space |-> loading]
    BY <1>0 DEF PushBack
  <2>2. \A i \in 1 .. Len(runQueue) :
          /\ runQueue[i].pid \in Pid /\ runQueue[i].pid # nextPid
          /\ runQueue[i].space = spaceOf[runQueue[i].pid]
    <3>1. \A i \in 1 .. Len(runQueue) : runQueue[i].pid \in Pid /\ runQueue[i].space \in Frames
      <4>1. \A i \in 1 .. Len(runQueue) : runQueue[i] \in Proc
        BY <1>0
      <4> QED BY <4>1 DEF Proc
    <3>2. \A i \in 1 .. Len(runQueue) : runQueue[i].space = spaceOf[runQueue[i].pid]
      BY <2>1 DEF Inv, OnePlacePerProcess
    <3> QED BY <1>0, <3>1, <3>2
  <2>3. \A i, j \in 1 .. Len(runQueue) : runQueue[i].pid = runQueue[j].pid => i = j
    BY <2>1 DEF Inv, OnePlacePerProcess
  <2>4. ASSUME NEW i \in DOMAIN runQueue'
        PROVE  /\ runQueue'[i].space = spaceOf'[runQueue'[i].pid]
               /\ runQueue'[i].pid \in Pid
               /\ \A j \in DOMAIN runQueue' : runQueue'[j].pid = runQueue'[i].pid => i = j
    <3>1. CASE i = Len(runQueue) + 1
      BY <1>0, <2>1, <2>2, <3>1
    <3>2. CASE i # Len(runQueue) + 1
      <4>1. i \in 1 .. Len(runQueue)
        BY <2>1, <3>2
      <4> QED BY <1>0, <2>1, <2>2, <2>3, <4>1
    <3> QED BY <3>1, <3>2
  <2>5. ASSUME NEW p \in Pid, spaceOf'[p] # NoFrame
        PROVE  \E i \in DOMAIN runQueue' : runQueue'[i].pid = p
    <3>1. CASE p = nextPid
      BY <2>1, <3>1
    <3>2. CASE p # nextPid
      <4>1. PICK i \in DOMAIN runQueue : runQueue[i].pid = p
        BY <1>0, <2>5, <3>2 DEF Inv, OnePlacePerProcess, NoProc, Pid
      <4> QED BY <2>1, <4>1
    <3> QED BY <3>1, <3>2
  <2> QED BY <1>0, <2>4, <2>5 DEF OnePlacePerProcess, NoProc, Pid
<1>4. NoFrameUsedTwice' /\ FramesAccounted'
  <2>1. Spaces' = Spaces
    <3>1. \A p \in Pid : spaceOf'[p] = IF p = nextPid THEN loading ELSE spaceOf[p]
      BY <1>0
    <3> QED BY <1>0, <3>1 DEF Spaces
  <2>2. \A t : FramesOf(t)' = FramesOf(t)
    BY DEF FramesOf
  <2>3. /\ \A p, q \in Pid : spaceOf'[p] # NoFrame /\ spaceOf'[p] = spaceOf'[q] => p = q
        /\ \A p \in Pid : spaceOf'[p] # NoFrame => spaceOf'[p] # loading'
    BY <1>0 DEF Inv, NoFrameUsedTwice
  <2> QED BY <2>1, <2>2, <2>3 DEF Inv, NoFrameUsedTwice, FramesAccounted
<1>5. HeapBackedBelowBreak' /\ HeapProgress'
  <2>1. PagesUpTo(0) = 0
    BY <1>0, PagesUpToBounds DEF Inv, TypeOK
  <2>2. ASSUME NEW p \in Pid, spaceOf'[p] # NoFrame, NEW n \in 0 .. PagesUpTo(brk[p]) - 1
        PROVE  pt[spaceOf'[p]][<<"heap", n>>] # NoFrame
    <3>1. CASE p = nextPid
      BY <1>0, <2>1, <2>2, <3>1
    <3>2. CASE p # nextPid
      BY <1>0, <2>2, <3>2 DEF Inv, HeapBackedBelowBreak
    <3> QED BY <3>1, <3>2
  <2> QED BY <2>2 DEF HeapBackedBelowBreak, HeapProgress, PagesUpTo
<1> QED BY <1>1, <1>2, <1>3, <1>4, <1>5 DEF Inv

\* Destroying one space in use returns its frames and disturbs no other.
LEMMA DestroyKeepsFrames ==
  ASSUME TypeOK, NoFrameUsedTwice, FramesAccounted, NEW s \in Spaces, DestroySpace(s),
         Spaces' = Spaces \ {s}, loading' \in {loading, NoFrame},
         \A p \in Pid : spaceOf'[p] \in {spaceOf[p], NoFrame}
  PROVE  /\ NoFrameUsedTwice' /\ FramesAccounted' /\ free' \subseteq Frames /\ lost' = lost
         /\ pt' \in [Frames -> [Entry -> Frames \cup {NoFrame}]]
         /\ \A t \in Frames : t # s => pt'[t] = pt[t]
<1> USE DEF DestroySpace
<1>1. /\ Spaces \subseteq Frames /\ NoFrame \notin Frames /\ lost' = lost
      /\ \A t \in Spaces : FramesOf(t) \subseteq Frames
  <2>1. Spaces \subseteq Frames /\ NoFrame \notin Frames
    BY FrameAssumption DEF TypeOK, Spaces
  <2>2. \A t \in Frames, e \in Entry : pt[t][e] \in Frames \cup {NoFrame}
    BY DEF TypeOK
  <2> QED BY <2>1, <2>2 DEF FramesOf
<1>2. /\ pt' \in [Frames -> [Entry -> Frames \cup {NoFrame}]]
      /\ \A t \in Frames : t # s => pt'[t] = pt[t]
  BY <1>1 DEF TypeOK, EmptySpace
<1>3. free' \subseteq Frames
  BY <1>1 DEF TypeOK
<1>4. \A t \in Spaces' : t \in Spaces /\ t # s /\ FramesOf(t)' = FramesOf(t)
  BY <1>1, <1>2 DEF FramesOf
<1>5. \A t \in Spaces' : FramesOf(t) \cap FramesOf(s) = {}
  BY <1>1 DEF NoFrameUsedTwice, FramesOf
<1>6. NoFrameUsedTwice'
  <2>1. \A t \in Spaces' : FramesOf(t)' \cap (free' \cup lost') = {}
    BY <1>4, <1>5 DEF NoFrameUsedTwice
  <2>2. free' \cap lost' = {}
    BY <1>1 DEF NoFrameUsedTwice
  <2>3. /\ \A p, q \in Pid : spaceOf'[p] # NoFrame /\ spaceOf'[p] = spaceOf'[q] => p = q
        /\ \A p \in Pid : spaceOf'[p] # NoFrame => spaceOf'[p] # loading'
    BY DEF NoFrameUsedTwice
  <2>4. \A t, u \in Spaces' : \A d, e \in Entry :
          /\ pt'[t][d] # u
          /\ pt'[t][d] # NoFrame /\ pt'[t][d] = pt'[u][e] => t = u /\ d = e
    <3>1. \A t \in Spaces' : t \in Spaces /\ pt'[t] = pt[t]
      BY <1>1, <1>2
    <3> QED BY <3>1 DEF NoFrameUsedTwice
  <2> QED BY <2>1, <2>2, <2>3, <2>4 DEF NoFrameUsedTwice
<1>7. FramesAccounted'
  <2>1. UNION {FramesOf(t)' : t \in Spaces'} = UNION {FramesOf(t) : t \in Spaces'}
    BY <1>4
  <2>2. UNION {FramesOf(t) : t \in Spaces}
          = FramesOf(s) \cup UNION {FramesOf(t) : t \in Spaces'}
    OBVIOUS
  <2> QED BY <1>1, <2>1, <2>2 DEF FramesAccounted
<1> QED BY <1>1, <1>2, <1>3, <1>6, <1>7

\* A spawn that fails gives back the space it had half filled.
LEMMA LoadFailsInv == Inv /\ LoadFails => Inv'
<1> SUFFICES ASSUME Inv, LoadFails PROVE Inv'
  OBVIOUS
<1> USE DEF LoadFails, procVars, winVars
<1>0. /\ TypeOK /\ NoFrameUsedTwice /\ FramesAccounted /\ DestroySpace(loading)
      /\ loading \in Spaces /\ Spaces' = Spaces \ {loading}
      /\ current = NoProc /\ slot' = NoFrame
  <2>1. loading \in Frames /\ current = NoProc
    BY DEF Inv, Control
  <2>2. \A p \in Pid : spaceOf[p] # NoFrame => spaceOf[p] # loading
    BY DEF Inv, NoFrameUsedTwice
  <2>3. loading \in Spaces /\ Spaces' = Spaces \ {loading}
    BY <2>1, <2>2, FrameAssumption DEF Spaces
  <2> QED BY <2>1, <2>3 DEF Inv, CurrentSpace, NoProc
<1>1. /\ NoFrameUsedTwice' /\ FramesAccounted' /\ free' \subseteq Frames /\ lost' = lost
      /\ pt' \in [Frames -> [Entry -> Frames \cup {NoFrame}]]
      /\ \A t \in Frames : t # loading => pt'[t] = pt[t]
  BY <1>0, DestroyKeepsFrames
<1>2. TypeOK'
  <2>1. bad' \in BOOLEAN /\ capture' \in BOOLEAN
    BY Zenon
  <2>2. runner' \in 0 .. MaxPid /\ todo' \in Seq(Page)
    BY BoundAssumption
  <2> QED BY <1>0, <1>1, <2>1, <2>2 DEF TypeOK
<1>3. Control' /\ RunsInOwnSpace' /\ OnePlacePerProcess'
  BY <1>0 DEF Inv, Control, RunsInOwnSpace, OnePlacePerProcess
<1>4. HeapBackedBelowBreak' /\ HeapProgress'
  <2>1. \A p \in Pid : spaceOf[p] # NoFrame => pt'[spaceOf[p]] = pt[spaceOf[p]]
    BY <1>1 DEF Inv, TypeOK, NoFrameUsedTwice
  <2>2. HeapBackedBelowBreak'
    BY <2>1 DEF Inv, HeapBackedBelowBreak, PagesUpTo
  <2> QED BY <2>2 DEF HeapProgress
<1> QED BY <1>1, <1>2, <1>3, <1>4 DEF Inv

\* The dying process loses its registration and its frames in one step.
LEMMA FreeProcessMemoryInv == Inv /\ FreeProcessMemory => Inv'
<1> SUFFICES ASSUME Inv, FreeProcessMemory PROVE Inv'
  OBVIOUS
<1> USE DEF FreeProcessMemory, winVars, loadVars, capVars
<1>0. /\ TypeOK /\ NoFrameUsedTwice /\ FramesAccounted
      /\ current = NoProc /\ dying \in Pid /\ loading = NoFrame
      /\ 0 \in 0 .. USER_HEAP_MAX /\ MaxPid \in Nat /\ NoFrame \notin Frames
      /\ brk' = [brk EXCEPT ![dying] = 0] /\ pc' = after /\ after \in {"loop", "close"}
  <2>1. USER_HEAP_MAX \in Nat
    BY HeapAssumption DEF HeapPages
  <2> QED BY <2>1, BoundAssumption, FrameAssumption DEF Inv, Control, TypeOK, Pid
<1>1. /\ NoFrameUsedTwice' /\ FramesAccounted' /\ free' \subseteq Frames /\ lost' = lost
      /\ pt' \in [Frames -> [Entry -> Frames \cup {NoFrame}]]
      /\ spaceOf' = [spaceOf EXCEPT ![dying] = NoFrame]
      /\ \A t \in Frames : t # spaceOf[dying] => pt'[t] = pt[t]
      /\ slot' \in {slot, NoFrame}
  <2>1. CASE spaceOf[dying] = NoFrame
    <3>1. UNCHANGED <<free, pt, lost, slot, spaceOf, loading>>
      BY <2>1 DEF memVars
    <3> QED BY <1>0, <2>1, <3>1, FramesKept DEF TypeOK
  <2>2. CASE spaceOf[dying] # NoFrame
    <3>1. /\ spaceOf' = [spaceOf EXCEPT ![dying] = NoFrame]
          /\ DestroySpace(spaceOf[dying]) /\ slot' \in {slot, NoFrame}
      BY <2>2
    <3>2. \A p \in Pid : spaceOf'[p] = IF p = dying THEN NoFrame ELSE spaceOf[p]
      BY <3>1 DEF TypeOK, Inv
    <3>3. spaceOf[dying] \in Spaces /\ Spaces' = Spaces \ {spaceOf[dying]}
      <4>1. \A p \in Pid : spaceOf[p] = spaceOf[dying] => p = dying
        BY <1>0, <2>2 DEF NoFrameUsedTwice
      <4> QED BY <1>0, <2>2, <3>2, <4>1 DEF Spaces
    <3> QED BY <1>0, <3>1, <3>2, <3>3, DestroyKeepsFrames
  <2> QED BY <2>1, <2>2
<1>2. \A p \in Pid : spaceOf'[p] = IF p = dying THEN NoFrame ELSE spaceOf[p]
  BY <1>0, <1>1 DEF TypeOK
<1>3. TypeOK'
  <2>1. spaceOf' \in [Pid -> Frames \cup {NoFrame}]
    BY <1>0, <1>1 DEF TypeOK
  <2>2. brk' \in [Pid -> 0 .. USER_HEAP_MAX]
    BY <1>0 DEF TypeOK
  <2>3. dying' \in 0 .. MaxPid
    BY <1>0 DEF Pid
  <2> QED BY <1>0, <1>1, <2>1, <2>2, <2>3 DEF TypeOK
<1>4. Control'
  <2>1. dying' # 0 <=> pc' = "close"
    BY <1>0 DEF Pid
  <2>2. pc' = "close" => dying' = dying
    BY <1>0
  <2>3. \A p \in Pid : spaceOf'[p] = NoFrame => brk'[p] = 0
    BY <1>0, <1>2 DEF Inv, Control, TypeOK
  <2> QED BY <1>0, <1>2, <2>1, <2>2, <2>3 DEF Inv, Control
<1>5. RunsInOwnSpace'
  BY <1>0, <1>1 DEF Inv, Control, RunsInOwnSpace
<1>6. OnePlacePerProcess'
  <2>1. \A i \in DOMAIN runQueue : runQueue[i].pid \in Pid
    <3>1. \A i \in DOMAIN runQueue : runQueue[i] \in Proc
      BY <1>0 DEF TypeOK
    <3> QED BY <3>1 DEF Proc
  <2>2. ASSUME NEW i \in DOMAIN runQueue
        PROVE  /\ runQueue[i].space = spaceOf'[runQueue[i].pid]
               /\ runQueue[i].pid # 0 /\ runQueue[i].pid # dying'
    BY <1>0, <1>2, <2>1 DEF Inv, OnePlacePerProcess, Pid
  <2>3. ASSUME NEW p \in Pid, spaceOf'[p] # NoFrame
        PROVE  \E i \in DOMAIN runQueue : runQueue[i].pid = p
    BY <1>0, <1>2, <2>3 DEF Inv, OnePlacePerProcess, NoProc, Pid
  <2> QED BY <1>0, <2>2, <2>3 DEF Inv, OnePlacePerProcess, NoProc
<1>7. HeapBackedBelowBreak' /\ HeapProgress'
  <2>1. ASSUME NEW p \in Pid, spaceOf'[p] # NoFrame, NEW n \in 0 .. PagesUpTo(brk'[p]) - 1
        PROVE  pt'[spaceOf'[p]][<<"heap", n>>] # NoFrame
    <3>1. p # dying /\ spaceOf'[p] = spaceOf[p] /\ brk'[p] = brk[p]
      BY <1>0, <1>2, <2>1 DEF TypeOK
    <3>2. spaceOf[p] \in Frames /\ spaceOf[p] # spaceOf[dying]
      BY <1>0, <2>1, <3>1 DEF TypeOK, NoFrameUsedTwice
    <3>3. pt'[spaceOf'[p]] = pt[spaceOf[p]]
      BY <1>1, <3>1, <3>2
    <3> QED BY <2>1, <3>1, <3>3 DEF Inv, HeapBackedBelowBreak
  <2> QED BY <1>0, <2>1 DEF HeapBackedBelowBreak, HeapProgress, PagesUpTo
<1> QED BY <1>1, <1>3, <1>4, <1>5, <1>6, <1>7 DEF Inv

-----------------------------------------------------------------------------
(* The theorems.                                                           *)

\* A step that changes nothing.
LEMMA StutterInv == Inv /\ UNCHANGED vars => Inv'
<1> SUFFICES ASSUME Inv, UNCHANGED vars PROVE Inv'
  OBVIOUS
<1> USE DEF vars, memVars, procVars, winVars, loadVars, capVars
<1>1. TypeOK' /\ Control' /\ RunsInOwnSpace' /\ OnePlacePerProcess'
  BY DEF Inv, TypeOK, Control, RunsInOwnSpace, OnePlacePerProcess
<1>2. NoFrameUsedTwice' /\ FramesAccounted'
  BY FramesKept DEF Inv
<1>3. HeapBackedBelowBreak' /\ HeapProgress'
  BY HeapKept DEF Inv, HeapProgress, PagesUpTo
<1> QED BY <1>1, <1>2, <1>3 DEF Inv

\* The inductive invariant holds in every state of every behaviour.
THEOREM Invariance == Spec => []Inv
<1>1. ASSUME Inv, [Next]_vars
      PROVE  Inv'
  <2>1. ASSUME Next
        PROVE  Inv'
    BY <1>1, <2>1, NextCases, SpawnInv, LoadPageInv, LoadFailsInv, LoadDoneInv,
       RunSchedulerOnceInv, YieldCurrentInv, ReturnToKernelInv, TakeCurrentInv,
       FreeProcessMemoryInv, CloseWindowsForPidInv, CloseButtonInv, SbrkInv, SbrkPageInv,
       SbrkFailsInv, SbrkDoneInv, SysCreateWindowInv, SysWriteInv, BadPointerInv,
       OtherExceptionInv, TablePanicInv
  <2> QED BY <1>1, <2>1, StutterInv
<1> QED BY InitInv, <1>1, PTL DEF Spec

\* Every variable keeps its type: in particular the break never leaves the heap
\* window and no page table ever points outside physical memory.
THEOREM TypeCorrectness == Spec => []TypeOK
<1>1. Inv => TypeOK
  BY DEF Inv
<1> QED BY <1>1, Invariance, PTL

\* No frame is ever used twice: isolation of processes, and no double free.
THEOREM FrameIsolation == Spec => []NoFrameUsedTwice
<1>1. Inv => NoFrameUsedTwice
  BY DEF Inv
<1> QED BY <1>1, Invariance, PTL

\* Spawning, growing and every way out of a process conserve frames, up to those
\* that a second mapping of the same page drops.
THEOREM FrameConservation == Spec => []FramesAccounted
<1>1. Inv => FramesAccounted
  BY DEF Inv
<1> QED BY <1>1, Invariance, PTL

\* The scheduler never loses or duplicates a process.
THEOREM OnePlace == Spec => []OnePlacePerProcess
<1>1. Inv => OnePlacePerProcess
  BY DEF Inv
<1> QED BY <1>1, Invariance, PTL

\* The space the page tables show is the one whose process runs.
THEOREM OwnSpace == Spec => []RunsInOwnSpace
<1>1. Inv => RunsInOwnSpace
  BY DEF Inv
<1> QED BY <1>1, Invariance, PTL

\* sbrk's promise: everything below the break is mapped.
THEOREM HeapBacked == Spec => []HeapBackedBelowBreak
<1>1. Inv => HeapBackedBelowBreak
  BY DEF Inv
<1> QED BY <1>1, Invariance, PTL
=============================================================================
