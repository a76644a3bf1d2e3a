---------------------------------- MODULE Ata ----------------------------------
(***************************************************************************)
(* The ATA driver (kernel/src/ata.rs): two drives on one channel, polled.  *)
(* A call selects its drive, waits until it is not busy, issues a command, *)
(* and moves one sector each time the drive says it is ready; every wait   *)
(* gives up after POLL_LIMIT reads of the status.  The drives are          *)
(* external: they take their time, they fail, and what is written to the   *)
(* command register of one that is busy or has data to move is not heard.  *)
(***************************************************************************)
EXTENDS Integers, Sequences, FiniteSets, TLAPS

CONSTANTS
  Capacity,          \* sectors of each drive, 0 if it is not attached
  MAX_SECTORS,       \* MAX_SECTORS_PER_TRANSFER
  MaxCalls,          \* bound: calls in a behaviour
  None

VARIABLES
  drive,     \* of each drive, its state, the command it carries out and its sectors
  platter,   \* of each drive, what is left of its sectors when the power goes
  SELECTED,
  SECTORS,   \* MASTER_SECTORS and SLAVE_SECTORS
  call,
  calls,
  unheard,   \* history: a command of this call, or the last, was not heard
  got        \* history: how the last transfer ended

vars == <<drive, platter, SELECTED, SECTORS, call, calls, unheard, got>>

Drives == DOMAIN Capacity
There(d) == Capacity[d] > 0
Lbas(d) == 0 .. Capacity[d] - 1
Blank == <<0, 0>>
Junk == <<0, 1>>

Command(op, lba, left) == [op |-> op, lba |-> lba, left |-> left]
NoCommand == Command("none", 0, 0)
Idle == [op |-> "none", drive |-> None, lba |-> 0, n |-> 0, buf |-> <<>>, at |-> "idle"]
Nothing == [ok |-> FALSE, call |-> Idle, unheard |-> FALSE]

D == drive[SELECTED]
Becomes(state, doing) == drive' = [drive EXCEPT ![SELECTED].state = state, ![SELECTED].doing = doing]

-----------------------------------------------------------------------------
(* The drives.                                                               *)

\* A command is heard by a drive that is idle or stopped at an error.
Hears == D.state \in {"idle", "error"}
Issue(cmd) ==
  /\ IF Hears THEN Becomes("busy", cmd) ELSE UNCHANGED drive
  /\ unheard' = (unheard \/ ~Hears)

\* What a drive was doing is done: a sector is there or is awaited, or the
\* cache is on the platter.
Works(d) ==
  /\ drive[d].state = "busy"
  /\ LET c == drive[d].doing
     IN  CASE c.op = "flush" ->
                /\ drive' = [drive EXCEPT ![d].state = "idle", ![d].doing = NoCommand]
                /\ platter' = [platter EXCEPT ![d] = drive[d].sectors]
           [] c.op = "write" /\ c.left = 0 ->
                /\ drive' = [drive EXCEPT ![d].state = "idle", ![d].doing = NoCommand]
                /\ UNCHANGED platter
           [] OTHER ->
                /\ drive' = [drive EXCEPT ![d].state =
                               IF c.op = "identify" \/ c.lba \in Lbas(d) THEN "ready" ELSE "error"]
                /\ UNCHANGED platter
  /\ UNCHANGED <<SELECTED, SECTORS, call, calls, unheard, got>>

Fails(d) ==
  /\ drive[d].state = "busy"
  /\ drive' = [drive EXCEPT ![d].state = "error"]
  /\ UNCHANGED <<platter, SELECTED, SECTORS, call, calls, unheard, got>>

\* The data port, in and out: a sector moves the command on.  A drive that is
\* not moving data this way gives rubbish, and takes nothing.
Given ==
  IF D.state = "ready" /\ D.doing.op = "read" THEN D.sectors[D.doing.lba] ELSE Junk

MovedOn(op) ==
  LET c == D.doing
      left == c.left - 1
  IN  IF D.state # "ready" \/ c.op # op THEN D
      ELSE [D EXCEPT !.state = IF left = 0 /\ op = "read" THEN "idle" ELSE "busy",
                     !.doing = IF left = 0 /\ op = "read" THEN NoCommand
                               ELSE Command(op, c.lba + 1, left)]

Taken(x) ==
  LET c == D.doing
  IN  IF D.state = "ready" /\ c.op = "write"
      THEN [MovedOn("write") EXCEPT !.sectors[c.lba] = x] ELSE D

-----------------------------------------------------------------------------
(* The driver.                                                               *)

Goto(at) == call' = [call EXCEPT !.at = at]
Ends(ok) ==
  /\ call' = Idle
  /\ got' = [ok |-> ok, call |-> call, unheard |-> unheard']

\* range_ok
Fits(d, lba, n) == lba + n <= SECTORS[d]

\* read and write; transfer_sectors bounds n, and a capacity that is not known
\* is asked for first.
Start(op, d, lba, n) ==
  /\ call = Idle /\ calls < MaxCalls
  /\ n \in 1 .. MAX_SECTORS
  /\ SECTORS[d] # 0 /\ Fits(d, lba, n)
  /\ calls' = calls + 1
  /\ call' = [op |-> op, drive |-> d, lba |-> lba, n |-> n, at |-> "wait",
              buf |-> IF op = "write" THEN [i \in 1 .. n |-> <<calls', i>>] ELSE <<>>]
  /\ SELECTED' = d /\ unheard' = FALSE
  /\ UNCHANGED <<drive, platter, SECTORS, got>>

\* identify, when a disk is opened or its size is not known: an absent drive
\* does not answer, and the command is issued without a wait.
Identify(d) ==
  /\ call = Idle /\ There(d) /\ calls < MaxCalls
  /\ calls' = calls + 1
  /\ call' = [Idle EXCEPT !.op = "identify", !.drive = d, !.at = "issue"]
  /\ SELECTED' = d /\ unheard' = FALSE
  /\ UNCHANGED <<drive, platter, SECTORS, got>>

\* wait_not_busy; a switch of drives waits the same way.
NotBusy ==
  /\ call.at = "wait" /\ D.state # "busy"
  /\ Goto("issue")
  /\ UNCHANGED <<drive, platter, SELECTED, SECTORS, calls, unheard, got>>

IssueCommand ==
  /\ call.at = "issue"
  /\ Issue(Command(call.op, call.lba, call.n))
  /\ Goto("sector")
  /\ UNCHANGED <<platter, SELECTED, SECTORS, calls, got>>

\* A variant that looks for data before errors (for the mutation checks).
DataFirst == D.state \in {"ready", "error"}

\* wait_data_ready: the error bits are looked at first.
DataReady == D.state = "ready"

ReadSector ==
  /\ call.at = "sector" /\ call.op = "read" /\ DataReady
  /\ drive' = [drive EXCEPT ![SELECTED] = MovedOn("read")]
  /\ LET buf == Append(call.buf, Given)
     IN  IF Len(buf) < call.n
         THEN call' = [call EXCEPT !.buf = buf] /\ UNCHANGED got
         ELSE call' = Idle /\ got' = [ok |-> TRUE, call |-> [call EXCEPT !.buf = buf], unheard |-> unheard]
  /\ UNCHANGED <<platter, SELECTED, SECTORS, calls, unheard>>

\* The next sector waits until the drive has latched this one; after the last
\* comes the flush.
WriteSector ==
  /\ call.at = "sector" /\ call.op = "write" /\ DataReady
  /\ drive' = [drive EXCEPT ![SELECTED] = Taken(call.buf[Len(call.buf) - call.n + 1])]
  /\ call' = [call EXCEPT !.n = @ - 1, !.at = IF call.n = 1 THEN "flush" ELSE "sector"]
  /\ UNCHANGED <<platter, SELECTED, SECTORS, calls, unheard, got>>

\* A variant that does not flush (for the mutation checks).
NoFlush == call.at = "flush" /\ UNCHANGED <<drive, unheard>> /\ Goto("flushed")

\* flush_cache does not wait for the drive to latch the last sector.
Flush == call.at = "flush" /\ Issue(Command("flush", 0, 0)) /\ Goto("flushed")
FlushCache == Flush /\ UNCHANGED <<platter, SELECTED, SECTORS, calls, got>>

Flushed ==
  /\ call.at = "flushed" /\ D.state # "busy"
  /\ unheard' = unheard
  /\ Ends(D.state # "error")
  /\ UNCHANGED <<drive, platter, SELECTED, SECTORS, calls>>

\* The words of IDENTIFY, whatever it is that the drive gives.
ReadIdentity ==
  /\ call.at = "sector" /\ call.op = "identify" /\ DataReady
  /\ SECTORS' = [SECTORS EXCEPT ![call.drive] = IF D.doing.op = "identify" THEN Capacity[call.drive]
                                               ELSE Capacity[call.drive] + 1]
  /\ IF D.doing.op = "identify" THEN Becomes("idle", NoCommand)
     ELSE drive' = [drive EXCEPT ![SELECTED] = MovedOn("read")]
  /\ unheard' = unheard /\ Ends(TRUE)
  /\ UNCHANGED <<platter, SELECTED, calls>>

ReportsError ==
  /\ call.at = "sector" /\ ~DataReady /\ D.state = "error"
  /\ unheard' = unheard /\ Ends(FALSE)
  /\ UNCHANGED <<drive, platter, SELECTED, SECTORS, calls>>

\* The drive is busy, or was not told what is awaited of it, for too long.
GivesUp ==
  /\ \/ call.at \in {"wait", "sector", "flushed"} /\ D.state = "busy"
     \/ call.at = "sector" /\ D.state = "idle"
  /\ unheard' = unheard /\ Ends(FALSE)
  /\ UNCHANGED <<drive, platter, SELECTED, SECTORS, calls>>

-----------------------------------------------------------------------------
Init ==
  /\ drive = [d \in Drives |-> [state |-> "idle", doing |-> NoCommand, sectors |-> [l \in Lbas(d) |-> Blank]]]
  /\ platter = [d \in Drives |-> drive[d].sectors]
  /\ SELECTED = None /\ SECTORS = [d \in Drives |-> 0]
  /\ call = Idle /\ calls = 0 /\ unheard = FALSE /\ got = Nothing

Next ==
  \/ \E d \in Drives : Works(d) \/ Fails(d) \/ Identify(d)
  \/ \E d \in Drives, lba \in 0 .. 2, n \in 1 .. 2 : Start("read", d, lba, n) \/ Start("write", d, lba, n)
  \/ NotBusy \/ IssueCommand \/ ReadSector \/ WriteSector \/ FlushCache \/ Flushed
  \/ ReadIdentity \/ ReportsError \/ GivesUp

Spec == Init /\ [][Next]_vars

-----------------------------------------------------------------------------
(* Every variable keeps its type.                                            *)
TypeOK ==
  /\ \A d \in Drives : /\ drive[d].state \in {"idle", "busy", "ready", "error"}
                       /\ DOMAIN drive[d].sectors = Lbas(d) /\ DOMAIN platter[d] = Lbas(d)
  /\ SELECTED \in Drives \cup {None}
  /\ call.at \in {"idle", "wait", "issue", "sector", "flush", "flushed"}
  /\ calls \in 0 .. MaxCalls /\ unheard \in BOOLEAN

(* A transfer that reports success moved the sectors it was asked for, of    *)
(* the drive it was asked of, and a size is that drive's own, although the   *)
(* two share one set of registers ("a caller alternating between master and  *)
(* slave can otherwise read the other drive's idle status", ata.rs:194-196)  *)
(* and either may be slow, fail, or still be at what somebody gave up on:    *)
(* unless a command was not heard, which the driver cannot tell.             *)
MovesWhatWasAsked ==
  LET c == got.call
  IN  got.ok /\ ~got.unheard /\ call = Idle =>
        /\ c.op = "read" => \A i \in 1 .. c.n : c.buf[i] = drive[c.drive].sectors[c.lba + i - 1]
        /\ c.op = "write" => \A i \in DOMAIN c.buf : drive[c.drive].sectors[c.lba + i - 1] = c.buf[i]
        /\ c.op = "identify" => SECTORS[c.drive] = Capacity[c.drive]

(* A write that reports success is on the platter ("flush the drive's write  *)
(* cache so the data is on the platter ... before we return", ata.rs:431-432)*)
(* unless the flush came while the drive was busy with the last sector.      *)
WrittenIsOnThePlatter ==
  LET c == got.call
  IN  got.ok /\ ~got.unheard /\ c.op = "write" /\ call = Idle =>
        \A i \in DOMAIN c.buf : platter[c.drive][c.lba + i - 1] = c.buf[i]
-----------------------------------------------------------------------------
(* The proof, for any drives.  As long as every command of a call was heard, *)
(* what the drive is at is what the call waits for, so the sectors moved are *)
(* the ones asked for; a command that was not heard leaves the drive at what *)
(* somebody gave up on.                                                      *)

DriveSizes == Capacity \in [Drives -> Nat] /\ None \notin Drives

States == {"idle", "busy", "ready", "error"}
Commands == [op : {"none", "identify", "read", "write", "flush"}, lba : Int, left : Int]
Values == Nat \X Nat
Surface(d) == [Lbas(d) -> Values]
Surfaces == UNION {Surface(d) : d \in Drives}
Calls == [op : {"none", "identify", "read", "write"}, drive : Drives \cup {None}, lba : Int, n : Int,
          buf : Seq(Values), at : {"idle", "wait", "issue", "sector", "flush", "flushed"}]

Types ==
  /\ drive \in [Drives -> [state : States, doing : Commands, sectors : Surfaces]]
  /\ platter \in [Drives -> Surfaces]
  /\ \A d \in Drives : drive[d].sectors \in Surface(d)
  /\ SECTORS \in [Drives -> Int]
  /\ call \in Calls /\ calls \in Nat /\ unheard \in BOOLEAN
  /\ got \in [ok : BOOLEAN, call : Calls, unheard : BOOLEAN]

\* A drive that is ready has a sector of its own to move.
InRange == \A d \in Drives :
  drive[d].state = "ready" /\ drive[d].doing.op \in {"read", "write"} => drive[d].doing.lba \in Lbas(d)

\* How far a call is: a read collects its sectors, a write counts down to its flush.
Progress ==
  call.at # "idle" =>
    /\ SELECTED = call.drive /\ call.drive \in Drives
    /\ call.op \in {"identify", "read", "write"}
    /\ call.op = "identify" => call.at \in {"issue", "sector"}
    /\ call.op = "read" =>
         /\ call.at \in {"wait", "issue", "sector"} /\ Len(call.buf) < call.n
         /\ call.at # "sector" => Len(call.buf) = 0
    /\ call.op = "write" =>
         /\ call.n \in 0 .. Len(call.buf)
         /\ call.at \in {"wait", "issue"} => call.n = Len(call.buf)
         /\ call.at \in {"flush", "flushed"} <=> call.n = 0

\* The drive is at what the call waits for, and what was moved is what it says.
Reading ==
  call.at = "sector" /\ call.op = "read" /\ ~unheard =>
    /\ D.state \in {"busy", "ready"} =>
         D.doing = Command("read", call.lba + Len(call.buf), call.n - Len(call.buf))
    /\ \A i \in 1 .. Len(call.buf) : call.buf[i] = D.sectors[call.lba + i - 1]

Writing ==
  call.at \in {"sector", "flush", "flushed"} /\ call.op = "write" /\ ~unheard =>
    /\ call.at = "sector" /\ D.state \in {"busy", "ready"} =>
         D.doing = Command("write", call.lba + Len(call.buf) - call.n, call.n)
    /\ \A i \in 1 .. Len(call.buf) - call.n : D.sectors[call.lba + i - 1] = call.buf[i]
    /\ call.at = "flushed" =>
         /\ D.state = "busy" => D.doing.op = "flush"
         /\ D.state = "idle" => platter[SELECTED] = D.sectors
         /\ D.state # "ready"

Identifying ==
  call.at = "sector" /\ call.op = "identify" /\ ~unheard =>
    (D.state \in {"busy", "ready"} => D.doing.op = "identify")

\* What the last call moved is still so while no other is under way.
Ended ==
  call.at = "idle" /\ got.ok /\ ~got.unheard =>
    /\ got.call.drive \in Drives
    /\ got.call.op = "read" => \A i \in 1 .. got.call.n :
         got.call.buf[i] = drive[got.call.drive].sectors[got.call.lba + i - 1]
    /\ got.call.op = "write" => \A i \in DOMAIN got.call.buf :
         /\ drive[got.call.drive].sectors[got.call.lba + i - 1] = got.call.buf[i]
         /\ platter[got.call.drive][got.call.lba + i - 1] = got.call.buf[i]
    /\ got.call.op = "identify" => SECTORS[got.call.drive] = Capacity[got.call.drive]

Inv == Types /\ InRange /\ Progress /\ Reading /\ Writing /\ Identifying /\ Ended

\* What the drives do by themselves: each keeps its sectors, stays at its command while it
\* is at one, and leaves a flush only with them on the platter.
LEMMA DrivesWork ==
  ASSUME Inv, NEW d \in Drives, Works(d) \/ Fails(d)
  PROVE  Inv'
<1>1. Types /\ drive[d].state = "busy"
  BY DEF Inv, Works, Fails
<1>2. UNCHANGED <<SELECTED, SECTORS, call, calls, unheard, got>>
  BY DEF Works, Fails
<1> DEFINE c == drive[d].doing
<1>3. /\ drive \in [Drives -> [state : States, doing : Commands, sectors : Surfaces]]
      /\ NoCommand \in Commands /\ c \in Commands
      /\ platter \in [Drives -> Surfaces]
  BY <1>1 DEF Types, NoCommand, Command, Commands
<1>4. /\ drive' \in [Drives -> [state : States, doing : Commands, sectors : Surfaces]]
      /\ platter' \in [Drives -> Surfaces]
      /\ \A e \in Drives : e # d => drive'[e] = drive[e] /\ platter'[e] = platter[e]
      /\ drive'[d].sectors = drive[d].sectors
      /\ \/ drive'[d].state = "error" /\ platter'[d] = platter[d]
         \/ /\ drive'[d].state = "idle" /\ c.op = "flush" /\ platter'[d] = drive[d].sectors
         \/ /\ drive'[d].state = "idle" /\ c.op = "write" /\ c.left = 0 /\ platter'[d] = platter[d]
         \/ /\ drive'[d].state = "ready" /\ drive'[d].doing = c /\ platter'[d] = platter[d]
            /\ c.op # "flush" /\ (c.op = "identify" \/ c.lba \in Lbas(d))
  <2>1. CASE Fails(d)
    <3>1. drive' = [drive EXCEPT ![d].state = "error"] /\ platter' = platter
      BY <2>1 DEF Fails
    <3> QED BY <1>3, <3>1 DEF States
  <2>2. CASE c.op = "flush" /\ Works(d)
    <3>1. /\ drive' = [drive EXCEPT ![d].state = "idle", ![d].doing = NoCommand]
          /\ platter' = [platter EXCEPT ![d] = drive[d].sectors]
      BY <2>2 DEF Works
    <3> QED BY <1>3, <2>2, <3>1 DEF States
  <2>3. CASE c.op = "write" /\ c.left = 0 /\ Works(d)
    <3>1. /\ drive' = [drive EXCEPT ![d].state = "idle", ![d].doing = NoCommand]
          /\ platter' = platter
      BY <2>3 DEF Works
    <3> QED BY <1>3, <2>3, <3>1 DEF States
  <2>4. CASE c.op # "flush" /\ ~(c.op = "write" /\ c.left = 0) /\ Works(d)
    <3> DEFINE st == IF c.op = "identify" \/ c.lba \in Lbas(d) THEN "ready" ELSE "error"
    <3>1. drive' = [drive EXCEPT ![d].state = st] /\ platter' = platter
      BY <2>4 DEF Works
    <3>2. st \in States /\ (st = "error" \/ (st = "ready" /\ (c.op = "identify" \/ c.lba \in Lbas(d))))
      BY DEF States
    <3> HIDE DEF st
    <3>3. /\ drive' \in [Drives -> [state : States, doing : Commands, sectors : Surfaces]]
          /\ drive'[d].sectors = drive[d].sectors /\ drive'[d].state = st /\ drive'[d].doing = c
          /\ \A e \in Drives : e # d => drive'[e] = drive[e]
      BY <1>3, <3>1, <3>2
    <3> QED BY <1>3, <2>4, <3>1, <3>2, <3>3
  <2> QED BY <2>1, <2>2, <2>3, <2>4
<1> HIDE DEF c
<1>5. \A e \in Drives : drive'[e].sectors = drive[e].sectors
  BY <1>4
<1>6. Types'
  BY <1>1, <1>2, <1>4, <1>5 DEF Types
<1>7. InRange'
  BY <1>4 DEF Inv, InRange, c
<1>8. Progress'
  BY <1>2 DEF Inv, Progress
<1>9. call.at # "idle" => SELECTED \in Drives
  BY DEF Inv, Progress
<1>10. /\ D'.sectors = D.sectors \/ SELECTED \notin Drives
       /\ SELECTED \in Drives /\ D'.state \in {"busy", "ready"} => D.state \in {"busy", "ready"} /\ D'.doing = D.doing
  BY <1>1, <1>2, <1>4, <1>5 DEF D, c
<1>11. Reading'
  BY <1>2, <1>9, <1>10 DEF Inv, Reading
<1>12. Identifying'
  BY <1>2, <1>9, <1>10 DEF Inv, Identifying
<1>13. Writing'
  <2> SUFFICES ASSUME call.at \in {"sector", "flush", "flushed"}, call.op = "write", ~unheard
               PROVE  /\ call.at = "sector" /\ D'.state \in {"busy", "ready"} =>
                           D'.doing = Command("write", call.lba + Len(call.buf) - call.n, call.n)
                      /\ \A i \in 1 .. Len(call.buf) - call.n : D'.sectors[call.lba + i - 1] = call.buf[i]
                      /\ call.at = "flushed" =>
                           /\ D'.state = "busy" => D'.doing.op = "flush"
                           /\ D'.state = "idle" => platter'[SELECTED] = D'.sectors
                           /\ D'.state # "ready"
    BY <1>2 DEF Writing
  <2>1. SELECTED \in Drives /\ D'.sectors = D.sectors
    BY <1>9, <1>10
  <2>2. /\ call.at = "sector" /\ D.state \in {"busy", "ready"} =>
             D.doing = Command("write", call.lba + Len(call.buf) - call.n, call.n)
        /\ \A i \in 1 .. Len(call.buf) - call.n : D.sectors[call.lba + i - 1] = call.buf[i]
        /\ call.at = "flushed" =>
             /\ D.state = "busy" => D.doing.op = "flush"
             /\ D.state = "idle" => platter[SELECTED] = D.sectors
             /\ D.state # "ready"
    BY DEF Inv, Writing
  <2>3. call.at = "flushed" =>
             /\ D'.state = "busy" => D'.doing.op = "flush"
             /\ D'.state = "idle" => platter'[SELECTED] = D'.sectors
             /\ D'.state # "ready"
    <3>1. CASE SELECTED = d
      BY <1>1, <1>2, <1>4, <2>2, <3>1 DEF D, c
    <3>2. CASE SELECTED # d
      BY <1>2, <1>4, <2>1, <2>2, <3>2 DEF D
    <3> QED BY <3>1, <3>2
  <2> QED BY <1>10, <2>1, <2>2, <2>3
<1>14. Ended'
  BY <1>2, <1>4, <1>5 DEF Inv, Ended
<1> QED BY <1>6, <1>7, <1>8, <1>11, <1>12, <1>13, <1>14 DEF Inv

\* One drive changes, the others stay.
LEMMA OneDrive ==
  ASSUME Types, SELECTED \in Drives,
         NEW new \in [state : States, doing : Commands, sectors : Surface(SELECTED)],
         drive' = [drive EXCEPT ![SELECTED] = new]
  PROVE  /\ drive' \in [Drives -> [state : States, doing : Commands, sectors : Surfaces]]
         /\ \A e \in Drives : drive'[e].sectors \in Surface(e)
         /\ drive'[SELECTED] = new /\ \A e \in Drives : e # SELECTED => drive'[e] = drive[e]
<1>1. /\ drive \in [Drives -> [state : States, doing : Commands, sectors : Surfaces]]
      /\ \A e \in Drives : drive[e].sectors \in Surface(e)
  BY DEF Types
<1>2. new.sectors \in Surface(SELECTED) /\ new \in [state : States, doing : Commands, sectors : Surfaces]
  <2>1. new.sectors \in Surfaces
    BY DEF Surfaces
  <2>2. new = [state |-> new.state, doing |-> new.doing, sectors |-> new.sectors]
    OBVIOUS
  <2> QED BY <2>1, <2>2
<1> QED BY <1>1, <1>2

\* The selected drive.
LEMMA Selected ==
  ASSUME Types, SELECTED \in Drives
  PROVE  D \in [state : States, doing : Commands, sectors : Surface(SELECTED)]
<1>1. D \in [state : States, doing : Commands, sectors : Surfaces] /\ D.sectors \in Surface(SELECTED)
  BY DEF Types, D
<1>2. D = [state |-> D.state, doing |-> D.doing, sectors |-> D.sectors]
  BY <1>1
<1> QED BY <1>1, <1>2

\* Between calls.
LEMMA IdleCall ==
  Idle \in Calls /\ Idle.at = "idle"
<1>1. None \in Drives \cup {None} /\ 0 \in Int /\ <<>> \in Seq(Values)
  OBVIOUS
<1>2. Idle = [op |-> "none", drive |-> None, lba |-> 0, n |-> 0, buf |-> <<>>, at |-> "idle"]
  BY DEF Idle
<1> QED BY <1>1, <1>2 DEF Calls

\* A call begins where no other is under way, with every command yet to be heard.
LEMMA Begins ==
  ASSUME Inv, UNCHANGED <<drive, platter, SECTORS, got>>, call' \in Calls, calls' \in Nat, ~unheard',
         unheard' \in BOOLEAN, call'.at \in {"wait", "issue"}, Progress'
  PROVE  Inv'
<1>1. Types'
  BY DEF Inv, Types
<1>2. InRange'
  BY DEF Inv, InRange
<1>3. Reading' /\ Writing' /\ Identifying' /\ Ended'
  BY DEF Reading, Writing, Identifying, Ended
<1> QED BY <1>1, <1>2, <1>3 DEF Inv

\* A call begins.
LEMMA StartStep ==
  ASSUME Inv, NEW op \in {"read", "write"}, NEW d \in Drives, NEW lba \in 0 .. 2, NEW n \in 1 .. 2, Start(op, d, lba, n)
  PROVE  Inv'
<1> DEFINE buf == IF op = "write" THEN [i \in 1 .. n |-> <<calls + 1, i>>] ELSE <<>>
<1>1. /\ call' = [op |-> op, drive |-> d, lba |-> lba, n |-> n, at |-> "wait", buf |-> buf]
      /\ calls' = calls + 1 /\ SELECTED' = d /\ unheard' = FALSE
      /\ UNCHANGED <<drive, platter, SECTORS, got>>
  BY DEF Start
<1>2. calls \in Nat
  BY DEF Inv, Types
<1>3. buf \in Seq(Values) /\ Len(buf) = IF op = "write" THEN n ELSE 0
  <2>1. CASE op = "write"
    <3>1. \A i \in 1 .. n : <<calls + 1, i>> \in Values
      BY <1>2 DEF Values
    <3>2. buf \in [1 .. n -> Values] /\ n \in Nat
      BY <2>1, <3>1
    <3> QED BY <2>1, <3>2
  <2>2. CASE op # "write"
    BY <2>2
  <2> QED BY <2>1, <2>2
<1> HIDE DEF buf
<1>4. call' \in Calls
  BY <1>1, <1>3 DEF Calls
<1>5. Progress'
  BY <1>1, <1>3 DEF Progress
<1>6. ~unheard' /\ unheard' \in BOOLEAN
  BY DEF Start
<1>7. calls' \in Nat /\ call'.at \in {"wait", "issue"}
  BY <1>1, <1>2
<1>8. UNCHANGED <<drive, platter, SECTORS, got>>
  BY <1>1
<1> QED BY <1>4, <1>5, <1>6, <1>7, <1>8, Begins

\* identify, and what capacity remembers of it.
LEMMA IdentifyStep ==
  ASSUME Inv, NEW d \in Drives, Identify(d)
  PROVE  Inv'
<1>1. /\ call' = [op |-> "identify", drive |-> d, lba |-> 0, n |-> 0, buf |-> <<>>, at |-> "issue"]
      /\ calls' = calls + 1 /\ SELECTED' = d /\ unheard' = FALSE
      /\ UNCHANGED <<drive, platter, SECTORS, got>>
  BY DEF Identify, Idle
<1>2. calls \in Nat
  BY DEF Inv, Types
<1>3. call' \in Calls
  <2>1. <<>> \in Seq(Values) /\ d \in Drives \cup {None}
    OBVIOUS
  <2> QED BY <1>1, <2>1 DEF Calls
<1>4. Progress'
  BY <1>1 DEF Progress
<1>5. ~unheard' /\ unheard' \in BOOLEAN
  BY DEF Identify
<1>6. calls' \in Nat /\ call'.at \in {"wait", "issue"}
  BY <1>1, <1>2
<1>7. UNCHANGED <<drive, platter, SECTORS, got>>
  BY <1>1
<1> QED BY <1>3, <1>4, <1>5, <1>6, <1>7, Begins

\* A call that fails, or gives up.
LEMMA EndsBadly ==
  ASSUME Inv, UNCHANGED <<drive, platter, SECTORS, calls, unheard>>, Ends(FALSE)
  PROVE  Inv'
<1>1. call' = Idle /\ got' = [ok |-> FALSE, call |-> call, unheard |-> unheard]
  BY DEF Ends
<1>2. Types'
  BY <1>1, IdleCall DEF Inv, Types
<1>3. InRange'
  BY DEF Inv, InRange
<1>4. Progress' /\ Reading' /\ Writing' /\ Identifying' /\ Ended'
  BY <1>1, IdleCall DEF Progress, Reading, Writing, Identifying, Ended
<1> QED BY <1>2, <1>3, <1>4 DEF Inv

\* wait_not_busy.
LEMMA NotBusyStep ==
  ASSUME Inv, NotBusy
  PROVE  Inv'
<1>1. /\ call.at = "wait" /\ call' = [call EXCEPT !.at = "issue"]
      /\ UNCHANGED <<drive, platter, SELECTED, SECTORS, calls, unheard, got>>
  BY DEF NotBusy, Goto
<1>2. call \in Calls
  BY DEF Inv, Types
<1>3. call' \in Calls /\ call'.at = "issue" /\ call'.op = call.op /\ call'.drive = call.drive /\ call'.n = call.n
      /\ call'.buf = call.buf
  BY <1>1, <1>2 DEF Calls
<1>4. Types'
  BY <1>1, <1>3 DEF Inv, Types
<1>5. InRange'
  BY <1>1 DEF Inv, InRange
<1>6. Progress'
  BY <1>1, <1>3 DEF Inv, Progress
<1>7. Reading' /\ Writing' /\ Identifying' /\ Ended'
  BY <1>3 DEF Reading, Writing, Identifying, Ended
<1> QED BY <1>4, <1>5, <1>6, <1>7 DEF Inv

\* A command is given: heard, or never to be relied on.
LEMMA Issued ==
  ASSUME Types, InRange, SELECTED \in Drives, NEW cmd \in Commands, Issue(cmd)
  PROVE  /\ drive' \in [Drives -> [state : States, doing : Commands, sectors : Surfaces]]
         /\ \A e \in Drives : drive'[e].sectors = drive[e].sectors
         /\ \A e \in Drives : drive'[e].state = "ready" => drive'[e] = drive[e]
         /\ unheard' \in BOOLEAN /\ (~unheard' => ~unheard)
         /\ ~unheard' => drive'[SELECTED].state = "busy" /\ drive'[SELECTED].doing = cmd
<1>1. drive \in [Drives -> [state : States, doing : Commands, sectors : Surfaces]] /\ unheard \in BOOLEAN
  BY DEF Types
<1>2. CASE Hears
  <2>1. drive' = [drive EXCEPT ![SELECTED].state = "busy", ![SELECTED].doing = cmd] /\ unheard' = (unheard \/ FALSE)
    BY <1>2 DEF Issue, Becomes
  <2>2. "busy" \in States
    BY DEF States
  <2>3. /\ drive' \in [Drives -> [state : States, doing : Commands, sectors : Surfaces]]
        /\ \A e \in Drives : drive'[e].sectors = drive[e].sectors
        /\ drive'[SELECTED].state = "busy" /\ drive'[SELECTED].doing = cmd
        /\ \A e \in Drives : e # SELECTED => drive'[e] = drive[e]
    BY <1>1, <2>1, <2>2
  <2>4. \A e \in Drives : drive'[e].state = "ready" => drive'[e] = drive[e]
    BY <2>3
  <2>5. unheard' \in BOOLEAN /\ (~unheard' => ~unheard)
    BY <1>1, <2>1
  <2> QED BY <2>3, <2>4, <2>5
<1>3. CASE ~Hears
  <2>1. drive' = drive /\ unheard' = (unheard \/ TRUE)
    BY <1>3 DEF Issue
  <2> QED BY <1>1, <2>1
<1> QED BY <1>2, <1>3

\* issue: the task file and the command.
LEMMA IssueCommandStep ==
  ASSUME Inv, IssueCommand
  PROVE  Inv'
<1> DEFINE cmd == Command(call.op, call.lba, call.n)
<1>1. /\ call.at = "issue" /\ Issue(cmd) /\ call' = [call EXCEPT !.at = "sector"]
      /\ UNCHANGED <<platter, SELECTED, SECTORS, calls, got>>
  BY DEF IssueCommand, Goto
<1>2. Types /\ InRange /\ call \in Calls
  BY DEF Inv, Types
<1>3. SELECTED \in Drives /\ SELECTED = call.drive /\ call.op \in {"identify", "read", "write"}
  BY <1>1 DEF Inv, Progress
<1>4. cmd \in Commands /\ cmd = [op |-> call.op, lba |-> call.lba, left |-> call.n]
  BY <1>2, <1>3 DEF Calls, Commands, Command
<1>5. /\ call' \in Calls /\ call'.at = "sector" /\ call'.op = call.op /\ call'.drive = call.drive
      /\ call'.n = call.n /\ call'.buf = call.buf /\ call'.lba = call.lba
  BY <1>1, <1>2 DEF Calls
<1>6. call.buf \in Seq(Values) /\ Len(call.buf) \in Nat /\ call.n \in Int /\ call.lba \in Int
  BY <1>2 DEF Calls
<1> HIDE DEF cmd
<1>7. /\ drive' \in [Drives -> [state : States, doing : Commands, sectors : Surfaces]]
      /\ \A e \in Drives : drive'[e].sectors = drive[e].sectors
      /\ \A e \in Drives : drive'[e].state = "ready" => drive'[e] = drive[e]
      /\ unheard' \in BOOLEAN /\ (~unheard' => ~unheard)
      /\ ~unheard' => drive'[SELECTED].state = "busy" /\ drive'[SELECTED].doing = cmd
  BY <1>1, <1>2, <1>3, <1>4, Issued
<1>8. Types'
  BY <1>1, <1>2, <1>5, <1>7 DEF Types
<1>9. InRange'
  BY <1>2, <1>7 DEF InRange
<1>10. Progress'
  BY <1>1, <1>5 DEF Inv, Progress
<1>11. Reading'
  <2> SUFFICES ASSUME call.op = "read", ~unheard'
               PROVE  /\ D'.doing = Command("read", call.lba + Len(call.buf), call.n - Len(call.buf))
                      /\ \A i \in 1 .. Len(call.buf) : call.buf[i] = D'.sectors[call.lba + i - 1]
    BY <1>5 DEF Reading
  <2>1. Len(call.buf) = 0
    BY <1>1 DEF Inv, Progress
  <2>2. D'.doing = cmd
    BY <1>1, <1>7 DEF D
  <2>3. call.lba + Len(call.buf) = call.lba /\ call.n - Len(call.buf) = call.n
    BY <1>6, <2>1
  <2>4. D'.doing = Command("read", call.lba + Len(call.buf), call.n - Len(call.buf))
    BY <2>2, <2>3 DEF cmd
  <2> QED BY <2>1, <2>4
<1>12. Writing'
  <2> SUFFICES ASSUME call.op = "write", ~unheard'
               PROVE  /\ D'.doing = Command("write", call.lba + Len(call.buf) - call.n, call.n)
                      /\ \A i \in 1 .. Len(call.buf) - call.n : D'.sectors[call.lba + i - 1] = call.buf[i]
    BY <1>5 DEF Writing
  <2>1. Len(call.buf) = call.n
    BY <1>1 DEF Inv, Progress
  <2>2. D'.doing = cmd
    BY <1>1, <1>7 DEF D
  <2>3. call.lba + Len(call.buf) - call.n = call.lba /\ Len(call.buf) - call.n = 0
    BY <1>6, <2>1
  <2>4. D'.doing = Command("write", call.lba + Len(call.buf) - call.n, call.n)
    BY <2>2, <2>3 DEF cmd
  <2> QED BY <2>3, <2>4
<1>13. Identifying'
  <2> SUFFICES ASSUME call.op = "identify", ~unheard' PROVE D'.doing.op = "identify"
    BY <1>5 DEF Identifying
  <2> QED BY <1>1, <1>4, <1>7 DEF D
<1>14. Ended'
  BY <1>5 DEF Ended
<1> QED BY <1>8, <1>9, <1>10, <1>11, <1>12, <1>13, <1>14 DEF Inv

\* A sector moves the command of a drive that is ready on, and no other.
LEMMA MovingOn ==
  ASSUME Types, SELECTED \in Drives, D.state = "ready", NEW op \in {"read", "write"}
  PROVE  /\ MovedOn(op) \in [state : States, doing : Commands, sectors : Surface(SELECTED)]
         /\ MovedOn(op).sectors = D.sectors
         /\ D.doing.op # op => MovedOn(op) = D
         /\ D.doing.op = op =>
              /\ MovedOn(op).state = IF D.doing.left - 1 = 0 /\ op = "read" THEN "idle" ELSE "busy"
              /\ ~(D.doing.left - 1 = 0 /\ op = "read") =>
                   MovedOn(op).doing = Command(op, D.doing.lba + 1, D.doing.left - 1)
<1>1. D \in [state : States, doing : Commands, sectors : Surface(SELECTED)]
  BY Selected
<1> DEFINE ends == D.doing.left - 1 = 0 /\ op = "read"
           st == IF ends THEN "idle" ELSE "busy"
           c == IF ends THEN NoCommand ELSE Command(op, D.doing.lba + 1, D.doing.left - 1)
<1>2. CASE D.doing.op # op
  BY <1>1, <1>2 DEF MovedOn
<1>3. CASE D.doing.op = op
  <2>1. MovedOn(op) = [D EXCEPT !.state = st, !.doing = c]
    BY <1>3 DEF MovedOn
  <2>2. D.doing \in Commands
    BY <1>1
  <2>3. D.doing.lba \in Int /\ D.doing.left \in Int
    BY <2>2 DEF Commands
  <2>4. NoCommand \in Commands /\ Command(op, D.doing.lba + 1, D.doing.left - 1) \in Commands
    BY <2>3 DEF NoCommand, Command, Commands
  <2>5. c \in Commands /\ st \in States
    BY <2>4 DEF States
  <2>6. st = (IF ends THEN "idle" ELSE "busy") /\ (~ends => c = Command(op, D.doing.lba + 1, D.doing.left - 1))
    OBVIOUS
  <2> HIDE DEF st, c
  <2>7. /\ MovedOn(op) \in [state : States, doing : Commands, sectors : Surface(SELECTED)]
        /\ MovedOn(op).sectors = D.sectors /\ MovedOn(op).state = st /\ MovedOn(op).doing = c
    BY <1>1, <2>1, <2>5
  <2> QED BY <1>3, <2>6, <2>7
<1> QED BY <1>2, <1>3

\* A sector is read from the data port.
LEMMA ReadSectorStep ==
  ASSUME DriveSizes, Inv, ReadSector
  PROVE  Inv'
<1> DEFINE m == MovedOn("read")
           buf == Append(call.buf, Given)
           L == Len(call.buf)
<1>1. /\ call.at = "sector" /\ call.op = "read" /\ D.state = "ready"
      /\ drive' = [drive EXCEPT ![SELECTED] = m]
      /\ IF Len(buf) < call.n
         THEN call' = [call EXCEPT !.buf = buf] /\ UNCHANGED got
         ELSE call' = Idle /\ got' = [ok |-> TRUE, call |-> [call EXCEPT !.buf = buf], unheard |-> unheard]
      /\ UNCHANGED <<platter, SELECTED, SECTORS, calls, unheard>>
  BY DEF ReadSector, DataReady
<1>2. Types /\ InRange /\ call \in Calls
  BY DEF Inv, Types
<1>3. SELECTED \in Drives /\ SELECTED = call.drive /\ L < call.n
  BY <1>1 DEF Inv, Progress
<1>4. D \in [state : States, doing : Commands, sectors : Surface(SELECTED)]
  BY <1>2, <1>3, Selected
<1>5. /\ m \in [state : States, doing : Commands, sectors : Surface(SELECTED)]
      /\ m.sectors = D.sectors
      /\ D.doing.op # "read" => m = D
      /\ D.doing.op = "read" =>
           /\ m.state = IF D.doing.left - 1 = 0 THEN "idle" ELSE "busy"
           /\ D.doing.left - 1 # 0 => m.doing = Command("read", D.doing.lba + 1, D.doing.left - 1)
  BY <1>1, <1>2, <1>3, MovingOn
<1>6. Given \in Values
  <2>1. Junk \in Values
    BY DEF Junk, Values
  <2>2. CASE D.doing.op = "read"
    <3>1. D.doing.lba \in Lbas(SELECTED)
      BY <1>1, <1>2, <1>3, <2>2 DEF InRange, D
    <3>2. D.sectors \in [Lbas(SELECTED) -> Values]
      BY <1>4 DEF Surface
    <3> QED BY <1>1, <2>2, <3>1, <3>2 DEF Given
  <2> QED BY <2>1, <2>2 DEF Given
<1>7. call.buf \in Seq(Values) /\ L \in Nat /\ call.n \in Int /\ call.lba \in Int
  BY <1>2 DEF Calls
<1> DEFINE g == Given
<1>8. g \in Values /\ buf = Append(call.buf, g)
  BY <1>6
<1> HIDE DEF m, g, L
<1>9. /\ buf \in Seq(Values) /\ Len(buf) = L + 1
      /\ \A i \in 1 .. L : buf[i] = call.buf[i]
      /\ buf[L + 1] = g
  BY <1>7, <1>8 DEF L
<1>10. /\ drive' \in [Drives -> [state : States, doing : Commands, sectors : Surfaces]]
       /\ \A e \in Drives : drive'[e].sectors \in Surface(e)
       /\ drive'[SELECTED] = m /\ \A e \in Drives : e # SELECTED => drive'[e] = drive[e]
  BY <1>1, <1>2, <1>3, <1>5, OneDrive
<1> HIDE DEF buf
<1> DEFINE full == [call EXCEPT !.buf = buf]
<1>11. /\ full \in Calls /\ full.at = "sector" /\ full.op = "read" /\ full.drive = SELECTED
       /\ full.n = call.n /\ full.buf = buf /\ full.lba = call.lba
  BY <1>1, <1>2, <1>3, <1>9 DEF Calls
<1> HIDE DEF full
<1>12. call' = full \/ call' = Idle
  BY <1>1 DEF full
<1>13. Types'
  <2>1. call' \in Calls
    BY <1>11, <1>12, IdleCall
  <2>2. got' \in [ok : BOOLEAN, call : Calls, unheard : BOOLEAN]
    <3>1. got \in [ok : BOOLEAN, call : Calls, unheard : BOOLEAN] /\ unheard \in BOOLEAN
      BY <1>2 DEF Types
    <3>2. [ok |-> TRUE, call |-> full, unheard |-> unheard] \in [ok : BOOLEAN, call : Calls, unheard : BOOLEAN]
      BY <1>11, <3>1
    <3>3. got' = got \/ got' = [ok |-> TRUE, call |-> full, unheard |-> unheard]
      BY <1>1 DEF full
    <3> QED BY <3>1, <3>2, <3>3
  <2> QED BY <1>1, <1>2, <1>10, <2>1, <2>2 DEF Types
<1>14. InRange'
  <2>1. \A e \in Drives : drive'[e].state = "ready" => drive'[e] = drive[e]
    BY <1>1, <1>3, <1>5, <1>10 DEF D
  <2> QED BY <1>2, <2>1 DEF InRange
<1>15. ASSUME ~unheard
       PROVE  /\ D.doing = Command("read", call.lba + L, call.n - L)
              /\ \A i \in 1 .. L + 1 : buf[i] = D.sectors[call.lba + i - 1]
              /\ D.doing.op = "read" /\ D.doing.lba = call.lba + L /\ D.doing.left = call.n - L
  <2>1. /\ D.doing = Command("read", call.lba + L, call.n - L)
        /\ \A i \in 1 .. L : call.buf[i] = D.sectors[call.lba + i - 1]
    BY <1>1, <1>15 DEF Inv, Reading, L
  <2>2. D.doing.op = "read" /\ D.doing.lba = call.lba + L /\ D.doing.left = call.n - L
    BY <2>1 DEF Command
  <2>3. g = D.sectors[call.lba + L]
    BY <1>1, <2>2 DEF g, Given
  <2>4. ASSUME NEW i \in 1 .. L + 1 PROVE buf[i] = D.sectors[call.lba + i - 1]
    <3>1. CASE i \in 1 .. L
      BY <1>9, <2>1, <3>1
    <3>2. CASE i = L + 1
      <4>1. call.lba + i - 1 = call.lba + L
        BY <1>7, <3>2 DEF L
      <4> QED BY <1>9, <2>3, <3>2, <4>1
    <3> QED BY <1>7, <3>1, <3>2 DEF L
  <2> QED BY <2>1, <2>2, <2>4
<1>16. D' = m
  BY <1>1, <1>10 DEF D
<1>17. L \in Nat
  BY <1>7 DEF L
<1>18. CASE Len(buf) < call.n
  <2>1. call' = full /\ got' = got
    BY <1>1, <1>18 DEF full
  <2>2. Progress'
    BY <1>1, <1>3, <1>11, <1>18, <2>1 DEF Progress
  <2>3. Reading'
    <3> SUFFICES ASSUME ~unheard
                 PROVE  /\ D'.state \in {"busy", "ready"} =>
                             D'.doing = Command("read", call.lba + Len(buf), call.n - Len(buf))
                        /\ \A i \in 1 .. Len(buf) : buf[i] = D'.sectors[call.lba + i - 1]
      BY <1>1, <1>11, <2>1 DEF Reading
    <3>1. /\ D.doing.op = "read" /\ D.doing.lba = call.lba + L /\ D.doing.left = call.n - L
          /\ \A i \in 1 .. L + 1 : buf[i] = D.sectors[call.lba + i - 1]
      BY <1>15
    <3>2. D.doing.left - 1 # 0
      BY <1>7, <1>9, <1>17, <1>18, <3>1
    <3>3. m.doing = Command("read", D.doing.lba + 1, D.doing.left - 1)
      BY <1>5, <3>1, <3>2
    <3>4. D.doing.lba + 1 = call.lba + Len(buf) /\ D.doing.left - 1 = call.n - Len(buf)
      BY <1>7, <1>9, <1>17, <3>1
    <3> QED BY <1>5, <1>9, <1>16, <3>1, <3>3, <3>4
  <2>4. Writing' /\ Identifying' /\ Ended'
    BY <1>11, <2>1 DEF Writing, Identifying, Ended
  <2> QED BY <1>13, <1>14, <2>2, <2>3, <2>4 DEF Inv
<1>19. CASE ~(Len(buf) < call.n)
  <2>1. call' = Idle /\ got' = [ok |-> TRUE, call |-> full, unheard |-> unheard]
    BY <1>1, <1>19 DEF full
  <2>2. Progress' /\ Reading' /\ Writing' /\ Identifying'
    BY <2>1, IdleCall DEF Progress, Reading, Writing, Identifying
  <2>3. Ended'
    <3> SUFFICES ASSUME ~unheard
                 PROVE  \A i \in 1 .. call.n : buf[i] = drive'[SELECTED].sectors[call.lba + i - 1]
      BY <1>3, <1>11, <2>1 DEF Ended
    <3>1. \A i \in 1 .. L + 1 : buf[i] = D.sectors[call.lba + i - 1]
      BY <1>15
    <3>2. call.n = L + 1
      BY <1>3, <1>7, <1>9, <1>17, <1>19
    <3> QED BY <1>5, <1>10, <3>1, <3>2
  <2> QED BY <1>13, <1>14, <2>2, <2>3 DEF Inv
<1> QED BY <1>18, <1>19

\* A sector is written to the data port.
LEMMA WriteSectorStep ==
  ASSUME DriveSizes, Inv, WriteSector
  PROVE  Inv'
<1> DEFINE k == Len(call.buf) - call.n
           x == call.buf[k + 1]
           m == Taken(x)
<1>1. /\ call.at = "sector" /\ call.op = "write" /\ D.state = "ready"
      /\ drive' = [drive EXCEPT ![SELECTED] = m]
      /\ call' = [call EXCEPT !.n = @ - 1, !.at = IF call.n = 1 THEN "flush" ELSE "sector"]
      /\ UNCHANGED <<platter, SELECTED, SECTORS, calls, unheard, got>>
  BY DEF WriteSector, DataReady
<1>2. Types /\ InRange /\ call \in Calls
  BY DEF Inv, Types
<1>3. SELECTED \in Drives /\ SELECTED = call.drive /\ call.n \in 1 .. Len(call.buf)
  BY <1>1, <1>2 DEF Inv, Progress, Calls
<1>4. D \in [state : States, doing : Commands, sectors : Surface(SELECTED)]
  BY <1>2, <1>3, Selected
<1>5. call.buf \in Seq(Values) /\ Len(call.buf) \in Nat /\ call.n \in Nat \ {0} /\ call.lba \in Int
  BY <1>2, <1>3 DEF Calls
<1>6. k \in Nat /\ k + 1 \in 1 .. Len(call.buf) /\ x \in Values
  BY <1>3, <1>5
<1> HIDE DEF k, x, m
<1>7. /\ MovedOn("write") \in [state : States, doing : Commands, sectors : Surface(SELECTED)]
      /\ MovedOn("write").sectors = D.sectors
      /\ D.doing.op = "write" =>
           /\ MovedOn("write").state = "busy"
           /\ MovedOn("write").doing = Command("write", D.doing.lba + 1, D.doing.left - 1)
  BY <1>1, <1>2, <1>3, MovingOn
<1>8. /\ m \in [state : States, doing : Commands, sectors : Surface(SELECTED)]
      /\ m.state = "ready" => m = D
      /\ D.doing.op = "write" =>
           /\ D.doing.lba \in Lbas(SELECTED)
           /\ m.sectors = [D.sectors EXCEPT ![D.doing.lba] = x]
           /\ m.doing = Command("write", D.doing.lba + 1, D.doing.left - 1)
  <2>1. CASE D.doing.op = "write"
    <3>1. m = [MovedOn("write") EXCEPT !.sectors[D.doing.lba] = x]
      BY <1>1, <2>1 DEF m, Taken
    <3>2. D.doing.lba \in Lbas(SELECTED)
      BY <1>1, <1>2, <1>3, <2>1 DEF InRange, D
    <3> DEFINE surface == [D.sectors EXCEPT ![D.doing.lba] = x]
    <3>3. surface \in Surface(SELECTED)
      BY <1>4, <1>6, <3>2 DEF Surface
    <3>4. m = [MovedOn("write") EXCEPT !.sectors = surface]
      BY <1>7, <3>1
    <3> HIDE DEF surface
    <3>5. /\ m \in [state : States, doing : Commands, sectors : Surface(SELECTED)] /\ m.sectors = surface
          /\ m.state = "busy" /\ m.doing = Command("write", D.doing.lba + 1, D.doing.left - 1)
      BY <1>7, <2>1, <3>3, <3>4
    <3> QED BY <3>2, <3>5 DEF surface
  <2>2. CASE D.doing.op # "write"
    BY <1>4, <2>2 DEF m, Taken
  <2> QED BY <2>1, <2>2
<1>9. /\ drive' \in [Drives -> [state : States, doing : Commands, sectors : Surfaces]]
      /\ \A e \in Drives : drive'[e].sectors \in Surface(e)
      /\ drive'[SELECTED] = m /\ \A e \in Drives : e # SELECTED => drive'[e] = drive[e]
  BY <1>1, <1>2, <1>3, <1>8, OneDrive
<1>10. /\ call' \in Calls /\ call'.op = "write" /\ call'.drive = call.drive /\ call'.lba = call.lba
       /\ call'.buf = call.buf /\ call'.n = call.n - 1
       /\ call'.at = IF call.n = 1 THEN "flush" ELSE "sector"
  <2> DEFINE at == IF call.n = 1 THEN "flush" ELSE "sector"
  <2>1. call' = [call EXCEPT !.n = call.n - 1, !.at = at]
    BY <1>1
  <2>2. at \in {"flush", "sector"}
    OBVIOUS
  <2> HIDE DEF at
  <2>3. call.n - 1 \in Int
    BY <1>5
  <2>4. call = [op |-> call.op, drive |-> call.drive, lba |-> call.lba, n |-> call.n, buf |-> call.buf, at |-> call.at]
    BY <1>2 DEF Calls
  <2>5. call' = [op |-> "write", drive |-> call.drive, lba |-> call.lba, n |-> call.n - 1, buf |-> call.buf, at |-> at]
    BY <1>1, <2>1, <2>4
  <2>6. call.drive \in Drives \cup {None} /\ call.lba \in Int /\ call.buf \in Seq(Values)
    BY <1>2 DEF Calls
  <2>7. call' \in Calls
    BY <2>2, <2>3, <2>5, <2>6 DEF Calls
  <2> QED BY <2>5, <2>7 DEF at
<1>11. Types'
  BY <1>1, <1>2, <1>9, <1>10 DEF Types
<1>12. InRange'
  <2>1. \A e \in Drives : drive'[e].state = "ready" => drive'[e] = drive[e]
    BY <1>8, <1>9 DEF D
  <2> QED BY <1>2, <2>1 DEF InRange
<1>13. Progress'
  <2>1. call.n - 1 \in 0 .. Len(call.buf) /\ (call.n = 1 <=> call.n - 1 = 0)
    BY <1>3, <1>5
  <2> QED BY <1>1, <1>3, <1>10, <2>1 DEF Progress
<1>14. Writing'
  <2> SUFFICES ASSUME ~unheard
               PROVE  /\ D'.doing = Command("write", call.lba + Len(call.buf) - (call.n - 1), call.n - 1)
                      /\ \A i \in 1 .. Len(call.buf) - (call.n - 1) : D'.sectors[call.lba + i - 1] = call.buf[i]
    BY <1>1, <1>10 DEF Writing
  <2>1. /\ D.doing = Command("write", call.lba + Len(call.buf) - call.n, call.n)
        /\ \A i \in 1 .. k : D.sectors[call.lba + i - 1] = call.buf[i]
    BY <1>1 DEF Inv, Writing, k
  <2>2. D.doing.op = "write" /\ D.doing.lba = call.lba + Len(call.buf) - call.n /\ D.doing.left = call.n
    BY <2>1 DEF Command
  <2>3. D' = m
    BY <1>1, <1>9 DEF D
  <2>4. D.doing.lba = call.lba + k /\ D.doing.lba + 1 = call.lba + Len(call.buf) - (call.n - 1)
    BY <1>5, <2>2 DEF k
  <2>5. ASSUME NEW i \in 1 .. k + 1 PROVE m.sectors[call.lba + i - 1] = call.buf[i]
    <3>1. m.sectors = [D.sectors EXCEPT ![call.lba + k] = x] /\ call.lba + k \in Lbas(SELECTED)
      BY <1>8, <2>2, <2>4
    <3>2. D.sectors \in [Lbas(SELECTED) -> Values]
      BY <1>4 DEF Surface
    <3>3. CASE i = k + 1
      <4>1. call.lba + i - 1 = call.lba + k
        BY <1>5, <1>6, <3>3
      <4> QED BY <3>1, <3>2, <3>3, <4>1 DEF x
    <3>4. CASE i # k + 1
      <4>1. i \in 1 .. k /\ call.lba + i - 1 # call.lba + k
        BY <1>5, <1>6, <3>4
      <4>2. D.sectors[call.lba + i - 1] = call.buf[i]
        BY <2>1, <4>1
      <4> QED BY <3>1, <3>2, <4>1, <4>2
    <3> QED BY <3>3, <3>4
  <2>6. Len(call.buf) - (call.n - 1) = k + 1
    BY <1>5 DEF k
  <2> QED BY <1>8, <2>2, <2>3, <2>4, <2>5, <2>6
<1>15. Reading' /\ Identifying' /\ Ended'
  BY <1>10 DEF Reading, Identifying, Ended
<1> QED BY <1>11, <1>12, <1>13, <1>14, <1>15 DEF Inv

\* flush_cache is sent.
LEMMA FlushCacheStep ==
  ASSUME Inv, FlushCache
  PROVE  Inv'
<1> DEFINE cmd == Command("flush", 0, 0)
<1>1. /\ call.at = "flush" /\ Issue(cmd) /\ call' = [call EXCEPT !.at = "flushed"]
      /\ UNCHANGED <<platter, SELECTED, SECTORS, calls, got>>
  BY DEF FlushCache, Flush, Goto
<1>2. Types /\ InRange /\ call \in Calls
  BY DEF Inv, Types
<1>3. SELECTED \in Drives /\ SELECTED = call.drive /\ call.op = "write" /\ call.n = 0
  BY <1>1 DEF Inv, Progress
<1>4. cmd \in Commands /\ cmd.op = "flush"
  BY DEF Commands, Command
<1>5. /\ call' \in Calls /\ call'.at = "flushed" /\ call'.op = call.op /\ call'.drive = call.drive
      /\ call'.n = call.n /\ call'.buf = call.buf /\ call'.lba = call.lba
  BY <1>1, <1>2 DEF Calls
<1> HIDE DEF cmd
<1>6. /\ drive' \in [Drives -> [state : States, doing : Commands, sectors : Surfaces]]
      /\ \A e \in Drives : drive'[e].sectors = drive[e].sectors
      /\ \A e \in Drives : drive'[e].state = "ready" => drive'[e] = drive[e]
      /\ unheard' \in BOOLEAN /\ (~unheard' => ~unheard)
      /\ ~unheard' => drive'[SELECTED].state = "busy" /\ drive'[SELECTED].doing = cmd
  BY <1>1, <1>2, <1>3, <1>4, Issued
<1>7. Types'
  BY <1>1, <1>2, <1>5, <1>6 DEF Types
<1>8. InRange'
  BY <1>2, <1>6 DEF InRange
<1>9. Progress'
  BY <1>1, <1>3, <1>5 DEF Inv, Progress
<1>10. Writing'
  <2> SUFFICES ASSUME ~unheard'
               PROVE  /\ \A i \in 1 .. Len(call.buf) - call.n : D'.sectors[call.lba + i - 1] = call.buf[i]
                      /\ D'.state = "busy" /\ D'.doing.op = "flush"
    BY <1>5 DEF Writing
  <2>1. ~unheard
    BY <1>6
  <2>2. \A i \in 1 .. Len(call.buf) - call.n : D.sectors[call.lba + i - 1] = call.buf[i]
    BY <1>1, <1>3, <2>1 DEF Inv, Writing
  <2>3. D'.sectors = D.sectors /\ D'.state = "busy" /\ D'.doing = cmd
    BY <1>1, <1>3, <1>6 DEF D
  <2> QED BY <1>4, <2>2, <2>3
<1>11. Reading' /\ Identifying' /\ Ended'
  BY <1>3, <1>5 DEF Reading, Identifying, Ended
<1> QED BY <1>7, <1>8, <1>9, <1>10, <1>11 DEF Inv

\* flush_cache has waited.
LEMMA FlushedStep ==
  ASSUME Inv, Flushed
  PROVE  Inv'
<1>1. /\ call.at = "flushed" /\ D.state # "busy" /\ Ends(D.state # "error")
      /\ UNCHANGED <<drive, platter, SELECTED, SECTORS, calls, unheard>>
  BY DEF Flushed
<1>2. Types /\ call \in Calls
  BY DEF Inv, Types
<1>3. SELECTED \in Drives /\ SELECTED = call.drive /\ call.op = "write" /\ call.n = 0
  BY <1>1 DEF Inv, Progress
<1>4. CASE D.state = "error"
  <2>1. Ends(FALSE)
    BY <1>1, <1>4
  <2> QED BY <1>1, <2>1, EndsBadly
<1>5. CASE D.state # "error"
  <2>1. call' = Idle /\ got' = [ok |-> TRUE, call |-> call, unheard |-> unheard]
    BY <1>1, <1>5 DEF Ends
  <2>2. Types'
    BY <1>1, <1>2, <2>1, IdleCall DEF Types
  <2>3. InRange'
    BY <1>1 DEF Inv, InRange
  <2>4. Progress' /\ Reading' /\ Writing' /\ Identifying'
    BY <2>1, IdleCall DEF Progress, Reading, Writing, Identifying
  <2>5. Ended'
    <3> SUFFICES ASSUME ~unheard
                 PROVE  \A i \in DOMAIN call.buf :
                          /\ drive[SELECTED].sectors[call.lba + i - 1] = call.buf[i]
                          /\ platter[SELECTED][call.lba + i - 1] = call.buf[i]
      BY <1>1, <1>3, <2>1 DEF Ended
    <3>1. D.state = "idle"
      <4>1. D.state \in States
        BY <1>2, <1>3 DEF Types, D
      <4>2. D.state # "ready"
        BY <1>1, <1>3 DEF Inv, Writing
      <4> QED BY <1>1, <1>5, <4>1, <4>2 DEF States
    <3>2. platter[SELECTED] = D.sectors
      BY <1>1, <1>3, <3>1 DEF Inv, Writing
    <3>3. \A i \in 1 .. Len(call.buf) - call.n : D.sectors[call.lba + i - 1] = call.buf[i]
      BY <1>1, <1>3 DEF Inv, Writing
    <3>4. DOMAIN call.buf = 1 .. Len(call.buf) - call.n
      <4>1. call.buf \in Seq(Values)
        BY <1>2 DEF Calls
      <4> QED BY <1>3, <4>1
    <3> QED BY <3>2, <3>3, <3>4 DEF D
  <2> QED BY <2>2, <2>3, <2>4, <2>5 DEF Inv
<1> QED BY <1>4, <1>5

\* The identity is read from the data port.
LEMMA ReadIdentityStep ==
  ASSUME DriveSizes, Inv, ReadIdentity
  PROVE  Inv'
<1> DEFINE size == IF D.doing.op = "identify" THEN Capacity[call.drive] ELSE Capacity[call.drive] + 1
           m == IF D.doing.op = "identify" THEN [D EXCEPT !.state = "idle", !.doing = NoCommand] ELSE MovedOn("read")
<1>1. /\ call.at = "sector" /\ call.op = "identify" /\ D.state = "ready"
      /\ SECTORS' = [SECTORS EXCEPT ![call.drive] = size]
      /\ Ends(TRUE) /\ UNCHANGED <<platter, SELECTED, calls, unheard>>
  BY DEF ReadIdentity, DataReady
<1>2. Types /\ InRange /\ call \in Calls
  BY DEF Inv, Types
<1>3. SELECTED \in Drives /\ SELECTED = call.drive
  BY <1>1 DEF Inv, Progress
<1>4. D \in [state : States, doing : Commands, sectors : Surface(SELECTED)] /\ D = drive[SELECTED]
  BY <1>2, <1>3, Selected DEF D
<1>5. drive' = [drive EXCEPT ![SELECTED] = m]
  <2>1. CASE D.doing.op = "identify"
    <3>1. drive' = [drive EXCEPT ![SELECTED].state = "idle", ![SELECTED].doing = NoCommand]
      BY <2>1 DEF ReadIdentity, Becomes
    <3>2. drive \in [Drives -> [state : States, doing : Commands, sectors : Surfaces]]
      BY <1>2 DEF Types
    <3> QED BY <1>3, <1>4, <2>1, <3>1, <3>2
  <2>2. CASE D.doing.op # "identify"
    BY <2>2 DEF ReadIdentity
  <2> QED BY <2>1, <2>2
<1>6. m \in [state : States, doing : Commands, sectors : Surface(SELECTED)] /\ (m.state = "ready" => m = D)
  <2>1. CASE D.doing.op = "identify"
    <3>1. m = [D EXCEPT !.state = "idle", !.doing = NoCommand]
      BY <2>1
    <3>2. NoCommand \in Commands /\ "idle" \in States
      BY DEF NoCommand, Command, Commands, States
    <3> QED BY <1>4, <3>1, <3>2
  <2>2. CASE D.doing.op # "identify"
    <3>1. m = MovedOn("read")
      BY <2>2
    <3> HIDE DEF m
    <3> QED BY <1>1, <1>2, <1>3, <3>1, MovingOn
  <2> QED BY <2>1, <2>2
<1> HIDE DEF m, size
<1>7. /\ drive' \in [Drives -> [state : States, doing : Commands, sectors : Surfaces]]
      /\ \A e \in Drives : drive'[e].sectors \in Surface(e)
      /\ drive'[SELECTED] = m /\ \A e \in Drives : e # SELECTED => drive'[e] = drive[e]
  BY <1>2, <1>3, <1>5, <1>6, OneDrive
<1>8. call' = Idle /\ got' = [ok |-> TRUE, call |-> call, unheard |-> unheard]
  BY <1>1 DEF Ends
<1>9. Types'
  <2>1. SECTORS' \in [Drives -> Int]
    <3>1. Capacity[call.drive] \in Nat
      BY <1>3 DEF DriveSizes
    <3>2. size \in Int
      BY <3>1 DEF size
    <3> QED BY <1>1, <1>2, <3>2 DEF Types
  <2>2. got' \in [ok : BOOLEAN, call : Calls, unheard : BOOLEAN]
    BY <1>2, <1>8 DEF Types
  <2> QED BY <1>1, <1>2, <1>7, <1>8, <2>1, <2>2, IdleCall DEF Types
<1>10. InRange'
  <2>1. \A e \in Drives : drive'[e].state = "ready" => drive'[e] = drive[e]
    BY <1>4, <1>6, <1>7
  <2> QED BY <1>2, <2>1 DEF InRange
<1>11. Progress' /\ Reading' /\ Writing' /\ Identifying'
  BY <1>8, IdleCall DEF Progress, Reading, Writing, Identifying
<1>12. Ended'
  <2> SUFFICES ASSUME ~unheard PROVE SECTORS'[SELECTED] = Capacity[SELECTED]
    BY <1>1, <1>3, <1>8 DEF Ended
  <2>1. D.doing.op = "identify"
    BY <1>1 DEF Inv, Identifying
  <2> QED BY <1>1, <1>2, <1>3, <2>1 DEF Types, size
<1> QED BY <1>9, <1>10, <1>11, <1>12 DEF Inv

\* Every step keeps the invariant.
LEMMA StepInv ==
  ASSUME DriveSizes, Inv, [Next]_vars
  PROVE  Inv'
<1>1. ASSUME NEW d \in Drives, Works(d) \/ Fails(d) \/ Identify(d) PROVE Inv'
  BY <1>1, DrivesWork, IdentifyStep
<1>2. ASSUME NEW d \in Drives, NEW lba \in 0 .. 2, NEW n \in 1 .. 2,
             Start("read", d, lba, n) \/ Start("write", d, lba, n)
      PROVE  Inv'
  BY <1>2, StartStep
<1>3. CASE ReportsError \/ GivesUp
  <2>1. UNCHANGED <<drive, platter, SECTORS, calls, unheard>> /\ Ends(FALSE)
    BY <1>3 DEF ReportsError, GivesUp
  <2> QED BY <2>1, EndsBadly
<1>4. CASE UNCHANGED vars
  BY <1>4 DEF vars, Inv, Types, InRange, Progress, Reading, Writing, Identifying, Ended, D
<1> QED BY <1>1, <1>2, <1>3, <1>4, NotBusyStep, IssueCommandStep, ReadSectorStep, WriteSectorStep, FlushCacheStep,
           FlushedStep, ReadIdentityStep DEF Next

\* No call is under way at the start.
LEMMA InitInv ==
  ASSUME DriveSizes, Init
  PROVE  Inv
<1>1. /\ drive = [d \in Drives |-> [state |-> "idle", doing |-> NoCommand, sectors |-> [l \in Lbas(d) |-> Blank]]]
      /\ platter = [d \in Drives |-> drive[d].sectors] /\ SECTORS = [d \in Drives |-> 0]
      /\ call = Idle /\ calls = 0 /\ got = Nothing
  BY DEF Init
<1>2. unheard \in BOOLEAN
  BY DEF Init
<1>3. \A d \in Drives : [l \in Lbas(d) |-> Blank] \in Surface(d) /\ [l \in Lbas(d) |-> Blank] \in Surfaces
  BY DEF Surface, Surfaces, Blank, Values
<1>4. NoCommand \in Commands /\ "idle" \in States
  BY DEF NoCommand, Command, Commands, States
<1>5. got \in [ok : BOOLEAN, call : Calls, unheard : BOOLEAN]
  BY <1>1, IdleCall DEF Nothing
<1>6. /\ drive \in [Drives -> [state : States, doing : Commands, sectors : Surfaces]]
      /\ \A d \in Drives : drive[d].sectors \in Surface(d) /\ drive[d].sectors \in Surfaces /\ drive[d].state = "idle"
  BY <1>1, <1>3, <1>4
<1>7. Types
  BY <1>1, <1>2, <1>5, <1>6, IdleCall DEF Types
<1>8. InRange
  BY <1>6 DEF InRange
<1>9. Progress /\ Reading /\ Writing /\ Identifying
  BY <1>1, IdleCall DEF Progress, Reading, Writing, Identifying
<1>10. Ended
  BY <1>1 DEF Ended, Nothing
<1> QED BY <1>7, <1>8, <1>9, <1>10 DEF Inv

\* The invariant gives both properties.
LEMMA InvImplies ==
  ASSUME Inv
  PROVE  MovesWhatWasAsked /\ WrittenIsOnThePlatter
BY IdleCall DEF Inv, Ended, MovesWhatWasAsked, WrittenIsOnThePlatter

(* Whatever the drives are at, however slow they are and whatever was given  *)
(* up on before: a transfer that ends well moved the sectors it was asked    *)
(* for, and what it wrote is on the platter, for any drives, unless a        *)
(* command was not heard (read_sectors, write_sectors, flush_cache).         *)
THEOREM TransfersAreTrue ==
  ASSUME DriveSizes
  PROVE  Spec => [](MovesWhatWasAsked /\ WrittenIsOnThePlatter)
<1>1. Init => Inv
  BY InitInv
<1>2. Inv /\ [Next]_vars => Inv'
  BY StepInv
<1>3. Inv => MovesWhatWasAsked /\ WrittenIsOnThePlatter
  BY InvImplies
<1> QED BY <1>1, <1>2, <1>3, PTL DEF Spec

=============================================================================
