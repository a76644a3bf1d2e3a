------------------------------ MODULE MCServices ------------------------------
(***************************************************************************)
(* The network card, the stack above it and its clients, the volumes       *)
(* beside the data disk, and the machine's screen and input.  They keep no *)
(* state in common and are checked in one run: a behaviour belongs to one  *)
(* part, and the variables of the others stay as they were at the start.   *)
(* The screen is 4 by 10 pixels: two rows of two characters, a button and  *)
(* a status bar below them, and a pointer of 2 by 2 pixels.                *)
(***************************************************************************)
CONSTANTS
  NUM_RX_DESC, NUM_TX_DESC, MaxRx, MaxTx,
  Local, Remote, Gateway, Seqs, MAX_ENTRIES, MAX_REPLIES, ArpTries, MaxArrivals, MaxPings,
  Names, Servers, None, MAX_QUEUED, DhcpTries, DnsTries, MaxTick, MaxCalls,
  MaxFragments, MaxPieces, MaxData, MaxExtras,
  Sites, MAX_REDIRECTS, MaxFetches,
  FileNames, Dirs, LastCluster, SLOTS, MaxLen, MaxFatCalls,
  N, MaxTag,
  Root, Parts, Sizes, MAX_RAM_BYTES, DownloadNames, MaxSaves,
  Glyphs, MaxTyped, MaxEvents,
  Keys, HAS_WHEEL, MaxQueue,
  MAX_DEVICES, MaxFaults, MaxUnplugs

VARIABLES
  part,
  rx, rdh, rdt, rx_cur, receiving, arrived, handed, tx, tdh, tdt, tx_cur, waiting, onWire, told,
  stack, ring, arp, replies, arrivals, pings, heard, result,
  tick, config, bound, queue, cache, call, wire, calls, committed, clash,
  sent, flight, flown, seq, extras, got, read, phase, hs, transcript, opened, data, excuse,
  at, url, hops, open, answer, fetched, source, fetches,
  vol, kept, full, fatCalls,
  host, saved, dev, done, ok,
  dirs, files, given, saves,
  writer, front, frame, gui, top, lit, GUI_DIRTY, events, typed, hovered, scene, clean,
  pass, EVENT_QUEUE, prev_left, prev_right, desktop, BTN_LEFT, BTN_RIGHT, PACKET_INDEX, flags,
  CTRL_HELD, prev_kbd, REPEAT_CODE, pending, said,
  bus, next_addr, devices, msc, ports_seen, work, lost, faults, unplugs,
  drive, platter, SELECTED, SECTORS, ataCall, ataCalls, unheard, moved,
  disks, stick, fresh, mounted, wizard, copy, warned, boots, fileSaves,
  cycles, chip, measured, CYCLES_PER_TICK, EPOCH, SYNCED, BASE_MILLIS, BASE_TICKS, asked,
  stated, back, accepted

Card == INSTANCE E1000
Stack == INSTANCE Net WITH Tries <- ArpTries
Clients == INSTANCE NetClients
Secure == INSTANCE Tls
Web == INSTANCE Http WITH result <- fetched
Stick == INSTANCE Fat32 WITH Names <- FileNames, MaxCalls <- MaxFatCalls, calls <- fatCalls
Bulk == INSTANCE Usb
Ram == INSTANCE RamLayer WITH Tries <- DownloadNames
Keyboards == INSTANCE Input WITH gui <- desktop

Box(x, y, w, h) == [x |-> x, y |-> y, w |-> w, h |-> h]
Display == INSTANCE Screen WITH
  at <- frame,
  Width <- 4, Height <- 10, MARGIN <- 1, CHAR_WIDTH <- 1, ROW_HEIGHT <- 2,
  BOTTOM_RESERVED <- 5, CARET_ROWS <- 1, MOUSE_WIDTH <- 2, MOUSE_HEIGHT <- 2,
  Sprite <- {<<0, 0>>, <<0, 1>>, <<1, 1>>},
  Positions <- {<<1, 1>>, <<2, 5>>},
  Lines <- {<<>>},
  Button <- Box(1, 5, 2, 1),
  Taskbar <- Box(0, 9, 4, 1),
  Windows <- {[box |-> Box(0, 1, 3, 3), button |-> Box(1, 1, 1, 1)],
              [box |-> Box(1, 3, 3, 4), button |-> Box(2, 5, 1, 1)]}

Ports == INSTANCE Uhci WITH
  MAX_PORTS <- 2, HubPorts <- 2,
  Kind <- [hub |-> "hub", keyboard |-> "hid", drive |-> "drive", mouse |-> "hid"],
  Port <- [hub |-> [on |-> "root", n |-> 1], mouse |-> [on |-> "root", n |-> 2],
           keyboard |-> [on |-> "hub", n |-> 1], drive |-> [on |-> "hub", n |-> 2]]

Channel == INSTANCE Ata WITH
  call <- ataCall, calls <- ataCalls, got <- moved,
  Capacity <- [master |-> 2, slave |-> 2], MAX_SECTORS <- 2, MaxCalls <- 3

Setup == INSTANCE Installer WITH
  saves <- fileSaves,
  DataDisks <- {<<>>, <<"other">>, <<"fs", "file", "file">>},
  Sticks <- {<<"fat", "file">>, <<"mbr", "body">>},
  MaxBoots <- 2, MaxSaves <- 1

Stamp(year, month, day, hour, minute, second) ==
  [year |-> year, month |-> month, day |-> day, hour |-> hour, minute |-> minute,
   second |-> second]
Chip(start, offset, binary, hours24) ==
  [start |-> start, offset |-> offset, binary |-> binary, hours24 |-> hours24, there |-> TRUE]
Time == INSTANCE Clock WITH
  Chips <- {Chip(Stamp(99, 12, 31, 23, 59, 58), 0, FALSE, TRUE),
            Chip(Stamp(23, 2, 28, 23, 59, 58), 5, FALSE, FALSE),
            Chip(Stamp(24, 2, 28, 23, 59, 58), 2, TRUE, FALSE),
            Chip(Stamp(23, 6, 15, 11, 59, 57), 3, FALSE, FALSE),
            [Chip(Stamp(0, 1, 1, 0, 0, 0), 0, TRUE, TRUE) EXCEPT !.there = FALSE]},
  CYCLES <- 8, PIT_INPUT_HZ <- 2, PIT_DIVISOR <- 1, CALIBRATION_TICKS <- 2,
  RESYNC_TICKS <- 3, MAX_READINGS <- 3, MaxDelay <- 2, MaxCycles <- 52

cardVars == <<rx, rdh, rdt, rx_cur, receiving, arrived, handed,
              tx, tdh, tdt, tx_cur, waiting, onWire, told>>
stackVars == <<stack, ring, arp, replies, arrivals, pings, heard, result>>
clientVars == <<tick, config, bound, queue, cache, call, wire, calls, committed, clash>>
secureVars == <<sent, flight, flown, seq, extras, got, read, phase, hs, transcript, opened,
                data, excuse>>
webVars == <<at, url, hops, open, answer, fetched, source, fetches>>
stickVars == <<vol, kept, full, fatCalls>>
bulkVars == <<host, saved, dev, done, ok>>
ramVars == <<dirs, files, given, saves>>
displayVars == <<writer, front, frame, gui, top, lit, GUI_DIRTY, events, typed, hovered, scene,
                 clean>>
inputVars == <<pass, EVENT_QUEUE, prev_left, prev_right, desktop, BTN_LEFT, BTN_RIGHT,
               PACKET_INDEX, flags, CTRL_HELD, prev_kbd, REPEAT_CODE, pending, said>>
portVars == <<bus, next_addr, devices, msc, ports_seen, work, lost, faults, unplugs>>
channelVars == <<drive, platter, SELECTED, SECTORS, ataCall, ataCalls, unheard, moved>>
setupVars == <<disks, stick, fresh, mounted, wizard, copy, warned, boots, fileSaves>>
clockVars == <<cycles, chip, measured, CYCLES_PER_TICK, EPOCH, SYNCED, BASE_MILLIS, BASE_TICKS,
               asked, stated, back, accepted>>
vars == <<part, cardVars, stackVars, clientVars, secureVars, webVars, stickVars, bulkVars, ramVars,
          displayVars, inputVars, portVars, channelVars, setupVars, clockVars>>

Init ==
  /\ part \in {"card", "stack", "clients", "secure", "web", "stick", "bulk", "ram",
              "display", "input", "ports", "channel", "installer", "clock"}
  /\ Web!Init /\ (part # "web" => url = CHOOSE u \in Web!Urls : u.secure)
  /\ Secure!Init /\ (part # "secure" => flight = Secure!Usual)
  /\ Card!Init /\ Stack!Init /\ Clients!Init /\ Stick!Init /\ Bulk!Init /\ Ram!Init
  /\ Display!Init /\ Keyboards!Init /\ Ports!Init
  /\ Channel!Init
  /\ Setup!Init
  /\ (part # "installer" => disks[Setup!Slave] = <<>> /\ stick = "none")
  /\ Time!Init /\ (part # "clock" => ~chip.there)

\* The part goes on, and the others stay as they are.
Only(p) ==
  /\ part = p /\ UNCHANGED part
  /\ IF p = "card" THEN TRUE ELSE UNCHANGED cardVars
  /\ IF p = "stack" THEN TRUE ELSE UNCHANGED stackVars
  /\ IF p = "clients" THEN TRUE ELSE UNCHANGED clientVars
  /\ IF p = "secure" THEN TRUE ELSE UNCHANGED secureVars
  /\ IF p = "web" THEN TRUE ELSE UNCHANGED webVars
  /\ IF p = "stick" THEN TRUE ELSE UNCHANGED stickVars
  /\ IF p = "bulk" THEN TRUE ELSE UNCHANGED bulkVars
  /\ IF p = "ram" THEN TRUE ELSE UNCHANGED ramVars
  /\ IF p = "display" THEN TRUE ELSE UNCHANGED displayVars
  /\ IF p = "input" THEN TRUE ELSE UNCHANGED inputVars
  /\ IF p = "ports" THEN TRUE ELSE UNCHANGED portVars
  /\ IF p = "channel" THEN TRUE ELSE UNCHANGED channelVars
  /\ IF p = "installer" THEN TRUE ELSE UNCHANGED setupVars
  /\ IF p = "clock" THEN TRUE ELSE UNCHANGED clockVars

Next ==
  \/ Only("card") /\ Card!Next
  \/ Only("stack") /\ Stack!Next
  \/ Only("clients") /\ Clients!Next
  \/ Only("secure") /\ Secure!Next
  \/ Only("web") /\ Web!Next
  \/ Only("stick") /\ Stick!Next
  \/ Only("bulk") /\ Bulk!Next
  \/ Only("ram") /\ Ram!Next
  \/ Only("display") /\ Display!Next
  \/ Only("input") /\ Keyboards!Next
  \/ Only("ports") /\ Ports!Next
  \/ Only("channel") /\ Channel!Next
  \/ Only("installer") /\ Setup!Next
  \/ Only("clock") /\ Time!Next

Spec == Init /\ [][Next]_vars

(* Every variable of the part that runs keeps its type; the others are where  *)
(* they started.                                                             *)
TypeOK ==
  CASE part = "card" -> Card!TypeOK
    [] part = "stack" -> Stack!TypeOK
    [] part = "clients" -> Clients!TypeOK
    [] part = "secure" -> Secure!TypeOK
    [] part = "web" -> Web!TypeOK
    [] part = "stick" -> Stick!TypeOK
    [] part = "bulk" -> Bulk!TypeOK
    [] part = "ram" -> Ram!TypeOK
    [] part = "display" -> Display!TypeOK
    [] part = "input" -> Keyboards!TypeOK
    [] part = "ports" -> Ports!TypeOK
    [] part = "channel" -> Channel!TypeOK
    [] part = "installer" -> Setup!TypeOK
    [] part = "clock" -> Time!TypeOK

(* Frames arrive once and leave in order, what is reported as sent included   *)
(* (net/e1000.rs).                                                           *)
FramesGoThrough == part = "card" => Card!FramesGoThrough

(* A late or repeated datagram is taken neither for the answer to another     *)
(* question, nor for a lease, nor for the reply to a ping (net/dns.rs,        *)
(* net/dhcp.rs, net/icmp.rs).                                                *)
AnswersAreToTheQuestion ==
  /\ part = "clients" => Clients!AnswersTheQuestion /\ Clients!LeaseIsCommitted
  /\ part = "stack" => Stack!PingHearsItsTarget

(* The clock shows the chip's time, whole and never going back (rtc.rs).      *)
ClockIsTheChips ==
  part = "clock" =>
    /\ Time!ReadingsAreWhole /\ Time!CalendarIsExact
    /\ Time!ClockNeverGoesBack /\ Time!ClockFollowsTheChip

(* Files are found and read back, on the stick with no cluster shared or lost *)
(* (fat32.rs), and in the layer over memory under every name (fs.rs).         *)
VolumesHoldTheirFiles ==
  /\ part = "stick" => Stick!FilesReadBack /\ Stick!EveryClusterHasOneOwner
  /\ part = "ram" => Ram!FilesAreFound

(* A disk is moved, written and erased as it was asked for (ata.rs,           *)
(* install.rs).                                                              *)
DisksHoldWhatWasAsked ==
  /\ part = "channel" => Channel!MovesWhatWasAsked /\ Channel!WrittenIsOnThePlatter
  /\ part = "installer" => Setup!ErasesWhatWasConfirmed /\ Setup!FinishedIsWhole

(* What is on screen is what was drawn, with a pointer over it and no trace   *)
(* of where it was (framebuffer.rs).                                         *)
ScreenShowsTheScene == part = "display" => Display!VramFollows /\ Display!PointerLeavesNoMark

(* The other properties of the parts, as their modules state them.            *)
StreamIsUnderstood == part = "secure" => Secure!StreamIsUnderstood
FetchLeavesNothingOpen == part = "web" => Web!FetchLeavesNothingOpen
OkMeansDone == part = "bulk" => Bulk!OkMeansDone
AttachedListenAlone == part = "ports" => Ports!AttachedListenAlone
LoopKnowsWhatIsHeld == part = "input" => Keyboards!LoopKnowsWhatIsHeld
=============================================================================
