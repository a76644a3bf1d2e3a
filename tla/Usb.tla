--------------------------------- MODULE Usb ---------------------------------
(***************************************************************************)
(* One mass-storage command after another over Bulk-Only Transport         *)
(* (kernel/src/usb/msc.rs command, uhci.rs msc_bot_transfer and            *)
(* bulk_transfer): a command block, an optional data phase and a status,   *)
(* packet by packet.  The toggles of the two pipes are saved only when     *)
(* every phase went through, and nothing resets the device after a failure,*)
(* so a command may meet a device that is still in an earlier one.  The    *)
(* device is external: it follows the Bulk-Only Transport specification.   *)
(***************************************************************************)
EXTENDS Naturals, Integers, Sequences, SequenceTheorems, TLAPS

CONSTANTS
  N,        \* packets in a data phase
  MaxTag    \* bound: commands

VARIABLES
  host,    \* the command under way: phase, tag, kind, its toggles, what moved
  saved,   \* MscDevice.in_toggle and out_toggle, and NEXT_TAG
  dev,     \* the device: what it is doing, for which tag, its own toggles
  done,    \* history: tags the device carried out, writes with their own data
  ok       \* history: what command returned Ok for, with the data it read

vars == <<host, saved, dev, done, ok>>

Kinds == {"none", "read", "write"}
Flip(t) == 1 - t

Cbw(tag, kind) == [what |-> "cbw", tag |-> tag, kind |-> kind]
Data(tag, i) == [what |-> "data", tag |-> tag, i |-> i]
Csw(tag, good) == [what |-> "csw", tag |-> tag, good |-> good]
DataOf(tag) == [i \in 1 .. N |-> Data(tag, i)]

NoCommand == [phase |-> "idle"]

-----------------------------------------------------------------------------
(* The host.                                                                 *)

\* The next tag is used up, the toggles are copied.
Command(kind) ==
  /\ host = NoCommand /\ saved.tag <= MaxTag
  /\ host' = [phase |-> "cbw", tag |-> saved.tag, kind |-> kind, moved |-> <<>>,
              in |-> saved.in, out |-> saved.out]
  /\ saved' = [saved EXCEPT !.tag = @ + 1]
  /\ UNCHANGED <<dev, done, ok>>

\* The packet that is sent next.
Outgoing ==
  IF host.phase = "cbw" THEN Cbw(host.tag, host.kind) ELSE Data(host.tag, Len(host.moved) + 1)

Sends == host.phase = "cbw" \/ (host.phase = "data" /\ host.kind = "write")
Receives == host.phase = "csw" \/ (host.phase = "data" /\ host.kind = "read")

\* The next phase once this one has moved all its packets.
Moved(h, packet) ==
  LET moved == Append(h.moved, packet)
  IN  CASE h.phase = "cbw" ->
             [h EXCEPT !.phase = IF h.kind = "none" THEN "csw" ELSE "data"]
        [] h.phase = "data" ->
             [h EXCEPT !.moved = moved, !.phase = IF Len(moved) = N THEN "csw" ELSE "data"]

\* A variant that does not compare the tag (for the mutation checks).
AnyStatus(packet, tag) == packet.what = "csw" /\ packet.good

\* The signature, the tag and the status of the answer (command).
Accepted(packet, tag) == packet.what = "csw" /\ packet.tag = tag /\ packet.good

\* A phase fails: a stall, or 40 ticks without an answer; the toggles stay unsaved.
GivesUp ==
  /\ host # NoCommand
  /\ host' = NoCommand
  /\ UNCHANGED <<saved, dev, done, ok>>

-----------------------------------------------------------------------------
(* The device.                                                               *)

\* A command block begins a command; while data is due, any packet is data.
Took(d, packet) ==
  CASE d.state = "ready" /\ packet.what = "cbw" ->
         [d EXCEPT !.tag = packet.tag, !.kind = packet.kind, !.got = <<>>,
                   !.state = CASE packet.kind = "read" -> "sending"
                               [] packet.kind = "write" -> "taking"
                               [] packet.kind = "none" -> "status"]
    [] d.state = "ready" /\ packet.what # "cbw" -> [d EXCEPT !.state = "stalled"]
    [] d.state = "taking" ->
         [d EXCEPT !.got = Append(@, packet),
                   !.state = IF Len(d.got) + 1 = N THEN "status" ELSE @]

CarriedOut(d) == d.kind # "write" \/ d.got = DataOf(d.tag)

\* The host sends its next packet; one with the old toggle is taken for a
\* repetition, acknowledged and dropped.
Out ==
  /\ host # NoCommand /\ Sends
  /\ IF dev.out = host.out
     THEN /\ dev.state \in {"ready", "taking"}
          /\ dev' = [Took(dev, Outgoing) EXCEPT !.out = Flip(dev.out)]
     ELSE dev.state # "stalled" /\ dev' = dev
  /\ host' = [Moved(host, Outgoing) EXCEPT !.out = Flip(@)]
  /\ UNCHANGED <<saved, done, ok>>

\* What the device has for the host: its data in order, then the status.
Answer(good) ==
  IF dev.state = "sending" THEN Data(dev.tag, Len(dev.got) + 1) ELSE Csw(dev.tag, good)

Gave(d, packet) ==
  IF packet.what = "csw" THEN [d EXCEPT !.state = "ready", !.in = Flip(@)]
  ELSE LET got == Append(d.got, packet)
       IN  [d EXCEPT !.got = got, !.in = Flip(@),
                     !.state = IF Len(got) = N THEN "status" ELSE @]

\* The host takes a packet; one with the wrong toggle is acknowledged and
\* dropped.  A status is short: before the end of the data it ends the phase
\* with an error; and data in place of a status is too long for its buffer.
In(good) ==
  LET packet == Answer(good)
      mine == dev.in = host.in
      lost == \/ host.phase = "data" /\ packet.what = "csw" /\ Len(host.moved) + 1 < N
              \/ host.phase = "csw" /\ packet.what = "data"
  IN  /\ host # NoCommand /\ Receives
      /\ dev.state \in {"sending", "status"}
      /\ dev' = Gave(dev, packet)
      /\ done' = IF packet.what = "csw" /\ good /\ CarriedOut(dev)
                 THEN done \cup {dev.tag} ELSE done
      /\ \/ ~mine /\ UNCHANGED <<host, saved, ok>>
         \/ mine /\ lost /\ host' = NoCommand /\ UNCHANGED <<saved, ok>>
         \/ /\ mine /\ ~lost /\ host.phase = "data"
            /\ host' = [Moved(host, packet) EXCEPT !.in = Flip(@)]
            /\ UNCHANGED <<saved, ok>>
         \/ /\ mine /\ ~lost /\ host.phase = "csw"
            /\ host' = NoCommand
            /\ saved' = [saved EXCEPT !.in = Flip(host.in), !.out = host.out]
            /\ ok' = IF Accepted(packet, host.tag)
                     THEN ok \cup {[tag |-> host.tag, kind |-> host.kind, data |-> host.moved]}
                     ELSE ok

-----------------------------------------------------------------------------
Init ==
  /\ host = NoCommand
  /\ saved = [in |-> 0, out |-> 0, tag |-> 1]
  /\ dev = [state |-> "ready", tag |-> 0, kind |-> "none", got |-> <<>>, in |-> 0, out |-> 0]
  /\ done = {} /\ ok = {}

Next ==
  \/ GivesUp \/ Out
  \/ \E good \in BOOLEAN : In(good)
  \/ \E kind \in Kinds : Command(kind)

Spec == Init /\ [][Next]_vars

-----------------------------------------------------------------------------
(* Every variable keeps its type.                                            *)
TypeOK ==
  /\ host = NoCommand \/ (host.kind \in Kinds /\ Len(host.moved) <= N)
  /\ saved \in [in : {0, 1}, out : {0, 1}, tag : 1 .. MaxTag + 1]
  /\ dev.state \in {"ready", "sending", "taking", "status", "stalled"} /\ Len(dev.got) <= N
  /\ done \subseteq 1 .. MaxTag

(* What command calls done the drive has done, with the data of that command *)
(* and no other: although a failed command leaves the device in the middle   *)
(* of it and the toggles behind, so that command blocks are dropped or taken *)
(* for data and answers of an earlier command come first (msc.rs command).   *)
OkMeansDone ==
  \A r \in ok : r.tag \in done /\ (r.kind = "read" => r.data = DataOf(r.tag))

-----------------------------------------------------------------------------
(* The proof of OkMeansDone, for any number of packets and commands.  It is  *)
(* about a device that has taken the command block of the command under way. *)
(* From then on the two count packets together, or the host has dropped one  *)
(* and cannot reach the end of its data before the drive is through.         *)

\* A data phase has at least one packet.
Size == N \in Nat \ {0}

Packets ==
  {Cbw(tag, kind) : tag \in Nat, kind \in Kinds} \cup {Data(tag, i) : tag \in Nat, i \in Nat}
    \cup {Csw(tag, good) : tag \in Nat, good \in BOOLEAN}

Commands ==
  [phase : {"cbw", "data", "csw"}, tag : Nat, kind : Kinds, moved : Seq(Packets),
   in : {0, 1}, out : {0, 1}]

Devices ==
  [state : {"ready", "sending", "taking", "status", "stalled"}, tag : Nat, kind : Kinds,
   got : Seq(Packets), in : {0, 1}, out : {0, 1}]

Types ==
  /\ host = NoCommand \/ host \in Commands
  /\ saved \in [in : {0, 1}, out : {0, 1}, tag : Nat]
  /\ dev \in Devices

\* The device is at the command under way.
Own == host # NoCommand /\ dev.tag = host.tag

\* What has moved is the beginning of the command's data.
Begins(moved, tag) == \A i \in DOMAIN moved : moved[i] = Data(tag, i)

\* No tag is used twice: the device cannot know one whose block was not sent.
Tags ==
  /\ dev.tag < saved.tag
  /\ host # NoCommand => host.tag < saved.tag /\ (host.phase = "cbw" => dev.tag < host.tag)

\* What the host has moved in each phase.
Phases ==
  host # NoCommand =>
    /\ host.phase = "cbw" => host.moved = <<>>
    /\ host.phase = "data" => host.kind # "none" /\ Len(host.moved) < N
    /\ host.kind = "write" => Begins(host.moved, host.tag)
    /\ host.phase = "csw" /\ host.kind = "write" => Len(host.moved) = N

\* What the device still has to move in each state.
Moving ==
  /\ dev.state = "sending" => Len(dev.got) < N /\ dev.kind = "read"
  /\ dev.state = "taking" => Len(dev.got) < N /\ dev.kind = "write"

\* A write of its own is taken packet for packet.
OwnWrite ==
  Own /\ host.kind = "write" =>
    /\ dev.out = host.out
    /\ dev.got = host.moved
    /\ dev.state = "taking" <=> host.phase = "data"

\* A read of its own that has not been answered is received packet for packet, but for
\* a first one that the host has dropped for its toggle.
OwnRead ==
  Own /\ host.kind = "read" /\ dev.state \in {"sending", "status"} =>
    /\ Len(dev.got) <= N
    /\ dev.state = "sending" <=> Len(dev.got) < N
    /\ \/ /\ Begins(host.moved, host.tag) /\ Len(host.moved) = Len(dev.got)
          /\ host.phase = "data" => dev.in = host.in \/ Len(dev.got) = 0
          /\ host.phase = "csw" => Len(host.moved) = N
       \/ host.phase = "data" /\ Len(host.moved) + 1 = Len(dev.got) /\ dev.in = host.in

OwnKind == Own => dev.kind = host.kind

Inv == Types /\ Tags /\ Phases /\ Moving /\ OwnKind /\ OwnWrite /\ OwnRead /\ OkMeansDone

\* The packets of the two sides are packets.
LEMMA PacketTypes ==
  /\ \A tag \in Nat, kind \in Kinds : Cbw(tag, kind) \in Packets
  /\ \A tag \in Nat, i \in Nat : Data(tag, i) \in Packets
  /\ \A tag \in Nat, good \in BOOLEAN : Csw(tag, good) \in Packets
BY DEF Packets

\* A command under way is not the absence of one.
LEMMA CommandIsOne ==
  ASSUME NEW h \in Commands
  PROVE  h # NoCommand
<1>1. h.phase \in {"cbw", "data", "csw"}
  BY DEF Commands
<1>2. NoCommand.phase = "idle"
  BY DEF NoCommand
<1> QED BY <1>1, <1>2

\* All of it has moved when the beginning is as long as the whole.
LEMMA WholeData ==
  ASSUME NEW moved \in Seq(Packets), NEW tag, Begins(moved, tag), Len(moved) = N
  PROVE  moved = DataOf(tag)
BY DEF Begins, DataOf

\* A beginning grows by the next packet.
LEMMA BeginsGrows ==
  ASSUME NEW moved \in Seq(Packets), NEW tag \in Nat, Begins(moved, tag)
  PROVE  Begins(Append(moved, Data(tag, Len(moved) + 1)), tag)
<1> DEFINE p == Data(tag, Len(moved) + 1)
<1>1. Len(moved) \in Nat /\ DOMAIN moved = 1 .. Len(moved)
  OBVIOUS
<1>2. p \in Packets
  BY <1>1, PacketTypes
<1>3. \A i \in DOMAIN moved : moved[i] = Data(tag, i)
  BY DEF Begins
<1>4. p = Data(tag, Len(moved) + 1)
  OBVIOUS
<1> HIDE DEF p
<1>5. /\ DOMAIN Append(moved, p) = 1 .. Len(moved) + 1
      /\ \A i \in 1 .. Len(moved) : Append(moved, p)[i] = moved[i]
      /\ Append(moved, p)[Len(moved) + 1] = p
  BY <1>1, <1>2
<1>6. \A i \in 1 .. Len(moved) + 1 : i \in 1 .. Len(moved) \/ i = Len(moved) + 1
  BY <1>1
<1>7. Begins(Append(moved, p), tag)
  BY <1>1, <1>3, <1>4, <1>5, <1>6 DEF Begins
<1> QED BY <1>4, <1>7

\* A new command has a tag that the device has not seen.
LEMMA CommandStep ==
  ASSUME Inv, NEW kind \in Kinds, Command(kind)
  PROVE  Inv'
<1>1. /\ host' = [phase |-> "cbw", tag |-> saved.tag, kind |-> kind, moved |-> <<>>,
                  in |-> saved.in, out |-> saved.out]
      /\ saved' = [saved EXCEPT !.tag = @ + 1]
      /\ UNCHANGED <<dev, done, ok>>
  BY DEF Command
<1>2. saved.tag \in Nat /\ saved.in \in {0, 1} /\ saved.out \in {0, 1} /\ dev.tag \in Nat
      /\ dev.tag < saved.tag
  BY DEF Inv, Types, Tags, Devices
<1>3. host' \in Commands /\ host' # NoCommand
  <2>1. host' \in Commands
    BY <1>1, <1>2 DEF Commands
  <2> QED BY <2>1, CommandIsOne
<1>4. host'.phase = "cbw" /\ host'.tag = saved.tag /\ host'.moved = <<>> /\ saved'.tag = saved.tag + 1
  BY <1>1, <1>2 DEF Inv, Types
<1>5. Types'
  BY <1>1, <1>2, <1>3 DEF Inv, Types
<1>6. ~Own'
  BY <1>1, <1>2, <1>4 DEF Own
<1>7. Tags'
  BY <1>1, <1>2, <1>4 DEF Tags
<1>8. Phases'
  BY <1>4 DEF Phases, Begins
<1>9. Moving' /\ OkMeansDone'
  BY <1>1 DEF Inv, Moving, OkMeansDone
<1> QED BY <1>5, <1>6, <1>7, <1>8, <1>9 DEF Inv, OwnKind, OwnWrite, OwnRead

\* Giving up changes nothing else.
LEMMA GivesUpStep ==
  ASSUME Inv, GivesUp
  PROVE  Inv'
<1>1. host' = NoCommand /\ UNCHANGED <<saved, dev, done, ok>>
  BY DEF GivesUp
<1> QED BY <1>1 DEF Inv, Types, Tags, Phases, Moving, OwnKind, OwnWrite, OwnRead, Own, OkMeansDone

\* The command block: a device that is ready begins the command, one that waits for data
\* takes it for that, and one with another toggle drops it.
LEMMA BlockStep ==
  ASSUME Size, Inv, Out, host.phase = "cbw"
  PROVE  Inv'
<1> DEFINE p == Cbw(host.tag, host.kind)
<1>1. host # NoCommand /\ host \in Commands /\ dev \in Devices
  BY DEF Inv, Types, Out
<1>2. /\ IF dev.out = host.out
         THEN /\ dev.state \in {"ready", "taking"}
              /\ dev' = [Took(dev, p) EXCEPT !.out = Flip(dev.out)]
         ELSE dev.state # "stalled" /\ dev' = dev
      /\ host' = [Moved(host, p) EXCEPT !.out = Flip(@)]
      /\ UNCHANGED <<saved, done, ok>>
  BY DEF Out, Outgoing
<1>3. p \in Packets /\ p.what = "cbw" /\ p.tag = host.tag /\ p.kind = host.kind
  BY <1>1, PacketTypes DEF Commands, Cbw
<1>4. /\ host' \in Commands /\ host'.tag = host.tag /\ host'.kind = host.kind
      /\ host'.moved = host.moved /\ host'.in = host.in /\ host'.out = Flip(host.out)
      /\ host'.phase = IF host.kind = "none" THEN "csw" ELSE "data"
  <2>1. host' = [host EXCEPT !.phase = IF host.kind = "none" THEN "csw" ELSE "data",
                             !.out = Flip(host.out)]
    BY <1>1, <1>2 DEF Moved, Commands
  <2>2. Flip(host.out) \in {0, 1} /\ host \in Commands
    BY <1>1 DEF Flip, Commands
  <2> QED BY <2>1, <2>2 DEF Commands
<1>5. host' # NoCommand
  BY <1>4, CommandIsOne
<1>6. /\ dev.tag < host.tag /\ host.tag < saved.tag /\ host.moved = <<>>
      /\ dev.tag \in Nat /\ host.tag \in Nat /\ saved.tag \in Nat /\ host.kind \in Kinds
  BY <1>1 DEF Inv, Tags, Phases, Types, Commands, Devices
<1>7. Phases'
  <2>1. Len(host'.moved) = 0 /\ N > 0 /\ Begins(host'.moved, host'.tag)
    BY <1>4, <1>6 DEF Size, Begins
  <2> QED BY <1>4, <1>6, <2>1 DEF Phases
<1>8. OkMeansDone'
  BY <1>2 DEF Inv, OkMeansDone
<1>9. CASE dev.out # host.out
  <2>1. dev' = dev
    BY <1>2, <1>9
  <2>2. ~Own'
    BY <1>4, <1>6, <2>1 DEF Own
  <2>3. Types' /\ Tags' /\ Moving'
    BY <1>2, <1>4, <1>6, <2>1 DEF Inv, Types, Tags, Moving
  <2> QED BY <1>7, <1>8, <2>2, <2>3 DEF Inv, OwnKind, OwnWrite, OwnRead
<1>10. CASE dev.out = host.out /\ dev.state = "ready"
  <2>1. /\ dev' \in Devices /\ dev'.tag = host.tag /\ dev'.kind = host.kind
        /\ dev'.got = <<>> /\ dev'.out = Flip(host.out) /\ dev'.in = dev.in
        /\ dev'.state = CASE host.kind = "read" -> "sending"
                          [] host.kind = "write" -> "taking"
                          [] host.kind = "none" -> "status"
    <3>1. dev' = [dev EXCEPT !.tag = host.tag, !.kind = host.kind, !.got = <<>>,
                    !.state = CASE host.kind = "read" -> "sending"
                               [] host.kind = "write" -> "taking"
                               [] host.kind = "none" -> "status",
                    !.out = Flip(dev.out)]
      BY <1>1, <1>2, <1>3, <1>10 DEF Took, Devices
    <3>2. Flip(dev.out) \in {0, 1} /\ <<>> \in Seq(Packets) /\ host.kind \in Kinds
      BY <1>1, <1>6 DEF Flip, Devices
    <3> DEFINE st == CASE host.kind = "read" -> "sending"
                       [] host.kind = "write" -> "taking"
                       [] host.kind = "none" -> "status"
    <3>3. st \in {"ready", "sending", "taking", "status", "stalled"}
      BY <1>6 DEF Kinds
    <3>4. dev' = [dev EXCEPT !.tag = host.tag, !.kind = host.kind, !.got = <<>>, !.state = st,
                             !.out = Flip(dev.out)]
      BY <3>1
    <3> HIDE DEF st
    <3>5. dev' \in Devices /\ dev'.tag = host.tag /\ dev'.kind = host.kind
          /\ dev'.got = <<>> /\ dev'.out = Flip(dev.out) /\ dev'.in = dev.in /\ dev'.state = st
      BY <1>1, <1>6, <3>2, <3>3, <3>4 DEF Devices
    <3> QED BY <1>10, <3>5 DEF st
  <2>2. Types' /\ Tags'
    BY <1>2, <1>4, <1>6, <2>1 DEF Inv, Types, Tags
  <2>3. Len(dev'.got) = 0 /\ 0 < N /\ Len(host'.moved) = 0 /\ Begins(host'.moved, host'.tag)
    BY <1>4, <1>6, <2>1 DEF Size, Begins
  <2>4. Moving'
    BY <1>6, <2>1, <2>3 DEF Moving, Kinds
  <2>5. OwnKind' /\ OwnWrite'
    BY <1>4, <1>6, <2>1 DEF OwnKind, OwnWrite, Own
  <2>6. OwnRead'
    <3>1. host'.kind = "read" => dev'.state = "sending" /\ host'.phase = "data"
      BY <1>4, <2>1
    <3>2. host'.kind = "read" =>
            /\ Len(dev'.got) <= N /\ (dev'.state = "sending" <=> Len(dev'.got) < N)
            /\ Begins(host'.moved, host'.tag) /\ Len(host'.moved) = Len(dev'.got)
            /\ Len(dev'.got) = 0 /\ host'.phase # "csw"
      BY <2>3, <3>1 DEF Size
    <3> QED BY <3>2 DEF OwnRead
  <2> QED BY <1>7, <1>8, <2>2, <2>4, <2>5, <2>6 DEF Inv
<1>11. CASE dev.out = host.out /\ dev.state = "taking"
  <2>1. /\ dev' \in Devices /\ dev'.tag = dev.tag /\ dev'.kind = dev.kind
        /\ Len(dev'.got) = Len(dev.got) + 1 /\ Len(dev.got) \in Nat
        /\ dev'.state = IF Len(dev.got) + 1 = N THEN "status" ELSE "taking"
    <3>1. dev' = [dev EXCEPT !.got = Append(dev.got, p),
                    !.state = IF Len(dev.got) + 1 = N THEN "status" ELSE "taking",
                    !.out = Flip(dev.out)]
      BY <1>1, <1>2, <1>11 DEF Took, Devices
    <3>2. dev.got \in Seq(Packets)
      BY <1>1 DEF Devices
    <3> HIDE DEF p
    <3>3. Append(dev.got, p) \in Seq(Packets) /\ Len(Append(dev.got, p)) = Len(dev.got) + 1
          /\ Len(dev.got) \in Nat
      BY <1>3, <3>2
    <3>4. Flip(dev.out) \in {0, 1}
      BY <1>1 DEF Flip, Devices
    <3> DEFINE st == IF Len(dev.got) + 1 = N THEN "status" ELSE "taking"
               got == Append(dev.got, p)
    <3>5. dev' = [dev EXCEPT !.got = got, !.state = st, !.out = Flip(dev.out)]
      BY <3>1
    <3>6. st \in {"ready", "sending", "taking", "status", "stalled"}
      OBVIOUS
    <3>7. got \in Seq(Packets) /\ Len(got) = Len(dev.got) + 1
      BY <3>3
    <3> HIDE DEF st, got
    <3>8. dev' \in Devices /\ dev'.tag = dev.tag /\ dev'.kind = dev.kind
          /\ dev'.got = got /\ dev'.state = st
      BY <1>1, <3>4, <3>5, <3>6, <3>7 DEF Devices
    <3> QED BY <3>3, <3>7, <3>8 DEF st
  <2>2. ~Own'
    BY <1>4, <1>6, <2>1 DEF Own
  <2>3. Types' /\ Tags'
    BY <1>2, <1>4, <1>6, <2>1 DEF Inv, Types, Tags
  <2>4. Moving'
    BY <1>11, <2>1 DEF Inv, Moving, Size
  <2> QED BY <1>7, <1>8, <2>2, <2>3, <2>4 DEF Inv, OwnKind, OwnWrite, OwnRead
<1>12. dev.out = host.out => dev.state \in {"ready", "taking"}
  BY <1>2
<1> QED BY <1>9, <1>10, <1>11, <1>12

\* A packet of a write: the device takes it for its own, for an earlier command's, or
\* drops it, or stalls when it waits for no data.
LEMMA DataOutStep ==
  ASSUME Size, Inv, Out, host.phase = "data"
  PROVE  Inv'
<1> DEFINE p == Data(host.tag, Len(host.moved) + 1)
           m == Append(host.moved, p)
<1>1. host # NoCommand /\ host \in Commands /\ dev \in Devices /\ host.kind = "write"
  BY DEF Inv, Types, Out, Sends
<1>2. /\ IF dev.out = host.out
         THEN /\ dev.state \in {"ready", "taking"}
              /\ dev' = [Took(dev, p) EXCEPT !.out = Flip(dev.out)]
         ELSE dev.state # "stalled" /\ dev' = dev
      /\ host' = [Moved(host, p) EXCEPT !.out = Flip(@)]
      /\ UNCHANGED <<saved, done, ok>>
  BY DEF Out, Outgoing
<1>3. host.moved \in Seq(Packets) /\ Len(host.moved) \in Nat /\ host.tag \in Nat /\ N \in Nat
  BY <1>1 DEF Commands, Size
<1>4. p \in Packets /\ p.what = "data"
  BY <1>3, PacketTypes DEF Data
<1>5. m \in Seq(Packets) /\ Len(m) = Len(host.moved) + 1
  <2> HIDE DEF p
  <2> QED BY <1>3, <1>4
<1>6. Begins(host.moved, host.tag) /\ Len(host.moved) < N
  BY <1>1 DEF Inv, Phases
<1>7. Begins(m, host.tag)
  BY <1>3, <1>6, BeginsGrows
<1>8. /\ host' \in Commands /\ host'.tag = host.tag /\ host'.kind = "write"
      /\ host'.moved = m /\ host'.in = host.in /\ host'.out = Flip(host.out)
      /\ host'.phase = IF Len(m) = N THEN "csw" ELSE "data"
  <2> DEFINE ph == IF Len(m) = N THEN "csw" ELSE "data"
  <2>1. host' = [host EXCEPT !.moved = m, !.phase = ph, !.out = Flip(host.out)]
    BY <1>1, <1>2 DEF Moved, Commands
  <2>2. Flip(host.out) \in {0, 1} /\ ph \in {"cbw", "data", "csw"}
    BY <1>1 DEF Flip, Commands
  <2> HIDE DEF ph, m
  <2>3. /\ host' \in Commands /\ host'.tag = host.tag /\ host'.kind = "write"
        /\ host'.moved = m /\ host'.in = host.in /\ host'.out = Flip(host.out) /\ host'.phase = ph
    BY <1>1, <1>5, <2>1, <2>2 DEF Commands
  <2> QED BY <2>3 DEF ph
<1>9. host' # NoCommand
  BY <1>8, CommandIsOne
<1>10. Phases'
  <2> HIDE DEF m
  <2> QED BY <1>3, <1>5, <1>6, <1>7, <1>8 DEF Phases
<1>11. OkMeansDone'
  BY <1>2 DEF Inv, OkMeansDone
<1>12. /\ dev.tag < saved.tag /\ host.tag < saved.tag
       /\ dev.tag \in Nat /\ saved.tag \in Nat
  BY <1>1 DEF Inv, Tags, Types, Devices
<1>13. Own <=> dev.tag = host.tag
  BY <1>1 DEF Own
<1>14. Own => dev.out = host.out /\ dev.got = host.moved /\ dev.state = "taking" /\ dev.kind = "write"
  BY <1>1 DEF Inv, OwnWrite, OwnKind
<1> HIDE DEF m
<1>15. CASE dev.out # host.out
  <2>1. dev' = dev
    BY <1>2, <1>15
  <2>2. ~Own'
    BY <1>8, <1>13, <1>14, <1>15, <2>1 DEF Own
  <2>3. Types' /\ Tags' /\ Moving'
    BY <1>2, <1>8, <1>12, <2>1 DEF Inv, Types, Tags, Moving
  <2> QED BY <1>10, <1>11, <2>2, <2>3 DEF Inv, OwnKind, OwnWrite, OwnRead
<1>16. CASE dev.out = host.out /\ dev.state = "ready"
  <2>1. dev' = [dev EXCEPT !.state = "stalled", !.out = Flip(dev.out)]
    BY <1>1, <1>2, <1>4, <1>16 DEF Took, Devices
  <2>2. Flip(dev.out) \in {0, 1}
    BY <1>1 DEF Flip, Devices
  <2>3. dev' \in Devices /\ dev'.tag = dev.tag /\ dev'.state = "stalled"
    BY <1>1, <2>1, <2>2 DEF Devices
  <2>4. ~Own'
    BY <1>8, <1>13, <1>14, <1>16, <2>3 DEF Own
  <2>5. Types' /\ Tags' /\ Moving'
    BY <1>2, <1>8, <1>12, <2>3 DEF Inv, Types, Tags, Moving
  <2> QED BY <1>10, <1>11, <2>4, <2>5 DEF Inv, OwnKind, OwnWrite, OwnRead
<1>17. CASE dev.out = host.out /\ dev.state = "taking"
  <2> DEFINE st == IF Len(dev.got) + 1 = N THEN "status" ELSE "taking"
             got == Append(dev.got, p)
  <2>1. dev' = [dev EXCEPT !.got = got, !.state = st, !.out = Flip(dev.out)]
    BY <1>1, <1>2, <1>17 DEF Took, Devices
  <2>2. Flip(dev.out) \in {0, 1} /\ st \in {"ready", "sending", "taking", "status", "stalled"}
    BY <1>1 DEF Flip, Devices
  <2>3. dev.got \in Seq(Packets)
    BY <1>1 DEF Devices
  <2>4. got \in Seq(Packets) /\ Len(got) = Len(dev.got) + 1 /\ Len(dev.got) \in Nat
    <3> HIDE DEF p
    <3> QED BY <1>4, <2>3
  <2>5. Own => got = m /\ Len(got) = Len(m)
    BY <1>14 DEF m
  <2> HIDE DEF st, got
  <2>6. /\ dev' \in Devices /\ dev'.tag = dev.tag /\ dev'.kind = dev.kind
        /\ dev'.got = got /\ dev'.state = st /\ dev'.out = Flip(dev.out)
    BY <1>1, <2>1, <2>2, <2>4 DEF Devices
  <2>7. Types' /\ Tags'
    BY <1>2, <1>8, <1>12, <2>6 DEF Inv, Types, Tags
  <2>8. Moving'
    <3>1. Len(dev.got) < N /\ dev.kind = "write"
      BY <1>17 DEF Inv, Moving
    <3> QED BY <1>3, <2>4, <2>6, <3>1 DEF Moving, st
  <2>9. Own' <=> Own
    BY <1>8, <1>9, <1>13, <2>6 DEF Own
  <2>10. OwnKind' /\ OwnWrite' /\ OwnRead'
    <3>1. CASE ~Own
      BY <2>9, <3>1 DEF OwnKind, OwnWrite, OwnRead
    <3>2. CASE Own
      <4>1. dev'.kind = host'.kind /\ dev'.out = host'.out /\ dev'.got = host'.moved
        BY <1>8, <1>14, <1>17, <2>5, <2>6, <3>2
      <4>2. dev'.state = "taking" <=> host'.phase = "data"
        BY <1>8, <2>4, <2>5, <2>6, <3>2 DEF st
      <4>3. host'.kind # "read"
        BY <1>8
      <4> QED BY <4>1, <4>2, <4>3 DEF OwnKind, OwnWrite, OwnRead
    <3> QED BY <3>1, <3>2
  <2> QED BY <1>10, <1>11, <2>7, <2>8, <2>10 DEF Inv
<1>18. dev.out = host.out => dev.state \in {"ready", "taking"}
  BY <1>2
<1> QED BY <1>15, <1>16, <1>17, <1>18

\* The device gives a packet: it is through with the command after the status.
LEMMA GaveWhat ==
  ASSUME Size, Inv, NEW good \in BOOLEAN, In(good)
  PROVE  /\ dev' \in Devices /\ dev'.tag = dev.tag /\ dev'.kind = dev.kind /\ dev'.out = dev.out
         /\ dev'.in = Flip(dev.in)
         /\ CASE dev.state = "sending" ->
                   /\ Answer(good) = Data(dev.tag, Len(dev.got) + 1)
                   /\ Len(dev'.got) = Len(dev.got) + 1
                   /\ dev'.state = IF Len(dev.got) + 1 = N THEN "status" ELSE "sending"
              [] dev.state = "status" ->
                   Answer(good) = Csw(dev.tag, good) /\ dev'.got = dev.got /\ dev'.state = "ready"
<1>1. dev \in Devices /\ dev' = Gave(dev, Answer(good)) /\ dev.state \in {"sending", "status"}
  BY DEF Inv, Types, In
<1>2. Flip(dev.in) \in {0, 1} /\ dev.tag \in Nat /\ dev.got \in Seq(Packets) /\ Len(dev.got) \in Nat
  BY <1>1 DEF Devices, Flip
<1>3. CASE dev.state = "sending"
  <2> DEFINE p == Data(dev.tag, Len(dev.got) + 1)
             got == Append(dev.got, p)
             st == IF Len(got) = N THEN "status" ELSE "sending"
  <2>1. Answer(good) = p /\ p \in Packets /\ p.what = "data"
    BY <1>2, <1>3, PacketTypes DEF Answer, Data
  <2>2. got \in Seq(Packets) /\ Len(got) = Len(dev.got) + 1
    <3> HIDE DEF p
    <3> QED BY <1>2, <2>1
  <2>3. dev' = [dev EXCEPT !.got = got, !.in = Flip(dev.in), !.state = st]
    BY <1>1, <1>3, <2>1 DEF Gave, Devices
  <2>4. st \in {"ready", "sending", "taking", "status", "stalled"}
    OBVIOUS
  <2> HIDE DEF got, st, p
  <2>5. /\ dev' \in Devices /\ dev'.tag = dev.tag /\ dev'.kind = dev.kind /\ dev'.out = dev.out
        /\ dev'.in = Flip(dev.in) /\ dev'.got = got /\ dev'.state = st
    BY <1>1, <1>2, <2>2, <2>3, <2>4 DEF Devices
  <2> QED BY <1>3, <2>1, <2>2, <2>5 DEF st, p
<1>4. CASE dev.state = "status"
  <2>1. Answer(good) = Csw(dev.tag, good) /\ Answer(good).what = "csw"
    BY <1>4 DEF Answer, Csw
  <2>2. dev' = [dev EXCEPT !.state = "ready", !.in = Flip(dev.in)]
    BY <1>1, <2>1 DEF Gave, Devices
  <2>3. /\ dev' \in Devices /\ dev'.tag = dev.tag /\ dev'.kind = dev.kind /\ dev'.out = dev.out
        /\ dev'.in = Flip(dev.in) /\ dev'.got = dev.got /\ dev'.state = "ready"
    BY <1>1, <1>2, <2>2 DEF Devices
  <2> QED BY <1>4, <2>1, <2>3
<1> QED BY <1>1, <1>3, <1>4
\* A packet of the device: dropped for its toggle, kept as data, or taken for the status.
LEMMA InStep ==
  ASSUME Size, Inv, NEW good \in BOOLEAN, In(good)
  PROVE  Inv'
<1> DEFINE p == Answer(good)
           m == Append(host.moved, p)
<1>1. /\ host # NoCommand /\ host \in Commands /\ dev \in Devices
      /\ dev.state \in {"sending", "status"}
      /\ host.phase = "csw" \/ (host.phase = "data" /\ host.kind = "read")
  BY DEF Inv, Types, In, Receives
<1>2. done' = IF p.what = "csw" /\ good /\ CarriedOut(dev) THEN done \cup {dev.tag} ELSE done
  BY DEF In
<1>3. \/ dev.in # host.in /\ UNCHANGED <<host, saved, ok>>
      \/ host' = NoCommand /\ UNCHANGED <<saved, ok>>
      \/ /\ dev.in = host.in /\ host.phase = "data"
         /\ host' = [Moved(host, p) EXCEPT !.in = Flip(@)]
         /\ UNCHANGED <<saved, ok>>
      \/ /\ host.phase = "csw" /\ host' = NoCommand
         /\ saved' = [saved EXCEPT !.in = Flip(host.in), !.out = host.out]
         /\ ok' = IF Accepted(p, host.tag)
                  THEN ok \cup {[tag |-> host.tag, kind |-> host.kind, data |-> host.moved]}
                  ELSE ok
  BY DEF In
<1>4. /\ dev' \in Devices /\ dev'.tag = dev.tag /\ dev'.kind = dev.kind /\ dev'.out = dev.out
      /\ dev'.in = Flip(dev.in)
  BY GaveWhat
<1>5. dev.state = "sending" =>
        /\ p = Data(dev.tag, Len(dev.got) + 1)
        /\ Len(dev'.got) = Len(dev.got) + 1
        /\ dev'.state = IF Len(dev.got) + 1 = N THEN "status" ELSE "sending"
  BY GaveWhat
<1>6. dev.state = "status" => p = Csw(dev.tag, good) /\ dev'.got = dev.got /\ dev'.state = "ready"
  BY GaveWhat
<1>7. /\ host.moved \in Seq(Packets) /\ Len(host.moved) \in Nat /\ Len(dev.got) \in Nat
      /\ N \in Nat \ {0} /\ host.tag \in Nat /\ dev.tag \in Nat /\ saved.tag \in Nat
      /\ dev.tag < saved.tag /\ host.tag < saved.tag
      /\ dev.in \in {0, 1} /\ host.in \in {0, 1} /\ host.out \in {0, 1}
  <2>1. host.moved \in Seq(Packets) /\ dev.got \in Seq(Packets) /\ N \in Nat \ {0}
    BY <1>1 DEF Commands, Devices, Size
  <2>2. Len(host.moved) \in Nat /\ Len(dev.got) \in Nat
    BY <2>1
  <2> QED BY <1>1, <2>1, <2>2 DEF Commands, Devices, Inv, Tags, Types
<1>8. p \in Packets
  <2>1. Len(dev.got) + 1 \in Nat
    BY <1>7
  <2> HIDE DEF p
  <2> QED BY <1>1, <1>5, <1>6, <1>7, <2>1, PacketTypes
<1> HIDE DEF p
<1>9. Moving'
  <2>1. dev.state = "sending" => Len(dev.got) < N /\ dev.kind = "read"
    BY DEF Inv, Moving
  <2> QED BY <1>1, <1>4, <1>5, <1>6, <1>7, <2>1 DEF Moving
<1>10. done \subseteq done'
  BY <1>2
<1>11. ASSUME ok' = ok PROVE OkMeansDone'
  BY <1>10, <1>11 DEF Inv, OkMeansDone
<1>12. Own /\ dev.state = "sending" => host.kind = "read"
  BY DEF Inv, Moving, OwnKind
<1>13. Own <=> dev.tag = host.tag
  BY <1>1 DEF Own
<1>14. CASE dev.in # host.in /\ UNCHANGED <<host, saved, ok>>
  <2>1. Types' /\ Tags' /\ Phases'
    BY <1>4, <1>14 DEF Inv, Types, Tags, Phases
  <2>2. (Own' <=> Own) /\ dev'.in = host.in
    BY <1>4, <1>7, <1>14 DEF Own, Flip
  <2>3. OwnKind'
    BY <1>4, <1>14, <2>2 DEF Inv, OwnKind
  <2>4. OwnWrite'
    <3> SUFFICES ASSUME Own, host.kind = "write"
                 PROVE  /\ dev'.out = host.out /\ dev'.got = host.moved
                        /\ dev'.state = "taking" <=> host.phase = "data"
      BY <1>14, <2>2 DEF OwnWrite
    <3>1. /\ dev.out = host.out /\ dev.got = host.moved
          /\ dev.state = "taking" <=> host.phase = "data"
      BY DEF Inv, OwnWrite
    <3> QED BY <1>1, <1>4, <1>6, <1>12, <3>1
  <2>5. OwnRead'
    <3> SUFFICES ASSUME Own, host.kind = "read", dev'.state \in {"sending", "status"}
                 PROVE  /\ Len(dev'.got) <= N
                        /\ dev'.state = "sending" <=> Len(dev'.got) < N
                        /\ host.phase = "data" /\ Len(host.moved) + 1 = Len(dev'.got)
      BY <1>14, <2>2 DEF OwnRead
    <3>1. dev.state = "sending"
      BY <1>1, <1>6
    <3>2. Len(dev.got) < N
      BY <3>1 DEF Inv, Moving
    <3>3. host.phase = "data" /\ Len(host.moved) = 0 /\ Len(dev.got) = 0
      BY <1>1, <1>7, <1>14, <3>1, <3>2 DEF Inv, OwnRead
    <3>4. Len(dev'.got) = 1 /\ dev'.state = IF 1 = N THEN "status" ELSE "sending"
      BY <1>5, <3>1, <3>3
    <3>5. Len(dev'.got) <= N /\ (dev'.state = "sending" <=> Len(dev'.got) < N)
      BY <1>7, <3>4
    <3> QED BY <3>3, <3>4, <3>5
  <2> QED BY <1>9, <1>11, <1>14, <2>1, <2>3, <2>4, <2>5 DEF Inv
<1>15. CASE host' = NoCommand /\ UNCHANGED <<saved, ok>>
  <2>1. Types' /\ Tags' /\ Phases' /\ ~Own'
    BY <1>4, <1>15 DEF Inv, Types, Tags, Phases, Own
  <2> QED BY <1>9, <1>11, <1>15, <2>1 DEF Inv, OwnKind, OwnWrite, OwnRead
<1>16. CASE /\ dev.in = host.in /\ host.phase = "data"
            /\ host' = [Moved(host, p) EXCEPT !.in = Flip(@)]
            /\ UNCHANGED <<saved, ok>>
  <2>1. m \in Seq(Packets) /\ Len(m) = Len(host.moved) + 1
    BY <1>7, <1>8
  <2>2. host.kind = "read" /\ Len(host.moved) < N
    BY <1>1, <1>16 DEF Inv, Phases
  <2>3. /\ host' \in Commands /\ host'.tag = host.tag /\ host'.kind = "read"
        /\ host'.moved = m /\ host'.in = Flip(host.in) /\ host'.out = host.out
        /\ host'.phase = IF Len(m) = N THEN "csw" ELSE "data"
    <3> DEFINE ph == IF Len(m) = N THEN "csw" ELSE "data"
    <3>1. host' = [host EXCEPT !.moved = m, !.phase = ph, !.in = Flip(host.in)]
      BY <1>1, <1>16 DEF Moved, Commands
    <3>2. Flip(host.in) \in {0, 1} /\ ph \in {"cbw", "data", "csw"}
      BY <1>7 DEF Flip
    <3> HIDE DEF ph, m
    <3>3. /\ host' \in Commands /\ host'.tag = host.tag /\ host'.kind = "read"
          /\ host'.moved = m /\ host'.in = Flip(host.in) /\ host'.out = host.out /\ host'.phase = ph
      BY <1>1, <2>1, <2>2, <3>1, <3>2 DEF Commands
    <3> QED BY <3>3 DEF ph
  <2> HIDE DEF m
  <2>4. host' # NoCommand
    BY <2>3, CommandIsOne
  <2>5. Types' /\ Tags' /\ Phases'
    BY <1>4, <1>7, <1>16, <2>1, <2>2, <2>3 DEF Inv, Types, Tags, Phases
  <2>6. Own' <=> Own
    BY <1>4, <1>13, <2>3, <2>4 DEF Own
  <2>7. OwnKind' /\ OwnWrite'
    BY <1>4, <2>2, <2>3, <2>6 DEF Inv, OwnKind, OwnWrite
  <2>8. OwnRead'
    <3> SUFFICES ASSUME Own, dev'.state \in {"sending", "status"}
                 PROVE  /\ Len(dev'.got) <= N
                        /\ dev'.state = "sending" <=> Len(dev'.got) < N
                        /\ \/ /\ Begins(host'.moved, host'.tag) /\ Len(host'.moved) = Len(dev'.got)
                              /\ host'.phase = "data" => dev'.in = host'.in \/ Len(dev'.got) = 0
                              /\ host'.phase = "csw" => Len(host'.moved) = N
                           \/ /\ host'.phase = "data" /\ Len(host'.moved) + 1 = Len(dev'.got)
                              /\ dev'.in = host'.in
      BY <2>6 DEF OwnRead
    <3>1. dev.state = "sending"
      BY <1>1, <1>6
    <3>2. Len(dev.got) < N /\ Len(dev'.got) = Len(dev.got) + 1 /\ dev'.in = host'.in
      BY <1>4, <1>5, <1>16, <2>3, <3>1 DEF Inv, Moving
    <3>3. Len(dev'.got) <= N /\ (dev'.state = "sending" <=> Len(dev'.got) < N)
      BY <1>5, <1>7, <3>1, <3>2
    <3>4. \/ Begins(host.moved, host.tag) /\ Len(host.moved) = Len(dev.got)
          \/ Len(host.moved) + 1 = Len(dev.got)
      BY <2>2, <3>1 DEF Inv, OwnRead
    <3>5. CASE Begins(host.moved, host.tag) /\ Len(host.moved) = Len(dev.got)
      <4>1. p = Data(host.tag, Len(host.moved) + 1)
        BY <1>5, <1>13, <3>1, <3>5
      <4>2. Begins(m, host.tag)
        BY <1>7, <3>5, <4>1, BeginsGrows DEF m
      <4> QED BY <2>1, <2>3, <3>2, <3>3, <3>5, <4>2
    <3>6. CASE Len(host.moved) + 1 = Len(dev.got)
      <4>1. Len(m) < N
        BY <1>7, <2>1, <3>2, <3>6
      <4> QED BY <1>7, <2>1, <2>3, <3>2, <3>3, <3>6, <4>1
    <3> QED BY <3>4, <3>5, <3>6
  <2> QED BY <1>9, <1>11, <1>16, <2>5, <2>7, <2>8 DEF Inv
<1>17. CASE /\ host.phase = "csw" /\ host' = NoCommand
            /\ saved' = [saved EXCEPT !.in = Flip(host.in), !.out = host.out]
            /\ ok' = IF Accepted(p, host.tag)
                     THEN ok \cup {[tag |-> host.tag, kind |-> host.kind, data |-> host.moved]}
                     ELSE ok
  <2>1. saved' \in [in : {0, 1}, out : {0, 1}, tag : Nat] /\ saved'.tag = saved.tag
    <3>1. saved \in [in : {0, 1}, out : {0, 1}, tag : Nat] /\ Flip(host.in) \in {0, 1}
      BY <1>7 DEF Inv, Types, Flip
    <3> QED BY <1>7, <1>17, <3>1
  <2>2. Types' /\ Tags' /\ Phases' /\ ~Own'
    BY <1>4, <1>17, <2>1 DEF Inv, Types, Tags, Phases, Own
  <2>3. OkMeansDone'
    <3>1. CASE ~Accepted(p, host.tag)
      BY <1>11, <1>17, <3>1
    <3>2. CASE Accepted(p, host.tag)
      <4>1. p.what = "csw" /\ p.tag = host.tag /\ p.good
        BY <3>2 DEF Accepted
      <4>2. dev.state = "status"
        BY <1>1, <1>5, <4>1 DEF Data
      <4>3. Own /\ good
        BY <1>6, <1>13, <4>1, <4>2 DEF Csw
      <4>4. host.kind = "write" => dev.got = DataOf(dev.tag)
        <5> HAVE host.kind = "write"
        <5>1. dev.got = host.moved /\ Begins(host.moved, host.tag) /\ Len(host.moved) = N
          BY <1>1, <1>17, <4>3 DEF Inv, OwnWrite, Phases
        <5> QED BY <1>7, <1>13, <4>3, <5>1, WholeData
      <4>5. host.kind = "read" => host.moved = DataOf(host.tag)
        <5> HAVE host.kind = "read"
        <5>1. Begins(host.moved, host.tag) /\ Len(host.moved) = N
          BY <1>17, <4>2, <4>3 DEF Inv, OwnRead
        <5> QED BY <1>7, <5>1, WholeData
      <4>6. CarriedOut(dev) /\ host.tag \in done'
        <5>1. dev.kind = host.kind
          BY <4>3 DEF Inv, OwnKind
        <5>2. CarriedOut(dev)
          BY <4>4, <5>1 DEF CarriedOut
        <5> QED BY <1>2, <1>13, <4>1, <4>3, <5>2
      <4> DEFINE r == [tag |-> host.tag, kind |-> host.kind, data |-> host.moved]
      <4>7. r.tag \in done' /\ (r.kind = "read" => r.data = DataOf(r.tag))
        BY <4>5, <4>6
      <4>8. ok' = ok \cup {r}
        BY <1>17, <3>2
      <4> HIDE DEF r
      <4> QED BY <1>10, <4>7, <4>8 DEF Inv, OkMeansDone
    <3> QED BY <3>1, <3>2
  <2> QED BY <1>9, <2>2, <2>3 DEF Inv, OwnKind, OwnWrite, OwnRead
<1> QED BY <1>3, <1>14, <1>15, <1>16, <1>17

\* All steps together.
LEMMA StepInv ==
  ASSUME Size, Inv, [Next]_vars
  PROVE  Inv'
<1>1. CASE Out
  <2>1. host.phase \in {"cbw", "data"}
    BY <1>1 DEF Out, Sends
  <2> QED BY <1>1, <2>1, BlockStep, DataOutStep
<1>2. CASE UNCHANGED vars
  BY <1>2 DEF vars, Inv, Types, Tags, Phases, Moving, OwnKind, OwnWrite, OwnRead, Own, OkMeansDone
<1> QED BY <1>1, <1>2, CommandStep, GivesUpStep, InStep DEF Next

\* The invariant holds at the start.
LEMMA InitInv ==
  ASSUME Size, Init
  PROVE  Inv
<1>1. /\ dev \in Devices /\ dev.tag = 0 /\ dev.state = "ready"
      /\ saved \in [in : {0, 1}, out : {0, 1}, tag : Nat] /\ saved.tag = 1
  BY DEF Init, Devices, Kinds
<1>2. host = NoCommand /\ ok = {}
  BY DEF Init
<1> QED BY <1>1, <1>2 DEF Inv, Types, Tags, Phases, Moving, OwnKind, OwnWrite, OwnRead, Own, OkMeansDone

\* Whatever fails, is given up or dropped for a toggle before and in it: a command that
\* returns Ok has been carried out, and what it read is its own data (command in msc.rs).
THEOREM OkIsDone ==
  ASSUME Size
  PROVE  Spec => []OkMeansDone
<1>1. Init => Inv
  BY InitInv
<1>2. Inv /\ [Next]_vars => Inv'
  BY StepInv
<1>3. Inv => OkMeansDone
  BY DEF Inv
<1> QED BY <1>1, <1>2, <1>3, PTL DEF Spec
=============================================================================
