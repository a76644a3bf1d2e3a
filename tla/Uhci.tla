--------------------------------- MODULE Uhci ---------------------------------
(***************************************************************************)
(* Finding the devices on the USB (kernel/src/usb/uhci.rs): resetting a    *)
(* port makes what is plugged into it listen at address 0, from where it   *)
(* is moved to an address of its own; behind a hub the same goes on one    *)
(* port at a time.  Devices come and go and transfers fail meanwhile.  The *)
(* bus is external: a device hears what is sent to the address it has.     *)
(***************************************************************************)
EXTENDS Naturals, Sequences, FiniteSets, SequencesExt, SequenceTheorems, TLAPS

CONSTANTS
  MAX_PORTS, MAX_DEVICES,
  Port,        \* of each device there is, where it is plugged in: on root or a hub
  Kind,        \* of each, "hub", "hid" or "drive"
  HubPorts,    \* ports of a hub
  MaxFaults,   \* bound: transfers that fail
  MaxUnplugs   \* bound: devices pulled out

Things == DOMAIN Kind

VARIABLES
  bus,         \* of each device: out, off (plugged in), or the address it listens at
  next_addr,
  devices,     \* the HID devices that are polled, in slot order
  msc,         \* the drive, or NoOne
  ports_seen,
  work,        \* the calls under way, the innermost last
  lost,        \* history: whether a device was given up while it listened
  faults, unplugs

vars == <<bus, next_addr, devices, msc, ports_seen, work, lost, faults, unplugs>>

Out == [is |-> "out"]
Off == [is |-> "off"]
On(a) == [is |-> "on", addr |-> a]
NoOne == [addr |-> 0, who |-> "none"]

Listening(a) == {t \in Things : bus[t] = On(a)}
Full == Len(devices) >= MAX_DEVICES

\* What is plugged into a hub, or into a hub behind it, loses its address with it.
Behind(h) ==
  {t \in Things : \A S \in SUBSET Things :
     (\A u \in Things : Port[u].on \in S \cup {h} => u \in S) => t \in S}
Cut(b, h) == [t \in Things |-> IF t \in Behind(h) /\ b[t] # Out THEN Off ELSE b[t]]

\* Calls.
Top == Last(work)
Return == work' = Front(work)
Goto(call) == work' = Append(Front(work), call)
Enter(call, rest) == work' = Append(Append(Front(work), rest), call)
Scan(port) == [do |-> "scan", at |-> port]
Attach(step, who) == [do |-> "attach", at |-> step, who |-> who]
Hub(addr, port) == [do |-> "hub", at |-> port, addr |-> addr]

Fault == faults < MaxFaults /\ faults' = faults + 1
NoFault == UNCHANGED faults

-----------------------------------------------------------------------------
(* The root ports.                                                           *)

\* enumerate_ports, and poll from then on.
Poll ==
  /\ work = <<>>
  /\ work' = <<Scan(1)>>
  /\ UNCHANGED <<bus, next_addr, devices, msc, ports_seen, lost, faults, unplugs>>

\* A variant that looks at every port each time (for the mutation checks).
EveryPort(port) == ~Full

\* Ports are left alone once something was found in them, or when all slots are taken.
MayScan(port) == ~ports_seen[port] /\ ~Full

InPort(hub, port) == {t \in Things : Port[t] = [on |-> hub, n |-> port] /\ bus[t] # Out}

ScanPort ==
  /\ work # <<>> /\ Top.do = "scan"
  /\ IF Top.at > MAX_PORTS
     THEN Return /\ UNCHANGED <<bus, ports_seen>> /\ NoFault
     ELSE IF ~MayScan(Top.at) \/ InPort("root", Top.at) = {}
     THEN Goto(Scan(Top.at + 1)) /\ UNCHANGED <<bus, ports_seen>> /\ NoFault
     ELSE \E t \in InPort("root", Top.at) :
            \* reset_port: the device listens, and a hub has forgotten its ports
            \/ /\ bus' = [Cut(bus, t) EXCEPT ![t] = On(0)]
               /\ ports_seen' = [ports_seen EXCEPT ![Top.at] = TRUE]
               /\ Enter(Attach("read", t), Scan(Top.at + 1)) /\ NoFault
            \* or the port does not come up
            \/ /\ bus' = [Cut(bus, t) EXCEPT ![t] = Off]
               /\ Goto(Scan(Top.at + 1)) /\ UNCHANGED ports_seen /\ Fault
  /\ UNCHANGED <<next_addr, devices, msc, lost, unplugs>>

-----------------------------------------------------------------------------
(* attach_from_address0.                                                     *)

\* Whoever is left listening at address 0, or at an address not used up.
GivenUp == lost' = (lost \/ \E t \in Things : bus'[t] \in {On(0), On(next_addr')})

\* The first read tells what it is; whoever listens at 0 may answer.
ReadDescriptor ==
  /\ work # <<>> /\ Top.do = "attach" /\ Top.at = "read"
  /\ \/ \E t \in Listening(0) : Goto(Attach("address", t)) /\ NoFault /\ UNCHANGED lost
     \/ /\ Return
        /\ IF Cardinality(Listening(0)) = 1 THEN Fault ELSE NoFault
        /\ lost' = (lost \/ Listening(0) # {})
  /\ UNCHANGED <<bus, next_addr, devices, msc, ports_seen, unplugs>>

\* A variant that goes on with the address (for the mutation checks).
SameAddress == next_addr

NextAddress == next_addr + 1

\* set_address: all that listen at 0 take it; it may also fail half way.
SetAddress ==
  LET moved == [t \in Things |-> IF t \in Listening(0) THEN On(next_addr) ELSE bus[t]]
  IN  /\ work # <<>> /\ Top.do = "attach" /\ Top.at = "address"
      /\ \/ /\ Listening(0) # {} /\ bus' = moved /\ next_addr' = NextAddress
            /\ Goto(Attach("finish", Top.who)) /\ NoFault /\ UNCHANGED lost
         \/ /\ bus' \in {bus, moved} /\ UNCHANGED next_addr
            /\ Return /\ GivenUp
            /\ IF Listening(0) = {} THEN NoFault ELSE Fault
  /\ UNCHANGED <<devices, msc, ports_seen, unplugs>>

\* A hub, a keyboard or mouse, or the first drive; what fails is left alone,
\* but keeps its address.
Finish ==
  LET a == next_addr - 1
      heard == Top.who \in Listening(a)
      new == [addr |-> a, who |-> Top.who]
  IN  /\ work # <<>> /\ Top.do = "attach" /\ Top.at = "finish"
      /\ \/ /\ heard /\ NoFault
            /\ IF Kind[Top.who] = "hub" THEN Goto(Hub(a, 1)) ELSE Return
            /\ devices' = IF Kind[Top.who] = "hid" THEN Append(devices, new) ELSE devices
            /\ msc' = IF Kind[Top.who] = "drive" /\ msc = NoOne THEN new ELSE msc
         \/ /\ IF heard THEN Fault ELSE NoFault
            /\ Return /\ UNCHANGED <<devices, msc>>
      /\ UNCHANGED <<bus, next_addr, ports_seen, lost, unplugs>>

-----------------------------------------------------------------------------
(* enumerate_hub: one port after another.                                    *)

HubPort ==
  LET hubs == {h \in Listening(Top.addr) : Kind[h] = "hub"}
      next == Hub(Top.addr, Top.at + 1)
  IN  /\ work # <<>> /\ Top.do = "hub"
      /\ IF Full \/ Top.at > HubPorts
         THEN Return /\ UNCHANGED bus /\ NoFault
         ELSE \/ \E h \in hubs : \E t \in InPort(h, Top.at) :
                   /\ bus' = [Cut(bus, t) EXCEPT ![t] = On(0)]
                   /\ Enter(Attach("read", t), next) /\ NoFault
              \/ /\ \A h \in hubs : InPort(h, Top.at) = {}
                 /\ Goto(next) /\ UNCHANGED bus /\ NoFault
              \* the status read fails, or the reset does and nobody answers
              \/ hubs # {} /\ Goto(next) /\ UNCHANGED bus /\ Fault
      /\ UNCHANGED <<next_addr, devices, msc, ports_seen, lost, unplugs>>

-----------------------------------------------------------------------------
(* People.                                                                   *)

Plug(t) ==
  /\ bus[t] = Out
  /\ bus' = [bus EXCEPT ![t] = Off]
  /\ UNCHANGED <<next_addr, devices, msc, ports_seen, work, lost, faults, unplugs>>

\* Nobody notices; who is history, and forgets what is no longer there.
Forgotten(d, t) == IF d.who \in {t} \cup Behind(t) THEN [d EXCEPT !.who = "none"] ELSE d

Unplug(t) ==
  /\ bus[t] # Out /\ unplugs < MaxUnplugs
  /\ unplugs' = unplugs + 1
  /\ bus' = [Cut(bus, t) EXCEPT ![t] = Out]
  /\ devices' = [i \in DOMAIN devices |-> Forgotten(devices[i], t)]
  /\ msc' = Forgotten(msc, t)
  /\ UNCHANGED <<next_addr, ports_seen, work, lost, faults>>

-----------------------------------------------------------------------------
Init ==
  /\ bus = [t \in Things |-> Out]
  /\ next_addr = 1 /\ devices = <<>> /\ msc = NoOne
  /\ ports_seen = [p \in 1 .. MAX_PORTS |-> FALSE]
  /\ work = <<>> /\ lost = FALSE /\ faults = 0 /\ unplugs = 0

Next ==
  \/ Poll \/ ScanPort \/ ReadDescriptor \/ SetAddress \/ Finish \/ HubPort
  \/ \E t \in Things : Plug(t) \/ Unplug(t)

Spec == Init /\ [][Next]_vars

-----------------------------------------------------------------------------
(* Every variable keeps its type; the devices fit the descriptors set aside  *)
(* for them.                                                                 *)
TypeOK ==
  /\ \A t \in Things : bus[t] \in {Out, Off} \cup {On(a) : a \in 0 .. next_addr}
  /\ next_addr \in Nat /\ Len(devices) <= MAX_DEVICES
  /\ \A d \in Range(devices) \cup {msc} : d.addr < next_addr /\ d.who \in Things \cup {"none"}
  /\ ports_seen \in [1 .. MAX_PORTS -> BOOLEAN]
  /\ lost \in BOOLEAN /\ faults \in 0 .. MaxFaults /\ unplugs \in 0 .. MaxUnplugs

(* A device that was attached goes on listening at its address for as long   *)
(* as it is plugged in, and no other does, whatever is plugged in, pulled    *)
(* out or reset meanwhile, at a port or behind a hub: unless an attach was   *)
(* given up while the device listened at address 0 or at the next address,   *)
(* where the following one joins it (attach_from_address0).                  *)
AttachedListenAlone ==
  ~lost => \A d \in Range(devices) \cup {msc} :
    d.who # "none" => Listening(d.addr) = {d.who}

-----------------------------------------------------------------------------
(* The proof, for any devices and any tree of hubs.                          *)

\* Everything is plugged in somewhere, and nothing into itself.
Topology ==
  /\ Port \in [Things -> [on : Things \cup {"root"}, n : Nat]]
  /\ "root" \notin Things /\ "none" \notin Things
  /\ \A t \in Things : t \notin Behind(t)
  /\ MAX_PORTS \in Nat

Calls ==
  [do : {"scan"}, at : Nat \ {0}]
  \cup [do : {"attach"}, at : {"read", "address", "finish"}, who : Things]
  \cup [do : {"hub"}, at : Nat, addr : Nat]
Records == [addr : Nat, who : Things \cup {"none"}]

Types ==
  /\ bus \in [Things -> {Out, Off} \cup {On(a) : a \in Nat}]
  /\ next_addr \in Nat \ {0}
  /\ devices \in Seq(Records) /\ msc \in Records
  /\ ports_seen \in [1 .. MAX_PORTS -> BOOLEAN]
  /\ work \in Seq(Calls)
  /\ lost \in BOOLEAN

\* Neither the device nor what is behind it listens anywhere.
Silent(t) == bus[t] \in {Out, Off}
Quiet(t) == \A u \in Behind(t) \cup {t} : Silent(u)

Attaching(step) == work # <<>> /\ Top.do = "attach" /\ Top.at = step

\* An attached device is the one that listens at its address, which is used up.
Recorded(d) == d.who # "none" => d.addr \in 1 .. next_addr - 1 /\ Listening(d.addr) = {d.who}

\* Ports of a hub that are still to be looked at have nobody listening behind them.
Untouched(e) ==
  e.do = "hub" =>
    /\ e.addr \in 1 .. next_addr - 1
    /\ \A h \in Listening(e.addr), t \in Things : Port[t].on = h /\ Port[t].n >= e.at => Quiet(t)

\* The calls under way: an attach is the innermost, and inner hubs came later.
Nested ==
  /\ \A i \in DOMAIN work : work[i].do = "attach" => i = Len(work)
  /\ \A i, j \in DOMAIN work :
       work[i].do = "hub" /\ work[j].do = "hub" /\ i < j => work[i].addr < work[j].addr
  /\ Attaching("finish") => \A i \in DOMAIN work : work[i].do = "hub" => work[i].addr < next_addr - 1

\* The one that is being attached is alone at address 0, and then at its own.
Newcomer ==
  /\ Listening(0) \subseteq IF Attaching("read") \/ Attaching("address") THEN {Top.who} ELSE {}
  /\ Attaching("finish") => next_addr > 1 /\ Listening(next_addr - 1) \subseteq {Top.who}
  /\ work # <<>> /\ Top.do = "attach" => \A u \in Behind(Top.who) : Silent(u)

Unseen ==
  \A p \in 1 .. MAX_PORTS, t \in Things : ~ports_seen[p] /\ Port[t] = [on |-> "root", n |-> p] => Quiet(t)

Used == \A t \in Things, a \in Nat : bus[t] = On(a) => a < next_addr

Listed(d) == d = msc \/ \E i \in DOMAIN devices : devices[i] = d
Pending(e) == \E i \in DOMAIN work : work[i] = e

Settled ==
  /\ \A d \in Records : Listed(d) => Recorded(d)
  /\ \A e \in Calls : Pending(e) => Untouched(e)
  /\ Nested /\ Newcomer /\ Unseen /\ Used

Inv == Types /\ (~lost => Settled)

\* What is behind a hub is plugged into it or into what is behind it, and all that is.
LEMMA BehindHub ==
  ASSUME NEW h, NEW t \in Things
  PROVE  /\ Port[t].on = h \/ Port[t].on \in Behind(h) => t \in Behind(h) /\ Behind(t) \subseteq Behind(h)
         /\ t \in Behind(h) => Port[t].on = h \/ Port[t].on \in Behind(h)
<1>1. ASSUME NEW g, NEW u \in Things, Port[u].on \in Behind(g) \cup {g} PROVE u \in Behind(g)
  BY <1>1 DEF Behind
<1>2. ASSUME Port[t].on = h \/ Port[t].on \in Behind(h) PROVE Behind(t) \subseteq Behind(h)
  <2>1. t \in Behind(h)
    BY <1>1, <1>2
  <2>2. \A u \in Things : Port[u].on \in Behind(h) \cup {t} => u \in Behind(h)
    BY <1>1, <2>1
  <2>3. Behind(h) \in SUBSET Things
    BY DEF Behind
  <2> QED BY <2>2, <2>3 DEF Behind
<1>3. ASSUME t \in Behind(h) PROVE Port[t].on = h \/ Port[t].on \in Behind(h)
  <2> DEFINE S == {u \in Things : Port[u].on \in Behind(h) \cup {h}}
  <2>1. \A u \in Things : Port[u].on \in S \cup {h} => u \in S
    <3> SUFFICES ASSUME NEW u \in Things, Port[u].on \in S PROVE u \in S
      OBVIOUS
    <3>1. Port[u].on \in Behind(h)
      BY <1>1
    <3> QED BY <3>1
  <2>2. S \in SUBSET Things
    OBVIOUS
  <2> HIDE DEF S
  <2>3. t \in S
    BY <1>3, <2>1, <2>2 DEF Behind
  <2> QED BY <2>3 DEF S
<1> QED BY <1>1, <1>2, <1>3

\* Addresses are told apart.
LEMMA Addresses ==
  /\ \A a, b : On(a) = On(b) => a = b
  /\ \A a : On(a) # Out /\ On(a) # Off
  /\ Out # Off
BY DEF On, Out, Off

\* Devices that fall silent take nothing from those that listen.
LEMMA Silencing ==
  ASSUME NEW b, bus' = b, \A t \in Things : b[t] = bus[t] \/ b[t] \in {Out, Off}
  PROVE  /\ \A a : Listening(a)' \subseteq Listening(a)
         /\ \A t \in Things : Silent(t) => Silent(t)'
         /\ \A t \in Things : Quiet(t) => Quiet(t)'
<1>1. ASSUME NEW a PROVE Listening(a)' \subseteq Listening(a)
  BY Addresses DEF Listening
<1>2. \A t \in Things : Silent(t) => Silent(t)'
  BY DEF Silent
<1>3. \A t \in Things : Quiet(t) => Quiet(t)'
  BY <1>2 DEF Quiet, Behind
<1> QED BY <1>1, <1>2, <1>3

\* A port is reset behind which nobody listened: whoever is in it listens at 0.
LEMMA Awakening ==
  ASSUME Topology, bus \in [Things -> {Out, Off} \cup {On(a) : a \in Nat}],
         NEW t \in Things, Quiet(t), bus' = [Cut(bus, t) EXCEPT ![t] = On(0)]
  PROVE  /\ bus' \in [Things -> {Out, Off} \cup {On(a) : a \in Nat}]
         /\ \A a : a # 0 => Listening(a)' = Listening(a)
         /\ Listening(0)' \subseteq Listening(0) \cup {t}
         /\ \A u \in Behind(t) : Silent(u)'
         /\ \A u \in Things : Quiet(u) /\ u # t /\ t \notin Behind(u) => Quiet(u)'
<1>1. \A u \in Things : bus'[u] = IF u = t THEN On(0) ELSE IF u \in Behind(t) /\ bus[u] # Out THEN Off ELSE bus[u]
  BY DEF Cut
<1>2. bus' \in [Things -> {Out, Off} \cup {On(a) : a \in Nat}]
  BY DEF Cut
<1>3. \A u \in Behind(t) \cup {t} : Silent(u) /\ u \in Things
  BY DEF Quiet, Behind
<1>4. \A u \in Things : u # t => (Silent(u) => Silent(u)') /\ (~Silent(u) => bus'[u] = bus[u])
  BY <1>1, <1>3 DEF Silent
<1>5. ASSUME NEW a, a # 0 PROVE Listening(a)' = Listening(a)
  BY <1>1, <1>3, <1>4, <1>5, Addresses DEF Listening, Silent
<1>6. Listening(0)' \subseteq Listening(0) \cup {t}
  BY <1>4, Addresses DEF Listening, Silent
<1>7. \A u \in Behind(t) : Silent(u)'
  BY <1>3, <1>4 DEF Topology
<1>8. \A u \in Things : Quiet(u) /\ u # t /\ t \notin Behind(u) => Quiet(u)'
  BY <1>4 DEF Quiet, Behind
<1> QED BY <1>2, <1>5, <1>6, <1>7, <1>8

\* The calls after a return, a step of the innermost, and a further call.
LEMMA Returning ==
  ASSUME work \in Seq(Calls), work # <<>>, Return
  PROVE  /\ work' \in Seq(Calls) /\ Len(work') = Len(work) - 1 /\ Len(work) \in Nat
         /\ \A i \in DOMAIN work' : i \in DOMAIN work /\ i # Len(work) /\ work'[i] = work[i]
         /\ work' # <<>> => Last(work') = work[Len(work) - 1] /\ Len(work) - 1 \in DOMAIN work
<1>1. work' = SubSeq(work, 1, Len(work) - 1) /\ Len(work) \in Nat \ {0} /\ DOMAIN work = 1 .. Len(work)
  BY DEF Return, Front
<1>2. \A i \in 1 .. Len(work) - 1 : work[i] \in Calls
  OBVIOUS
<1>3. /\ work' \in Seq(Calls) /\ Len(work') = Len(work) - 1
      /\ \A i \in 1 .. Len(work) - 1 : work'[i] = work[i]
  BY <1>1, <1>2, SubSeqProperties
<1>4. DOMAIN work' = 1 .. Len(work) - 1
  BY <1>3
<1>5. ASSUME work' # <<>> PROVE Last(work') = work[Len(work) - 1] /\ Len(work) - 1 \in DOMAIN work
  <2>1. Len(work') # 0
    BY <1>3, <1>5
  <2> QED BY <1>1, <1>3, <2>1 DEF Last
<1> QED BY <1>1, <1>3, <1>4, <1>5

\* The innermost call goes on as another one.
LEMMA Going ==
  ASSUME work \in Seq(Calls), work # <<>>, NEW c \in Calls, Goto(c)
  PROVE  /\ work' \in Seq(Calls) /\ Len(work') = Len(work) /\ Len(work) \in Nat \ {0}
         /\ DOMAIN work' = DOMAIN work /\ Last(work') = c /\ work' # <<>>
         /\ \A i \in DOMAIN work : work'[i] = IF i = Len(work) THEN c ELSE work[i]
<1> DEFINE s == SubSeq(work, 1, Len(work) - 1)
<1>1. work' = Append(s, c) /\ Len(work) \in Nat \ {0} /\ DOMAIN work = 1 .. Len(work)
  BY DEF Goto, Front
<1>2. s \in Seq(Calls) /\ Len(s) = Len(work) - 1 /\ \A i \in 1 .. Len(work) - 1 : s[i] = work[i]
  <2>1. \A i \in 1 .. Len(work) - 1 : work[i] \in Calls
    OBVIOUS
  <2> QED BY <1>1, <2>1, SubSeqProperties
<1> HIDE DEF s
<1>3. work' \in Seq(Calls) /\ Len(work') = Len(work)
  <2>1. Append(s, c) \in Seq(Calls) /\ Len(Append(s, c)) = Len(s) + 1
    BY <1>2
  <2> QED BY <1>1, <1>2, <2>1
<1>4. DOMAIN work' = 1 .. Len(work)
  BY <1>3
<1>5. work'[Len(work)] = c
  <2>1. Len(s) + 1 = Len(work)
    BY <1>1, <1>2
  <2>2. Append(s, c)[Len(s) + 1] = c
    BY <1>2
  <2> QED BY <1>1, <2>1, <2>2
<1>6. \A i \in 1 .. Len(work) - 1 : work'[i] = work[i]
  BY <1>1, <1>2
<1>7. work' # <<>>
  BY <1>1, <1>3
<1>8. Last(work') = c
  BY <1>3, <1>5 DEF Last
<1>9. ASSUME NEW i \in DOMAIN work PROVE work'[i] = IF i = Len(work) THEN c ELSE work[i]
  <2>1. i = Len(work) \/ i \in 1 .. Len(work) - 1
    BY <1>1
  <2> QED BY <1>1, <1>5, <1>6, <2>1
<1> QED BY <1>1, <1>3, <1>4, <1>7, <1>8, <1>9

\* The innermost call goes on as rest, below a new one.
LEMMA Entering ==
  ASSUME work \in Seq(Calls), work # <<>>, NEW c \in Calls, NEW rest \in Calls, Enter(c, rest)
  PROVE  /\ work' \in Seq(Calls) /\ Len(work') = Len(work) + 1 /\ Len(work) \in Nat \ {0}
         /\ Last(work') = c /\ work' # <<>>
         /\ \A i \in DOMAIN work' : \/ i = Len(work) + 1 /\ work'[i] = c
                                    \/ i = Len(work) /\ work'[i] = rest
                                    \/ i \in DOMAIN work /\ i # Len(work) /\ work'[i] = work[i]
BY DEF Enter, Front, Last

\* The calls of the scan, of an attach and of a hub.
LEMMA CallKinds ==
  /\ \A p \in Nat \ {0} : Scan(p) \in Calls /\ Scan(p).do = "scan"
  /\ \A s \in {"read", "address", "finish"}, t \in Things :
       Attach(s, t) \in Calls /\ Attach(s, t).do = "attach" /\ Attach(s, t).at = s /\ Attach(s, t).who = t
  /\ \A a \in Nat, p \in Nat : Hub(a, p) \in Calls /\ Hub(a, p).do = "hub" /\ Hub(a, p).at = p /\ Hub(a, p).addr = a
BY DEF Calls, Scan, Attach, Hub

\* The innermost call is one of the calls.
LEMMA TopCall ==
  ASSUME work \in Seq(Calls), work # <<>>
  PROVE  Len(work) \in DOMAIN work /\ Top = work[Len(work)] /\ Top \in Calls
BY DEF Top, Last

\* Nested calls stay nested when the innermost returns, goes on, or calls.
LEMMA NestedReturning ==
  ASSUME Types, Nested, work # <<>>, Return
  PROVE  /\ work' \in Seq(Calls) /\ Nested' /\ \A step : ~Attaching(step)'
         /\ work' # <<>> => Top'.do # "attach"
         /\ \A e : Pending(e)' => Pending(e)
<1>1. work \in Seq(Calls)
  BY DEF Types
<1>2. /\ work' \in Seq(Calls) /\ Len(work') = Len(work) - 1 /\ Len(work) \in Nat
      /\ \A i \in DOMAIN work' : i \in DOMAIN work /\ i # Len(work) /\ work'[i] = work[i]
      /\ work' # <<>> => Last(work') = work[Len(work) - 1] /\ Len(work) - 1 \in DOMAIN work
  BY <1>1, Returning
<1>3. \A e : Pending(e)' => Pending(e)
  BY <1>2 DEF Pending
<1>4. ASSUME work' # <<>> PROVE Top'.do # "attach"
  <2>1. Top' = work[Len(work) - 1] /\ Len(work) - 1 \in DOMAIN work
    BY <1>2, <1>4 DEF Top
  <2> QED BY <1>2, <2>1 DEF Nested
<1>5. \A step : ~Attaching(step)'
  BY <1>4 DEF Attaching
<1>6. Nested'
  BY <1>2, <1>5 DEF Nested
<1> QED BY <1>2, <1>3, <1>4, <1>5, <1>6

\* The calls stay nested when the innermost goes on.
LEMMA NestedGoing ==
  ASSUME Types, Nested, work # <<>>, NEW c \in Calls, Goto(c),
         c.do = "hub" => \A i \in DOMAIN work : i # Len(work) /\ work[i].do = "hub" => work[i].addr < c.addr,
         c.do = "attach" /\ c.at = "finish" =>
           \A i \in DOMAIN work : i # Len(work) /\ work[i].do = "hub" => work[i].addr < next_addr' - 1
  PROVE  /\ work' \in Seq(Calls) /\ Nested' /\ work' # <<>> /\ Top' = c
         /\ \A e : Pending(e)' => Pending(e) \/ e = c
<1>1. /\ work' \in Seq(Calls) /\ Len(work') = Len(work) /\ Len(work) \in Nat \ {0}
      /\ DOMAIN work' = DOMAIN work /\ Last(work') = c /\ work' # <<>> /\ DOMAIN work = 1 .. Len(work)
      /\ \A i \in DOMAIN work : work'[i] = IF i = Len(work) THEN c ELSE work[i]
  BY Going DEF Types
<1>2. \A e : Pending(e)' => Pending(e) \/ e = c
  BY <1>1 DEF Pending
<1>3. Top' = c
  BY <1>1 DEF Top
<1>4. Nested'
  <2>1. \A i \in DOMAIN work' : work'[i].do = "attach" => i = Len(work')
    BY <1>1 DEF Nested
  <2>2. \A i, j \in DOMAIN work' :
          work'[i].do = "hub" /\ work'[j].do = "hub" /\ i < j => work'[i].addr < work'[j].addr
    BY <1>1 DEF Nested
  <2>3. Attaching("finish")' => \A i \in DOMAIN work' : work'[i].do = "hub" => work'[i].addr < next_addr' - 1
    BY <1>1, <1>3 DEF Attaching
  <2> QED BY <2>1, <2>2, <2>3 DEF Nested
<1> QED BY <1>1, <1>2, <1>3, <1>4

\* The calls stay nested when an attach is entered.
LEMMA NestedEntering ==
  ASSUME Types, Nested, work # <<>>, NEW t \in Things, NEW rest \in Calls, Enter(Attach("read", t), rest),
         rest.do = "scan" \/ (rest.do = "hub" /\ Top.do = "hub" /\ rest.addr = Top.addr)
  PROVE  /\ work' \in Seq(Calls) /\ Nested' /\ work' # <<>> /\ Top' = Attach("read", t)
         /\ \A e : Pending(e)' => \/ e = rest \/ e = Attach("read", t)
                                \/ \E i \in DOMAIN work : i # Len(work) /\ work[i] = e
<1> DEFINE c == Attach("read", t)
<1>1. c \in Calls /\ c.do = "attach" /\ c.at = "read"
  BY CallKinds
<1> HIDE DEF c
<1>2. Enter(c, rest)
  BY DEF c
<1>3. /\ work' \in Seq(Calls) /\ Len(work') = Len(work) + 1 /\ Len(work) \in Nat \ {0}
      /\ Last(work') = c /\ work' # <<>>
      /\ \A i \in DOMAIN work' : \/ i = Len(work) + 1 /\ work'[i] = c
                                 \/ i = Len(work) /\ work'[i] = rest
                                 \/ i \in DOMAIN work /\ i # Len(work) /\ work'[i] = work[i]
  BY <1>1, <1>2, Entering DEF Types
<1>4. Top = work[Len(work)] /\ Len(work) \in DOMAIN work /\ DOMAIN work = 1 .. Len(work)
  BY TopCall DEF Types
<1>5. \A e : Pending(e)' => e = rest \/ e = c \/ \E i \in DOMAIN work : i # Len(work) /\ work[i] = e
  BY <1>3 DEF Pending
<1>6. Top' = c
  BY <1>3 DEF Top
<1>7. Nested'
  <2>1. \A i \in DOMAIN work' : work'[i].do = "attach" => i = Len(work')
    BY <1>3, <1>4 DEF Nested
  <2>2. ASSUME NEW i \in DOMAIN work', NEW j \in DOMAIN work',
               work'[i].do = "hub", work'[j].do = "hub", i < j
        PROVE  work'[i].addr < work'[j].addr
    BY <1>1, <1>3, <1>4, <2>2 DEF Nested
  <2>3. ~Attaching("finish")'
    BY <1>1, <1>6 DEF Attaching
  <2> QED BY <2>1, <2>2, <2>3 DEF Nested
<1> QED BY <1>3, <1>5, <1>6, <1>7 DEF c

\* What stays when nobody listens anywhere new, however the calls go on.
LEMMA SilentParts ==
  ASSUME Settled, UNCHANGED next_addr, NEW b, bus' = b, \A t \in Things : b[t] = bus[t] \/ b[t] \in {Out, Off},
         \A p \in 1 .. MAX_PORTS : ports_seen[p] => ports_seen'[p]
  PROVE  /\ Unseen' /\ Used' /\ \A e : Untouched(e) => Untouched(e)'
         /\ \A a : Listening(a)' \subseteq Listening(a)
         /\ \A t \in Things : Silent(t) => Silent(t)'
<1>1. /\ \A a : Listening(a)' \subseteq Listening(a)
      /\ \A t \in Things : Silent(t) => Silent(t)'
      /\ \A t \in Things : Quiet(t) => Quiet(t)'
  BY Silencing
<1>2. Unseen'
  BY <1>1 DEF Settled, Unseen
<1>3. Used'
  BY Addresses DEF Settled, Used
<1>4. \A e : Untouched(e) => Untouched(e)'
  BY <1>1 DEF Untouched
<1> QED BY <1>1, <1>2, <1>3, <1>4

-----------------------------------------------------------------------------
(* The steps.                                                                *)

\* Nobody listens anywhere new, and nobody notices.
LEMMA QuietStep ==
  ASSUME Topology, Inv, UNCHANGED <<next_addr, work, ports_seen, lost>>,
         bus' \in [Things -> {Out, Off} \cup {On(a) : a \in Nat}],
         \A t \in Things : bus'[t] = bus[t] \/ bus'[t] \in {Out, Off},
         devices' \in Seq(Records), msc' \in Records,
         ~lost => \A d \in Records : Listed(d)' => Recorded(d)'
  PROVE  Inv'
<1>1. Types'
  BY DEF Inv, Types
<1>2. ASSUME ~lost PROVE Settled'
  <2>1. /\ \A a : Listening(a)' \subseteq Listening(a)
        /\ \A t \in Things : Silent(t) => Silent(t)'
        /\ \A t \in Things : Quiet(t) => Quiet(t)'
    BY Silencing
  <2>2. Settled
    BY <1>2 DEF Inv
  <2>3. ASSUME NEW e \in Calls, Pending(e)' PROVE Untouched(e)'
    <3>1. Untouched(e)
      BY <2>2, <2>3 DEF Settled, Pending
    <3> QED BY <2>1, <3>1 DEF Untouched
  <2>4. Nested'
    BY <2>2 DEF Settled, Nested, Attaching, Top
  <2>5. Newcomer'
    <3>1. \A step : Attaching(step)' <=> Attaching(step)
      BY DEF Attaching, Top
    <3>2. Top' = Top
      BY DEF Top
    <3>3. Listening(next_addr - 1)' \subseteq Listening(next_addr - 1)
      BY <2>1
    <3>4. \A u \in Behind(Top.who) : u \in Things
      BY DEF Behind
    <3>5. \A u \in Behind(Top.who) : Silent(u) => Silent(u)'
      BY <2>1, <3>4
    <3>6. Newcomer
      BY <2>2 DEF Settled
    <3>7. Listening(0)' \subseteq Listening(0)
      BY <2>1
    <3> HIDE DEF Attaching
    <3>8. Behind(Top'.who) = Behind(Top.who)
      BY <3>2
    <3> QED BY <3>1, <3>2, <3>3, <3>5, <3>6, <3>7, <3>8 DEF Newcomer
  <2>6. Unseen'
    BY <2>1, <2>2 DEF Settled, Unseen
  <2>7. Used'
    BY <2>2, Addresses DEF Settled, Used
  <2>8. \A d \in Records : Listed(d)' => Recorded(d)'
    BY <1>2
  <2> QED BY <2>3, <2>4, <2>5, <2>6, <2>7, <2>8 DEF Settled
<1> QED BY <1>1, <1>2 DEF Inv

\* A device is plugged in.
LEMMA PlugStep ==
  ASSUME Topology, Inv, NEW t \in Things, Plug(t)
  PROVE  Inv'
<1>1. /\ bus[t] = Out /\ bus' = [bus EXCEPT ![t] = Off]
      /\ UNCHANGED <<next_addr, devices, msc, ports_seen, work, lost>>
  BY DEF Plug
<1>2. Types
  BY DEF Inv
<1>3. /\ bus' \in [Things -> {Out, Off} \cup {On(a) : a \in Nat}]
      /\ \A u \in Things : bus'[u] = bus[u] \/ bus'[u] \in {Out, Off}
  BY <1>1, <1>2 DEF Types
<1>4. \A a : Listening(a)' = Listening(a)
  BY <1>1, <1>2, Addresses DEF Listening, Types
<1>5. \A d : Recorded(d) => Recorded(d)'
  BY <1>1, <1>4 DEF Recorded
<1>6. ~lost => \A d \in Records : Listed(d)' => Recorded(d)'
  BY <1>1, <1>5 DEF Inv, Settled, Listed
<1> QED BY <1>1, <1>2, <1>3, <1>6, QuietStep DEF Types

\* A device is pulled out, and all behind it.
LEMMA UnplugStep ==
  ASSUME Topology, Inv, NEW t \in Things, Unplug(t)
  PROVE  Inv'
<1>1. /\ bus' = [Cut(bus, t) EXCEPT ![t] = Out]
      /\ devices' = [i \in DOMAIN devices |-> Forgotten(devices[i], t)]
      /\ msc' = Forgotten(msc, t)
      /\ UNCHANGED <<next_addr, ports_seen, work, lost>>
  BY DEF Unplug
<1>2. Types
  BY DEF Inv
<1>3. \A u \in Things : bus'[u] = IF u = t THEN Out ELSE IF u \in Behind(t) /\ bus[u] # Out THEN Off ELSE bus[u]
  BY <1>1 DEF Cut
<1>4. bus' \in [Things -> {Out, Off} \cup {On(a) : a \in Nat}]
  BY <1>1, <1>2 DEF Cut, Types
<1>5. \A d \in Records : Forgotten(d, t) \in Records
  BY DEF Forgotten, Records
<1>6. msc' \in Records
  BY <1>1, <1>2, <1>5 DEF Types
<1>7. devices' \in Seq(Records) /\ DOMAIN devices' = DOMAIN devices
  <2>1. devices \in Seq(Records)
    BY <1>2 DEF Types
  <2>2. \A i \in DOMAIN devices : devices[i] \in Records
    BY <2>1
  <2>3. \A i \in DOMAIN devices : devices'[i] \in Records
    BY <1>1, <1>5, <2>2
  <2>4. Len(devices) \in Nat /\ DOMAIN devices = 1 .. Len(devices)
    BY <2>1
  <2>5. devices' \in [1 .. Len(devices) -> Records]
    BY <1>1, <2>3, <2>4
  <2> QED BY <1>1, <2>4, <2>5
<1>8. ASSUME NEW d \in Records, Recorded(d) PROVE Recorded(Forgotten(d, t))'
  <2>1. CASE d.who \in {t} \cup Behind(t)
    BY <2>1 DEF Forgotten, Recorded, Records
  <2>2. CASE d.who \notin {t} \cup Behind(t)
    <3>1. Forgotten(d, t) = d
      BY <2>2 DEF Forgotten
    <3>2. ASSUME d.who # "none" PROVE d.addr \in 1 .. next_addr' - 1 /\ Listening(d.addr)' = {d.who}
      <4>1. Listening(d.addr) = {d.who} /\ d.addr \in 1 .. next_addr - 1
        BY <1>8, <3>2 DEF Recorded
      <4>2. Listening(d.addr)' = {d.who}
        BY <1>3, <2>2, <4>1, Addresses DEF Listening
      <4> QED BY <1>1, <4>1, <4>2
    <3> QED BY <3>1, <3>2 DEF Recorded
  <2> QED BY <2>1, <2>2
<1>9. ASSUME ~lost, NEW e \in Records, Listed(e)' PROVE Recorded(e)'
  <2>1. PICK d \in Records : Listed(d) /\ e = Forgotten(d, t)
    <3>1. CASE e = msc'
      BY <1>1, <1>2, <3>1 DEF Types, Listed
    <3>2. CASE \E i \in DOMAIN devices' : devices'[i] = e
      <4>1. PICK i \in DOMAIN devices' : devices'[i] = e
        BY <3>2
      <4>2. i \in DOMAIN devices /\ devices[i] \in Records /\ e = Forgotten(devices[i], t)
        BY <1>1, <1>2, <1>7, <4>1 DEF Types
      <4> QED BY <4>2 DEF Listed
    <3> QED BY <1>9, <3>1, <3>2 DEF Listed
  <2> QED BY <1>8, <1>9, <2>1 DEF Inv, Settled
<1> QED BY <1>1, <1>3, <1>4, <1>6, <1>7, <1>9, QuietStep

\* The calls go on, and nobody listens elsewhere than before.
LEMMA CallStep ==
  ASSUME Settled, UNCHANGED <<bus, next_addr, ports_seen>>,
         Nested', Newcomer',
         \A d \in Records : Listed(d)' => Recorded(d),
         \A e \in Calls : Pending(e)' => Untouched(e)
  PROVE  Settled'
<1>1. /\ \A a : Listening(a)' = Listening(a)
      /\ \A t \in Things : Silent(t)' <=> Silent(t)
  BY DEF Listening, Silent
<1>2. \A t \in Things : Quiet(t) => Quiet(t)'
  BY <1>1 DEF Quiet, Behind
<1>3. \A d \in Records : Listed(d)' => Recorded(d)'
  BY <1>1 DEF Recorded
<1>4. \A e \in Calls : Pending(e)' => Untouched(e)'
  BY <1>1, <1>2 DEF Untouched
<1>5. Unseen'
  BY <1>2 DEF Settled, Unseen
<1>6. Used'
  BY DEF Settled, Used
<1> QED BY <1>3, <1>4, <1>5, <1>6 DEF Settled

\* A device is made to listen at address 0, where nobody listened, nor behind it.
LEMMA ResetStep ==
  ASSUME Topology, Inv, ~lost, Listening(0) = {}, NEW t \in Things, Quiet(t),
         bus' = [Cut(bus, t) EXCEPT ![t] = On(0)], UNCHANGED <<next_addr, devices, msc>>,
         Nested', work' # <<>>, Top' = Attach("read", t),
         \A e \in Calls : Pending(e)' => Untouched(e),
         \A e \in Calls, h \in Things, u \in Things :
           Pending(e)' /\ e.do = "hub" /\ h \in Listening(e.addr) /\ Port[u].on = h /\ Port[u].n >= e.at
             => u # t /\ t \notin Behind(u),
         \A p \in 1 .. MAX_PORTS, u \in Things :
           ~ports_seen'[p] /\ Port[u] = [on |-> "root", n |-> p]
             => ~ports_seen[p] /\ u # t /\ t \notin Behind(u)
  PROVE  Settled'
<1>1. /\ \A a : a # 0 => Listening(a)' = Listening(a)
      /\ Listening(0)' \subseteq {t}
      /\ \A u \in Behind(t) : Silent(u)'
      /\ \A u \in Things : Quiet(u) /\ u # t /\ t \notin Behind(u) => Quiet(u)'
  BY Awakening DEF Inv, Types
<1>2. Settled /\ Types
  BY DEF Inv
<1>3. ASSUME NEW d \in Records, Listed(d)' PROVE Recorded(d)'
  <2>1. Recorded(d)
    BY <1>2, <1>3 DEF Settled, Listed
  <2>2. d.who # "none" => d.addr # 0
    BY <1>2, <2>1 DEF Recorded, Types
  <2> QED BY <1>1, <2>1, <2>2 DEF Recorded
<1>4. ASSUME NEW e \in Calls, Pending(e)' PROVE Untouched(e)'
  <2> SUFFICES ASSUME e.do = "hub"
               PROVE  /\ e.addr \in 1 .. next_addr' - 1
                      /\ \A h \in Listening(e.addr)', u \in Things :
                           Port[u].on = h /\ Port[u].n >= e.at => Quiet(u)'
    BY DEF Untouched
  <2>1. e.addr \in 1 .. next_addr - 1 /\ e.addr # 0
    BY <1>2, <1>4 DEF Untouched, Types
  <2>2. Listening(e.addr)' = Listening(e.addr)
    BY <1>1, <2>1
  <2>3. \A h \in Listening(e.addr) : h \in Things
    BY DEF Listening
  <2>4. ASSUME NEW h \in Listening(e.addr), NEW u \in Things, Port[u].on = h, Port[u].n >= e.at
        PROVE  Quiet(u)'
    <3>1. Quiet(u)
      BY <1>4, <2>4 DEF Untouched
    <3>2. u # t /\ t \notin Behind(u)
      BY <1>4, <2>3, <2>4
    <3> QED BY <1>1, <3>1, <3>2
  <2> QED BY <2>1, <2>2, <2>4
<1>5. Newcomer'
  <2>1. Top'.do = "attach" /\ Top'.at = "read" /\ Top'.who = t
    BY DEF Attach
  <2>2. Attaching("read")' /\ ~Attaching("finish")'
    BY <2>1 DEF Attaching
  <2>3. \A u \in Behind(Top'.who) : Silent(u)'
    BY <1>1, <2>1
  <2> HIDE DEF Attaching
  <2> QED BY <1>1, <2>1, <2>2, <2>3 DEF Newcomer
<1>6. Unseen'
  <2> SUFFICES ASSUME NEW p \in 1 .. MAX_PORTS, NEW u \in Things, ~ports_seen'[p], Port[u] = [on |-> "root", n |-> p]
               PROVE  Quiet(u)'
    BY DEF Unseen
  <2>1. ~ports_seen[p] /\ u # t /\ t \notin Behind(u)
    OBVIOUS
  <2>2. Quiet(u)
    BY <1>2, <2>1 DEF Settled, Unseen
  <2> QED BY <1>1, <2>1, <2>2
<1>7. Used'
  <2> SUFFICES ASSUME NEW u \in Things, NEW a \in Nat, bus'[u] = On(a) PROVE a < next_addr
    BY DEF Used
  <2>1. CASE a = 0
    BY <1>2, <2>1 DEF Types
  <2>2. CASE a # 0
    <3>1. u \in Listening(a)'
      BY DEF Listening
    <3>2. bus[u] = On(a)
      BY <1>1, <2>2, <3>1 DEF Listening
    <3> QED BY <1>2, <3>2 DEF Settled, Used
  <2> QED BY <2>1, <2>2
<1> QED BY <1>3, <1>4, <1>5, <1>6, <1>7 DEF Settled

\* poll begins a scan.
LEMMA PollStep ==
  ASSUME Topology, Inv, Poll
  PROVE  Inv'
<1>1. /\ work = <<>> /\ work' = <<Scan(1)>>
      /\ UNCHANGED <<bus, next_addr, devices, msc, ports_seen, lost>>
  BY DEF Poll
<1>2. Types
  BY DEF Inv
<1>3. Scan(1) \in Calls /\ Scan(1).do = "scan"
  BY CallKinds
<1>4. Types'
  BY <1>1, <1>2, <1>3 DEF Types
<1>5. ASSUME ~lost PROVE Settled'
  <2>1. Settled
    BY <1>5 DEF Inv
  <2>2. \A i \in DOMAIN work' : work'[i] = Scan(1) /\ i = 1
    BY <1>1
  <2>3. Top'.do = "scan"
    BY <1>1, <1>3 DEF Top, Last
  <2>4. \A step : ~Attaching(step)' /\ ~Attaching(step)
    BY <1>1, <2>3 DEF Attaching
  <2>5. Nested'
    BY <1>1, <1>3, <2>2, <2>4 DEF Nested
  <2>6. Listening(0)' = {}
    BY <1>1, <2>1, <2>4 DEF Settled, Newcomer, Listening
  <2>7. Newcomer'
    BY <2>3, <2>4, <2>6 DEF Newcomer
  <2>8. \A d \in Records : Listed(d)' => Recorded(d)
    BY <1>1, <2>1 DEF Settled, Listed
  <2>9. \A e \in Calls : Pending(e)' => Untouched(e)
    BY <1>3, <2>2 DEF Pending, Untouched
  <2> QED BY <1>1, <2>1, <2>5, <2>7, <2>8, <2>9, CallStep
<1> QED BY <1>1, <1>4, <1>5 DEF Inv

\* The calls below the innermost are as they were when it returns.
LEMMA ReturnStep ==
  ASSUME Topology, Inv, ~lost, work # <<>>, Return, UNCHANGED <<bus, next_addr, ports_seen>>,
         Listening(0) = {}, \A d \in Records : Listed(d)' => Recorded(d)
  PROVE  Settled'
<1>1. Types /\ Settled /\ Nested
  BY DEF Inv, Settled
<1>2. /\ Nested' /\ \A step : ~Attaching(step)'
      /\ work' # <<>> => Top'.do # "attach"
      /\ \A e : Pending(e)' => Pending(e)
  BY <1>1, NestedReturning
<1>3. Listening(0)' = {}
  BY DEF Listening
<1>4. Newcomer'
  BY <1>2, <1>3 DEF Newcomer
<1>5. \A e \in Calls : Pending(e)' => Untouched(e)
  BY <1>1, <1>2 DEF Settled
<1> QED BY <1>1, <1>2, <1>4, <1>5, CallStep

\* The innermost call goes on to one that attaches nothing.
LEMMA OnwardStep ==
  ASSUME Topology, Inv, ~lost, work # <<>>, UNCHANGED <<bus, next_addr, ports_seen>>,
         NEW c \in Calls, Goto(c), c.do # "attach", Untouched(c),
         c.do = "hub" => \A i \in DOMAIN work : i # Len(work) /\ work[i].do = "hub" => work[i].addr < c.addr,
         Listening(0) = {}, \A d \in Records : Listed(d)' => Recorded(d)
  PROVE  Settled'
<1>1. Types /\ Settled /\ Nested
  BY DEF Inv, Settled
<1>2. Nested' /\ work' # <<>> /\ Top' = c /\ \A e : Pending(e)' => Pending(e) \/ e = c
  BY <1>1, NestedGoing
<1>3. Listening(0)' = {}
  BY DEF Listening
<1>4. Newcomer'
  BY <1>2, <1>3 DEF Newcomer, Attaching
<1>5. \A e \in Calls : Pending(e)' => Untouched(e)
  BY <1>1, <1>2 DEF Settled
<1> QED BY <1>1, <1>2, <1>4, <1>5, CallStep

\* While nothing is attached nobody listens at address 0.
LEMMA NobodyAtZero ==
  ASSUME Settled, ~Attaching("read"), ~Attaching("address")
  PROVE  Listening(0) = {}
BY DEF Settled, Newcomer

\* scan_roots looks at a port.
LEMMA ScanPortStep ==
  ASSUME Topology, Inv, ScanPort
  PROVE  Inv'
<1>1. /\ work # <<>> /\ Top.do = "scan"
      /\ UNCHANGED <<next_addr, devices, msc, lost>>
  BY DEF ScanPort
<1>2. Types
  BY DEF Inv
<1>3. work \in Seq(Calls) /\ Top \in Calls /\ Len(work) \in DOMAIN work /\ Top = work[Len(work)]
  BY <1>1, <1>2, TopCall DEF Types
<1>4. Top.at \in Nat \ {0}
  BY <1>1, <1>3 DEF Calls
<1> DEFINE c == Scan(Top.at + 1)
<1>5. c \in Calls /\ c.do = "scan"
  BY <1>4, CallKinds
<1>6. ASSUME ~lost
      PROVE  /\ Settled /\ Nested /\ Listening(0) = {}
             /\ \A d \in Records : Listed(d)' => Recorded(d)
  <2>1. Settled
    BY <1>6 DEF Inv
  <2>2. ~Attaching("read") /\ ~Attaching("address")
    BY <1>1 DEF Attaching
  <2>3. Listening(0) = {}
    BY <2>1, <2>2, NobodyAtZero
  <2>4. \A d \in Records : Listed(d)' => Recorded(d)
    BY <1>1, <2>1 DEF Settled, Listed
  <2> QED BY <2>1, <2>3, <2>4 DEF Settled
<1> HIDE DEF c
<1>7. CASE Return /\ UNCHANGED <<bus, ports_seen>>
  <2>1. work' \in Seq(Calls)
    BY <1>1, <1>3, <1>7, Returning
  <2>2. ~lost => Settled'
    BY <1>1, <1>6, <1>7, ReturnStep
  <2> QED BY <1>1, <1>2, <1>7, <2>1, <2>2 DEF Inv, Types
<1>8. CASE Goto(c) /\ UNCHANGED <<bus, ports_seen>>
  <2>1. work' \in Seq(Calls)
    BY <1>1, <1>3, <1>5, <1>8, Going
  <2>2. Untouched(c)
    BY <1>5 DEF Untouched
  <2>3. ~lost => Settled'
    BY <1>1, <1>5, <1>6, <1>8, <2>2, OnwardStep
  <2> QED BY <1>1, <1>2, <1>8, <2>1, <2>3 DEF Inv, Types
<1>9. ASSUME Top.at <= MAX_PORTS, ~ports_seen[Top.at], NEW t \in InPort("root", Top.at)
      PROVE  /\ t \in Things /\ Port[t] = [on |-> "root", n |-> Top.at] /\ Top.at \in 1 .. MAX_PORTS
             /\ \A u \in Things : t \notin Behind(u)
             /\ ~lost => Quiet(t)
  <2>1. t \in Things /\ Port[t] = [on |-> "root", n |-> Top.at]
    BY DEF InPort
  <2>2. Top.at \in 1 .. MAX_PORTS
    BY <1>4, <1>9 DEF Topology
  <2>3. \A u \in Things : t \notin Behind(u)
    <3> SUFFICES ASSUME NEW u \in Things, t \in Behind(u) PROVE FALSE
      OBVIOUS
    <3>1. Port[t].on = u \/ Port[t].on \in Behind(u)
      BY <2>1, BehindHub
    <3>2. Port[t].on \in Things
      BY <3>1 DEF Behind
    <3> QED BY <2>1, <3>2 DEF Topology
  <2>4. ~lost => Quiet(t)
    BY <1>6, <1>9, <2>1, <2>2 DEF Settled, Unseen
  <2> QED BY <2>1, <2>2, <2>3, <2>4
<1>10. ASSUME Top.at <= MAX_PORTS, ~ports_seen[Top.at], NEW t \in InPort("root", Top.at),
              bus' = [Cut(bus, t) EXCEPT ![t] = On(0)],
              ports_seen' = [ports_seen EXCEPT ![Top.at] = TRUE],
              Enter(Attach("read", t), c)
       PROVE  Inv'
  <2>1. /\ t \in Things /\ Port[t] = [on |-> "root", n |-> Top.at] /\ Top.at \in 1 .. MAX_PORTS
        /\ \A u \in Things : t \notin Behind(u)
        /\ ~lost => Quiet(t)
    BY <1>9, <1>10
  <2>2. Types'
    <3>1. bus' \in [Things -> {Out, Off} \cup {On(a) : a \in Nat}]
      BY <1>2, <1>10, <2>1 DEF Types, Cut
    <3>2. ports_seen' \in [1 .. MAX_PORTS -> BOOLEAN]
      BY <1>2, <1>10 DEF Types
    <3>3. work' \in Seq(Calls)
      BY <1>1, <1>3, <1>5, <1>10, <2>1, CallKinds, Entering
    <3> QED BY <1>1, <1>2, <3>1, <3>2, <3>3 DEF Types
  <2>3. ASSUME ~lost PROVE Settled'
    <3>1. Settled /\ Nested /\ Listening(0) = {} /\ Quiet(t)
      BY <1>6, <2>1, <2>3
    <3>2. /\ Nested' /\ work' # <<>> /\ Top' = Attach("read", t)
          /\ \A e : Pending(e)' => \/ e = c \/ e = Attach("read", t)
                                   \/ \E i \in DOMAIN work : i # Len(work) /\ work[i] = e
      BY <1>1, <1>2, <1>5, <1>10, <2>1, <3>1, NestedEntering
    <3>3. Attach("read", t).do = "attach"
      BY DEF Attach
    <3>4. ASSUME NEW e \in Calls, Pending(e)' PROVE Untouched(e)
      <4>1. CASE e = c \/ e = Attach("read", t)
        BY <1>5, <3>3, <4>1 DEF Untouched
      <4>2. CASE Pending(e)
        BY <3>1, <4>2 DEF Settled
      <4> QED BY <3>2, <3>4, <4>1, <4>2 DEF Pending
    <3>5. ASSUME NEW h \in Things, NEW u \in Things, Port[u].on = h PROVE u # t /\ t \notin Behind(u)
      BY <2>1, <3>5 DEF Topology
    <3>6. ASSUME NEW p \in 1 .. MAX_PORTS, NEW u \in Things, ~ports_seen'[p], Port[u] = [on |-> "root", n |-> p]
          PROVE  ~ports_seen[p] /\ u # t /\ t \notin Behind(u)
      <4>1. p # Top.at
        BY <1>2, <1>10, <3>6 DEF Types
      <4>2. ~ports_seen[p]
        BY <1>2, <1>10, <3>6, <4>1 DEF Types
      <4>3. Port[u].n = p /\ Port[t].n = Top.at
        BY <2>1, <3>6
      <4> QED BY <2>1, <4>1, <4>2, <4>3
    <3> QED BY <1>1, <1>10, <2>1, <2>3, <3>1, <3>2, <3>4, <3>5, <3>6, ResetStep
  <2> QED BY <1>1, <2>2, <2>3 DEF Inv
<1>11. ASSUME Top.at <= MAX_PORTS, ~ports_seen[Top.at], NEW t \in InPort("root", Top.at),
              bus' = [Cut(bus, t) EXCEPT ![t] = Off], Goto(c), UNCHANGED ports_seen
       PROVE  Inv'
  <2>1. t \in Things /\ (~lost => Quiet(t))
    BY <1>9, <1>11
  <2>2. Types'
    <3>1. bus' \in [Things -> {Out, Off} \cup {On(a) : a \in Nat}]
      BY <1>2, <1>11, <2>1 DEF Types, Cut
    <3>2. work' \in Seq(Calls)
      BY <1>1, <1>3, <1>5, <1>11, Going
    <3> QED BY <1>1, <1>2, <1>11, <3>1, <3>2 DEF Types
  <2>3. ASSUME ~lost PROVE Settled'
    <3>1. Settled /\ Nested /\ Listening(0) = {} /\ \A d \in Records : Listed(d)' => Recorded(d)
      BY <1>6, <2>3
    <3>2. \A u \in Things : bus'[u] = IF u = t THEN Off ELSE IF u \in Behind(t) /\ bus[u] # Out THEN Off ELSE bus[u]
      BY <1>11 DEF Cut
    <3>3. \A u \in Things : bus'[u] = bus[u] \/ bus'[u] \in {Out, Off}
      BY <3>2
    <3>4. /\ Unseen' /\ Used' /\ \A e : Untouched(e) => Untouched(e)'
          /\ \A a : Listening(a)' \subseteq Listening(a)
      BY <1>1, <1>11, <3>1, <3>3, SilentParts
    <3>5. ASSUME NEW a PROVE Listening(a)' = Listening(a)
      <4>1. \A u \in Behind(t) \cup {t} : Silent(u)
        BY <2>1, <2>3 DEF Quiet
      <4>2. \A u \in Things : bus[u] = On(a) => u # t /\ u \notin Behind(t)
        BY <4>1, Addresses DEF Silent
      <4>3. \A u \in Things : bus[u] = On(a) => bus'[u] = On(a)
        BY <3>2, <4>2
      <4> QED BY <3>4, <4>3 DEF Listening
    <3>6. \A d \in Records : Listed(d)' => Recorded(d)'
      BY <1>1, <3>1, <3>5 DEF Recorded
    <3>7. Nested' /\ work' # <<>> /\ Top' = c /\ \A e : Pending(e)' => Pending(e) \/ e = c
      BY <1>1, <1>2, <1>5, <1>11, <3>1, NestedGoing
    <3>8. ASSUME NEW e \in Calls, Pending(e)' PROVE Untouched(e)'
      <4>1. Untouched(e)
        BY <1>5, <3>1, <3>7, <3>8 DEF Settled, Untouched
      <4> QED BY <3>4, <4>1
    <3>9. Newcomer'
      <4>1. Listening(0)' = {}
        BY <3>1, <3>5
      <4> QED BY <1>5, <3>7, <4>1 DEF Newcomer, Attaching
    <3> QED BY <3>4, <3>6, <3>7, <3>8, <3>9 DEF Settled
  <2> QED BY <1>1, <2>2, <2>3 DEF Inv
<1>12. \/ Return /\ UNCHANGED <<bus, ports_seen>>
       \/ Goto(c) /\ UNCHANGED <<bus, ports_seen>>
       \/ /\ Top.at <= MAX_PORTS /\ ~ports_seen[Top.at]
          /\ \E t \in InPort("root", Top.at) :
               \/ /\ bus' = [Cut(bus, t) EXCEPT ![t] = On(0)]
                  /\ ports_seen' = [ports_seen EXCEPT ![Top.at] = TRUE]
                  /\ Enter(Attach("read", t), c)
               \/ /\ bus' = [Cut(bus, t) EXCEPT ![t] = Off]
                  /\ Goto(c) /\ UNCHANGED ports_seen
  <2>1. CASE Top.at > MAX_PORTS
    BY <2>1 DEF ScanPort
  <2>2. CASE ~(Top.at > MAX_PORTS)
    <3>1. Top.at <= MAX_PORTS
      BY <1>4, <2>2 DEF Topology
    <3>2. CASE ~MayScan(Top.at) \/ InPort("root", Top.at) = {}
      BY <2>2, <3>2 DEF ScanPort, c
    <3>3. CASE ~(~MayScan(Top.at) \/ InPort("root", Top.at) = {})
      <4>1. ~ports_seen[Top.at]
        BY <3>3 DEF MayScan
      <4>2. \E t \in InPort("root", Top.at) :
               \/ /\ bus' = [Cut(bus, t) EXCEPT ![t] = On(0)]
                  /\ ports_seen' = [ports_seen EXCEPT ![Top.at] = TRUE]
                  /\ Enter(Attach("read", t), c)
               \/ /\ bus' = [Cut(bus, t) EXCEPT ![t] = Off]
                  /\ Goto(c) /\ UNCHANGED ports_seen
        BY <2>2, <3>3 DEF ScanPort, c
      <4> QED BY <3>1, <4>1, <4>2
    <3> QED BY <3>2, <3>3
  <2> QED BY <2>1, <2>2
<1> QED BY <1>7, <1>8, <1>10, <1>11, <1>12

\* The first descriptor is read at address 0.
LEMMA ReadDescriptorStep ==
  ASSUME Topology, Inv, ReadDescriptor
  PROVE  Inv'
<1>1. /\ work # <<>> /\ Top.do = "attach" /\ Top.at = "read"
      /\ UNCHANGED <<bus, next_addr, devices, msc, ports_seen>>
  BY DEF ReadDescriptor
<1>2. Types /\ work \in Seq(Calls)
  BY DEF Inv, Types
<1>3. ASSUME ~lost
      PROVE  /\ Settled /\ Nested /\ Newcomer
             /\ \A d \in Records : Listed(d)' => Recorded(d)
  <2>1. Settled
    BY <1>3 DEF Inv
  <2>2. \A d \in Records : Listed(d)' => Recorded(d)
    BY <1>1, <2>1 DEF Settled, Listed
  <2> QED BY <2>1, <2>2 DEF Settled
<1>4. ASSUME NEW t \in Listening(0), Goto(Attach("address", t)), UNCHANGED lost PROVE Inv'
  <2> DEFINE c == Attach("address", t)
  <2>1. t \in Things
    BY DEF Listening
  <2>2. c \in Calls /\ c.do = "attach" /\ c.at = "address" /\ c.who = t
    BY <2>1, CallKinds
  <2>3. Goto(c)
    BY <1>4
  <2> HIDE DEF c
  <2>4. work' \in Seq(Calls)
    BY <1>1, <1>2, <2>2, <2>3, Going
  <2>5. ASSUME ~lost PROVE Settled'
    <3>1. Settled /\ Nested /\ Newcomer /\ \A d \in Records : Listed(d)' => Recorded(d)
      BY <1>3, <2>5
    <3>2. Nested' /\ work' # <<>> /\ Top' = c /\ \A e : Pending(e)' => Pending(e) \/ e = c
      BY <1>1, <1>2, <2>2, <2>3, <3>1, NestedGoing
    <3>3. Attaching("read") /\ ~Attaching("finish")
      BY <1>1 DEF Attaching
    <3>4. Listening(0) \subseteq {Top.who} /\ \A u \in Behind(Top.who) : Silent(u)
      BY <1>1, <3>1, <3>3 DEF Newcomer
    <3>5. t = Top.who
      BY <1>4, <3>4
    <3>6. Listening(0)' \subseteq {t}
      BY <1>1, <3>4, <3>5 DEF Listening
    <3>7. \A u \in Behind(t) : Silent(u)'
      BY <1>1, <3>4, <3>5 DEF Silent
    <3>8. Attaching("address")' /\ ~Attaching("finish")'
      BY <2>2, <3>2 DEF Attaching
    <3>9. Top'.who = t
      BY <2>2, <3>2
    <3>10. Newcomer'
      <4> HIDE DEF Attaching
      <4> QED BY <3>6, <3>7, <3>8, <3>9 DEF Newcomer
    <3>11. \A e \in Calls : Pending(e)' => Untouched(e)
      BY <2>2, <3>1, <3>2 DEF Settled, Untouched
    <3> QED BY <1>1, <3>1, <3>2, <3>10, <3>11, CallStep
  <2> QED BY <1>1, <1>2, <1>4, <2>4, <2>5 DEF Inv, Types
<1>5. ASSUME Return, lost' = (lost \/ Listening(0) # {}) PROVE Inv'
  <2>1. work' \in Seq(Calls)
    BY <1>1, <1>2, <1>5, Returning
  <2>2. Types'
    BY <1>1, <1>2, <1>5, <2>1 DEF Types
  <2>3. ASSUME ~lost' PROVE Settled'
    <3>1. ~lost /\ Listening(0) = {}
      BY <1>5, <2>3
    <3> QED BY <1>1, <1>3, <1>5, <3>1, ReturnStep
  <2> QED BY <2>2, <2>3 DEF Inv
<1> QED BY <1>4, <1>5 DEF ReadDescriptor

\* The device moves to the next address.
LEMMA SetAddressStep ==
  ASSUME Topology, Inv, SetAddress
  PROVE  Inv'
<1> DEFINE moved == [t \in Things |-> IF t \in Listening(0) THEN On(next_addr) ELSE bus[t]]
           c == Attach("finish", Top.who)
<1>1. /\ work # <<>> /\ Top.do = "attach" /\ Top.at = "address"
      /\ UNCHANGED <<devices, msc, ports_seen>>
  BY DEF SetAddress
<1>2. /\ Types /\ work \in Seq(Calls) /\ next_addr \in Nat \ {0}
      /\ bus \in [Things -> {Out, Off} \cup {On(a) : a \in Nat}]
  BY DEF Inv, Types
<1>3. Top \in Calls
  BY <1>1, <1>2, TopCall
<1>4. Top.who \in Things
  BY <1>1, <1>3 DEF Calls
<1>5. c \in Calls /\ c.do = "attach" /\ c.at = "finish" /\ c.who = Top.who
  BY <1>4, CallKinds
<1>6. moved \in [Things -> {Out, Off} \cup {On(a) : a \in Nat}]
  BY <1>2
<1>7. \A t \in Things : moved[t] = IF t \in Listening(0) THEN On(next_addr) ELSE bus[t]
  OBVIOUS
<1>8. \/ Listening(0) # {} /\ bus' = moved /\ next_addr' = next_addr + 1 /\ Goto(c) /\ UNCHANGED lost
      \/ bus' \in {bus, moved} /\ UNCHANGED next_addr /\ Return /\ GivenUp
  BY DEF SetAddress, NextAddress
<1> HIDE DEF moved, c
<1>9. ASSUME ~lost
      PROVE  /\ Settled /\ Nested /\ Newcomer
             /\ \A d \in Records : Listed(d)' => Recorded(d)
  <2>1. Settled
    BY <1>9 DEF Inv
  <2>2. \A d \in Records : Listed(d)' => Recorded(d)
    BY <1>1, <2>1 DEF Settled, Listed
  <2> QED BY <2>1, <2>2 DEF Settled
<1>10. ASSUME Listening(0) # {}, bus' = moved, next_addr' = next_addr + 1, Goto(c), UNCHANGED lost
       PROVE  Inv'
  <2>1. work' \in Seq(Calls)
    BY <1>1, <1>2, <1>5, <1>10, Going
  <2>2. Types'
    BY <1>1, <1>2, <1>6, <1>10, <2>1 DEF Types
  <2>3. ASSUME ~lost PROVE Settled'
    <3>1. Settled /\ Nested /\ Newcomer /\ Used /\ \A d \in Records : Listed(d)' => Recorded(d)
      BY <1>9, <2>3 DEF Settled
    <3>2. Attaching("address") /\ ~Attaching("finish")
      BY <1>1 DEF Attaching
    <3>3. Listening(0) = {Top.who} /\ \A u \in Behind(Top.who) : Silent(u)
      BY <1>1, <1>10, <3>1, <3>2 DEF Newcomer
    <3>4. \A t \in Things : bus'[t] = IF t = Top.who THEN On(next_addr) ELSE bus[t]
      BY <1>7, <1>10, <3>3
    <3>5. bus[Top.who] = On(0) /\ ~Silent(Top.who)
      BY <1>4, <3>3, Addresses DEF Listening, Silent
    <3>6. \A t \in Things : Silent(t) => Silent(t)'
      BY <3>4, <3>5 DEF Silent
    <3>7. \A t \in Things : Quiet(t) => Quiet(t)'
      BY <3>6 DEF Quiet, Behind
    <3>8. ASSUME NEW a \in Nat, a # 0, a # next_addr PROVE Listening(a)' = Listening(a)
      BY <3>4, <3>5, <3>8, Addresses DEF Listening
    <3>9. Listening(0)' = {}
      <4>1. ASSUME NEW t \in Things PROVE bus'[t] # On(0)
        <5>1. CASE t = Top.who
          BY <1>2, <3>4, <5>1, Addresses
        <5>2. CASE t # Top.who
          BY <3>3, <3>4, <5>2 DEF Listening
        <5> QED BY <5>1, <5>2
      <4> QED BY <4>1 DEF Listening
    <3>10. ASSUME NEW t \in Things, t # Top.who PROVE bus'[t] # On(next_addr)
      BY <1>2, <3>1, <3>4, <3>10 DEF Used
    <3>11. ASSUME NEW d \in Records, Listed(d)' PROVE Recorded(d)'
      <4>1. Recorded(d)
        BY <3>1, <3>11
      <4>2. d.who # "none" => d.addr \in 1 .. next_addr' - 1 /\ Listening(d.addr)' = {d.who}
        <5> SUFFICES ASSUME d.who # "none" PROVE d.addr \in 1 .. next_addr' - 1 /\ Listening(d.addr)' = {d.who}
          OBVIOUS
        <5>1. d.addr \in 1 .. next_addr - 1 /\ Listening(d.addr) = {d.who}
          BY <4>1 DEF Recorded
        <5>2. d.addr \in Nat /\ d.addr # 0 /\ d.addr # next_addr /\ d.addr \in 1 .. next_addr' - 1
          BY <1>2, <1>10, <5>1
        <5> QED BY <3>8, <5>1, <5>2
      <4> QED BY <4>2 DEF Recorded
    <3>12. /\ Nested' /\ work' # <<>> /\ Top' = c /\ \A e : Pending(e)' => Pending(e) \/ e = c
      <4>1. ASSUME NEW i \in DOMAIN work, work[i].do = "hub" PROVE work[i].addr < next_addr' - 1
        <5>1. work[i] \in Calls /\ Pending(work[i])
          BY <1>2 DEF Pending
        <5>2. work[i].addr \in 1 .. next_addr - 1
          BY <3>1, <4>1, <5>1 DEF Settled, Untouched
        <5> QED BY <1>2, <1>10, <5>2
      <4> QED BY <1>1, <1>2, <1>5, <1>10, <3>1, <4>1, NestedGoing
    <3>13. ASSUME NEW e \in Calls, Pending(e)' PROVE Untouched(e)'
      <4> SUFFICES ASSUME e.do = "hub"
                   PROVE  /\ e.addr \in 1 .. next_addr' - 1
                          /\ \A h \in Listening(e.addr)', u \in Things :
                               Port[u].on = h /\ Port[u].n >= e.at => Quiet(u)'
        BY DEF Untouched
      <4>1. Untouched(e)
        BY <1>5, <3>1, <3>12, <3>13 DEF Settled
      <4>2. e.addr \in 1 .. next_addr - 1
        BY <4>1 DEF Untouched
      <4>3. e.addr \in Nat /\ e.addr # 0 /\ e.addr # next_addr /\ e.addr \in 1 .. next_addr' - 1
        BY <1>2, <1>10, <4>2
      <4>4. Listening(e.addr)' = Listening(e.addr)
        BY <3>8, <4>3
      <4> QED BY <3>7, <4>1, <4>3, <4>4 DEF Untouched
    <3>14. Newcomer'
      <4>1. ~Attaching("read")' /\ ~Attaching("address")' /\ Top'.who = Top.who
        BY <1>5, <3>12 DEF Attaching
      <4>2. next_addr' > 1 /\ next_addr' - 1 = next_addr
        BY <1>2, <1>10
      <4>3. Listening(next_addr - 1)' = {t \in Things : bus'[t] = On(next_addr)}
        BY <4>2 DEF Listening
      <4>4. \A u \in Behind(Top'.who) : Silent(u)'
        BY <3>3, <3>6, <4>1 DEF Behind
      <4>5. Listening(next_addr - 1)' \subseteq {Top'.who}
        BY <3>10, <4>1, <4>3
      <4> HIDE DEF Attaching
      <4> QED BY <3>9, <4>1, <4>2, <4>4, <4>5 DEF Newcomer
    <3>15. Unseen'
      BY <1>1, <3>1, <3>7 DEF Settled, Unseen
    <3>16. Used'
      <4> SUFFICES ASSUME NEW t \in Things, NEW a \in Nat, bus'[t] = On(a) PROVE a < next_addr'
        BY DEF Used
      <4>1. CASE t = Top.who
        BY <1>2, <1>10, <3>4, <4>1, Addresses
      <4>2. CASE t # Top.who
        <5>1. a < next_addr
          BY <3>1, <3>4, <4>2 DEF Used
        <5> QED BY <1>2, <1>10, <5>1
      <4> QED BY <4>1, <4>2
    <3> QED BY <3>11, <3>12, <3>13, <3>14, <3>15, <3>16 DEF Settled
  <2> QED BY <1>10, <2>2, <2>3 DEF Inv
<1>11. ASSUME bus' \in {bus, moved}, UNCHANGED next_addr, Return, GivenUp
       PROVE  Inv'
  <2>1. work' \in Seq(Calls)
    BY <1>1, <1>2, <1>11, Returning
  <2>2. lost' \in BOOLEAN /\ (lost => lost')
    BY <1>2, <1>11 DEF GivenUp, Types
  <2>3. bus' \in [Things -> {Out, Off} \cup {On(a) : a \in Nat}]
    BY <1>2, <1>6, <1>11
  <2>4. Types'
    BY <1>1, <1>2, <1>11, <2>1, <2>2, <2>3 DEF Types
  <2>5. ASSUME ~lost' PROVE Settled'
    <3>1. ~lost /\ \A t \in Things : bus'[t] # On(0) /\ bus'[t] # On(next_addr)
      BY <1>11, <2>5 DEF GivenUp
    <3>2. Listening(0) = {}
      <4>1. CASE bus' = bus
        BY <3>1, <4>1 DEF Listening
      <4>2. CASE bus' = moved
        <5>1. \A t \in Listening(0) : t \in Things /\ bus'[t] = On(next_addr)
          BY <1>7, <4>2 DEF Listening
        <5> QED BY <3>1, <5>1
      <4> QED BY <1>11, <4>1, <4>2
    <3>3. bus' = bus
      <4>1. \A t \in Things : moved[t] = bus[t]
        BY <1>7, <3>2
      <4>2. moved = bus
        BY <1>2, <1>6, <4>1
      <4> QED BY <1>11, <4>2
    <3> QED BY <1>1, <1>9, <1>11, <3>1, <3>2, <3>3, ReturnStep
  <2> QED BY <2>4, <2>5 DEF Inv
<1> QED BY <1>8, <1>10, <1>11

\* The device is configured and listed.
LEMMA FinishStep ==
  ASSUME Topology, Inv, Finish
  PROVE  Inv'
<1> DEFINE a == next_addr - 1
           new == [addr |-> a, who |-> Top.who]
           heard == Top.who \in Listening(a)
           c == Hub(a, 1)
<1>1. /\ work # <<>> /\ Top.do = "attach" /\ Top.at = "finish"
      /\ UNCHANGED <<bus, next_addr, ports_seen, lost>>
  BY DEF Finish
<1>2. /\ Types /\ work \in Seq(Calls) /\ next_addr \in Nat \ {0} /\ a \in Nat
      /\ devices \in Seq(Records) /\ msc \in Records
  BY DEF Inv, Types
<1>3. Top \in Calls
  BY <1>1, <1>2, TopCall
<1>4. Top.who \in Things
  BY <1>1, <1>3 DEF Calls
<1>5. c \in Calls /\ c.do = "hub" /\ c.at = 1 /\ c.addr = a
  BY <1>2 DEF Calls, Hub
<1>6. new \in Records /\ new.addr = a /\ new.who = Top.who
  BY <1>2, <1>4 DEF Records
<1>7. \/ /\ heard
         /\ IF Kind[Top.who] = "hub" THEN Goto(c) ELSE Return
         /\ devices' = IF Kind[Top.who] = "hid" THEN Append(devices, new) ELSE devices
         /\ msc' = IF Kind[Top.who] = "drive" /\ msc = NoOne THEN new ELSE msc
      \/ Return /\ UNCHANGED <<devices, msc>>
  BY DEF Finish
<1>8. Goto(c) \/ Return
  BY <1>7
<1> HIDE DEF new, c, heard
<1>9. devices' \in Seq(Records) /\ msc' \in Records
  <2>1. Append(devices, new) \in Seq(Records)
    BY <1>2, <1>6
  <2>2. devices' \in {devices, Append(devices, new)} /\ msc' \in {msc, new}
    BY <1>7
  <2> QED BY <1>2, <1>6, <2>1, <2>2
<1>10. work' \in Seq(Calls)
  BY <1>1, <1>2, <1>5, <1>8, Going, Returning
<1>11. Types'
  BY <1>1, <1>2, <1>9, <1>10 DEF Types
<1>12. ASSUME ~lost PROVE Settled'
  <2>1. Settled /\ Nested /\ Newcomer
    BY <1>12 DEF Inv, Settled
  <2>2. ~Attaching("read") /\ ~Attaching("address") /\ Attaching("finish")
    BY <1>1 DEF Attaching
  <2>3. Listening(0) = {}
    BY <2>1, <2>2, NobodyAtZero
  <2>4. next_addr > 1 /\ Listening(a) \subseteq {Top.who} /\ \A u \in Behind(Top.who) : Silent(u)
    BY <1>1, <2>1, <2>2 DEF Newcomer
  <2>5. heard => Recorded(new)
    BY <1>2, <1>6, <2>4 DEF Recorded, heard
  <2>6. ASSUME NEW d \in Records, Listed(d)' PROVE Recorded(d)
    <3>1. Listed(d) \/ (heard /\ d = new)
      <4>1. CASE UNCHANGED <<devices, msc>>
        BY <2>6, <4>1 DEF Listed
      <4>2. CASE d = msc' /\ heard
        BY <1>7, <4>2 DEF Listed
      <4>3. CASE (\E i \in DOMAIN devices' : devices'[i] = d) /\ heard
        <5>1. PICK i \in DOMAIN devices' : devices'[i] = d
          BY <4>3
        <5>2. CASE devices' = devices
          BY <5>1, <5>2 DEF Listed
        <5>3. CASE devices' = Append(devices, new)
          <6>1. i \in 1 .. Len(devices) + 1 /\ DOMAIN devices = 1 .. Len(devices) /\ Len(devices) \in Nat
            BY <1>2, <1>6, <5>1, <5>3
          <6>2. CASE i = Len(devices) + 1
            BY <1>2, <1>6, <4>3, <5>1, <5>3, <6>2
          <6>3. CASE i \in 1 .. Len(devices)
            <7>1. devices[i] = d
              BY <1>2, <1>6, <5>1, <5>3, <6>3
            <7> QED BY <6>1, <6>3, <7>1 DEF Listed
          <6> QED BY <6>1, <6>2, <6>3
        <5> QED BY <1>7, <5>2, <5>3 DEF Listed
      <4> QED BY <1>7, <2>6, <4>1, <4>2, <4>3 DEF Listed
    <3> QED BY <2>1, <2>5, <3>1 DEF Settled
  <2>7. Untouched(c)
    <3>1. ASSUME NEW h \in Listening(a), NEW u \in Things, Port[u].on = h PROVE Quiet(u)
      <4>1. h = Top.who
        BY <2>4
      <4>2. u \in Behind(Top.who) /\ Behind(u) \subseteq Behind(Top.who)
        BY <3>1, <4>1, BehindHub
      <4> QED BY <2>4, <4>2 DEF Quiet
    <3>2. a \in 1 .. next_addr - 1
      BY <1>2, <2>4
    <3> QED BY <1>5, <3>1, <3>2 DEF Untouched
  <2>8. \A i \in DOMAIN work : i # Len(work) /\ work[i].do = "hub" => work[i].addr < c.addr
    BY <1>5, <2>1, <2>2 DEF Nested
  <2>9. CASE Return
    BY <1>1, <1>12, <2>3, <2>6, <2>9, ReturnStep
  <2>10. CASE Goto(c)
    BY <1>1, <1>5, <1>12, <2>3, <2>6, <2>7, <2>8, <2>10, OnwardStep
  <2> QED BY <1>8, <2>9, <2>10
<1> QED BY <1>1, <1>11, <1>12 DEF Inv

\* A hub looks at its next port.
LEMMA HubPortStep ==
  ASSUME Topology, Inv, HubPort
  PROVE  Inv'
<1> DEFINE c == Hub(Top.addr, Top.at + 1)
           hubs == {h \in Listening(Top.addr) : Kind[h] = "hub"}
<1>1. /\ work # <<>> /\ Top.do = "hub"
      /\ UNCHANGED <<next_addr, devices, msc, ports_seen, lost>>
  BY DEF HubPort
<1>2. Types /\ work \in Seq(Calls)
  BY DEF Inv, Types
<1>3. /\ Top \in Calls /\ Len(work) \in DOMAIN work /\ Top = work[Len(work)]
      /\ Len(work) \in Nat /\ DOMAIN work = 1 .. Len(work)
  BY <1>1, <1>2, TopCall
<1>4. Top.at \in Nat /\ Top.addr \in Nat
  BY <1>1, <1>3 DEF Calls
<1>5. c \in Calls /\ c.do = "hub" /\ c.at = Top.at + 1 /\ c.addr = Top.addr
  BY <1>4, CallKinds
<1>6. \/ Return /\ UNCHANGED bus
      \/ Goto(c) /\ UNCHANGED bus
      \/ \E h \in Listening(Top.addr) : \E t \in InPort(h, Top.at) :
           bus' = [Cut(bus, t) EXCEPT ![t] = On(0)] /\ Enter(Attach("read", t), c)
  BY DEF HubPort
<1> HIDE DEF c, hubs
<1>7. ASSUME ~lost
      PROVE  /\ Settled /\ Nested /\ Listening(0) = {} /\ Untouched(Top)
             /\ \A d \in Records : Listed(d)' => Recorded(d)
             /\ \A i \in DOMAIN work : i # Len(work) /\ work[i].do = "hub" => work[i].addr < Top.addr
  <2>1. Settled
    BY <1>7 DEF Inv
  <2>2. ~Attaching("read") /\ ~Attaching("address")
    BY <1>1 DEF Attaching
  <2>3. Listening(0) = {}
    BY <2>1, <2>2, NobodyAtZero
  <2>4. \A d \in Records : Listed(d)' => Recorded(d)
    BY <1>1, <2>1 DEF Settled, Listed
  <2>5. Untouched(Top)
    BY <1>3, <2>1 DEF Settled, Pending
  <2>6. \A i \in DOMAIN work : i # Len(work) /\ work[i].do = "hub" => work[i].addr < Top.addr
    BY <1>1, <1>3, <2>1 DEF Settled, Nested
  <2> QED BY <2>1, <2>3, <2>4, <2>5, <2>6 DEF Settled
<1>8. CASE Return /\ UNCHANGED bus
  <2>1. work' \in Seq(Calls)
    BY <1>1, <1>2, <1>8, Returning
  <2>2. ~lost => Settled'
    BY <1>1, <1>7, <1>8, ReturnStep
  <2> QED BY <1>1, <1>2, <1>8, <2>1, <2>2 DEF Inv, Types
<1>9. CASE Goto(c) /\ UNCHANGED bus
  <2>1. work' \in Seq(Calls)
    BY <1>1, <1>2, <1>5, <1>9, Going
  <2>2. ASSUME ~lost PROVE Settled'
    <3>1. Untouched(c)
      <4>1. Untouched(Top)
        BY <1>7, <2>2
      <4>2. \A t \in Things : Port[t].n \in Nat
        BY DEF Topology
      <4>3. \A t \in Things : Port[t].n >= c.at => Port[t].n >= Top.at
        BY <1>4, <1>5, <4>2
      <4> QED BY <1>1, <1>5, <4>1, <4>3 DEF Untouched
    <3> QED BY <1>1, <1>5, <1>7, <1>9, <2>2, <3>1, OnwardStep
  <2> QED BY <1>1, <1>2, <1>9, <2>1, <2>2 DEF Inv, Types
<1>10. ASSUME NEW h \in Listening(Top.addr), NEW t \in InPort(h, Top.at),
              bus' = [Cut(bus, t) EXCEPT ![t] = On(0)], Enter(Attach("read", t), c)
       PROVE  Inv'
  <2>1. h \in Things /\ bus[h] = On(Top.addr) /\ ~Silent(h)
    BY Addresses DEF Listening, Silent
  <2>2. t \in Things /\ Port[t].on = h /\ Port[t].n = Top.at
    BY DEF InPort
  <2>3. Types'
    <3>1. bus' \in [Things -> {Out, Off} \cup {On(a) : a \in Nat}]
      BY <1>2, <1>10, <2>2 DEF Types, Cut
    <3>2. work' \in Seq(Calls)
      BY <1>1, <1>2, <1>5, <1>10, <2>2, CallKinds, Entering
    <3> QED BY <1>1, <1>2, <3>1, <3>2 DEF Types
  <2>4. ASSUME NEW u \in Things, Quiet(u) PROVE t \notin Behind(u)
    <3> SUFFICES ASSUME t \in Behind(u) PROVE FALSE
      OBVIOUS
    <3>1. h = u \/ h \in Behind(u)
      BY <2>2, BehindHub
    <3> QED BY <2>1, <2>4, <3>1 DEF Quiet
  <2>5. ASSUME ~lost PROVE Settled'
    <3>1. Settled /\ Nested /\ Listening(0) = {} /\ Untouched(Top)
      BY <1>7, <2>5
    <3>2. Port[t].n >= Top.at
      BY <1>4, <2>2
    <3>3. Quiet(t)
      BY <1>1, <2>2, <3>1, <3>2 DEF Untouched
    <3>4. /\ Nested' /\ work' # <<>> /\ Top' = Attach("read", t)
          /\ \A e : Pending(e)' => \/ e = c \/ e = Attach("read", t)
                                   \/ \E i \in DOMAIN work : i # Len(work) /\ work[i] = e
      BY <1>1, <1>2, <1>5, <1>10, <2>2, <3>1, NestedEntering
    <3>5. Attach("read", t).do = "attach"
      BY DEF Attach
    <3>6. \A u \in Things : Port[u].n \in Nat /\ (Port[u].n >= c.at => Port[u].n >= Top.at /\ Port[u].n # Top.at)
      <4>1. \A u \in Things : Port[u].n \in Nat
        BY DEF Topology
      <4> QED BY <1>4, <1>5, <4>1
    <3>7. Untouched(c)
      BY <1>1, <1>5, <3>1, <3>6 DEF Untouched
    <3>8. ASSUME NEW e \in Calls, Pending(e)' PROVE Untouched(e)
      <4>1. CASE e = Attach("read", t)
        BY <3>5, <4>1 DEF Untouched
      <4>2. CASE Pending(e)
        BY <3>1, <4>2 DEF Settled
      <4> QED BY <3>4, <3>7, <3>8, <4>1, <4>2 DEF Pending
    <3>9. ASSUME NEW e \in Calls, NEW g \in Things, NEW u \in Things,
                 Pending(e)', e.do = "hub", g \in Listening(e.addr), Port[u].on = g, Port[u].n >= e.at
          PROVE  u # t /\ t \notin Behind(u)
      <4>1. Quiet(u)
        BY <3>8, <3>9 DEF Untouched
      <4>2. CASE e = c
        BY <2>2, <2>4, <3>6, <3>9, <4>1, <4>2
      <4>3. CASE \E i \in DOMAIN work : i # Len(work) /\ work[i] = e
        <5>1. e.addr < Top.addr
          BY <1>7, <2>5, <3>9, <4>3
        <5>2. e.addr \in Nat
          BY <3>9 DEF Calls
        <5>3. e.addr # Top.addr
          BY <1>4, <5>1, <5>2
        <5>4. g # h
          BY <2>1, <3>9, <5>3, Addresses DEF Listening
        <5> QED BY <2>2, <2>4, <3>9, <4>1, <5>4
      <4> QED BY <3>4, <3>5, <3>9, <4>2, <4>3
    <3>10. ASSUME NEW p \in 1 .. MAX_PORTS, NEW u \in Things, ~ports_seen'[p], Port[u] = [on |-> "root", n |-> p]
           PROVE  ~ports_seen[p] /\ u # t /\ t \notin Behind(u)
      <4>1. ~ports_seen[p]
        BY <1>1, <3>10
      <4>2. Quiet(u)
        BY <3>1, <3>10, <4>1 DEF Settled, Unseen
      <4>3. Port[u].on = "root"
        BY <3>10
      <4>4. u # t
        BY <2>1, <2>2, <4>3 DEF Topology
      <4> QED BY <2>4, <4>1, <4>2, <4>4
    <3> QED BY <1>1, <1>10, <2>2, <2>5, <3>1, <3>3, <3>4, <3>8, <3>9, <3>10, ResetStep
  <2> QED BY <1>1, <2>3, <2>5 DEF Inv
<1> QED BY <1>6, <1>8, <1>9, <1>10

\* Every step keeps the invariant.
LEMMA StepInv ==
  ASSUME Topology, Inv, [Next]_vars
  PROVE  Inv'
<1>1. CASE Poll
  BY <1>1, PollStep
<1>2. CASE ScanPort
  BY <1>2, ScanPortStep
<1>3. CASE ReadDescriptor
  BY <1>3, ReadDescriptorStep
<1>4. CASE SetAddress
  BY <1>4, SetAddressStep
<1>5. CASE Finish
  BY <1>5, FinishStep
<1>6. CASE HubPort
  BY <1>6, HubPortStep
<1>7. CASE \E t \in Things : Plug(t) \/ Unplug(t)
  BY <1>7, PlugStep, UnplugStep
<1>8. CASE UNCHANGED vars
  <2>1. UNCHANGED <<bus, next_addr, devices, msc, ports_seen, work, lost>>
    BY <1>8 DEF vars
  <2> QED BY <2>1 DEF Inv, Types, Settled, Listed, Recorded, Pending, Untouched, Nested, Newcomer, Unseen, Used,
                     Listening, Quiet, Silent, Attaching, Top, Behind
<1> QED BY <1>1, <1>2, <1>3, <1>4, <1>5, <1>6, <1>7, <1>8 DEF Next

\* Nothing is attached at the start.
LEMMA InitInv ==
  ASSUME Topology, Init
  PROVE  Inv
<1>1. /\ bus = [t \in Things |-> Out] /\ next_addr = 1 /\ devices = <<>> /\ msc = NoOne
      /\ ports_seen = [p \in 1 .. MAX_PORTS |-> FALSE] /\ work = <<>> /\ lost = FALSE
  BY DEF Init
<1>2. msc = [addr |-> 0, who |-> "none"]
  BY <1>1 DEF NoOne
<1>3. Types
  <2>1. bus \in [Things -> {Out, Off} \cup {On(a) : a \in Nat}]
    BY <1>1
  <2>2. devices \in Seq(Records) /\ work \in Seq(Calls) /\ msc \in Records
    BY <1>1, <1>2 DEF Records
  <2>3. ports_seen \in [1 .. MAX_PORTS -> BOOLEAN]
    BY <1>1
  <2>4. next_addr \in Nat \ {0}
    BY <1>1
  <2>5. lost \in BOOLEAN
    BY <1>1
  <2> QED BY <2>1, <2>2, <2>3, <2>4, <2>5, Zenon DEF Types
<1>4. \A a : Listening(a) = {}
  BY <1>1, Addresses DEF Listening
<1>5. \A t \in Things : Quiet(t)
  BY <1>1 DEF Quiet, Silent, Behind
<1>6. \A step : ~Attaching(step)
  BY <1>1 DEF Attaching
<1>7. \A d \in Records : Listed(d) => Recorded(d)
  BY <1>1, <1>2 DEF Listed, Recorded
<1>8. DOMAIN work = {}
  BY <1>1
<1>9. Nested /\ \A e \in Calls : Pending(e) => Untouched(e)
  BY <1>6, <1>8 DEF Nested, Pending
<1>10. Newcomer
  BY <1>1, <1>4, <1>6 DEF Newcomer
<1>11. Unseen /\ Used
  BY <1>1, <1>5, Addresses DEF Unseen, Used
<1> QED BY <1>3, <1>7, <1>9, <1>10, <1>11 DEF Inv, Settled

\* The invariant gives the property.
LEMMA InvImplies ==
  ASSUME Inv
  PROVE  AttachedListenAlone
<1> SUFFICES ASSUME ~lost, NEW d \in Range(devices) \cup {msc}, d.who # "none"
             PROVE  Listening(d.addr) = {d.who}
  BY DEF AttachedListenAlone
<1>1. Types /\ Settled
  BY DEF Inv
<1>2. d \in Records /\ Listed(d)
  <2>1. CASE d = msc
    BY <1>1, <2>1 DEF Types, Listed
  <2>2. CASE d \in Range(devices)
    <3>1. PICK i \in DOMAIN devices : devices[i] = d
      BY <2>2 DEF Range
    <3> QED BY <1>1, <3>1 DEF Types, Listed
  <2> QED BY <2>1, <2>2
<1> QED BY <1>1, <1>2 DEF Settled, Recorded

(* Whatever is plugged in, pulled out or fails, in any tree of hubs, a       *)
(* device that was attached (attach_from_address0) is the only one that      *)
(* listens at its address, until an attach is given up half way.             *)
THEOREM AttachedAreAlone ==
  ASSUME Topology
  PROVE  Spec => []AttachedListenAlone
<1>1. Init => Inv
  BY InitInv
<1>2. Inv /\ [Next]_vars => Inv'
  BY StepInv
<1>3. Inv => AttachedListenAlone
  BY InvImplies
<1> QED BY <1>1, <1>2, <1>3, PTL DEF Spec

=============================================================================
