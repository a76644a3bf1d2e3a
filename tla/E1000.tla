-------------------------------- MODULE E1000 --------------------------------
(***************************************************************************)
(* The network card and its driver (kernel/src/net/e1000.rs): two rings of *)
(* descriptors in memory that the card and the driver both write, and the  *)
(* head and tail registers by which they hand them to each other.  The     *)
(* card runs on its own, between any two steps of the driver; nothing      *)
(* interrupts the driver, which polls.                                     *)
(***************************************************************************)
EXTENDS Naturals, Integers, Sequences, Functions, SequenceTheorems, TLAPS

CONSTANTS
  NUM_RX_DESC,
  NUM_TX_DESC,
  MaxRx,        \* bound: frames the wire brings
  MaxTx         \* bound: frames the stack sends

VARIABLES
  rx,      \* rx_desc: of each slot, its frame (0 for none) and status
  rdh,     \* RDH, the card's
  rdt,     \* RDT
  rx_cur,
  receiving, \* inside receive()
  tx,      \* tx_desc: of each slot, its frame and whether DD is set
  tdh,     \* TDH, the card's
  tdt,     \* TDT
  tx_cur,
  waiting, \* the slot send() waits for, or Nobody
  arrived, \* history: frames the card has accepted
  handed,  \* history: frames receive() has collected
  onWire,  \* history: frames the card has transmitted
  told     \* history: frames send() has reported as sent; and how many it was given

rxVars == <<rx, rdh, rdt, rx_cur, receiving, arrived, handed>>
txVars == <<tx, tdh, tdt, tx_cur, waiting, onWire, told>>
vars == <<rxVars, txVars>>

Nobody == NUM_TX_DESC
RxSlots == 0 .. NUM_RX_DESC - 1
TxSlots == 0 .. NUM_TX_DESC - 1
NextRx(i) == (i + 1) % NUM_RX_DESC
NextTx(i) == (i + 1) % NUM_TX_DESC

-----------------------------------------------------------------------------
(* The card.                                                                 *)

\* It fills descriptors up to, and not including, the tail.
CardReceives ==
  /\ rdh # rdt
  /\ Len(arrived) < MaxRx
  /\ \E good \in BOOLEAN :
       /\ rx' = [rx EXCEPT ![rdh] = [frame |-> IF good THEN Len(arrived) + 1 ELSE 0, dd |-> TRUE]]
       /\ arrived' = Append(arrived, good)
  /\ rdh' = NextRx(rdh)
  /\ UNCHANGED <<rdt, rx_cur, receiving, handed, txVars>>

CardTransmits ==
  /\ tdh # tdt
  /\ onWire' = Append(onWire, tx[tdh].frame)
  /\ tx' = [tx EXCEPT ![tdh].dd = TRUE]
  /\ tdh' = NextTx(tdh)
  /\ UNCHANGED <<tdt, tx_cur, waiting, told, rxVars>>

-----------------------------------------------------------------------------
(* The driver.                                                               *)

ReceiveBegins ==
  /\ ~receiving /\ waiting = Nobody
  /\ receiving' = TRUE
  /\ UNCHANGED <<rx, rdh, rdt, rx_cur, arrived, handed, txVars>>

\* A variant that leaves the done bit set (for the mutation checks).
LeaveStatus(slot) == slot

ClearStatus(slot) == [slot EXCEPT !.dd = FALSE]

\* One turn of the loop: copy the frame unless it is bad, clear the status and
\* give the descriptor back.
ReceiveOne ==
  /\ receiving
  /\ rx[rx_cur].dd
  /\ handed' = IF rx[rx_cur].frame # 0 THEN Append(handed, rx[rx_cur].frame) ELSE handed
  /\ rx' = [rx EXCEPT ![rx_cur] = ClearStatus(@)]
  /\ rdt' = rx_cur
  /\ rx_cur' = NextRx(rx_cur)
  /\ UNCHANGED <<rdh, receiving, arrived, txVars>>

ReceiveEnds ==
  /\ receiving
  /\ ~rx[rx_cur].dd
  /\ receiving' = FALSE
  /\ UNCHANGED <<rx, rdh, rdt, rx_cur, arrived, handed, txVars>>

\* send: the frame is in the ring before anyone waits for it.
Send ==
  /\ ~receiving /\ waiting = Nobody
  /\ told.given < MaxTx
  /\ tx' = [tx EXCEPT ![tx_cur] = [frame |-> told.given + 1, dd |-> FALSE]]
  /\ tx_cur' = NextTx(tx_cur)
  /\ tdt' = NextTx(tx_cur)
  /\ waiting' = tx_cur
  /\ told' = [told EXCEPT !.given = @ + 1]
  /\ UNCHANGED <<tdh, onWire, rxVars>>

\* A variant that looks at the slot after the frame's (for the mutation checks).
NextIsDone(slot) == tx[NextTx(slot)].dd

IsDone(slot) == tx[slot].dd

SendDone ==
  /\ waiting # Nobody
  /\ IsDone(waiting)
  /\ told' = [told EXCEPT !.sent = Append(@, told.given)]
  /\ waiting' = Nobody
  /\ UNCHANGED <<tx, tdh, tdt, tx_cur, onWire, rxVars>>

\* A million turns are over: the descriptor stays with the card.
SendTimesOut ==
  /\ waiting # Nobody
  /\ ~IsDone(waiting)
  /\ waiting' = Nobody
  /\ UNCHANGED <<tx, tdh, tdt, tx_cur, onWire, told, rxVars>>

-----------------------------------------------------------------------------
Init ==
  /\ rx = [i \in RxSlots |-> [frame |-> 0, dd |-> FALSE]]
  /\ rdh = 0 /\ rdt = NUM_RX_DESC - 1 /\ rx_cur = 0 /\ receiving = FALSE
  /\ tx = [i \in TxSlots |-> [frame |-> 0, dd |-> TRUE]]
  /\ tdh = 0 /\ tdt = 0 /\ tx_cur = 0 /\ waiting = Nobody
  /\ arrived = <<>> /\ handed = <<>> /\ onWire = <<>>
  /\ told = [given |-> 0, sent |-> <<>>]

Next ==
  \/ CardReceives \/ CardTransmits
  \/ ReceiveBegins \/ ReceiveOne \/ ReceiveEnds
  \/ Send \/ SendDone \/ SendTimesOut

Spec == Init /\ [][Next]_vars

-----------------------------------------------------------------------------
(* Every variable keeps its type.                                            *)
TypeOK ==
  /\ rx \in [RxSlots -> [frame : 0 .. MaxRx, dd : BOOLEAN]]
  /\ tx \in [TxSlots -> [frame : 0 .. MaxTx, dd : BOOLEAN]]
  /\ {rdh, rdt, rx_cur} \subseteq RxSlots /\ {tdh, tdt, tx_cur} \subseteq TxSlots
  /\ receiving \in BOOLEAN /\ waiting \in TxSlots \cup {Nobody}
  /\ arrived \in Seq(BOOLEAN) /\ handed \in Seq(1 .. MaxRx) /\ onWire \in Seq(1 .. MaxTx)
  /\ told \in [given : 0 .. MaxTx, sent : Seq(1 .. MaxTx)]

(* The stack gets every good frame the card has accepted, once and in order, *)
(* however many arrive while it is collecting them and however often the     *)
(* ring wraps: no descriptor is filled again before it was read, and none is *)
(* read twice (receive, "hand the descriptor back to the card").             *)
FramesArriveOnce ==
  /\ \A i, j \in DOMAIN handed : i < j => handed[i] < handed[j]
  /\ \A f \in Range(handed) : f \in DOMAIN arrived /\ arrived[f]
  /\ \A f \in DOMAIN arrived, g \in Range(handed) : arrived[f] /\ f < g => f \in Range(handed)

(* A frame send reported as sent has been on the wire, and frames leave in   *)
(* the order they were given, even when earlier ones timed out and still sit *)
(* in the ring, and when so many do that the ring wraps ("wait for the card  *)
(* to consume it").                                                          *)
ReportedIsSent ==
  /\ \A i \in DOMAIN told.sent : told.sent[i] \in Range(onWire)
  /\ \A i, j \in DOMAIN onWire : i < j => onWire[i] < onWire[j]

(* Both, of a driver and a card that run side by side (net/e1000.rs).        *)
FramesGoThrough == FramesArriveOnce /\ ReportedIsSent

-----------------------------------------------------------------------------
(* The proof, for every size of the two rings and every number of frames.    *)
(* The rings are seen as two windows that move along the frames, counted     *)
(* from the first: the card is at one end of each and the driver at the      *)
(* other, and slot k % N stands for frame k + 1.                             *)

\* The driver's rings have at least one descriptor.
RingSizes ==
  /\ NUM_RX_DESC \in Nat \ {0} /\ NUM_TX_DESC \in Nat \ {0}
  /\ MaxRx \in Nat /\ MaxTx \in Nat

-----------------------------------------------------------------------------
(* Places in a ring.                                                       *)

\* A place is one of the ring's, and as far from the count as whole turns.
LEMMA Place ==
  ASSUME NEW n \in Nat \ {0}, NEW k \in Int
  PROVE  k % n \in 0 .. n - 1 /\ k \div n \in Int /\ k = n * (k \div n) + (k % n)
<1>1. n \in Nat /\ n > 0
  OBVIOUS
<1>2. k % n \in 0 .. n - 1
  BY <1>1
<1>3. k \div n \in Int
  BY <1>1
<1>4. k = n * (k \div n) + (k % n)
  BY <1>1
<1> QED BY <1>2, <1>3, <1>4

\* Two counts less than a turn apart have different places.
LEMMA PlacesApart ==
  ASSUME NEW n \in Nat \ {0}, NEW j \in Int, NEW k \in Int, j < k, k - j < n
  PROVE  j % n # k % n
<1> SUFFICES ASSUME j % n = k % n PROVE FALSE
  OBVIOUS
<1> DEFINE p == j \div n
           q == k \div n
           r == j % n
<1>1. p \in Int /\ q \in Int /\ r \in Int /\ j = n * p + r /\ k = n * q + r
  BY Place
<1> HIDE DEF p, q, r
<1>2. k - j = n * (q - p)
  BY <1>1
<1>3. q - p > 0
  BY <1>1, <1>2
<1>4. q - p < 1
  BY <1>1, <1>2
<1> QED BY <1>1, <1>3, <1>4

\* The counts of the first turn are the places.
LEMMA FirstTurn ==
  ASSUME NEW n \in Nat \ {0}, NEW k \in 0 .. n - 1
  PROVE  k % n = k
<1> DEFINE p == k \div n
           r == k % n
<1>1. p \in Int /\ r \in 0 .. n - 1 /\ k = n * p + r
  BY Place
<1> HIDE DEF p, r
<1>2. p < 1 /\ p > -1
  BY <1>1
<1>3. r = k
  BY <1>1, <1>2
<1> QED BY <1>3 DEF r

\* A turn further is the same place.
LEMMA FullTurn ==
  ASSUME NEW n \in Nat \ {0}, NEW k \in Int
  PROVE  (k + n) % n = k % n
<1> DEFINE p == k \div n
           q == (k + n) \div n
           r == k % n
           s == (k + n) % n
<1>1. p \in Int /\ q \in Int /\ r \in 0 .. n - 1 /\ s \in 0 .. n - 1
  BY Place
<1>2. k = n * p + r /\ k + n = n * q + s
  BY Place
<1> HIDE DEF p, q, r, s
<1>3. n * (q - p - 1) = r - s
  BY <1>1, <1>2
<1>4. q - p - 1 < 1 /\ q - p - 1 > -1
  BY <1>1, <1>3
<1>5. r = s
  BY <1>1, <1>3, <1>4
<1> QED BY <1>5 DEF r, s

\* A step of a place is the place of the next count.
LEMMA NextPlace ==
  ASSUME NEW n \in Nat \ {0}, NEW k \in Int
  PROVE  ((k % n) + 1) % n = (k + 1) % n
<1> DEFINE p == k \div n
           r == k % n
           q == (k + 1) \div n
           s == (k + 1) % n
           u == (r + 1) \div n
           v == (r + 1) % n
<1>1. p \in Int /\ q \in Int /\ u \in Int /\ r \in 0 .. n - 1 /\ s \in 0 .. n - 1 /\ v \in 0 .. n - 1
  <2>1. p \in Int /\ r \in 0 .. n - 1 /\ q \in Int /\ s \in 0 .. n - 1
    BY Place
  <2>2. r + 1 \in Int
    BY <2>1
  <2>3. u \in Int /\ v \in 0 .. n - 1
    BY <2>2, Place
  <2> QED BY <2>1, <2>3
<1>2. k = n * p + r /\ k + 1 = n * q + s /\ r + 1 = n * u + v
  BY <1>1, Place
<1> HIDE DEF p, q, r, s, u, v
<1>3. n * (q - p - u) = v - s
  BY <1>1, <1>2
<1>4. q - p - u < 1 /\ q - p - u > -1
  BY <1>1, <1>3
<1>5. v = s
  BY <1>1, <1>3, <1>4
<1> QED BY <1>5 DEF r, s, v

-----------------------------------------------------------------------------
(* The invariant.                                                          *)

\* c frames have been collected: the card has filled the descriptors from there to
\* the last it accepted and no others, and the tail is one behind the driver.
RxAt(c) ==
  /\ c <= Len(arrived) /\ Len(arrived) - c < NUM_RX_DESC
  /\ rdh = Len(arrived) % NUM_RX_DESC /\ rx_cur = c % NUM_RX_DESC
  /\ rdt = (c + NUM_RX_DESC - 1) % NUM_RX_DESC
  /\ \A k \in c .. Len(arrived) - 1 :
       rx[k % NUM_RX_DESC] = [frame |-> IF arrived[k + 1] THEN k + 1 ELSE 0, dd |-> TRUE]
  /\ \A k \in Len(arrived) .. c + NUM_RX_DESC - 1 : ~rx[k % NUM_RX_DESC].dd
  /\ \A i \in DOMAIN handed : handed[i] <= c /\ arrived[handed[i]]
  /\ \A f \in 1 .. c : arrived[f] => f \in Range(handed)
  /\ \A i, j \in DOMAIN handed : i < j => handed[i] < handed[j]

\* The card has passed t frames, by sending them or because the tail came round to the
\* head and they were taken for sent: the rest are in the ring, and the last given is
\* the one send waits for.
TxAt(t) ==
  /\ t <= told.given /\ told.given - t < NUM_TX_DESC
  /\ tdh = t % NUM_TX_DESC
  /\ tdt = told.given % NUM_TX_DESC /\ tx_cur = tdt
  /\ \A k \in t .. told.given - 1 : tx[k % NUM_TX_DESC].frame = k + 1
  /\ \A i \in DOMAIN onWire : onWire[i] <= t
  /\ \A i, j \in DOMAIN onWire : i < j => onWire[i] < onWire[j]
  /\ \A i \in DOMAIN told.sent : told.sent[i] \in Range(onWire)
  /\ waiting # Nobody =>
       /\ told.given > 0 /\ waiting = (told.given - 1) % NUM_TX_DESC
       /\ tx[waiting].dd => told.given \in Range(onWire)

\* The types of the two halves.
RxTypeOK ==
  /\ rx \in [RxSlots -> [frame : 0 .. MaxRx, dd : BOOLEAN]]
  /\ receiving \in BOOLEAN
  /\ arrived \in Seq(BOOLEAN) /\ Len(arrived) <= MaxRx /\ handed \in Seq(1 .. MaxRx)

TxTypeOK ==
  /\ tx \in [TxSlots -> [frame : 0 .. MaxTx, dd : BOOLEAN]]
  /\ waiting \in TxSlots \cup {Nobody}
  /\ onWire \in Seq(1 .. MaxTx)
  /\ told \in [given : 0 .. MaxTx, sent : Seq(1 .. MaxTx)]

RxInv == RxTypeOK /\ \E c \in Nat : RxAt(c)
TxInv == TxTypeOK /\ \E t \in Nat : TxAt(t)
Inv == RxInv /\ TxInv

\* Each half says nothing of the other's variables.
LEMMA HalvesApart ==
  /\ RxInv /\ UNCHANGED rxVars => RxInv'
  /\ TxInv /\ UNCHANGED txVars => TxInv'
<1>1. ASSUME RxInv, UNCHANGED rxVars PROVE RxInv'
  <2>1. UNCHANGED <<rx, rdh, rdt, rx_cur, receiving, arrived, handed>>
    BY <1>1 DEF rxVars
  <2>2. \A c : RxAt(c) => RxAt(c)'
    BY <2>1 DEF RxAt
  <2> QED BY <1>1, <2>1, <2>2 DEF RxInv, RxTypeOK
<1>2. ASSUME TxInv, UNCHANGED txVars PROVE TxInv'
  <2>1. UNCHANGED <<tx, tdh, tdt, tx_cur, waiting, onWire, told>>
    BY <1>2 DEF txVars
  <2>2. \A t : TxAt(t) => TxAt(t)'
    BY <2>1 DEF TxAt
  <2> QED BY <1>2, <2>1, <2>2 DEF TxInv, TxTypeOK
<1> QED BY <1>1, <1>2

\* A ring that has just been set up is at its start.
LEMMA InitInv ==
  ASSUME RingSizes, Init
  PROVE  Inv
<1> USE DEF Init, RingSizes
<1>1. 0 % NUM_RX_DESC = 0 /\ 0 % NUM_TX_DESC = 0 /\ (0 + NUM_RX_DESC - 1) % NUM_RX_DESC = NUM_RX_DESC - 1
  <2>1. 0 \in 0 .. NUM_RX_DESC - 1 /\ 0 \in 0 .. NUM_TX_DESC - 1
    OBVIOUS
  <2>2. NUM_RX_DESC - 1 \in 0 .. NUM_RX_DESC - 1 /\ 0 + NUM_RX_DESC - 1 = NUM_RX_DESC - 1
    OBVIOUS
  <2>3. (NUM_RX_DESC - 1) % NUM_RX_DESC = NUM_RX_DESC - 1
    BY <2>2, FirstTurn
  <2>4. 0 % NUM_RX_DESC = 0 /\ 0 % NUM_TX_DESC = 0
    BY <2>1, FirstTurn
  <2> QED BY <2>2, <2>3, <2>4
<1>2. \A k \in 0 .. NUM_RX_DESC - 1 : k % NUM_RX_DESC \in RxSlots
  BY Place DEF RxSlots
<1>3. RxAt(0)
  <2>1. Len(arrived) = 0 /\ DOMAIN handed = {}
    OBVIOUS
  <2>2. \A k \in 0 .. NUM_RX_DESC - 1 : ~rx[k % NUM_RX_DESC].dd
    BY <1>2
  <2>3. \A k \in Len(arrived) .. 0 + NUM_RX_DESC - 1 : ~rx[k % NUM_RX_DESC].dd
    <3>1. 0 + NUM_RX_DESC - 1 = NUM_RX_DESC - 1
      OBVIOUS
    <3> HIDE DEF Init, RingSizes
    <3> QED BY <2>1, <2>2, <3>1
  <2>4. Len(arrived) - 0 < NUM_RX_DESC /\ 0 <= Len(arrived)
    BY <2>1
  <2>5. rdh = Len(arrived) % NUM_RX_DESC /\ rx_cur = 0 % NUM_RX_DESC
    BY <1>1, <2>1
  <2>6. \A k \in 0 .. Len(arrived) - 1 : FALSE
    BY <2>1
  <2> HIDE DEF Init
  <2>7. rdt = (0 + NUM_RX_DESC - 1) % NUM_RX_DESC
    BY <1>1 DEF Init
  <2> QED BY <2>1, <2>3, <2>4, <2>5, <2>6, <2>7 DEF RxAt
<1>4. TxAt(0)
  BY <1>1 DEF TxAt, Nobody
<1>5. RxTypeOK
  <2>1. Len(arrived) = 0
    OBVIOUS
  <2>2. rx \in [RxSlots -> [frame : 0 .. MaxRx, dd : BOOLEAN]]
    OBVIOUS
  <2>3. arrived \in Seq(BOOLEAN) /\ handed \in Seq(1 .. MaxRx)
    OBVIOUS
  <2>4. receiving \in BOOLEAN
    BY Zenon
  <2>5. 0 <= MaxRx
    OBVIOUS
  <2> HIDE DEF Init, RingSizes
  <2> QED BY <2>1, <2>2, <2>3, <2>4, <2>5 DEF RxTypeOK
<1>6. TxTypeOK
  BY DEF TxTypeOK
<1> QED BY <1>3, <1>4, <1>5, <1>6 DEF Inv, RxInv, TxInv

\* What a descriptor that has been filled holds.
LEMMA FilledSlot ==
  ASSUME RingSizes, RxTypeOK, NEW c \in Nat, RxAt(c)
  PROVE  /\ Len(arrived) \in Nat
         /\ rdh # rdt <=> Len(arrived) < c + NUM_RX_DESC - 1
         /\ rx[rx_cur].dd <=> c < Len(arrived)
<1>1. Len(arrived) \in Nat /\ NUM_RX_DESC \in Nat \ {0}
  BY DEF RxTypeOK, RingSizes
<1> DEFINE a == Len(arrived)
           n == NUM_RX_DESC
<1>2. a <= c + n - 1 /\ c <= a /\ a - c < n
  BY <1>1 DEF RxAt
<1>3. rdh = a % n /\ rdt = (c + n - 1) % n /\ rx_cur = c % n
  BY DEF RxAt
<1>4. ASSUME a < c + n - 1 PROVE rdh # rdt
  <2>1. a \in Int /\ c + n - 1 \in Int /\ (c + n - 1) - a < n
    BY <1>1, <1>2
  <2> HIDE DEF a, n
  <2> QED BY <1>1, <1>3, <1>4, <2>1, PlacesApart DEF n
<1>5. ASSUME a = c + n - 1 PROVE rdh = rdt
  BY <1>3, <1>5
<1>6. ASSUME c < a PROVE rx[rx_cur].dd
  <2>1. c \in c .. a - 1
    BY <1>1, <1>6
  <2>2. rx[c % n] = [frame |-> IF arrived[c + 1] THEN c + 1 ELSE 0, dd |-> TRUE]
    BY <2>1 DEF RxAt
  <2> QED BY <1>3, <2>2
<1>7. ASSUME c = a PROVE ~rx[rx_cur].dd
  <2>1. c \in a .. c + n - 1
    BY <1>1, <1>7
  <2> QED BY <1>3, <2>1 DEF RxAt
<1> QED BY <1>1, <1>2, <1>4, <1>5, <1>6, <1>7

\* The card fills the first free descriptor.
LEMMA CardReceivesStep ==
  ASSUME RingSizes, RxInv, CardReceives
  PROVE  RxInv'
<1>1. PICK c \in Nat : RxAt(c)
  BY DEF RxInv
<1>2. PICK good \in BOOLEAN :
        /\ rx' = [rx EXCEPT ![rdh] = [frame |-> IF good THEN Len(arrived) + 1 ELSE 0, dd |-> TRUE]]
        /\ arrived' = Append(arrived, good)
  BY DEF CardReceives
<1> DEFINE a == Len(arrived)
           n == NUM_RX_DESC
<1>3. rdh # rdt /\ a < MaxRx /\ rdh' = NextRx(rdh)
      /\ UNCHANGED <<rdt, rx_cur, receiving, handed>>
  BY DEF CardReceives, txVars
<1>4. RxTypeOK /\ a \in Nat /\ n \in Nat \ {0} /\ MaxRx \in Nat
  BY DEF RxInv, RxTypeOK, RingSizes
<1>5. a < c + n - 1 /\ c <= a
  BY <1>1, <1>3, <1>4, FilledSlot DEF RxAt
<1>6. /\ Len(arrived') = a + 1
      /\ \A k \in 1 .. a : arrived'[k] = arrived[k]
      /\ arrived'[a + 1] = good /\ arrived' \in Seq(BOOLEAN)
  BY <1>2, <1>4 DEF RxTypeOK
<1>7. rdh = a % n /\ rdh \in RxSlots
  <2>1. rdh = a % n
    BY <1>1 DEF RxAt
  <2>2. a % n \in 0 .. n - 1
    <3> HIDE DEF a, n
    <3> QED BY <1>4, Place
  <2> QED BY <2>1, <2>2 DEF RxSlots
<1>8. rdh' = (a + 1) % n
  <2>1. rdh' = ((a % n) + 1) % n
    BY <1>3, <1>7 DEF NextRx
  <2>2. a \in Int /\ n \in Nat \ {0}
    BY <1>4
  <2> HIDE DEF a, n
  <2>3. ((a % n) + 1) % n = (a + 1) % n
    BY <2>2, NextPlace
  <2> QED BY <2>1, <2>3
<1>9. rx'[a % n] = [frame |-> IF good THEN a + 1 ELSE 0, dd |-> TRUE]
  BY <1>2, <1>4, <1>7 DEF RxTypeOK
<1>10. \A k \in c .. c + n - 1 : k # a => rx'[k % n] = rx[k % n]
  <2> TAKE k \in c .. c + n - 1
  <2> HAVE k # a
  <2>1. k % n # a % n
    <3>1. k \in Int /\ a \in Int /\ (k < a \/ a < k) /\ k - a < n /\ a - k < n
      BY <1>4, <1>5
    <3> HIDE DEF a, n
    <3> QED BY <1>4, <3>1, PlacesApart
  <2> QED BY <1>2, <1>7, <2>1
<1>11. RxAt(c)'
  <2>1. c <= a + 1 /\ a + 1 - c < n
    BY <1>4, <1>5
  <2>2. \A k \in c .. a : rx'[k % n] = [frame |-> IF arrived'[k + 1] THEN k + 1 ELSE 0, dd |-> TRUE]
    <3> TAKE k \in c .. a
    <3>1. CASE k = a
      BY <1>6, <1>9, <3>1
    <3>2. CASE k # a
      <4>1. k \in c .. a - 1 /\ k \in c .. c + n - 1 /\ k + 1 \in 1 .. a
        BY <1>4, <1>5, <3>2
      <4>2. rx[k % n] = [frame |-> IF arrived[k + 1] THEN k + 1 ELSE 0, dd |-> TRUE]
        BY <1>1, <4>1 DEF RxAt
      <4> QED BY <1>6, <1>10, <3>2, <4>1, <4>2
    <3> QED BY <3>1, <3>2
  <2>3. \A k \in a + 1 .. c + n - 1 : ~rx'[k % n].dd
    <3> TAKE k \in a + 1 .. c + n - 1
    <3>1. k \in a .. c + n - 1 /\ k \in c .. c + n - 1 /\ k # a
      BY <1>4, <1>5
    <3>2. ~rx[k % n].dd
      BY <1>1, <3>1 DEF RxAt
    <3> QED BY <1>10, <3>1, <3>2
  <2>4. \A i \in DOMAIN handed : handed[i] <= c /\ handed[i] \in 1 .. a /\ arrived'[handed[i]]
    <3> TAKE i \in DOMAIN handed
    <3>1. handed[i] \in 1 .. MaxRx /\ handed[i] <= c /\ arrived[handed[i]]
      BY <1>1, <1>4 DEF RxAt, RxTypeOK
    <3>2. handed[i] \in 1 .. a
      BY <1>4, <1>5, <3>1
    <3> QED BY <1>6, <3>1, <3>2
  <2>5. \A f \in 1 .. c : arrived'[f] => f \in Range(handed)
    <3> TAKE f \in 1 .. c
    <3>1. f \in 1 .. a
      BY <1>4, <1>5
    <3> QED BY <1>1, <1>6, <3>1 DEF RxAt
  <2>6. a + 1 - 1 = a
    BY <1>4
  <2>7. \A i, j \in DOMAIN handed : i < j => handed[i] < handed[j]
    BY <1>1 DEF RxAt
  <2>8. rx_cur = c % n /\ rdt = (c + n - 1) % n
    BY <1>1 DEF RxAt
  <2>9. Len(arrived') - c < n /\ c .. Len(arrived') - 1 = c .. a
        /\ Len(arrived') .. c + n - 1 = a + 1 .. c + n - 1 /\ c <= Len(arrived')
    BY <1>6, <2>1, <2>6
  <2>10. rdh' = Len(arrived') % n
    BY <1>6, <1>8
  <2> QED BY <1>3, <2>2, <2>3, <2>4, <2>5, <2>7, <2>8, <2>9, <2>10 DEF RxAt
<1>12. RxTypeOK'
  <2>1. rx' \in [RxSlots -> [frame : 0 .. MaxRx, dd : BOOLEAN]]
    <3>1. [frame |-> IF good THEN a + 1 ELSE 0, dd |-> TRUE] \in [frame : 0 .. MaxRx, dd : BOOLEAN]
      BY <1>3, <1>4
    <3> QED BY <1>2, <1>4, <3>1 DEF RxTypeOK
  <2>2. Len(arrived') <= MaxRx
    BY <1>3, <1>4, <1>6
  <2> QED BY <1>3, <1>4, <1>6, <2>1, <2>2 DEF RxTypeOK
<1> QED BY <1>11, <1>12 DEF RxInv

\* The driver collects the oldest filled descriptor and gives the one before to the card.
LEMMA ReceiveOneStep ==
  ASSUME RingSizes, RxInv, ReceiveOne
  PROVE  RxInv'
<1>1. PICK c \in Nat : RxAt(c)
  BY DEF RxInv
<1> DEFINE a == Len(arrived)
           n == NUM_RX_DESC
<1>2. /\ handed' = IF rx[rx_cur].frame # 0 THEN Append(handed, rx[rx_cur].frame) ELSE handed
      /\ rx' = [rx EXCEPT ![rx_cur] = ClearStatus(@)]
      /\ rdt' = rx_cur /\ rx_cur' = NextRx(rx_cur) /\ rx[rx_cur].dd
      /\ UNCHANGED <<rdh, receiving, arrived>>
  BY DEF ReceiveOne
<1>3. RxTypeOK /\ a \in Nat /\ n \in Nat \ {0} /\ MaxRx \in Nat /\ a <= MaxRx
  BY DEF RxInv, RxTypeOK, RingSizes
<1>0. n \in Nat \ {0} /\ c \in Int
  BY <1>3
<1>4. c < a /\ a - c < n
  BY <1>1, <1>2, <1>3, FilledSlot DEF RxAt
<1>5. rx_cur = c % n /\ c % n \in RxSlots
  <2>1. c % n \in 0 .. n - 1
    <3> HIDE DEF n
    <3> QED BY <1>0, Place
  <2> QED BY <1>1, <2>1 DEF RxAt, RxSlots
<1>6. rx_cur' = (c + 1) % n
  <2>1. rx_cur' = ((c % n) + 1) % n
    BY <1>2, <1>5 DEF NextRx
  <2> HIDE DEF n
  <2>2. ((c % n) + 1) % n = (c + 1) % n
    BY <1>0, NextPlace
  <2> QED BY <2>1, <2>2
<1>7. rdt' = (c + n) % n
  <2>1. rdt' = c % n
    BY <1>2, <1>5
  <2> HIDE DEF n
  <2>2. (c + n) % n = c % n
    BY <1>0, FullTurn
  <2> QED BY <2>1, <2>2
<1>8. rx[c % n] = [frame |-> IF arrived[c + 1] THEN c + 1 ELSE 0, dd |-> TRUE]
  <2>1. c \in c .. a - 1
    BY <1>3, <1>4
  <2> QED BY <1>1, <2>1 DEF RxAt
<1>9. handed' = IF arrived[c + 1] THEN Append(handed, c + 1) ELSE handed
  <2>1. rx[c % n].frame = IF arrived[c + 1] THEN c + 1 ELSE 0
    BY <1>8
  <2> QED BY <1>2, <1>5, <2>1
<1>10. ~rx'[c % n].dd
  BY <1>2, <1>3, <1>5 DEF ClearStatus, RxTypeOK
<1>11. \A k \in c + 1 .. c + n - 1 : rx'[k % n] = rx[k % n]
  <2> TAKE k \in c + 1 .. c + n - 1
  <2>1. c < k /\ k - c < n /\ k \in Int
    BY <1>3
  <2>2. k % n # c % n
    <3> HIDE DEF n
    <3> QED BY <1>0, <2>1, PlacesApart
  <2> QED BY <1>2, <1>5, <2>2
<1>12. RxAt(c + 1)'
  <2>1. c + 1 <= a /\ a - (c + 1) < n
    BY <1>3, <1>4
  <2>2. \A k \in c + 1 .. a - 1 :
           rx'[k % n] = [frame |-> IF arrived[k + 1] THEN k + 1 ELSE 0, dd |-> TRUE]
    <3> TAKE k \in c + 1 .. a - 1
    <3>1. k \in c .. a - 1 /\ k \in c + 1 .. c + n - 1
      BY <1>3, <1>4
    <3>2. rx[k % n] = [frame |-> IF arrived[k + 1] THEN k + 1 ELSE 0, dd |-> TRUE]
      BY <1>1, <3>1 DEF RxAt
    <3> QED BY <1>11, <3>1, <3>2
  <2>3. \A k \in a .. c + n : ~rx'[k % n].dd
    <3> TAKE k \in a .. c + n
    <3>1. CASE k = c + n
      <4>1. (c + n) % n = c % n
        <5> HIDE DEF n
        <5> QED BY <1>0, FullTurn
      <4> QED BY <1>10, <3>1, <4>1
    <3>2. CASE k # c + n
      <4>1. k \in a .. c + n - 1 /\ k \in c + 1 .. c + n - 1
        BY <1>3, <1>4, <3>2
      <4>2. ~rx[k % n].dd
        BY <1>1, <4>1 DEF RxAt
      <4> QED BY <1>11, <4>1, <4>2
    <3> QED BY <3>1, <3>2
  <2>4. \A i \in DOMAIN handed : handed[i] \in Nat /\ handed[i] <= c /\ arrived[handed[i]]
    BY <1>1, <1>3 DEF RxAt, RxTypeOK
  <2>5. \A i, j \in DOMAIN handed : i < j => handed[i] < handed[j]
    BY <1>1 DEF RxAt
  <2>6. \A f \in 1 .. c : arrived[f] => f \in Range(handed)
    BY <1>1 DEF RxAt
  <2>7. handed \in Seq(1 .. MaxRx) /\ Len(handed) \in Nat /\ DOMAIN handed = 1 .. Len(handed)
    BY <1>3 DEF RxTypeOK
  <2>8. /\ \A i \in DOMAIN handed' : handed'[i] <= c + 1 /\ arrived[handed'[i]]
        /\ \A f \in 1 .. c + 1 : arrived[f] => f \in Range(handed')
        /\ \A i, j \in DOMAIN handed' : i < j => handed'[i] < handed'[j]
    <3>1. CASE ~arrived[c + 1]
      <4>1. handed' = handed
        BY <1>9, <3>1
      <4>2. \A f \in 1 .. c + 1 : f \in 1 .. c \/ f = c + 1
        OBVIOUS
      <4> QED BY <2>4, <2>5, <2>6, <3>1, <4>1, <4>2
    <3>2. CASE arrived[c + 1]
      <4>1. handed' = Append(handed, c + 1)
        BY <1>9, <3>2
      <4>2. /\ DOMAIN handed' = 1 .. Len(handed) + 1
            /\ \A i \in 1 .. Len(handed) : handed'[i] = handed[i]
            /\ handed'[Len(handed) + 1] = c + 1
        BY <2>7, <4>1
      <4>3. \A i \in DOMAIN handed' : i \in DOMAIN handed \/ i = Len(handed) + 1
        BY <2>7, <4>2
      <4>4. \A i \in DOMAIN handed' : handed'[i] <= c + 1 /\ arrived[handed'[i]]
        BY <2>4, <2>7, <3>2, <4>2, <4>3
      <4>5. \A f \in 1 .. c + 1 : arrived[f] => f \in Range(handed')
        <5> TAKE f \in 1 .. c + 1
        <5> HAVE arrived[f]
        <5>1. CASE f = c + 1
          <6>1. Len(handed) + 1 \in DOMAIN handed'
            BY <2>7, <4>2
          <6> QED BY <4>2, <5>1, <6>1 DEF Range
        <5>2. CASE f # c + 1
          <6>1. f \in Range(handed)
            BY <2>6, <5>2
          <6>2. PICK i \in DOMAIN handed : f = handed[i]
            BY <6>1 DEF Range
          <6>3. i \in DOMAIN handed' /\ handed'[i] = f
            BY <2>7, <4>2, <6>2
          <6> QED BY <6>3 DEF Range
        <5> QED BY <5>1, <5>2
      <4>6. \A i, j \in DOMAIN handed' : i < j => handed'[i] < handed'[j]
        <5> TAKE i, j \in DOMAIN handed'
        <5> HAVE i < j
        <5>1. i \in DOMAIN handed /\ i \in 1 .. Len(handed)
          BY <2>7, <4>2
        <5>2. CASE j \in DOMAIN handed
          BY <2>5, <2>7, <4>2, <5>1, <5>2
        <5>3. CASE j = Len(handed) + 1
          <6>1. handed'[i] = handed[i] /\ handed[i] \in Nat /\ handed[i] <= c /\ handed'[j] = c + 1
            BY <2>4, <4>2, <5>1, <5>3
          <6> QED BY <6>1
        <5> QED BY <4>3, <5>2, <5>3
      <4> QED BY <4>4, <4>5, <4>6
    <3> QED BY <3>1, <3>2
  <2>9. (c + 1) + n - 1 = c + n
    BY <1>3
  <2>10. arrived' = arrived /\ rdh' = a % n
    BY <1>1, <1>2 DEF RxAt
  <2>11. rdt' = ((c + 1) + n - 1) % n
    BY <1>7, <2>9
  <2>12. \A k \in a .. (c + 1) + n - 1 : ~rx'[k % n].dd
    BY <2>3, <2>9
  <2> QED BY <1>6, <2>1, <2>2, <2>8, <2>10, <2>11, <2>12 DEF RxAt
<1>13. RxTypeOK'
  <2>1. rx' \in [RxSlots -> [frame : 0 .. MaxRx, dd : BOOLEAN]]
    <3>1. ClearStatus(rx[rx_cur]) \in [frame : 0 .. MaxRx, dd : BOOLEAN]
      BY <1>3, <1>5 DEF RxTypeOK, ClearStatus
    <3> QED BY <1>2, <1>3, <3>1 DEF RxTypeOK
  <2>2. handed' \in Seq(1 .. MaxRx)
    <3>1. c + 1 \in 1 .. MaxRx
      BY <1>3, <1>4
    <3>2. handed \in Seq(1 .. MaxRx)
      BY <1>3 DEF RxTypeOK
    <3>3. Append(handed, c + 1) \in Seq(1 .. MaxRx)
      BY <3>1, <3>2
    <3> QED BY <1>9, <3>2, <3>3
  <2> QED BY <1>2, <1>3, <2>1, <2>2 DEF RxTypeOK
<1>14. c + 1 \in Nat
  OBVIOUS
<1> QED BY <1>12, <1>13, <1>14 DEF RxInv

\* The card sends the oldest frame of the ring and marks its descriptor done.
LEMMA CardTransmitsStep ==
  ASSUME RingSizes, TxInv, CardTransmits
  PROVE  TxInv'
<1>1. PICK t \in Nat : TxAt(t)
  BY DEF TxInv
<1> DEFINE g == told.given
           n == NUM_TX_DESC
<1>2. /\ tdh # tdt /\ onWire' = Append(onWire, tx[tdh].frame)
      /\ tx' = [tx EXCEPT ![tdh].dd = TRUE] /\ tdh' = NextTx(tdh)
      /\ UNCHANGED <<tdt, tx_cur, waiting, told>>
  BY DEF CardTransmits
<1>3. TxTypeOK /\ g \in Nat /\ n \in Nat \ {0} /\ MaxTx \in Nat /\ g <= MaxTx
  BY DEF TxInv, TxTypeOK, RingSizes
<1>0. n \in Nat \ {0} /\ t \in Int /\ g \in Int
  BY <1>3
<1>4. tdh = t % n /\ tdt = g % n /\ t <= g /\ g - t < n
  BY <1>1 DEF TxAt
<1>5. t < g
  BY <1>2, <1>3, <1>4
<1>6. tdh \in TxSlots
  <2>1. t % n \in 0 .. n - 1
    <3> HIDE DEF n
    <3> QED BY <1>0, Place
  <2> QED BY <1>4, <2>1 DEF TxSlots
<1>7. tdh' = (t + 1) % n
  <2>1. tdh' = ((t % n) + 1) % n
    BY <1>2, <1>4 DEF NextTx
  <2> HIDE DEF n
  <2>2. ((t % n) + 1) % n = (t + 1) % n
    BY <1>0, NextPlace
  <2> QED BY <2>1, <2>2
<1>8. tx[tdh].frame = t + 1
  <2>1. t \in t .. g - 1
    BY <1>0, <1>5
  <2> QED BY <1>1, <1>4, <2>1 DEF TxAt
<1>9. /\ \A s \in TxSlots : tx'[s].frame = tx[s].frame
      /\ \A s \in TxSlots : s # tdh => tx'[s] = tx[s]
      /\ tx' \in [TxSlots -> [frame : 0 .. MaxTx, dd : BOOLEAN]]
  BY <1>2, <1>3, <1>6 DEF TxTypeOK
<1>10. \A k \in Int : k % n \in TxSlots
  <2> TAKE k \in Int
  <2>1. k % n \in 0 .. n - 1
    <3> HIDE DEF n
    <3> QED BY <1>0, Place
  <2> QED BY <2>1 DEF TxSlots
<1>11. /\ onWire \in Seq(1 .. MaxTx) /\ onWire' \in Seq(1 .. MaxTx)
       /\ Len(onWire) \in Nat /\ DOMAIN onWire = 1 .. Len(onWire)
       /\ DOMAIN onWire' = 1 .. Len(onWire) + 1
       /\ \A i \in DOMAIN onWire : onWire'[i] = onWire[i]
       /\ onWire'[Len(onWire) + 1] = t + 1
  <2>1. onWire \in Seq(1 .. MaxTx) /\ t + 1 \in 1 .. MaxTx
    BY <1>3, <1>5 DEF TxTypeOK
  <2>2. onWire' = Append(onWire, t + 1)
    BY <1>2, <1>8
  <2> HIDE DEF n, g
  <2> QED BY <2>1, <2>2
<1>12. Range(onWire) \subseteq Range(onWire') /\ t + 1 \in Range(onWire')
  BY <1>11 DEF Range
<1>13. \A i \in DOMAIN onWire : onWire[i] \in Nat /\ onWire[i] <= t
  <2>1. \A i \in DOMAIN onWire : onWire[i] \in 1 .. MaxTx
    <3>1. onWire \in Seq(1 .. MaxTx) /\ DOMAIN onWire = 1 .. Len(onWire)
      BY <1>11
    <3> QED BY <3>1, ElementOfSeq
  <2>2. \A i \in DOMAIN onWire : onWire[i] <= t
    BY <1>1 DEF TxAt
  <2>3. \A m \in 1 .. MaxTx : m \in Nat
    BY <1>3
  <2> QED BY <2>1, <2>2, <2>3
<1>14. TxAt(t + 1)'
  <2>1. t + 1 <= g /\ g - (t + 1) < n
    BY <1>3, <1>4, <1>5
  <2>2. \A k \in t + 1 .. g - 1 : tx'[k % n].frame = k + 1
    <3> TAKE k \in t + 1 .. g - 1
    <3>1. k \in t .. g - 1 /\ k \in Int
      BY <1>0
    <3>2. tx[k % n].frame = k + 1
      BY <1>1, <3>1 DEF TxAt
    <3> QED BY <1>9, <1>10, <3>1, <3>2
  <2>3. \A i \in DOMAIN onWire' : onWire'[i] <= t + 1
    <3> TAKE i \in DOMAIN onWire'
    <3>1. i \in DOMAIN onWire \/ i = Len(onWire) + 1
      BY <1>11
    <3> QED BY <1>0, <1>11, <1>13, <3>1
  <2>4. \A i, j \in DOMAIN onWire' : i < j => onWire'[i] < onWire'[j]
    <3> TAKE i, j \in DOMAIN onWire'
    <3> HAVE i < j
    <3>1. i \in DOMAIN onWire /\ (j \in DOMAIN onWire \/ j = Len(onWire) + 1)
      BY <1>11
    <3>2. CASE j \in DOMAIN onWire
      <4>1. onWire[i] < onWire[j]
        BY <1>1, <3>1, <3>2 DEF TxAt
      <4> QED BY <1>11, <3>1, <3>2, <4>1
    <3>3. CASE j = Len(onWire) + 1
      BY <1>0, <1>11, <1>13, <3>1, <3>3
    <3> QED BY <3>1, <3>2, <3>3
  <2>5. \A i \in DOMAIN told.sent : told.sent[i] \in Range(onWire')
    BY <1>1, <1>12 DEF TxAt
  <2>6. ASSUME waiting # Nobody
        PROVE  /\ g > 0 /\ waiting = (g - 1) % n
               /\ tx'[waiting].dd => g \in Range(onWire')
    <3>1. g > 0 /\ waiting = (g - 1) % n /\ (tx[waiting].dd => g \in Range(onWire))
      BY <1>1, <2>6 DEF TxAt
    <3>2. CASE g = t + 1
      BY <1>12, <3>1, <3>2
    <3>3. CASE g # t + 1
      <4>1. t < g - 1 /\ (g - 1) - t < n /\ g - 1 \in Int
        <5>1. t < g /\ g - t < n
          BY <1>4, <1>5
        <5> HIDE DEF n, g
        <5> QED BY <1>0, <3>3, <5>1
      <4>2. waiting # tdh
        <5> HIDE DEF n, g
        <5> QED BY <1>0, <1>4, <3>1, <4>1, PlacesApart
      <4>3. waiting \in TxSlots
        BY <1>10, <3>1, <4>1
      <4> QED BY <1>9, <1>12, <3>1, <4>2, <4>3
    <3> QED BY <3>2, <3>3
  <2>7. tdt = g % n /\ tx_cur = tdt
    BY <1>1 DEF TxAt
  <2> QED BY <1>2, <1>7, <2>1, <2>2, <2>3, <2>4, <2>5, <2>6, <2>7 DEF TxAt
<1>15. TxTypeOK'
  BY <1>2, <1>3, <1>9, <1>11 DEF TxTypeOK
<1>16. t + 1 \in Nat
  OBVIOUS
<1> QED BY <1>14, <1>15, <1>16 DEF TxInv

\* A frame goes into the ring; when the tail reaches the head, the card takes the ring
\* for empty and none of it will be sent.
LEMMA SendStep ==
  ASSUME RingSizes, TxInv, Send
  PROVE  TxInv'
<1>1. PICK t \in Nat : TxAt(t)
  BY DEF TxInv
<1> DEFINE g == told.given
           n == NUM_TX_DESC
<1>2. /\ waiting = Nobody /\ g < MaxTx
      /\ tx' = [tx EXCEPT ![tx_cur] = [frame |-> g + 1, dd |-> FALSE]]
      /\ tx_cur' = NextTx(tx_cur) /\ tdt' = NextTx(tx_cur) /\ waiting' = tx_cur
      /\ told' = [told EXCEPT !.given = @ + 1]
      /\ UNCHANGED <<tdh, onWire>>
  BY DEF Send
<1>3. TxTypeOK /\ g \in Nat /\ n \in Nat \ {0} /\ MaxTx \in Nat /\ g <= MaxTx
  BY DEF TxInv, TxTypeOK, RingSizes
<1>0. n \in Nat \ {0} /\ t \in Int /\ g \in Int
  BY <1>3
<1>4. tdh = t % n /\ tx_cur = g % n /\ t <= g /\ g - t < n
  BY <1>1 DEF TxAt
<1>5. told'.given = g + 1 /\ told'.sent = told.sent
  BY <1>2, <1>3 DEF TxTypeOK
<1>6. g % n \in TxSlots
  <2>1. g % n \in 0 .. n - 1
    <3> HIDE DEF n, g
    <3> QED BY <1>0, Place
  <2> QED BY <2>1 DEF TxSlots
<1>7. tx_cur' = (g + 1) % n /\ tdt' = tx_cur'
  <2>1. tx_cur' = ((g % n) + 1) % n /\ tdt' = tx_cur'
    BY <1>2, <1>4 DEF NextTx
  <2> HIDE DEF n, g
  <2>2. ((g % n) + 1) % n = (g + 1) % n
    BY <1>0, NextPlace
  <2> QED BY <2>1, <2>2
<1>8. /\ tx'[g % n] = [frame |-> g + 1, dd |-> FALSE]
      /\ \A s \in TxSlots : s # g % n => tx'[s] = tx[s]
      /\ tx' \in [TxSlots -> [frame : 0 .. MaxTx, dd : BOOLEAN]]
  <2>1. [frame |-> g + 1, dd |-> FALSE] \in [frame : 0 .. MaxTx, dd : BOOLEAN]
    BY <1>2, <1>3
  <2>2. tx \in [TxSlots -> [frame : 0 .. MaxTx, dd : BOOLEAN]]
    BY <1>3 DEF TxTypeOK
  <2>3. tx' = [tx EXCEPT ![g % n] = [frame |-> g + 1, dd |-> FALSE]]
    BY <1>2, <1>4
  <2> HIDE DEF n, g
  <2> QED BY <1>6, <2>1, <2>2, <2>3
<1>9. \A i \in DOMAIN onWire : onWire[i] \in Nat /\ onWire[i] <= t
  BY <1>1, <1>3 DEF TxAt, TxTypeOK
<1>10. /\ \A i, j \in DOMAIN onWire : i < j => onWire[i] < onWire[j]
       /\ \A i \in DOMAIN told.sent : told.sent[i] \in Range(onWire)
  BY <1>1 DEF TxAt
<1>11. waiting' = g % n /\ ~tx'[waiting'].dd /\ g + 1 > 0 /\ (g + 1) - 1 = g
  BY <1>2, <1>3, <1>4, <1>8
<1>12. CASE g + 1 - t < n
  <2>1. \A k \in t .. g : tx'[k % n].frame = k + 1
    <3> TAKE k \in t .. g
    <3>1. CASE k = g
      BY <1>8, <3>1
    <3>2. CASE k # g
      <4>1. k \in t .. g - 1 /\ k \in Int /\ k < g /\ g - k < n
        BY <1>0, <1>4, <3>2
      <4>2. k % n # g % n /\ k % n \in 0 .. n - 1
        <5> HIDE DEF n, g
        <5> QED BY <1>0, <4>1, Place, PlacesApart
      <4>3. tx[k % n].frame = k + 1
        BY <1>1, <4>1 DEF TxAt
      <4> QED BY <1>8, <4>2, <4>3 DEF TxSlots
    <3> QED BY <3>1, <3>2
  <2>2. TxAt(t)'
    <3>1. t <= g + 1 /\ tdh' = t % n
      BY <1>0, <1>2, <1>4
    <3>2. \A k \in t .. told'.given - 1 : tx'[k % NUM_TX_DESC].frame = k + 1
      <4>1. told'.given - 1 = g
        BY <1>5, <1>11
      <4> QED BY <2>1, <4>1
    <3>3. t <= told'.given /\ told'.given - t < NUM_TX_DESC
      <4>1. told'.given = g + 1 /\ g + 1 - t < n
        BY <1>5, <1>12
      <4> HIDE DEF g
      <4> QED BY <1>0, <3>1, <4>1 DEF n
    <3>4. \A i \in DOMAIN onWire : onWire[i] <= t
      BY <1>9
    <3>5. told'.given > 0 /\ waiting' = (told'.given - 1) % NUM_TX_DESC /\ ~tx'[waiting'].dd
      BY <1>5, <1>11
    <3>6. tdt' = told'.given % NUM_TX_DESC /\ tx_cur' = tdt' /\ tdh' = t % NUM_TX_DESC
      BY <1>5, <1>7, <3>1
    <3>7. onWire' = onWire /\ told'.sent = told.sent
      BY <1>2, <1>5
    <3>8. /\ \A i \in DOMAIN onWire' : onWire'[i] <= t
          /\ \A i, j \in DOMAIN onWire' : i < j => onWire'[i] < onWire'[j]
          /\ \A i \in DOMAIN told'.sent : told'.sent[i] \in Range(onWire')
      BY <1>10, <3>4, <3>7
    <3>9. waiting' # Nobody =>
             /\ told'.given > 0 /\ waiting' = (told'.given - 1) % NUM_TX_DESC
             /\ tx'[waiting'].dd => told'.given \in Range(onWire')
      BY <3>5
    <3> HIDE DEF g, n
    <3> QED BY <3>2, <3>3, <3>6, <3>8, <3>9 DEF TxAt
  <2>3. TxTypeOK'
    BY <1>2, <1>3, <1>4, <1>6, <1>8 DEF TxTypeOK
  <2> QED BY <2>2, <2>3 DEF TxInv
<1>13. CASE ~(g + 1 - t < n)
  <2>1. g + 1 = t + n
    <3>1. g - t < n
      BY <1>4
    <3>2. ~(g + 1 - t < n)
      BY <1>13
    <3> HIDE DEF n, g
    <3> QED BY <1>0, <3>1, <3>2
  <2>2. PICK c \in Nat : c = g + 1
    BY <1>3
  <2>3. told'.given = c
    BY <1>5, <2>2
  <2>4. tdh' = c % NUM_TX_DESC
    <3>1. tdh' = t % n /\ c = t + n
      BY <1>2, <1>4, <2>1, <2>2
    <3> HIDE DEF n
    <3>2. (t + n) % n = t % n
      BY <1>0, FullTurn
    <3> QED BY <3>1, <3>2 DEF n
  <2>5. TxAt(c)'
    <3>1. c <= told'.given /\ told'.given - c < NUM_TX_DESC
      BY <1>3, <2>3
    <3>2. tdt' = told'.given % NUM_TX_DESC /\ tx_cur' = tdt'
      BY <1>7, <2>2, <2>3
    <3>3. \A k \in c .. told'.given - 1 : FALSE
      BY <2>3
    <3>4. \A i \in DOMAIN onWire : onWire[i] <= c
      <4>1. t <= c
        BY <1>0, <1>4, <2>2
      <4> QED BY <1>9, <4>1
    <3>5. onWire' = onWire /\ told'.sent = told.sent
      BY <1>2, <1>5
    <3>6. /\ \A i \in DOMAIN onWire' : onWire'[i] <= c
          /\ \A i, j \in DOMAIN onWire' : i < j => onWire'[i] < onWire'[j]
          /\ \A i \in DOMAIN told'.sent : told'.sent[i] \in Range(onWire')
      BY <1>10, <3>4, <3>5
    <3>7. waiting' # Nobody =>
             /\ told'.given > 0 /\ waiting' = (told'.given - 1) % NUM_TX_DESC
             /\ tx'[waiting'].dd => told'.given \in Range(onWire')
      BY <1>5, <1>11
    <3> HIDE DEF g, n
    <3> QED BY <2>4, <3>1, <3>2, <3>3, <3>6, <3>7 DEF TxAt
  <2>6. TxTypeOK'
    BY <1>2, <1>3, <1>4, <1>6, <1>8 DEF TxTypeOK
  <2> QED BY <2>5, <2>6 DEF TxInv
<1> QED BY <1>12, <1>13

\* send looks at the descriptor of its own frame.
LEMMA SendDoneStep ==
  ASSUME RingSizes, TxInv, SendDone
  PROVE  TxInv'
<1>1. PICK t \in Nat : TxAt(t)
  BY DEF TxInv
<1>2. /\ waiting # Nobody /\ tx[waiting].dd /\ waiting' = Nobody
      /\ told' = [told EXCEPT !.sent = Append(@, told.given)]
      /\ UNCHANGED <<tx, tdh, tdt, tx_cur, onWire>>
  BY DEF SendDone, IsDone
<1>3. /\ told \in [given : 0 .. MaxTx, sent : Seq(1 .. MaxTx)] /\ MaxTx \in Nat
      /\ TxTypeOK
  BY DEF TxInv, TxTypeOK, RingSizes
<1>4. told.given \in Range(onWire) /\ told.given > 0
  BY <1>1, <1>2 DEF TxAt
<1>5. told'.given = told.given /\ told'.sent = Append(told.sent, told.given)
  BY <1>2, <1>3
<1>6. told.given \in 1 .. MaxTx /\ told.sent \in Seq(1 .. MaxTx)
  BY <1>3, <1>4
<1>7. told'.sent \in Seq(1 .. MaxTx)
  BY <1>5, <1>6
<1>8. \A i \in DOMAIN told'.sent : told'.sent[i] \in Range(onWire)
  <2> TAKE i \in DOMAIN told'.sent
  <2>1. \/ i \in DOMAIN told.sent /\ told'.sent[i] = told.sent[i]
        \/ told'.sent[i] = told.given
    BY <1>5, <1>6
  <2>2. \A k \in DOMAIN told.sent : told.sent[k] \in Range(onWire)
    BY <1>1 DEF TxAt
  <2> QED BY <1>4, <2>1, <2>2
<1>9. TxAt(t)'
  BY <1>1, <1>2, <1>5, <1>8 DEF TxAt
<1>10. TxTypeOK'
  <2>1. told' \in [given : 0 .. MaxTx, sent : Seq(1 .. MaxTx)]
    BY <1>2, <1>3, <1>5, <1>7
  <2> QED BY <1>2, <1>3, <2>1 DEF TxTypeOK
<1> QED BY <1>9, <1>10 DEF TxInv

\* All steps together.
LEMMA StepInv ==
  ASSUME RingSizes, Inv, [Next]_vars
  PROVE  Inv'
<1> USE DEF Inv
<1>1. CASE CardReceives
  BY <1>1, CardReceivesStep, HalvesApart DEF CardReceives
<1>2. CASE CardTransmits
  BY <1>2, CardTransmitsStep, HalvesApart DEF CardTransmits
<1>3. CASE ReceiveOne
  BY <1>3, ReceiveOneStep, HalvesApart DEF ReceiveOne
<1>4. CASE ReceiveBegins \/ ReceiveEnds
  <2>1. /\ UNCHANGED txVars /\ receiving' \in BOOLEAN
        /\ UNCHANGED <<rx, rdh, rdt, rx_cur, arrived, handed>>
    BY <1>4 DEF ReceiveBegins, ReceiveEnds
  <2>2. \A c : RxAt(c) => RxAt(c)'
    BY <2>1 DEF RxAt
  <2>3. RxInv'
    BY <2>1, <2>2 DEF RxInv, RxTypeOK
  <2> QED BY <2>1, <2>3, HalvesApart
<1>5. CASE Send
  BY <1>5, SendStep, HalvesApart DEF Send
<1>6. CASE SendDone
  BY <1>6, SendDoneStep, HalvesApart DEF SendDone
<1>7. CASE SendTimesOut
  <2>1. /\ UNCHANGED rxVars /\ waiting' = Nobody
        /\ UNCHANGED <<tx, tdh, tdt, tx_cur, onWire, told>>
    BY <1>7 DEF SendTimesOut
  <2>2. \A t : TxAt(t) => TxAt(t)'
    BY <2>1 DEF TxAt
  <2>3. TxInv'
    BY <2>1, <2>2 DEF TxInv, TxTypeOK
  <2> QED BY <2>1, <2>3, HalvesApart
<1>8. CASE UNCHANGED vars
  BY <1>8, HalvesApart DEF vars
<1> QED BY <1>1, <1>2, <1>3, <1>4, <1>5, <1>6, <1>7, <1>8 DEF Next

\* What the invariant says of the frames.
LEMMA InvImplies ==
  ASSUME RingSizes, Inv
  PROVE  FramesGoThrough
<1>1. PICK c \in Nat : RxAt(c)
  BY DEF Inv, RxInv
<1>2. PICK t \in Nat : TxAt(t)
  BY DEF Inv, TxInv
<1>3. RxTypeOK /\ MaxRx \in Nat /\ Len(arrived) \in Nat /\ DOMAIN arrived = 1 .. Len(arrived)
  BY DEF Inv, RxInv, RxTypeOK, RingSizes
<1>4. \A f \in Range(handed) : f \in 1 .. c /\ arrived[f]
  BY <1>1, <1>3 DEF RxAt, RxTypeOK, Range
<1>5. FramesArriveOnce
  <2>1. c <= Len(arrived)
    BY <1>1 DEF RxAt
  <2>2. \A f \in Range(handed) : f \in DOMAIN arrived /\ arrived[f]
    BY <1>3, <1>4, <2>1
  <2>3. \A f \in DOMAIN arrived, g \in Range(handed) : arrived[f] /\ f < g => f \in Range(handed)
    <3> TAKE f \in DOMAIN arrived, g \in Range(handed)
    <3> HAVE arrived[f] /\ f < g
    <3>1. f \in 1 .. c
      BY <1>3, <1>4
    <3> QED BY <1>1, <3>1 DEF RxAt
  <2> QED BY <1>1, <2>2, <2>3 DEF FramesArriveOnce, RxAt
<1>6. ReportedIsSent
  BY <1>2 DEF ReportedIsSent, TxAt
<1> QED BY <1>5, <1>6 DEF FramesGoThrough

\* Whatever the card and the driver do in whatever order, the stack gets every good
\* frame once and in order, and a frame that send reported as sent has been sent, also
\* when frames that timed out have wrapped the ring (receive and send of e1000.rs).
THEOREM FramesPass ==
  ASSUME RingSizes
  PROVE  Spec => []FramesGoThrough
<1>1. Init => Inv
  BY InitInv
<1>2. Inv /\ [Next]_vars => Inv'
  BY StepInv
<1>3. Inv => FramesGoThrough
  BY InvImplies
<1> QED BY <1>1, <1>2, <1>3, PTL DEF Spec

=============================================================================
