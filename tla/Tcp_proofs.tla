----------------------------- MODULE Tcp_proofs -----------------------------
(***************************************************************************)
(* Type correctness of the TCP client and what its callers rely on - the   *)
(* stream, its end, and both directions' acknowledgements - for every      *)
(* modulus wide enough, every length of request and reply, every buffer,   *)
(* and every number of connections.                                        *)
(***************************************************************************)
EXTENDS Tcp, SequenceTheorems, TLAPS

-----------------------------------------------------------------------------
(* Arithmetic of sequence numbers.                                         *)

\* The modulus leaves room for everything a connection numbers, twice over.
LEMMA Wide ==
  /\ SeqMod \in Nat /\ SeqMod > 0
  /\ RequestLen \in Nat /\ ReplyLen \in Nat
  /\ SeqMod > 2 * (ReplyLen + RequestLen + 2)
BY WidthAssumption, BoundAssumption

\* A remainder is a sequence number, and differs from its argument by a
\* multiple of the modulus.
LEMMA Remainder ==
  ASSUME NEW a \in Int
  PROVE  /\ a % SeqMod \in Seqno
         /\ (a \div SeqMod) \in Int
         /\ a = SeqMod * (a \div SeqMod) + (a % SeqMod)
BY Wide DEF Seqno

\* A sequence number that differs from a by a multiple of the modulus is its
\* remainder.
LEMMA RemainderUnique ==
  ASSUME NEW a \in Int, NEW q \in Int, NEW r \in Seqno, a = SeqMod * q + r
  PROVE  a % SeqMod = r
<1> DEFINE p == a \div SeqMod
           x == a % SeqMod
<1>1. p \in Int /\ x \in Seqno /\ a = SeqMod * p + x
  BY Remainder
<1> HIDE DEF p, x
<1>2. SeqMod * (p - q) = r - x /\ r - x < SeqMod /\ r - x > -SeqMod
  BY <1>1, Wide DEF Seqno
<1>3. p - q < 1
  BY <1>1, <1>2, Wide
<1>4. p - q > -1
  BY <1>1, <1>2, Wide
<1>5. p = q
  BY <1>1, <1>3, <1>4
<1>6. x = r
  BY <1>1, <1>5, Wide DEF Seqno
<1> QED BY <1>6 DEF x

\* Sequence numbers are integers below the modulus.
LEMMA SeqnoInt == \A x \in Seqno : x \in Int /\ 0 <= x /\ x < SeqMod
BY Wide DEF Seqno

\* Adding stays within the numbers.
LEMMA AddType ==
  ASSUME NEW a \in Int, NEW n \in Int
  PROVE  Add(a, n) \in Seqno
BY Remainder DEF Add

\* Adding wraps around.
LEMMA AddSeqno == \A a \in Seqno, n \in Nat : Add(a, n) \in Seqno
BY AddType, SeqnoInt

\* A distance is a number below the modulus.
LEMMA AheadType ==
  ASSUME NEW a \in Int, NEW b \in Int
  PROVE  Ahead(a, b) \in Seqno
BY Remainder DEF Ahead

\* The distance to a number reached by adding is what was added, and adding the
\* distance reaches the number.
LEMMA AheadAdd ==
  ASSUME NEW a \in Int, NEW n \in Seqno
  PROVE  Ahead(a, Add(a, n)) = n
<1> DEFINE q == (a + n) \div SeqMod
<1>1. q \in Int /\ Add(a, n) \in Seqno /\ a + n = SeqMod * q + Add(a, n)
  BY Remainder, Wide DEF Add, Seqno
<1>2. Add(a, n) - a = SeqMod * (-q) + n
  BY <1>1, Wide DEF Seqno
<1> QED BY <1>1, <1>2, RemainderUnique DEF Ahead, Seqno

\* Adding a distance leads from one number to the other.
LEMMA AddAhead ==
  ASSUME NEW a \in Int, NEW b \in Seqno
  PROVE  Add(a, Ahead(a, b)) = b
<1> DEFINE q == (b - a) \div SeqMod
<1>1. q \in Int /\ Ahead(a, b) \in Seqno /\ b - a = SeqMod * q + Ahead(a, b)
  BY Remainder, Wide DEF Ahead, Seqno
<1>2. a + Ahead(a, b) = SeqMod * (-q) + b
  BY <1>1, Wide DEF Seqno
<1> QED BY <1>1, <1>2, RemainderUnique DEF Add, Seqno

\* Adding twice is adding the sum.
LEMMA AddAdd ==
  ASSUME NEW a \in Int, NEW m \in Int, NEW n \in Int
  PROVE  Add(Add(a, m), n) = Add(a, m + n)
<1> DEFINE q == (a + m) \div SeqMod
           p == (Add(a, m) + n) \div SeqMod
<1>1. q \in Int /\ Add(a, m) \in Seqno /\ a + m = SeqMod * q + Add(a, m)
  BY Remainder DEF Add
<1>2. /\ p \in Int /\ Add(Add(a, m), n) \in Seqno
      /\ Add(a, m) + n = SeqMod * p + Add(Add(a, m), n)
  BY <1>1, Remainder DEF Add, Seqno
<1>3. a + (m + n) = SeqMod * (p + q) + Add(Add(a, m), n)
  BY <1>1, <1>2, Wide DEF Seqno
<1>4. (a + (m + n)) % SeqMod = Add(Add(a, m), n)
  <2> HIDE DEF p, q
  <2> QED BY <1>1, <1>2, <1>3, RemainderUnique
<1> QED BY <1>4 DEF Add

\* A number is no distance ahead of itself.
LEMMA AheadSelf ==
  ASSUME NEW a \in Seqno
  PROVE  Ahead(a, a) = 0
<1>1. a - a = SeqMod * 0 + 0 /\ a - a \in Int /\ 0 \in Seqno
  BY Wide DEF Seqno
<1> QED BY <1>1, RemainderUnique DEF Ahead

\* Adding nothing changes nothing.
LEMMA AddZero == \A a \in Seqno : Add(a, 0) = a
<1> SUFFICES ASSUME NEW a \in Seqno PROVE Add(a, 0) = a
  OBVIOUS
<1>1. a + 0 = SeqMod * 0 + a /\ a + 0 \in Int
  BY Wide, SeqnoInt
<1> QED BY <1>1, RemainderUnique DEF Add

\* Less than the modulus apart, different distances reach different numbers.
LEMMA AddInjective ==
  ASSUME NEW a \in Int, NEW m \in Seqno, NEW n \in Seqno, Add(a, m) = Add(a, n)
  PROVE  m = n
BY AheadAdd

\* Short of a whole turn, distances add up, at the far end and at the near one.
LEMMA AheadBeyond ==
  ASSUME NEW a \in Seqno, NEW b \in Seqno, NEW n \in Nat, Ahead(a, b) + n < SeqMod
  PROVE  Ahead(a, Add(b, n)) = Ahead(a, b) + n
<1> DEFINE k == Ahead(a, b)
<1>1. a \in Int /\ b \in Int /\ k \in Seqno
  BY AheadType, Wide DEF Seqno
<1>2. Add(a, k) = b
  BY <1>1, AddAhead
<1> HIDE DEF k
<1>3. k \in Int /\ k + n \in Seqno
  BY <1>1, Wide DEF Seqno, k
<1>4. Add(b, n) = Add(a, k + n)
  BY <1>1, <1>2, <1>3, AddAdd
<1>5. Ahead(a, Add(b, n)) = k + n
  BY <1>1, <1>3, <1>4, AheadAdd
<1> QED BY <1>5 DEF k

\* The distance from a is what was added and the distance from there, unless that wraps.
LEMMA AheadFurther ==
  ASSUME NEW a \in Seqno, NEW b \in Seqno, NEW m \in Nat,
         m + Ahead(Add(a, m), b) < SeqMod
  PROVE  Ahead(a, b) = m + Ahead(Add(a, m), b)
<1> DEFINE k == Ahead(Add(a, m), b)
<1>1. a \in Int /\ m \in Int /\ Add(a, m) \in Seqno
  BY AddType, Wide DEF Seqno
<1>2. Add(a, m) \in Int
  BY <1>1, Wide DEF Seqno
<1>3. k \in Seqno /\ Add(Add(a, m), k) = b
  BY <1>2, AheadType, AddAhead, Wide DEF Seqno
<1> HIDE DEF k
<1>4. k \in Int /\ m + k \in Seqno
  BY <1>3, Wide DEF Seqno, k
<1>5. b = Add(a, m + k)
  BY <1>1, <1>3, <1>4, AddAdd
<1>6. Ahead(a, b) = m + k
  BY <1>1, <1>4, <1>5, AheadAdd
<1> QED BY <1>6 DEF k

\* The number of a SYN is not ahead of the acknowledgement that answers it.
LEMMA SynAckIsAhead ==
  ASSUME NEW a \in Int
  PROVE  SeqLe(a, Add(a, 1))
<1>1. 1 \in Seqno /\ 1 < SeqMod \div 2
  BY Wide DEF Seqno
<1> QED BY <1>1, AheadAdd DEF SeqLe

-----------------------------------------------------------------------------
(* The inductive invariant.                                                *)

\* What the histories of both sides are made of.
PeersOK ==
  /\ server \in [Id -> [state : {"None", "SynReceived", "Open", "Gone"}, irs : Seqno,
                        rcvd : Nat, reset : BOOLEAN]]
  /\ toServer \subseteq [from : Id, port : 0 .. PortRange - 1, seq : Seqno,
                         flags : {{"SYN"}, {"ACK"}, {"PSH", "ACK"}, {"FIN", "ACK"}},
                         len : Nat]

\* The server knows no connection the client has not opened; a segment names the
\* connection it was sent on; CONN is the latest connection, or nothing.
Known ==
  /\ \A c \in Id : c > id \/ server[c].state = "None" => server[c] = NoServer
  /\ \A s \in toServer : s.from <= id /\ s.port = origin[s.from].port
  /\ conn.state # "None" => id > 0 /\ conn.port = origin[id].port
  /\ conn.state = "None" => got = <<>> /\ acked = {} /\ ~conn.remoteClosed

\* The number of the first byte the client sends on the latest connection, and of
\* the first byte of the reply.
FirstSent == Add(origin[id].isn, 1)
FirstReceived == Add(Iss(id), 1)

\* The peer's FIN takes one number.
Fin == IF conn.remoteClosed THEN 1 ELSE 0

\* A SYN carries the initial number; whatever else was sent lies in the request.
Segments ==
  \A s \in toServer : s.from = id =>
    /\ "SYN" \in s.flags => s.seq = origin[id].isn
    /\ "ACK" \in s.flags => Ahead(FirstSent, s.seq) + s.len <= RequestLen

\* The server has numbered the request as the client did, and has a part of it.
Peer ==
  /\ server[id].state # "None" => server[id].irs = FirstSent
  /\ server[id].rcvd <= RequestLen

\* Until the client is established it has acknowledged nothing, so the server
\* has not opened either.
Opening ==
  conn.state = "SynSent" =>
    /\ conn.sndUna = origin[id].isn /\ got = <<>> /\ acked = {} /\ ~conn.remoteClosed
    /\ \A s \in toServer : s.from = id => "ACK" \notin s.flags
    /\ server[id].state # "Open" /\ server[id].rcvd = 0

\* What is numbered, before and after snd_nxt is moved, lies in the request.
Sending ==
  /\ conn.state # "None" => Ahead(FirstSent, conn.sndNxt) <= RequestLen
  /\ app = "emitted" => Ahead(FirstSent, expected) <= RequestLen

\* rcv_nxt counts the bytes kept, and the FIN once they are all there.
Receiving ==
  /\ conn.state \in {"Established", "FinWait"} =>
       conn.rcvNxt = Add(FirstReceived, Len(got) + Fin)
  /\ Len(got) <= ReplyLen /\ IsPrefix
  /\ conn.remoteClosed => Len(got) = ReplyLen
  /\ \A a \in acked : Ahead(FirstReceived, a) <= Len(got) + Fin

Acknowledged ==
  conn.state \in {"Established", "FinWait"} =>
    Ahead(FirstSent, conn.sndUna) <= server[id].rcvd

\* The latest connection, once there is one, as long as its port is its own.
Latest ==
  id > 0 /\ FreshPort =>
    Segments /\ Peer /\ Opening /\ Sending /\ Receiving /\ Acknowledged

Inv == TypeOK /\ PeersOK /\ Known /\ Latest

\* The kernel boots into the invariant.
LEMMA InitInv == Init => Inv
<1> SUFFICES ASSUME Init PROVE Inv
  OBVIOUS
<1> USE DEF Init
<1>1. 0 \in Seqno /\ 0 \in 0 .. PortRange - 1
  BY Wide, WidthAssumption DEF Seqno
<1>2. TypeOK
  BY <1>1, BoundAssumption DEF TypeOK, NoConn
<1>3. PeersOK
  BY <1>1 DEF PeersOK, NoServer
<1>4. Known
  BY DEF Known, NoConn
<1>5. Latest
  BY DEF Latest
<1> QED BY <1>2, <1>3, <1>4, <1>5 DEF Inv

-----------------------------------------------------------------------------
(* Steps of the caller that only move along.                               *)

\* Nothing said of the latest connection depends on the clock, on the tries or on
\* where the caller is, except between emitting a chunk and recording it.
LEMMA LatestKept ==
  ASSUME Latest, UNCHANGED <<conn, id, origin, got, acked, toServer, server>>,
         app' # "emitted"
  PROVE  Latest'
BY DEF Latest, FreshPort, Segments, Peer, Opening, Sending, Receiving, Acknowledged,
       FirstSent, FirstReceived, Fin, IsPrefix, Iss, Add, Ahead

\* Known speaks of these variables only.
LEMMA KnownKept ==
  ASSUME Known, UNCHANGED <<conn, id, origin, got, acked, toServer, server>>
  PROVE  Known'
BY DEF Known

\* Without a connection nothing is claimed of one.
LEMMA ConnDropped ==
  ASSUME Inv, conn' = NoConn, got' = <<>>, acked' = {}, app' = "idle",
         UNCHANGED <<tick, expected, id, origin, toServer, server>>, tries' \in 0 .. SynTries
  PROVE  Inv'
<1>1. 0 \in Seqno /\ 0 \in 0 .. PortRange - 1 /\ 0 \in 0 .. MAX_RX_BYTES
  BY Wide, WidthAssumption, BoundAssumption DEF Seqno
<1>2. TypeOK'
  BY <1>1 DEF Inv, TypeOK, NoConn
<1>3. PeersOK' /\ Known'
  BY DEF Inv, PeersOK, Known, NoConn
<1>4. Latest'
  <2> SUFFICES ASSUME id > 0, FreshPort
               PROVE  (Segments /\ Peer /\ Opening /\ Sending /\ Receiving /\ Acknowledged)'
    BY DEF Latest, FreshPort
  <2>1. Segments /\ Peer
    BY DEF Inv, Latest
  <2>2. Segments' /\ Peer'
    BY <2>1 DEF Segments, Peer, FirstSent, Add, Ahead
  <2>3. Opening' /\ Sending' /\ Acknowledged'
    BY DEF Opening, Sending, Acknowledged, NoConn
  <2>4. Receiving'
    BY Wide DEF Receiving, IsPrefix, NoConn
  <2> QED BY <2>2, <2>3, <2>4
<1> QED BY <1>2, <1>3, <1>4 DEF Inv

\* The calls that return, and those that wait no longer.
LEMMA CallerStep ==
  ASSUME Inv, ConnectFails \/ ConnectReturns \/ SendReturns \/ SendTimesOut
  PROVE  Inv'
<1>1. 0 \in Seqno
  BY Wide DEF Seqno
<1>2. TypeOK'
  BY <1>1, BoundAssumption
     DEF Inv, TypeOK, ConnectFails, ConnectReturns, SendReturns, SendTimesOut
<1>3. UNCHANGED <<conn, id, origin, got, acked, toServer, server>> /\ app' # "emitted"
  BY DEF ConnectFails, ConnectReturns, SendReturns, SendTimesOut
<1>4. PeersOK'
  BY <1>3 DEF Inv, PeersOK
<1> QED BY <1>2, <1>3, <1>4, KnownKept, LatestKept DEF Inv

\* An attempt that times out, or a close that has been answered, leaves no connection.
LEMMA DropStep ==
  ASSUME Inv, ConnectTimesOut \/ Closed
  PROVE  Inv'
BY ConnDropped, BoundAssumption DEF ConnectTimesOut, Closed, Inv, TypeOK

-----------------------------------------------------------------------------
(* Steps of the caller that change the connection.                         *)

\* A new connection has sent nothing, and the server knows nothing of it.
LEMMA ConnectStep ==
  ASSUME Inv, Connect
  PROVE  Inv'
<1>0. PICK now \in tick .. MaxTick :
      LET port == now % PortRange
          isn == (now * IsnStep) % SeqMod
      IN  /\ app = "idle" /\ id < MaxConn
          /\ tick' = now
          /\ conn' = [NoConn EXCEPT !.state = "SynSent", !.port = port,
                                    !.sndUna = isn, !.sndNxt = Add(isn, 1)]
          /\ id' = id + 1
          /\ origin' = [origin EXCEPT ![id + 1] = [port |-> port, isn |-> isn]]
          /\ got' = <<>> /\ acked' = {}
          /\ tries' = 0
          /\ app' = "connecting"
          /\ UNCHANGED <<expected, toServer, server>>
  BY DEF Connect
<1> DEFINE port == now % PortRange
           isn == (now * IsnStep) % SeqMod
<1>1. now \in Nat /\ now \in 0 .. MaxTick /\ id \in Nat /\ id' \in Id /\ id' = id + 1
  BY <1>0, BoundAssumption DEF Inv, TypeOK, Id
<1>2. port \in 0 .. PortRange - 1
  BY <1>1, WidthAssumption
<1>3. isn \in Seqno /\ Add(isn, 1) \in Seqno
  <2>1. now * IsnStep \in Int
    BY <1>1, WidthAssumption
  <2>2. isn \in Seqno
    BY <2>1, Remainder
  <2> HIDE DEF isn
  <2>3. isn \in Int
    BY <2>2, Wide DEF Seqno
  <2>4. Add(isn, 1) \in Seqno
    BY <2>3, AddType
  <2> QED BY <2>2, <2>4
<1> HIDE DEF port, isn
<1>4. /\ conn' = [NoConn EXCEPT !.state = "SynSent", !.port = port,
                                !.sndUna = isn, !.sndNxt = Add(isn, 1)]
      /\ origin' = [origin EXCEPT ![id'] = [port |-> port, isn |-> isn]]
      /\ tick' = now /\ tries' = 0 /\ app' = "connecting" /\ got' = <<>> /\ acked' = {}
      /\ UNCHANGED <<expected, toServer, server>>
  BY <1>0 DEF port, isn
<1>5. origin'[id'] = [port |-> port, isn |-> isn]
  BY <1>1, <1>4 DEF Inv, TypeOK
<1>6. TypeOK'
  <2>1. conn' \in [state : {"None", "Closed", "SynSent", "Established", "FinWait"},
                   port : 0 .. PortRange - 1, sndNxt : Seqno, sndUna : Seqno,
                   rcvNxt : Seqno, rx : 0 .. MAX_RX_BYTES, remoteClosed : BOOLEAN,
                   reset : BOOLEAN]
    <3>1. conn' = [state |-> "SynSent", port |-> port, sndNxt |-> Add(isn, 1),
                   sndUna |-> isn, rcvNxt |-> 0, rx |-> 0, remoteClosed |-> FALSE,
                   reset |-> FALSE]
      BY <1>4 DEF NoConn
    <3>2. 0 \in Seqno /\ 0 \in 0 .. MAX_RX_BYTES
      BY Wide, BoundAssumption DEF Seqno
    <3> QED BY <1>2, <1>3, <3>1, <3>2
  <2>2. origin' \in [Id -> [port : 0 .. PortRange - 1, isn : Seqno]]
    BY <1>2, <1>3, <1>4 DEF Inv, TypeOK
  <2>3. expected' \in Seqno /\ id' \in 0 .. MaxConn /\ tick' \in 0 .. MaxTick
    BY <1>1, <1>4, BoundAssumption DEF Inv, TypeOK, Id
  <2> QED BY <1>4, <2>1, <2>2, <2>3, BoundAssumption DEF TypeOK
<1>7. PeersOK'
  BY <1>4 DEF Inv, PeersOK
<1>8. Known'
  <2>1. \A c \in Id : c > id' \/ server'[c].state = "None" => server'[c] = NoServer
    BY <1>1, <1>4 DEF Inv, Known, Id
  <2>2. \A s \in toServer : s.from <= id' /\ s.port = origin'[s.from].port
    <3>1. \A s \in toServer : s.from \in Id /\ s.from <= id /\ s.port = origin[s.from].port
      BY DEF Inv, Known, PeersOK
    <3> QED BY <1>1, <1>4, <3>1 DEF Inv, TypeOK, Id
  <2>3. conn'.state = "SynSent" /\ conn'.port = origin'[id'].port
    BY <1>4, <1>5 DEF NoConn
  <2> QED BY <1>1, <1>4, <2>1, <2>2, <2>3 DEF Known
<1>9. (Segments /\ Peer /\ Opening /\ Sending /\ Receiving /\ Acknowledged)'
  <2>1. \A s \in toServer : s.from # id'
    BY <1>1 DEF Inv, Known, PeersOK, Id
  <2>2. server[id'] = NoServer
    BY <1>1 DEF Inv, Known
  <2>3. Segments'
    BY <1>4, <2>1 DEF Segments
  <2>4. Peer'
    BY <1>4, <2>2, Wide DEF Peer, NoServer
  <2>5. Opening'
    BY <1>4, <1>5, <2>1, <2>2 DEF Opening, NoConn, NoServer
  <2>6. Sending'
    <3>1. FirstSent' = Add(isn, 1)
      BY <1>5 DEF FirstSent, Add
    <3>2. conn'.sndNxt = Add(isn, 1) /\ app' = "connecting"
      BY <1>4 DEF NoConn
    <3>3. Ahead(FirstSent, conn.sndNxt)' = Ahead(Add(isn, 1), Add(isn, 1))
      BY <3>1, <3>2 DEF Ahead
    <3> QED BY <1>3, <3>2, <3>3, AheadSelf, Wide DEF Sending
  <2>7. Receiving' /\ Acknowledged'
    BY <1>4, Wide DEF Receiving, Acknowledged, NoConn, IsPrefix
  <2> QED BY <2>3, <2>4, <2>5, <2>6, <2>7
<1> QED BY <1>6, <1>7, <1>8, <1>9 DEF Inv, Latest

\* One more segment on the wire keeps the types and what is known of segments.
LEMMA SegmentAdded ==
  ASSUME TypeOK, PeersOK, Known, id > 0, NEW c, c.port = origin[id].port,
         NEW q \in Seqno, NEW n \in Nat,
         NEW flags \in {{"SYN"}, {"ACK"}, {"PSH", "ACK"}, {"FIN", "ACK"}},
         toServer' = toServer \cup {Emitted(c, q, flags, n)},
         UNCHANGED <<id, origin, server>>
  PROVE  /\ PeersOK'
         /\ \A s \in toServer' : s.from <= id' /\ s.port = origin'[s.from].port
<1> DEFINE e == Emitted(c, q, flags, n)
<1>1. id \in Id /\ origin[id].port \in 0 .. PortRange - 1
  BY BoundAssumption DEF TypeOK, Id
<1>2. e \in [from : Id, port : 0 .. PortRange - 1, seq : Seqno,
             flags : {{"SYN"}, {"ACK"}, {"PSH", "ACK"}, {"FIN", "ACK"}}, len : Nat]
  BY <1>1 DEF Emitted
<1>3. e.from = id /\ e.port = origin[id].port
  BY DEF Emitted
<1> HIDE DEF e
<1>4. toServer' = toServer \cup {e}
  BY DEF e
<1>5. PeersOK'
  BY <1>2, <1>4 DEF PeersOK
<1>6. \A s \in toServer' : s.from <= id /\ s.port = origin[s.from].port
  BY <1>1, <1>3, <1>4 DEF Known, Id
<1> QED BY <1>5, <1>6

\* A retried SYN carries the number of the first.
LEMMA SendSynStep ==
  ASSUME Inv, SendSyn
  PROVE  Inv'
<1>1. id > 0 /\ conn.port = origin[id].port /\ conn.sndUna \in Seqno
  BY DEF Inv, Known, SendSyn, TypeOK
<1>2. TypeOK'
  BY BoundAssumption DEF Inv, TypeOK, SendSyn
<1>3. PeersOK' /\ Known'
  <2>1. PeersOK' /\ \A s \in toServer' : s.from <= id' /\ s.port = origin'[s.from].port
    BY <1>1, SegmentAdded DEF Inv, SendSyn
  <2> QED BY <2>1 DEF Inv, Known, SendSyn
<1>4. Latest'
  <2> SUFFICES ASSUME id > 0, FreshPort
               PROVE  (Segments /\ Peer /\ Opening /\ Sending /\ Receiving /\ Acknowledged)'
    BY DEF Latest, FreshPort, SendSyn
  <2>1. Segments /\ Peer /\ Opening /\ Sending /\ Receiving /\ Acknowledged
    BY DEF Inv, Latest
  <2>2. \A s \in toServer' :
          s \in toServer \/ (s.flags = {"SYN"} /\ s.seq = origin[id].isn)
    BY <2>1 DEF SendSyn, Opening, Emitted
  <2>3. Segments'
    BY <2>1, <2>2 DEF Segments, SendSyn, FirstSent, Add, Ahead
  <2>4. Opening'
    BY <2>1, <2>2 DEF Opening, SendSyn
  <2>5. (Peer /\ Sending /\ Receiving /\ Acknowledged)'
    BY <2>1 DEF SendSyn, Peer, Sending, Receiving, Acknowledged, FirstSent, FirstReceived,
                Fin, IsPrefix, Iss, Add, Ahead
  <2> QED BY <2>3, <2>4, <2>5
<1> QED BY <1>2, <1>3, <1>4 DEF Inv

\* snd_nxt is moved past the chunk: what was emitted lies in the request.
LEMMA SendRecordedStep ==
  ASSUME Inv, SendRecorded
  PROVE  Inv'
<1>1. /\ app = "emitted" /\ app' = "sending" /\ conn' = [conn EXCEPT !.sndNxt = expected]
      /\ UNCHANGED <<tick, tries, expected, id, origin, got, acked, toServer, server>>
  BY DEF SendRecorded
<1>2. TypeOK'
  BY <1>1 DEF Inv, TypeOK
<1>3. /\ conn'.state = conn.state /\ conn'.port = conn.port /\ conn'.sndUna = conn.sndUna
      /\ conn'.rcvNxt = conn.rcvNxt /\ conn'.remoteClosed = conn.remoteClosed
      /\ conn'.sndNxt = expected
  BY <1>1 DEF Inv, TypeOK
<1>4. PeersOK' /\ Known'
  BY <1>1, <1>3 DEF Inv, PeersOK, Known
<1>5. Latest'
  BY <1>1, <1>3
     DEF Inv, Latest, FreshPort, Segments, Peer, Opening, Sending, Receiving, Acknowledged,
         FirstSent, FirstReceived, Fin, IsPrefix, Iss, Add, Ahead
<1> QED BY <1>2, <1>4, <1>5 DEF Inv

\* recv empties the buffer and changes nothing else of the connection.
LEMMA RecvStep ==
  ASSUME Inv, Recv
  PROVE  Inv'
<1>1. /\ app = "ready" /\ conn' = [conn EXCEPT !.rx = 0]
      /\ UNCHANGED <<tick, app, tries, expected, id, origin, got, acked, toServer, server>>
  BY DEF Recv
<1>2. TypeOK'
  <2>1. 0 \in 0 .. MAX_RX_BYTES
    BY BoundAssumption
  <2> QED BY <1>1, <2>1 DEF Inv, TypeOK
<1>3. /\ conn'.state = conn.state /\ conn'.port = conn.port /\ conn'.sndUna = conn.sndUna
      /\ conn'.rcvNxt = conn.rcvNxt /\ conn'.remoteClosed = conn.remoteClosed
      /\ conn'.sndNxt = conn.sndNxt
  BY <1>1 DEF Inv, TypeOK
<1>4. PeersOK' /\ Known'
  BY <1>1, <1>3 DEF Inv, PeersOK, Known
<1>5. Latest'
  BY <1>1, <1>3
     DEF Inv, Latest, FreshPort, Segments, Peer, Opening, Sending, Receiving, Acknowledged,
         FirstSent, FirstReceived, Fin, IsPrefix, Iss, Add, Ahead
<1> QED BY <1>2, <1>4, <1>5 DEF Inv

\* The number of the first byte sent, and that of the first received.
LEMMA FirstType ==
  ASSUME TypeOK, id > 0
  PROVE  /\ id \in Id /\ origin[id].isn \in Seqno
         /\ FirstSent \in Seqno /\ Iss(id) \in Seqno /\ FirstReceived \in Seqno
<1>1. id \in Id /\ id \in Int /\ origin[id].isn \in Seqno
  BY BoundAssumption DEF TypeOK, Id
<1>2. id * IssStep \in Int
  BY <1>1, WidthAssumption
<1>3. Iss(id) \in Seqno
  BY <1>2, Remainder DEF Iss
<1>4. FirstSent \in Seqno
  BY <1>1, AddSeqno DEF FirstSent
<1>5. FirstReceived \in Seqno
  BY <1>3, AddSeqno DEF FirstReceived
<1> QED BY <1>1, <1>3, <1>4, <1>5

\* A chunk of the request is emitted: what has been numbered and the chunk lie in it.
LEMMA SendStep ==
  ASSUME Inv, NEW len \in 1 .. RequestLen, Send(len)
  PROVE  Inv'
<1>1. /\ app = "ready" /\ conn.state = "Established"
      /\ Ahead(origin[id].isn, conn.sndNxt) - 1 + len <= RequestLen
      /\ toServer' = toServer \cup {Emitted(conn, conn.sndNxt, {"PSH", "ACK"}, len)}
      /\ expected' = Add(conn.sndNxt, len) /\ app' = "emitted"
      /\ UNCHANGED <<tick, conn, tries, id, origin, got, acked, server>>
  BY DEF Send
<1>2. id > 0 /\ conn.port = origin[id].port /\ conn.sndNxt \in Seqno /\ len \in Nat
  BY <1>1, Wide DEF Inv, Known, TypeOK
<1>3. expected' \in Seqno
  BY <1>1, <1>2, AddSeqno
<1>4. TypeOK'
  BY <1>1, <1>3 DEF Inv, TypeOK
<1>5. PeersOK' /\ Known'
  <2>1. PeersOK' /\ \A s \in toServer' : s.from <= id' /\ s.port = origin'[s.from].port
    BY <1>1, <1>2, SegmentAdded DEF Inv
  <2> QED BY <1>1, <2>1 DEF Inv, Known
<1>6. Latest'
  <2> SUFFICES ASSUME FreshPort
               PROVE  (Segments /\ Peer /\ Opening /\ Sending /\ Receiving /\ Acknowledged)'
    BY <1>1 DEF Latest, FreshPort
  <2>1. Segments /\ Peer /\ Opening /\ Sending /\ Receiving /\ Acknowledged
    BY <1>2 DEF Inv, Latest
  <2> DEFINE k == Ahead(FirstSent, conn.sndNxt)
  <2>2. k \in Nat /\ k <= RequestLen
    <3>1. FirstSent \in Int /\ conn.sndNxt \in Int
      BY <1>2, FirstType, Wide DEF Inv, Seqno
    <3>2. k \in Seqno
      BY <3>1, AheadType
    <3> QED BY <1>1, <2>1, <3>2, Wide DEF Sending, Seqno
  <2>3. Ahead(origin[id].isn, conn.sndNxt) = 1 + k
    <3>1. 1 + Ahead(Add(origin[id].isn, 1), conn.sndNxt) < SeqMod
      BY <2>2, Wide DEF FirstSent
    <3> QED BY <1>2, <3>1, FirstType, AheadFurther DEF Inv, FirstSent
  <2>4. k + len <= RequestLen
    BY <1>1, <1>2, <2>2, <2>3, Wide
  <2>5. Ahead(FirstSent, expected') = k + len
    <3>1. Ahead(FirstSent, conn.sndNxt) + len < SeqMod
      BY <1>2, <2>2, <2>4, Wide
    <3> QED BY <1>1, <1>2, <3>1, FirstType, AheadBeyond DEF Inv
  <2>6. \A s \in toServer' :
          s \in toServer
          \/ (s.flags = {"PSH", "ACK"} /\ s.seq = conn.sndNxt /\ s.len = len)
    BY <1>1 DEF Emitted
  <2>7. FirstSent' = FirstSent /\ FirstReceived' = FirstReceived /\ Fin' = Fin
    BY <1>1 DEF FirstSent, FirstReceived, Fin, Iss, Add
  <2>8. Segments'
    BY <1>1, <2>1, <2>4, <2>6, <2>7 DEF Segments, Ahead
  <2>9. Sending'
    BY <1>1, <2>1, <2>2, <2>4, <2>5, <2>7 DEF Sending, Ahead
  <2>10. (Peer /\ Opening /\ Receiving /\ Acknowledged)'
    BY <1>1, <2>1, <2>7 DEF Peer, Opening, Receiving, Acknowledged, IsPrefix, Ahead, Add
  <2> QED BY <2>8, <2>9, <2>10
<1> QED BY <1>4, <1>5, <1>6 DEF Inv

\* A FIN takes no place in the request.
LEMMA CloseStep ==
  ASSUME Inv, Close
  PROVE  Inv'
<1>1. /\ app \in {"ready", "failed"} /\ app' = "closing"
      /\ UNCHANGED <<tick, tries, expected, id, origin, got, acked, server>>
  BY DEF Close
<1>2. CASE conn.state = "Established"
  <2>1. /\ conn' = [conn EXCEPT !.state = "FinWait"]
        /\ toServer' = toServer \cup {Emitted(conn, conn.sndNxt, {"FIN", "ACK"}, 0)}
    BY <1>2 DEF Close
  <2>2. id > 0 /\ conn.port = origin[id].port /\ conn.sndNxt \in Seqno
    BY <1>2 DEF Inv, Known, TypeOK
  <2>3. TypeOK'
    BY <1>1, <2>1 DEF Inv, TypeOK
  <2>4. /\ conn'.state = "FinWait" /\ conn'.port = conn.port /\ conn'.sndUna = conn.sndUna
        /\ conn'.rcvNxt = conn.rcvNxt /\ conn'.remoteClosed = conn.remoteClosed
        /\ conn'.sndNxt = conn.sndNxt
    BY <2>1 DEF Inv, TypeOK
  <2>5. PeersOK' /\ Known'
    <3>1. PeersOK' /\ \A s \in toServer' : s.from <= id' /\ s.port = origin'[s.from].port
      BY <1>1, <2>1, <2>2, SegmentAdded DEF Inv
    <3> QED BY <1>1, <1>2, <2>2, <2>4, <3>1 DEF Inv, Known
  <2>6. Latest'
    <3> SUFFICES ASSUME FreshPort
                 PROVE  (Segments /\ Peer /\ Opening /\ Sending /\ Receiving /\ Acknowledged)'
      BY <1>1 DEF Latest, FreshPort
    <3>1. Segments /\ Peer /\ Opening /\ Sending /\ Receiving /\ Acknowledged
      BY <2>2 DEF Inv, Latest
    <3>2. \A s \in toServer' :
            s \in toServer
            \/ (s.flags = {"FIN", "ACK"} /\ s.seq = conn.sndNxt /\ s.len = 0)
      BY <2>1 DEF Emitted
    <3>3. FirstSent' = FirstSent /\ FirstReceived' = FirstReceived /\ Fin' = Fin
      BY <1>1, <2>4 DEF FirstSent, FirstReceived, Fin, Iss, Add
    <3>4. Ahead(FirstSent, conn.sndNxt) + 0 <= RequestLen
      <4>1. FirstSent \in Int /\ conn.sndNxt \in Int
        BY <2>2, FirstType, Wide DEF Inv, Seqno
      <4>2. Ahead(FirstSent, conn.sndNxt) \in Int
        BY <4>1, AheadType, SeqnoInt
      <4> QED BY <1>2, <3>1, <4>2, Wide DEF Sending
    <3>5. Segments'
      BY <1>1, <3>1, <3>2, <3>3, <3>4 DEF Segments, Ahead
    <3>6. (Peer /\ Opening /\ Sending /\ Receiving /\ Acknowledged)'
      BY <1>1, <1>2, <2>4, <3>1, <3>3
         DEF Peer, Opening, Sending, Receiving, Acknowledged, IsPrefix, Ahead, Add
    <3> QED BY <3>5, <3>6
  <2> QED BY <2>3, <2>5, <2>6 DEF Inv
<1>3. CASE conn.state # "Established"
  <2>1. UNCHANGED <<conn, toServer>>
    BY <1>3 DEF Close
  <2>2. TypeOK' /\ PeersOK'
    BY <1>1, <2>1 DEF Inv, TypeOK, PeersOK
  <2> QED BY <1>1, <2>1, <2>2, KnownKept, LatestKept DEF Inv
<1> QED BY <1>2, <1>3

-----------------------------------------------------------------------------
(* Steps of the server.                                                    *)

\* A step of the server that numbers its connections like the client, forgets
\* nothing it received, and takes no more than the request.
LEMMA ServerMoves ==
  ASSUME Inv, PeersOK', NEW c \in Id, c <= id,
         UNCHANGED <<tick, conn, app, tries, expected, id, origin, got, acked, toServer>>,
         \A d \in Id : d # c => server'[d] = server[d],
         server'[c].state # "None", server'[c].rcvd >= server[c].rcvd,
         c = id /\ FreshPort =>
           /\ server'[c].irs = FirstSent /\ server'[c].rcvd <= RequestLen
           /\ conn.state = "SynSent" => server'[c].state # "Open" /\ server'[c].rcvd = 0
  PROVE  Inv'
<1>1. TypeOK'
  BY DEF Inv, TypeOK
<1>2. Known'
  BY DEF Inv, Known, TypeOK, Id
<1>3. Latest'
  <2> SUFFICES ASSUME id > 0, FreshPort
               PROVE  (Segments /\ Peer /\ Opening /\ Sending /\ Receiving /\ Acknowledged)'
    BY DEF Latest, FreshPort
  <2>1. Segments /\ Peer /\ Opening /\ Sending /\ Receiving /\ Acknowledged
    BY DEF Inv, Latest
  <2>2. FirstSent' = FirstSent /\ FirstReceived' = FirstReceived /\ Fin' = Fin
    BY DEF FirstSent, FirstReceived, Fin, Iss, Add
  <2>3. id \in Id /\ server[id].rcvd \in Nat /\ server'[id].rcvd \in Nat
    BY FirstType DEF Inv, PeersOK
  <2>4. server'[id].rcvd >= server[id].rcvd
    BY <2>3
  <2>5. (Segments /\ Sending /\ Receiving)'
    BY <2>1, <2>2 DEF Segments, Sending, Receiving, IsPrefix, Ahead
  <2>6. Peer' /\ Opening'
    BY <2>1, <2>2, <2>3 DEF Peer, Opening
  <2>7. Acknowledged'
    <3> SUFFICES ASSUME conn.state \in {"Established", "FinWait"}
                 PROVE  Ahead(FirstSent, conn.sndUna) <= server'[id].rcvd
      BY <2>2 DEF Acknowledged, Ahead
    <3>1. FirstSent \in Int /\ conn.sndUna \in Int
      BY FirstType, SeqnoInt DEF Inv, TypeOK
    <3>2. Ahead(FirstSent, conn.sndUna) \in Int
      BY <3>1, AheadType, SeqnoInt
    <3>3. Ahead(FirstSent, conn.sndUna) <= server[id].rcvd
      BY <2>1 DEF Acknowledged
    <3> QED BY <2>3, <2>4, <3>2, <3>3
  <2> QED BY <2>5, <2>6, <2>7
<1> QED BY <1>1, <1>2, <1>3 DEF Inv

\* How the server answers a SYN.
LEMMA ServerSynStep ==
  ASSUME Inv, ServerSyn
  PROVE  Inv'
<1>1. PICK s \in toServer :
        /\ s.flags = {"SYN"} /\ server[s.from].state = "None"
        /\ server' = [server EXCEPT ![s.from] =
             [state |-> "SynReceived", irs |-> Add(s.seq, 1), rcvd |-> 0, reset |-> FALSE]]
        /\ UNCHANGED <<tick, conn, app, tries, expected, id, origin, got, acked, toServer>>
  BY DEF ServerSyn
<1> DEFINE c == s.from
<1>2. c \in Id /\ c <= id /\ Add(s.seq, 1) \in Seqno /\ s.seq \in Seqno
  BY <1>1, AddSeqno DEF Inv, PeersOK, Known
<1>3. server[c] = NoServer
  BY <1>1, <1>2 DEF Inv, Known
<1>4. server'[c] = [state |-> "SynReceived", irs |-> Add(s.seq, 1), rcvd |-> 0,
                    reset |-> FALSE]
  BY <1>1, <1>2 DEF Inv, PeersOK
<1>5. \A d \in Id : d # c => server'[d] = server[d]
  BY <1>1, <1>2 DEF Inv, PeersOK
<1>6. PeersOK'
  BY <1>1, <1>2 DEF Inv, PeersOK
<1>7. ASSUME c = id, FreshPort
      PROVE  Add(s.seq, 1) = FirstSent
  <2>1. id > 0 /\ Segments
    BY <1>2, <1>7 DEF Inv, Latest, Id
  <2>2. s.seq = origin[id].isn
    BY <1>1, <1>7, <2>1 DEF Segments
  <2> QED BY <2>2 DEF FirstSent
<1>8. server'[c].rcvd >= server[c].rcvd /\ server'[c].rcvd <= RequestLen
  BY <1>3, <1>4, Wide DEF NoServer
<1> QED BY <1>1, <1>2, <1>4, <1>5, <1>6, <1>7, <1>8, ServerMoves

\* A segment on the port of the latest connection was sent on it, when the port is
\* its own.
LEMMA OwnSegment ==
  ASSUME Inv, id > 0, FreshPort, NEW s \in toServer, s.port = origin[id].port
  PROVE  s.from = id
BY DEF Inv, Known, PeersOK, FreshPort, TypeOK, Id

\* How the server takes a segment.
LEMMA ServerReceivesStep ==
  ASSUME Inv, ServerReceives
  PROVE  Inv'
<1>1. PICK s \in toServer, c \in Id :
        /\ Live(c) /\ origin[c].port = s.port /\ "ACK" \in s.flags
        /\ server[c].state = "SynReceived" => s.from = c
        /\ server' = [server EXCEPT ![c].state = "Open",
                                    ![c].rcvd = IF s.seq = Add(server[c].irs, server[c].rcvd)
                                                THEN @ + s.len ELSE @]
        /\ UNCHANGED <<tick, conn, app, tries, expected, id, origin, got, acked, toServer>>
  BY DEF ServerReceives
<1> DEFINE next == s.seq = Add(server[c].irs, server[c].rcvd)
           more == IF next THEN server[c].rcvd + s.len ELSE server[c].rcvd
<1>2. /\ server[c].rcvd \in Nat /\ server[c].irs \in Seqno /\ s.len \in Nat
      /\ s.seq \in Seqno /\ more \in Nat /\ more >= server[c].rcvd
  BY DEF Inv, PeersOK
<1>3. c <= id /\ id > 0
  BY <1>1 DEF Inv, Known, Live, NoServer, TypeOK, Id
<1>4. server'[c] = [server[c] EXCEPT !.state = "Open", !.rcvd = more]
  BY <1>1 DEF Inv, PeersOK
<1>5. /\ server'[c].state = "Open" /\ server'[c].rcvd = more
      /\ server'[c].irs = server[c].irs
  BY <1>4 DEF Inv, PeersOK
<1>6. \A d \in Id : d # c => server'[d] = server[d]
  BY <1>1 DEF Inv, PeersOK
<1>7. PeersOK'
  BY <1>1, <1>2, ZenonT(60) DEF Inv, PeersOK
<1>8. ASSUME c = id, FreshPort
      PROVE  /\ server[c].irs = FirstSent /\ more <= RequestLen
             /\ conn.state # "SynSent"
  <2>1. Segments /\ Peer /\ Opening
    BY <1>3, <1>8 DEF Inv, Latest
  <2>2. s.from = id
    BY <1>1, <1>3, <1>8, OwnSegment
  <2>3. conn.state # "SynSent"
    BY <1>1, <2>1, <2>2 DEF Opening
  <2>4. server[c].irs = FirstSent /\ server[c].rcvd <= RequestLen
    BY <1>1, <1>8, <2>1 DEF Peer, Live
  <2>5. ASSUME next
        PROVE  Ahead(FirstSent, s.seq) = server[c].rcvd
    <3>1. server[c].rcvd \in Seqno
      BY <1>2, <2>4, Wide DEF Seqno
    <3>2. FirstSent \in Int
      BY <1>2, <2>4, SeqnoInt
    <3> QED BY <2>4, <2>5, <3>1, <3>2, AheadAdd
  <2>6. Ahead(FirstSent, s.seq) + s.len <= RequestLen
    BY <1>1, <2>1, <2>2 DEF Segments
  <2> QED BY <2>3, <2>4, <2>5, <2>6
<1> HIDE DEF next, more
<1> QED BY <1>1, <1>2, <1>3, <1>5, <1>6, <1>7, <1>8, ServerMoves

\* How the server ends a connection.
LEMMA ServerEndsStep ==
  ASSUME Inv, ServerEnds
  PROVE  Inv'
<1>1. PICK c \in Id, rst \in BOOLEAN :
        /\ Live(c)
        /\ server' = [server EXCEPT ![c].state = "Gone", ![c].reset = rst]
        /\ UNCHANGED <<tick, conn, app, tries, expected, id, origin, got, acked, toServer>>
  BY DEF ServerEnds
<1>2. c <= id /\ id > 0 /\ server[c].rcvd \in Nat
  BY <1>1 DEF Inv, Known, Live, NoServer, TypeOK, PeersOK, Id
<1>3. server'[c] = [server[c] EXCEPT !.state = "Gone", !.reset = rst]
  BY <1>1 DEF Inv, PeersOK
<1>4. /\ server'[c].state = "Gone" /\ server'[c].rcvd = server[c].rcvd
      /\ server'[c].irs = server[c].irs
  BY <1>3 DEF Inv, PeersOK
<1>5. \A d \in Id : d # c => server'[d] = server[d]
  BY <1>1 DEF Inv, PeersOK
<1>6. PeersOK'
  BY <1>1 DEF Inv, PeersOK
<1>7. ASSUME c = id, FreshPort
      PROVE  /\ server[c].irs = FirstSent /\ server[c].rcvd <= RequestLen
             /\ conn.state = "SynSent" => server[c].rcvd = 0
  BY <1>1, <1>2, <1>7 DEF Inv, Latest, Peer, Opening, Live
<1>8. /\ server'[c].rcvd >= server[c].rcvd /\ server'[c].state # "None"
      /\ c = id /\ FreshPort =>
           /\ server'[c].irs = FirstSent /\ server'[c].rcvd <= RequestLen
           /\ conn.state = "SynSent" => server'[c].state # "Open" /\ server'[c].rcvd = 0
  BY <1>2, <1>4, <1>7
<1>9. UNCHANGED <<tick, conn, app, tries, expected, id, origin, got, acked, toServer>>
  BY <1>1
<1> QED BY <1>2, <1>5, <1>6, <1>8, <1>9, ServerMoves

-----------------------------------------------------------------------------
(* Inbound segments.                                                       *)

\* What a segment of the server can be.
LEMMA SegmentCases ==
  ASSUME NEW c, NEW s \in FromServer(c)
  PROVE  \/ s = Bare(c, {"SYN", "ACK"}) /\ server[c].state # "None"
         \/ \E i, j \in 0 .. ReplyLen, a \in 0 .. server[c].rcvd, last \in BOOLEAN :
              /\ i <= j /\ s = Piece(c, i, j, a, j = ReplyLen /\ last)
              /\ server[c].state = "Open" \/ server[c].rcvd > 0
         \/ s = Bare(c, {"RST"}) /\ server[c].reset
BY DEF FromServer

\* What the pieces of a reply are made of.
LEMMA PieceFields ==
  ASSUME TypeOK, PeersOK, NEW c \in Id, NEW i \in 0 .. ReplyLen, NEW j \in i .. ReplyLen,
         NEW a \in 0 .. server[c].rcvd, NEW last \in BOOLEAN,
         NEW s, s = Piece(c, i, j, a, last)
  PROVE  /\ s.port = origin[c].port
         /\ s.seq = Add(Iss(c), 1 + i) /\ s.seq \in Seqno
         /\ s.ack = Add(server[c].irs, a) /\ s.ack \in Seqno
         /\ s.flags = IF last THEN {"ACK", "FIN"} ELSE {"ACK"}
         /\ s.data \in Seq(Byte)
         /\ \A k \in 1 .. j - i : s.data[k] = <<c, i + k>>
<1> DEFINE data == [k \in 1 .. j - i |-> <<c, i + k>>]
<1>1. c \in Int /\ Iss(c) \in Seqno
  <2>1. c \in Int
    BY BoundAssumption DEF Id
  <2>2. c * IssStep \in Int
    BY <2>1, WidthAssumption
  <2> QED BY <2>1, <2>2, Remainder DEF Iss
<1>2. 1 + i \in Nat /\ j - i \in Nat /\ i \in Nat /\ j \in Nat
  BY Wide
<1>3. a \in Nat /\ server[c].irs \in Seqno
  BY DEF PeersOK
<1>4. Add(Iss(c), 1 + i) \in Seqno /\ Add(server[c].irs, a) \in Seqno
  BY <1>1, <1>2, <1>3, AddSeqno
<1>5. \A k \in 1 .. j - i : <<c, i + k>> \in Byte
  BY <1>2, Wide DEF Byte
<1>6. data \in Seq(Byte) /\ \A k \in 1 .. j - i : data[k] = <<c, i + k>>
  BY <1>2, <1>5
<1> HIDE DEF data
<1>7. s = [port |-> origin[c].port, seq |-> Add(Iss(c), 1 + i),
           ack |-> Add(server[c].irs, a),
           flags |-> IF last THEN {"ACK", "FIN"} ELSE {"ACK"}, data |-> data]
  BY DEF Piece, data
<1>8. /\ s.port = origin[c].port
      /\ s.seq = Add(Iss(c), 1 + i)
      /\ s.ack = Add(server[c].irs, a)
      /\ s.flags = IF last THEN {"ACK", "FIN"} ELSE {"ACK"}
      /\ s.data = data
  BY <1>7
<1> QED BY <1>4, <1>6, <1>8

\* The fields of a segment without data.
LEMMA BareFields ==
  ASSUME TypeOK, PeersOK, NEW c \in Id, NEW flags, NEW s, s = Bare(c, flags)
  PROVE  /\ s.port = origin[c].port /\ s.flags = flags
         /\ s.seq = Iss(c) /\ s.seq \in Seqno
         /\ s.ack = server[c].irs /\ s.ack \in Seqno
         /\ s.data = <<>> /\ s.data \in Seq(Byte)
<1>1. Iss(c) \in Seqno
  <2>1. c \in Int
    BY BoundAssumption DEF Id
  <2>2. c * IssStep \in Int
    BY <2>1, WidthAssumption
  <2> QED BY <2>2, Remainder DEF Iss
<1>2. server[c].irs \in Seqno
  BY DEF PeersOK
<1> QED BY <1>1, <1>2 DEF Bare

\* A segment that reaches CONN is well formed and comes from a connection there has
\* been; from the latest one, when no earlier one had its port.
LEMMA Inbound ==
  ASSUME Inv, NEW c \in Id, NEW s \in FromServer(c), Matches(s)
  PROVE  /\ id > 0 /\ conn.state # "None"
         /\ s.seq \in Seqno /\ s.ack \in Seqno /\ s.data \in Seq(Byte)
         /\ FreshPort => c = id
<1> USE DEF Inv
<1>1. id > 0 /\ conn.state # "None" /\ s.port = origin[id].port
  BY DEF Known, Matches
<1>2. /\ s.seq \in Seqno /\ s.ack \in Seqno /\ s.data \in Seq(Byte)
      /\ s.port = origin[c].port
  <2>1. ASSUME NEW flags, s = Bare(c, flags)
        PROVE  /\ s.seq \in Seqno /\ s.ack \in Seqno /\ s.data \in Seq(Byte)
               /\ s.port = origin[c].port
    BY <2>1, BareFields, Zenon
  <2>2. CASE \E i, j \in 0 .. ReplyLen, a \in 0 .. server[c].rcvd, last \in BOOLEAN :
               i <= j /\ s = Piece(c, i, j, a, j = ReplyLen /\ last)
    <3>1. PICK i \in 0 .. ReplyLen, j \in 0 .. ReplyLen, a \in 0 .. server[c].rcvd,
               last \in BOOLEAN : i <= j /\ s = Piece(c, i, j, a, j = ReplyLen /\ last)
      BY <2>2
    <3> DEFINE fin == j = ReplyLen /\ last
    <3>2. fin \in BOOLEAN
      BY Zenon
    <3>3. s = Piece(c, i, j, a, fin) /\ j \in i .. ReplyLen
      BY <3>1, Wide
    <3> HIDE DEF fin
    <3> QED BY <3>2, <3>3, PieceFields
  <2> QED BY <2>1, <2>2, SegmentCases
<1>3. c <= id
  BY SegmentCases DEF Known, NoServer, PeersOK, TypeOK, Id
<1> QED BY <1>1, <1>2, <1>3 DEF FreshPort, TypeOK, Id

\* A reset ends the connection and touches nothing it has counted.
LEMMA ResetStep ==
  ASSUME Inv, NEW c \in Id, NEW s \in FromServer(c), Matches(s), HandleReset(s),
         UNCHANGED <<tick, app, tries, expected, id, origin, server>>
  PROVE  Inv'
<1>1. /\ conn' = [conn EXCEPT !.reset = TRUE, !.state = "Closed"]
      /\ UNCHANGED <<got, acked, toServer>>
  BY DEF HandleReset
<1>2. /\ conn'.state = "Closed" /\ conn'.port = conn.port /\ conn'.sndNxt = conn.sndNxt
      /\ conn'.remoteClosed = conn.remoteClosed
  BY <1>1 DEF Inv, TypeOK
<1>3. id > 0 /\ conn.state # "None" /\ conn.port = origin[id].port
  BY DEF Inv, Known, Matches
<1>4. TypeOK'
  BY <1>1 DEF Inv, TypeOK
<1>5. PeersOK' /\ Known'
  BY <1>1, <1>2, <1>3 DEF Inv, PeersOK, Known
<1>6. Latest'
  <2> SUFFICES ASSUME FreshPort
               PROVE  (Segments /\ Peer /\ Opening /\ Sending /\ Receiving /\ Acknowledged)'
    BY DEF Latest, FreshPort
  <2>1. Segments /\ Peer /\ Sending /\ Receiving
    BY <1>3 DEF Inv, Latest
  <2>2. FirstSent' = FirstSent /\ FirstReceived' = FirstReceived /\ Fin' = Fin
    BY <1>2 DEF FirstSent, FirstReceived, Fin, Iss, Add
  <2>3. (Segments /\ Peer /\ Sending)'
    BY <1>1, <1>2, <1>3, <2>1, <2>2 DEF Segments, Peer, Sending, Ahead
  <2>4. (Opening /\ Acknowledged)'
    BY <1>2 DEF Opening, Acknowledged
  <2>5. Receiving'
    BY <1>1, <1>2, <2>1, <2>2 DEF Receiving, IsPrefix, Ahead
  <2> QED BY <2>3, <2>4, <2>5
<1> QED BY <1>4, <1>5, <1>6 DEF Inv

\* What is acknowledged after a segment: as before, or what the segment says.
Una(s) == IF "ACK" \in s.flags /\ SeqLe(conn.sndUna, s.ack) THEN s.ack ELSE conn.sndUna

\* Only snd_una moves.
LEMMA TakeAckIs ==
  ASSUME TypeOK, NEW s
  PROVE  TakeAck(conn, s) = [conn EXCEPT !.sndUna = Una(s)]
BY DEF TakeAck, Una, TypeOK

\* An acknowledgement of the server on the latest connection is of bytes it has.
LEMMA AckOfReceived ==
  ASSUME Inv, FreshPort, id > 0, NEW s \in FromServer(id), "ACK" \in s.flags
  PROVE  Ahead(FirstSent, s.ack) <= server[id].rcvd
<1>1. /\ id \in Id /\ FirstSent \in Seqno /\ FirstSent \in Int /\ server[id].rcvd \in Nat
      /\ Known /\ Peer /\ TypeOK /\ PeersOK
  BY FirstType, SeqnoInt DEF Inv, Latest, PeersOK
<1>2. server[id].state # "None" => server[id].irs = FirstSent
  BY <1>1 DEF Peer
<1>3. CASE s = Bare(id, {"SYN", "ACK"}) /\ server[id].state # "None"
  <2>1. s.ack = FirstSent
    BY <1>1, <1>2, <1>3, BareFields
  <2> QED BY <1>1, <2>1, AheadSelf
<1>4. CASE s = Bare(id, {"RST"})
  BY <1>1, <1>4, BareFields
<1>5. ASSUME NEW i \in 0 .. ReplyLen, NEW j \in 0 .. ReplyLen,
             NEW a \in 0 .. server[id].rcvd, NEW last \in BOOLEAN,
             i <= j, s = Piece(id, i, j, a, j = ReplyLen /\ last),
             server[id].state = "Open" \/ server[id].rcvd > 0
      PROVE  Ahead(FirstSent, s.ack) <= server[id].rcvd
  <2>1. server[id].irs = FirstSent
    BY <1>1, <1>2, <1>5 DEF Known, NoServer
  <2>2. a \in Seqno /\ a <= server[id].rcvd
    BY <1>1, Wide DEF Peer, Seqno
  <2>3. s.ack = Add(FirstSent, a)
    BY <1>5, <2>1 DEF Piece
  <2>4. Ahead(FirstSent, s.ack) = a
    BY <1>1, <2>2, <2>3, AheadAdd
  <2> QED BY <2>2, <2>4
<1> QED BY <1>3, <1>4, <1>5, SegmentCases

\* The SYN-ACK establishes the connection; nothing else moves one that opens.
LEMMA SynSentStep ==
  ASSUME Inv, NEW c \in Id, NEW s \in FromServer(c), Matches(s), HandleSynSent(s),
         UNCHANGED <<tick, app, tries, expected, id, origin, server>>
  PROVE  Inv'
<1> DEFINE u == [conn EXCEPT !.sndUna = Una(s)]
<1>1. /\ id > 0 /\ conn.state = "SynSent" /\ conn.port = origin[id].port
      /\ "RST" \notin s.flags /\ got' = got
      /\ s.seq \in Seqno /\ s.ack \in Seqno
      /\ FreshPort => c = id
  BY Inbound DEF Inv, Known, Matches, HandleSynSent
<1>2. Una(s) \in Seqno /\ TakeAck(conn, s) = u
  BY <1>1, TakeAckIs DEF Una, Inv, TypeOK
<1>3. /\ u.state = "SynSent" /\ u.port = conn.port /\ u.sndUna = Una(s)
      /\ u.sndNxt = conn.sndNxt /\ u.remoteClosed = conn.remoteClosed
  BY <1>1 DEF Inv, TypeOK
<1>4. /\ id \in Id /\ FirstSent \in Seqno /\ FirstReceived \in Seqno
      /\ conn.sndNxt \in Seqno
  BY <1>1, FirstType DEF Inv, TypeOK
<1>5. CASE {"SYN", "ACK"} \subseteq s.flags
  <2>1. /\ conn' = [u EXCEPT !.rcvNxt = Add(s.seq, 1), !.state = "Established"]
        /\ acked' = {conn'.rcvNxt}
        /\ toServer' = toServer \cup {Emitted(conn', conn'.sndNxt, {"ACK"}, 0)}
    BY <1>2, <1>5 DEF HandleSynSent, Reply
  <2>2. Add(s.seq, 1) \in Seqno
    BY <1>1, AddSeqno
  <2>3. TypeOK'
    BY <1>1, <1>2, <2>1, <2>2 DEF Inv, TypeOK
  <2>4. /\ conn'.state = "Established" /\ conn'.port = conn.port /\ conn'.sndUna = Una(s)
        /\ conn'.sndNxt = conn.sndNxt /\ conn'.rcvNxt = Add(s.seq, 1)
        /\ conn'.remoteClosed = conn.remoteClosed
    BY <1>3, <2>1 DEF Inv, TypeOK
  <2>5. PeersOK' /\ Known'
    <3>1. PeersOK' /\ \A x \in toServer' : x.from <= id' /\ x.port = origin'[x.from].port
      BY <1>1, <1>4, <2>1, <2>4, SegmentAdded DEF Inv
    <3> QED BY <1>1, <2>4, <3>1 DEF Inv, Known
  <2>6. Latest'
    <3> SUFFICES ASSUME FreshPort
                 PROVE  (Segments /\ Peer /\ Opening /\ Sending /\ Receiving /\ Acknowledged)'
      BY DEF Latest, FreshPort
    <3>1. /\ Segments /\ Peer /\ Opening /\ Sending /\ s \in FromServer(id)
          /\ got = <<>> /\ ~conn.remoteClosed
      BY <1>1 DEF Inv, Latest, Opening
    <3>2. FirstSent' = FirstSent /\ FirstReceived' = FirstReceived /\ Fin = 0 /\ Fin' = 0
      BY <2>4, <3>1 DEF FirstSent, FirstReceived, Fin, Iss, Add
    <3>3. s.seq = Iss(id) /\ s.ack = FirstSent
      <4>1. s = Bare(id, {"SYN", "ACK"}) /\ server[id].state # "None"
        BY <1>5, <3>1, SegmentCases DEF Bare, Piece
      <4> QED BY <1>4, <3>1, <4>1, BareFields DEF Inv, Peer
    <3>4. Una(s) = FirstSent
      <4>1. SeqLe(conn.sndUna, s.ack)
        <5>1. conn.sndUna = origin[id].isn /\ origin[id].isn \in Int
          BY <1>1, <3>1, FirstType, SeqnoInt DEF Opening, Inv
        <5> QED BY <3>3, <5>1, SynAckIsAhead DEF FirstSent
      <4> QED BY <1>5, <3>3, <4>1 DEF Una
    <3>5. \A x \in toServer' :
            x \in toServer \/ (x.flags = {"ACK"} /\ x.seq = conn.sndNxt /\ x.len = 0)
      BY <2>1, <2>4 DEF Emitted
    <3>6. Ahead(FirstSent, conn.sndNxt) + 0 <= RequestLen
      <4>1. Ahead(FirstSent, conn.sndNxt) \in Int
        BY <1>4, AheadType, SeqnoInt
      <4> QED BY <1>1, <3>1, <4>1, Wide DEF Sending
    <3>7. (Segments /\ Peer /\ Sending)'
      BY <1>1, <2>4, <3>1, <3>2, <3>5, <3>6 DEF Segments, Peer, Sending, Ahead
    <3>8. Opening'
      BY <2>4 DEF Opening
    <3>9. Receiving'
      <4>1. conn'.rcvNxt = FirstReceived
        BY <2>4, <3>3 DEF FirstReceived
      <4>2. Len(got) = 0 /\ conn'.rcvNxt = Add(FirstReceived, Len(got) + 0)
        BY <1>4, <3>1, <4>1, AddZero
      <4>3. \A a \in acked' : Ahead(FirstReceived, a) = 0
        BY <1>4, <2>1, <4>1, AheadSelf
      <4> QED BY <1>1, <2>4, <3>1, <3>2, <4>2, <4>3, Wide DEF Receiving, IsPrefix, Ahead, Add
    <3>10. Acknowledged'
      BY <1>1, <1>4, <1>5, <2>4, <3>1, <3>2, <3>4, <3>3, AckOfReceived DEF Acknowledged, Ahead
    <3> QED BY <3>7, <3>8, <3>9, <3>10
  <2> QED BY <2>3, <2>5, <2>6 DEF Inv
<1>6. CASE ~({"SYN", "ACK"} \subseteq s.flags)
  <2>1. conn' = u /\ UNCHANGED <<acked, toServer>>
    BY <1>2, <1>6 DEF HandleSynSent
  <2>2. TypeOK'
    BY <1>1, <1>2, <2>1 DEF Inv, TypeOK
  <2>3. PeersOK' /\ Known'
    BY <1>1, <1>3, <2>1 DEF Inv, PeersOK, Known
  <2>4. Latest'
    <3> SUFFICES ASSUME FreshPort
                 PROVE  FALSE
      BY DEF Latest, FreshPort
    <3>1. Opening /\ s \in FromServer(id)
      BY <1>1 DEF Inv, Latest
    <3> QED BY <1>1, <1>4, <1>6, <3>1, SegmentCases DEF Opening, Bare
  <2> QED BY <2>2, <2>3, <2>4 DEF Inv
<1> QED BY <1>5, <1>6

\* The first bytes of a segment behind those already there.
LEMMA Appended ==
  ASSUME NEW S, NEW g \in Seq(S), NEW d \in Seq(S), NEW t \in 0 .. Len(d)
  PROVE  LET h == g \o SubSeq(d, 1, t) IN
         /\ h \in Seq(S) /\ Len(h) = Len(g) + t /\ t = 0 => h = g
         /\ \A k \in DOMAIN h : h[k] = IF k <= Len(g) THEN g[k] ELSE d[k - Len(g)]
<1> DEFINE p == SubSeq(d, 1, t)
           h == g \o p
<1>1. p \in Seq(S) /\ Len(p) = t /\ \A k \in 1 .. t : p[k] = d[k]
  <2>1. t \in Nat /\ Len(d) \in Nat /\ t <= Len(d)
    OBVIOUS
  <2>2. \A k \in 1 .. t : d[k] \in S
    BY <2>1
  <2> QED BY <2>1, <2>2
<1> HIDE DEF p
<1>2. h \in Seq(S) /\ Len(h) = Len(g) + t /\ DOMAIN h = 1 .. Len(h)
  BY <1>1
<1>3. \A k \in 1 .. Len(h) : h[k] = IF k <= Len(g) THEN g[k] ELSE p[k - Len(g)]
  BY <1>1
<1>4. t = 0 => h = g
  BY <1>1
<1>5. \A k \in DOMAIN h : h[k] = IF k <= Len(g) THEN g[k] ELSE d[k - Len(g)]
  BY <1>1, <1>2, <1>3
<1> QED BY <1>2, <1>4, <1>5 DEF h, p

\* What is taken is a part of the segment, fits in the buffer, and is nothing of a
\* segment out of order.
LEMMA TakenIs ==
  ASSUME TypeOK, NEW s, s.data \in Seq(Byte)
  PROVE  /\ Taken(s) \in 0 .. Len(s.data) /\ conn.rx + Taken(s) \in 0 .. MAX_RX_BYTES
         /\ Taken(s) # 0 => s.seq = conn.rcvNxt
<1>1. Len(s.data) \in Nat /\ conn.rx \in 0 .. MAX_RX_BYTES /\ MAX_RX_BYTES \in Nat
  BY BoundAssumption DEF TypeOK
<1> QED BY <1>1 DEF Taken, InOrder

\* How far the stream has got after a piece of the reply, and what a FIN in its
\* place means.  n counts the bytes received and the FIN.
LEMMA StreamGrows ==
  ASSUME Inv, FreshPort, id > 0, conn.state \in {"Established", "FinWait"},
         NEW s \in FromServer(id), "RST" \notin s.flags
  PROVE  /\ Received(s) = Add(FirstReceived, Len(got) + Fin + Taken(s))
         /\ Taken(s) # 0 => ~conn.remoteClosed /\ Len(got) + Taken(s) <= ReplyLen
         /\ \A k \in 1 .. Taken(s) : s.data[k] = <<id, Len(got) + k>>
         /\ FinInOrder(s, Received(s)) =>
              ~conn.remoteClosed /\ Len(got) + Taken(s) = ReplyLen
<1> DEFINE n == Len(got) + Fin
           t == Taken(s)
<1>1. /\ id \in Id /\ FirstReceived \in Seqno /\ FirstReceived \in Int /\ Iss(id) \in Seqno
      /\ Iss(id) \in Int /\ TypeOK /\ PeersOK /\ Receiving
  BY FirstType, SeqnoInt DEF Inv, Latest
<1>2. /\ Len(got) \in Nat /\ Fin \in {0, 1} /\ n \in Nat /\ Len(got) <= ReplyLen
      /\ conn.rcvNxt = Add(FirstReceived, n)
      /\ conn.remoteClosed <=> Fin = 1
      /\ conn.remoteClosed => Len(got) = ReplyLen
  BY <1>1 DEF Receiving, Fin, TypeOK
<1>3. CASE s = Bare(id, {"SYN", "ACK"}) \/ s = Bare(id, {"RST"})
  <2>1. s.data = <<>> /\ s.flags = {"SYN", "ACK"} /\ s.data \in Seq(Byte)
    <3>1. CASE s = Bare(id, {"SYN", "ACK"})
      <4>1. s.data = <<>>
        BY <1>1, <3>1, BareFields
      <4>2. s.flags = {"SYN", "ACK"}
        BY <1>1, <3>1, BareFields
      <4>3. s.data \in Seq(Byte)
        BY <1>1, <3>1, BareFields
      <4> QED BY <4>1, <4>2, <4>3
    <3>2. CASE s = Bare(id, {"RST"})
      BY <3>2 DEF Bare
    <3> QED BY <1>3, <3>1, <3>2
  <2>2. t = 0
    <3>1. Len(s.data) = 0
      BY <2>1
    <3>2. Taken(s) \in 0 .. Len(s.data)
      BY <1>1, <2>1, TakenIs, Zenon
    <3> QED BY <3>1, <3>2
  <2>3. ~FinInOrder(s, Received(s))
    BY <2>1 DEF FinInOrder
  <2>4. Received(s) = Add(FirstReceived, n + t)
    <3>1. Add(FirstReceived, n) \in Seqno
      BY <1>1, <1>2, AddSeqno
    <3> QED BY <1>2, <2>2, <3>1, AddZero DEF Received
  <2> QED BY <2>2, <2>3, <2>4
<1>4. ASSUME NEW i \in 0 .. ReplyLen, NEW j \in 0 .. ReplyLen,
             NEW a \in 0 .. server[id].rcvd, NEW last \in BOOLEAN,
             i <= j, s = Piece(id, i, j, a, j = ReplyLen /\ last)
      PROVE  /\ Received(s) = Add(FirstReceived, n + t)
             /\ t # 0 => ~conn.remoteClosed /\ Len(got) + t <= ReplyLen
             /\ \A k \in 1 .. t : s.data[k] = <<id, Len(got) + k>>
             /\ FinInOrder(s, Received(s)) =>
                  ~conn.remoteClosed /\ Len(got) + t = ReplyLen
  <2> DEFINE fin == j = ReplyLen /\ last
  <2>1. fin \in BOOLEAN /\ j \in i .. ReplyLen /\ i \in Nat /\ j \in Nat /\ j - i \in Nat
    <3>1. fin \in BOOLEAN
      BY Zenon
    <3> QED BY <1>4, <3>1, Wide
  <2>2. /\ s.seq = Add(Iss(id), 1 + i) /\ s.data \in Seq(Byte) /\ Len(s.data) = j - i
        /\ s.flags = IF fin THEN {"ACK", "FIN"} ELSE {"ACK"}
        /\ \A k \in 1 .. j - i : s.data[k] = <<id, i + k>>
    <3> HIDE DEF fin
    <3>1. s = Piece(id, i, j, a, fin)
      BY <1>4 DEF fin
    <3>2. id \in Id /\ TypeOK /\ PeersOK
      BY <1>1
    <3>3. /\ s.seq = Add(Iss(id), 1 + i) /\ s.data \in Seq(Byte) /\ Len(s.data) = j - i
          /\ s.flags = IF fin THEN {"ACK", "FIN"} ELSE {"ACK"}
          /\ \A k \in 1 .. j - i : s.data[k] = <<id, i + k>>
      <4>1. s.seq = Add(Iss(id), 1 + i)
        BY <2>1, <3>1, <3>2, PieceFields
      <4>2. s.data \in Seq(Byte)
        BY <2>1, <3>1, <3>2, PieceFields
      <4>3. Len(s.data) = j - i
        <5>1. s.data = [k \in 1 .. j - i |-> <<id, i + k>>]
          BY <3>1 DEF Piece
        <5> QED BY <2>1, <5>1
      <4>4. s.flags = IF fin THEN {"ACK", "FIN"} ELSE {"ACK"}
        BY <2>1, <3>1, <3>2, PieceFields
      <4>5. \A k \in 1 .. j - i : s.data[k] = <<id, i + k>>
        BY <2>1, <3>1, <3>2, PieceFields
      <4> QED BY <4>1, <4>2, <4>3, <4>4, <4>5
    <3> QED BY <3>3
  <2>3. s.seq = Add(FirstReceived, i)
    BY <1>1, <2>1, <2>2, AddAdd DEF FirstReceived
  <2>4. t \in 0 .. j - i /\ t \in Nat /\ (t # 0 => s.seq = conn.rcvNxt)
    BY <1>1, <2>2, TakenIs
  <2>5. ASSUME t # 0
        PROVE  i = Len(got) /\ ~conn.remoteClosed
    <3>1. i \in Seqno /\ n \in Seqno
      BY <1>2, <2>1, Wide DEF Seqno
    <3>2. i = n
      BY <1>1, <1>2, <2>3, <2>4, <2>5, <3>1, AddInjective
    <3> QED BY <1>2, <3>2, Wide
  <2>6. Received(s) = Add(FirstReceived, n + t)
    BY <1>1, <1>2, <2>4, AddAdd DEF Received
  <2>7. t # 0 => ~conn.remoteClosed /\ Len(got) + t <= ReplyLen
    BY <1>2, <2>1, <2>4, <2>5, Wide
  <2>8. \A k \in 1 .. t : s.data[k] = <<id, Len(got) + k>>
    <3> TAKE k \in 1 .. t
    <3>1. t # 0 /\ k \in 1 .. j - i
      BY <2>1, <2>4
    <3> QED BY <2>2, <2>5, <3>1
  <2>9. ASSUME FinInOrder(s, Received(s))
        PROVE  ~conn.remoteClosed /\ Len(got) + t = ReplyLen
    <3>1. fin /\ Add(s.seq, j - i) = Add(FirstReceived, n + t)
      BY <2>2, <2>6, <2>9 DEF FinInOrder
    <3>2. j = ReplyLen
      BY <3>1
    <3>3. Add(s.seq, j - i) = Add(FirstReceived, j)
      <4>1. Add(Add(FirstReceived, i), j - i) = Add(FirstReceived, i + (j - i))
        BY <1>1, <2>1, AddAdd
      <4>2. i + (j - i) = j
        BY <2>1
      <4> QED BY <2>3, <4>1, <4>2
    <3>4. j \in Seqno /\ n + t \in Seqno
      BY <1>2, <2>1, <2>4, <2>7, Wide DEF Seqno
    <3>5. n + t = ReplyLen
      BY <1>1, <3>1, <3>2, <3>3, <3>4, AddInjective
    <3> QED BY <1>2, <2>4, <2>7, <3>5, Wide
  <2> QED BY <2>6, <2>7, <2>8, <2>9
<1>5. \/ s = Bare(id, {"SYN", "ACK"}) \/ s = Bare(id, {"RST"})
      \/ \E i, j \in 0 .. ReplyLen, a \in 0 .. server[id].rcvd, last \in BOOLEAN :
           i <= j /\ s = Piece(id, i, j, a, j = ReplyLen /\ last)
  BY SegmentCases
<1> QED BY <1>3, <1>4, <1>5

\* Whatever arrives on an open connection, the bytes kept stay the beginning of the
\* reply and rcv_nxt their number.
LEMMA EstablishedStep ==
  ASSUME Inv, NEW c \in Id, NEW s \in FromServer(c), Matches(s), HandleEstablished(s),
         UNCHANGED <<tick, app, tries, expected, id, origin, server>>
  PROVE  Inv'
<1> DEFINE take == Taken(s)
           next == Received(s)
           fin == FinInOrder(s, next)
           rcv == IF fin THEN Add(next, 1) ELSE next
           u == [conn EXCEPT !.sndUna = Una(s)]
<1>1. /\ id > 0 /\ conn.state \in {"Established", "FinWait"} /\ conn.port = origin[id].port
      /\ "RST" \notin s.flags /\ s.seq \in Seqno /\ s.ack \in Seqno /\ s.data \in Seq(Byte)
      /\ TypeOK /\ PeersOK /\ Known
      /\ FreshPort => c = id
  BY Inbound DEF Inv, Known, Matches, HandleEstablished
<1>2. Una(s) \in Seqno /\ TakeAck(conn, s) = u
  BY <1>1, TakeAckIs DEF Una, TypeOK
<1>3. take \in 0 .. Len(s.data) /\ take \in Nat /\ conn.rx + take \in 0 .. MAX_RX_BYTES
  BY <1>1, TakenIs
<1>4. next \in Seqno /\ rcv \in Seqno
  <2>1. next \in Seqno
    BY <1>1, <1>3, AddSeqno DEF Received, TypeOK
  <2> QED BY <2>1, AddSeqno
<1>5. /\ conn' = [u EXCEPT !.rx = @ + take, !.rcvNxt = rcv, !.remoteClosed = @ \/ fin]
      /\ got' = got \o SubSeq(s.data, 1, take)
      /\ IF s.data # <<>> \/ fin THEN Reply(conn') ELSE UNCHANGED <<acked, toServer>>
  BY <1>2 DEF HandleEstablished
<1>6. fin \in BOOLEAN /\ (conn.remoteClosed \/ fin) \in BOOLEAN
  BY Zenon DEF FinInOrder
<1> HIDE DEF take, next, fin, rcv
<1>7. /\ conn'.state = conn.state /\ conn'.port = conn.port /\ conn'.sndUna = Una(s)
      /\ conn'.sndNxt = conn.sndNxt /\ conn'.rcvNxt = rcv /\ conn'.rx = conn.rx + take
      /\ conn'.remoteClosed = (conn.remoteClosed \/ fin) /\ conn'.reset = conn.reset
  BY <1>1, <1>5 DEF TypeOK
<1>8. conn' = [state |-> conn.state, port |-> conn.port, sndNxt |-> conn.sndNxt,
               sndUna |-> Una(s), rcvNxt |-> rcv, rx |-> conn.rx + take,
               remoteClosed |-> (conn.remoteClosed \/ fin), reset |-> conn.reset]
  BY <1>1, <1>5 DEF TypeOK
<1>9. /\ got' \in Seq(Byte) /\ Len(got') = Len(got) + take /\ (take = 0 => got' = got)
      /\ \A k \in DOMAIN got' :
           got'[k] = IF k <= Len(got) THEN got[k] ELSE s.data[k - Len(got)]
      /\ Len(got) \in Nat
  <2>1. got \in Seq(Byte)
    BY <1>1 DEF TypeOK
  <2> QED BY <1>1, <1>3, <1>5, <2>1, Appended
<1>10. \/ /\ acked' = {rcv}
          /\ toServer' = toServer \cup {Emitted(conn', conn.sndNxt, {"ACK"}, 0)}
       \/ UNCHANGED <<acked, toServer>>
  BY <1>5, <1>7 DEF Reply
<1>11. id \in Id /\ FirstSent \in Seqno /\ FirstReceived \in Seqno /\ FirstReceived \in Int
       /\ conn.sndNxt \in Seqno
  BY <1>1, FirstType, SeqnoInt DEF TypeOK
<1>12. TypeOK'
  <2>1. conn' \in [state : {"None", "Closed", "SynSent", "Established", "FinWait"},
                   port : 0 .. PortRange - 1, sndNxt : Seqno, sndUna : Seqno,
                   rcvNxt : Seqno, rx : 0 .. MAX_RX_BYTES, remoteClosed : BOOLEAN,
                   reset : BOOLEAN]
    BY <1>1, <1>2, <1>3, <1>4, <1>6, <1>8 DEF TypeOK
  <2>2. acked' \subseteq Seqno
    BY <1>1, <1>4, <1>10 DEF TypeOK
  <2> QED BY <1>1, <1>9, <2>1, <2>2 DEF TypeOK
<1>13. PeersOK' /\ Known'
  <2>1. PeersOK' /\ \A x \in toServer' : x.from <= id' /\ x.port = origin'[x.from].port
    <3>1. CASE toServer' = toServer \cup {Emitted(conn', conn.sndNxt, {"ACK"}, 0)}
      BY <1>1, <1>7, <1>11, <3>1, SegmentAdded
    <3>2. CASE UNCHANGED toServer
      BY <1>1, <3>2 DEF PeersOK, Known
    <3> QED BY <1>10, <3>1, <3>2
  <2> QED BY <1>1, <1>7, <2>1 DEF Known
<1>14. Latest'
  <2> SUFFICES ASSUME FreshPort
               PROVE  (Segments /\ Peer /\ Opening /\ Sending /\ Receiving /\ Acknowledged)'
    BY DEF Latest, FreshPort
  <2>1. /\ Segments /\ Peer /\ Sending /\ Receiving /\ Acknowledged /\ s \in FromServer(id)
    BY <1>1 DEF Inv, Latest
  <2>2. FirstSent' = FirstSent /\ FirstReceived' = FirstReceived
    BY DEF FirstSent, FirstReceived, Iss, Add
  <2>3. \A x \in toServer' :
          x \in toServer \/ (x.flags = {"ACK"} /\ x.seq = conn.sndNxt /\ x.len = 0)
    BY <1>10 DEF Emitted
  <2>4. Ahead(FirstSent, conn.sndNxt) + 0 <= RequestLen
    <3>1. FirstSent \in Int /\ conn.sndNxt \in Int
      BY <1>11, SeqnoInt
    <3>2. Ahead(FirstSent, conn.sndNxt) \in Int
      BY <3>1, AheadType, SeqnoInt
    <3> QED BY <1>1, <2>1, <3>2, Wide DEF Sending
  <2>5. (Segments /\ Peer /\ Sending)'
    BY <1>1, <1>7, <2>1, <2>2, <2>3, <2>4 DEF Segments, Peer, Sending, Ahead
  <2>6. Opening'
    BY <1>1, <1>7 DEF Opening
  <2>7. Acknowledged'
    <3>1. Ahead(FirstSent, Una(s)) <= server[id].rcvd
      BY <1>1, <2>1, AckOfReceived DEF Una, Acknowledged
    <3> QED BY <1>7, <2>2, <3>1 DEF Acknowledged, Ahead
  <2>8. Receiving'
    <3> DEFINE n == Len(got) + Fin
               m == Len(got') + Fin'
    <3>1. /\ next = Add(FirstReceived, n + take)
          /\ take # 0 => ~conn.remoteClosed /\ Len(got) + take <= ReplyLen
          /\ \A k \in 1 .. take : s.data[k] = <<id, Len(got) + k>>
          /\ fin => ~conn.remoteClosed /\ Len(got) + take = ReplyLen
      BY <1>1, <2>1, StreamGrows DEF take, next, fin
    <3>2. /\ Len(got) <= ReplyLen /\ IsPrefix /\ (conn.remoteClosed => Len(got) = ReplyLen)
          /\ \A a \in acked : Ahead(FirstReceived, a) <= n
          /\ Fin \in {0, 1} /\ (conn.remoteClosed <=> Fin = 1)
          /\ Fin' \in {0, 1} /\ (conn'.remoteClosed <=> Fin' = 1)
      BY <2>1 DEF Receiving, Fin
    <3>3. Len(got') <= ReplyLen /\ (conn'.remoteClosed => Len(got') = ReplyLen)
      BY <1>3, <1>7, <1>9, <3>1, <3>2, Wide
    <3>4. (fin => Fin = 0 /\ Fin' = 1) /\ (~fin => Fin' = Fin)
      <4>1. fin => ~conn.remoteClosed
        BY <3>1
      <4> QED BY <1>7, <4>1, Zenon DEF Fin
    <3>5. Fin \in {0, 1} /\ Fin' \in {0, 1} /\ Fin <= Fin'
      <4>1. Fin \in {0, 1}
        BY <3>2
      <4> QED BY <3>4, <4>1
    <3>6. m \in Nat /\ n \in Nat /\ n <= m /\ m <= ReplyLen + 1 /\ m \in Seqno
      <4>1. m \in Nat /\ n \in Nat /\ n <= m /\ m <= ReplyLen + 1
        BY <1>3, <1>9, <3>3, <3>5, Wide
      <4> QED BY <4>1, Wide DEF Seqno
    <3>7. rcv = Add(FirstReceived, m)
      <4>1. CASE fin
        <5>1. m = n + take + 1
          BY <1>3, <1>9, <3>4, <4>1
        <5>2. rcv = Add(Add(FirstReceived, n + take), 1)
          BY <3>1, <4>1 DEF rcv
        <5> HIDE DEF n, m
        <5> QED BY <1>3, <1>11, <3>6, <5>1, <5>2, AddAdd
      <4>2. CASE ~fin
        <5>1. m = n + take
          BY <1>3, <1>9, <3>4, <3>5, <4>2
        <5> QED BY <3>1, <4>2, <5>1 DEF rcv
      <4> QED BY <4>1, <4>2
    <3>8. Ahead(FirstReceived, rcv) = m
      <4> HIDE DEF m
      <4> QED BY <1>11, <3>6, <3>7, AheadAdd
    <3>9. \A a \in acked' : Ahead(FirstReceived, a) <= m
      <4>1. \A a \in acked : Ahead(FirstReceived, a) \in Int
        BY <1>1, <1>11, AheadType, SeqnoInt DEF TypeOK
      <4> HIDE DEF m, n
      <4> QED BY <1>10, <3>2, <3>6, <3>8, <4>1
    <3>10. IsPrefix'
      <4> SUFFICES ASSUME NEW k \in DOMAIN got'
                   PROVE  got'[k] = <<id, k>>
        BY DEF IsPrefix
      <4>1. k \in 1 .. Len(got) + take
        BY <1>9
      <4>2. CASE k <= Len(got)
        <5>1. k \in DOMAIN got
          BY <1>1, <1>9, <4>1, <4>2 DEF TypeOK
        <5> QED BY <1>9, <3>2, <4>2, <5>1 DEF IsPrefix
      <4>3. CASE ~(k <= Len(got))
        <5>1. k - Len(got) \in 1 .. take /\ Len(got) + (k - Len(got)) = k
          BY <1>3, <1>9, <4>1, <4>3
        <5> QED BY <1>9, <3>1, <4>3, <5>1
      <4> QED BY <4>2, <4>3
    <3> QED BY <1>7, <2>2, <3>3, <3>7, <3>9, <3>10 DEF Receiving, Ahead, Add
  <2> QED BY <2>5, <2>6, <2>7, <2>8
<1> QED BY <1>12, <1>13, <1>14 DEF Inv

-----------------------------------------------------------------------------
(* The theorems.                                                           *)

\* Every step keeps the invariant.
LEMMA StepInv == Inv /\ [Next]_vars => Inv'
<1> SUFFICES ASSUME Inv, [Next]_vars PROVE Inv'
  OBVIOUS
<1>1. CASE Connect
  BY <1>1, ConnectStep
<1>2. CASE SendSyn
  BY <1>2, SendSynStep
<1>3. CASE ConnectFails \/ ConnectReturns \/ SendReturns \/ SendTimesOut
  BY <1>3, CallerStep
<1>4. CASE ConnectTimesOut \/ Closed
  BY <1>4, DropStep
<1>5. ASSUME NEW len \in 1 .. RequestLen, Send(len)
      PROVE  Inv'
  BY <1>5, SendStep
<1>6. CASE SendRecorded
  BY <1>6, SendRecordedStep
<1>7. CASE Recv
  BY <1>7, RecvStep
<1>8. CASE Close
  BY <1>8, CloseStep
<1>9. CASE Handle
  BY <1>9, ResetStep, SynSentStep, EstablishedStep DEF Handle
<1>10. CASE ServerSyn
  BY <1>10, ServerSynStep
<1>11. CASE ServerReceives
  BY <1>11, ServerReceivesStep
<1>12. CASE ServerEnds
  BY <1>12, ServerEndsStep
<1>13. CASE UNCHANGED vars
  BY <1>13, ZenonT(60)
     DEF vars, Inv, TypeOK, PeersOK, Known, Latest, FreshPort, Segments, Peer, Opening, Sending,
         Receiving, Acknowledged, FirstSent, FirstReceived, Fin, IsPrefix, Iss, Add, Ahead
<1> QED BY <1>1, <1>2, <1>3, <1>4, <1>5, <1>6, <1>7, <1>8, <1>9, <1>10, <1>11, <1>12, <1>13
        DEF Next, Call

\* The invariant holds in every reachable state: CONN, the server and every segment
\* under way agree on where both streams have got to.
THEOREM InvHolds == Spec => []Inv
BY InitInv, StepInv, PTL DEF Spec

\* The variables have their types; rx never holds more than the buffer.
THEOREM TypeCorrectness == Spec => []TypeOK
<1>1. Inv => TypeOK
  BY DEF Inv
<1> QED BY <1>1, InvHolds, PTL

\* Whatever is lost, repeated, delayed or reordered, the caller reads the beginning of
\* the server's stream on this connection and nothing else, unless an earlier connection
\* had its port.
THEOREM StreamKept == Spec => []StreamIsPrefix
<1>1. Inv => StreamIsPrefix
  <2> SUFFICES ASSUME Inv, FreshPort PROVE IsPrefix
    BY DEF StreamIsPrefix
  <2>1. CASE id > 0
    BY <2>1 DEF Inv, Latest, Receiving
  <2>2. CASE ~(id > 0)
    <3>1. got = <<>>
      BY <2>2 DEF Inv, Known
    <3> QED BY <3>1 DEF IsPrefix
  <2> QED BY <2>1, <2>2
<1> QED BY <1>1, InvHolds, PTL

\* A connection that shows the peer closed has the whole reply.
THEOREM CompleteReply == Spec => []CompleteWhenClosed
<1>1. Inv => CompleteWhenClosed
  BY DEF Inv, Known, Latest, Receiving, CompleteWhenClosed
<1> QED BY <1>1, InvHolds, PTL

\* What send takes for acknowledged the server has received, also while snd_nxt
\* still lags behind what was emitted.
THEOREM AcknowledgedReceived == Spec => []AckedIsReceived
<1>1. Inv => AckedIsReceived
  BY DEF Inv, Known, Latest, Acknowledged, AckedIsReceived, FirstSent
<1> QED BY <1>1, InvHolds, PTL

\* The client acknowledges no byte that did not fit in its buffer.
THEOREM DroppedNotAcknowledged == Spec => []NeverAcksWhatItDropped
<1>1. Inv => NeverAcksWhatItDropped
  <2> SUFFICES ASSUME Inv, FreshPort, NEW a \in acked
               PROVE  Ahead(FirstReceived, a) <= Len(got) + Fin
    BY DEF NeverAcksWhatItDropped, FirstReceived, Fin
  <2>1. id > 0
    BY DEF Inv, Known
  <2> QED BY <2>1 DEF Inv, Latest, Receiving
<1> QED BY <1>1, InvHolds, PTL
=============================================================================
