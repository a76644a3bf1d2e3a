-------------------------------- MODULE Tcp ---------------------------------
(***************************************************************************)
(* The TCP client (kernel/src/net/tcp.rs): one connection at a time,       *)
(* stop-and-wait sending, in-order receiving, against a correct server over *)
(* a network that loses, duplicates, delays and reorders segments.         *)
(*                                                                         *)
(* connect, send, recv_some, recv_to_end and close run one at a time (the  *)
(* kernel has one thread) and wait by polling the card; ip::send polls too *)
(* while it resolves an address, so segments are handled also between      *)
(* emitting a segment and recording that it was sent.                      *)
(*                                                                         *)
(* Abstracted: payload bytes to <<connection, index>>, so that it shows    *)
(* where a byte came from; the length of a timeout (it may expire whenever *)
(* the wait is not over); checksums and header layout.  Sequence numbers   *)
(* wrap, modulo a smaller SeqMod.  The server is external: it is what      *)
(* RFC 793 asks of a peer, with its choice of when and what to send.       *)
(***************************************************************************)
EXTENDS Integers, Sequences, FiniteSets

CONSTANTS
  SeqMod,       \* 2^32 in the code
  IsnStep,      \* 2654435761 in the code: from one tick's ISN to the next
  PortRange,    \* 16000 in the code
  MAX_RX_BYTES,
  SynTries,     \* 4 in the code
  ReplyLen,     \* bytes the server has for each connection
  RequestLen,   \* bound: bytes the client sends on a connection
  MaxConn,      \* bound: calls of connect
  MaxTick,      \* bound: clock ticks
  IssStep       \* the server's initial numbers, from one connection to the next

Seqno == 0 .. SeqMod - 1
Id == 1 .. MaxConn
Byte == Id \X (1 .. ReplyLen)

ASSUME WidthAssumption ==
  /\ SeqMod \in Nat /\ SeqMod > 2 * (ReplyLen + RequestLen + 2)
  /\ IsnStep \in Nat /\ IssStep \in Nat /\ PortRange \in Nat \ {0}
ASSUME BoundAssumption ==
  /\ MAX_RX_BYTES \in Nat /\ SynTries \in Nat \ {0}
  /\ ReplyLen \in Nat /\ RequestLen \in Nat /\ MaxConn \in Nat /\ MaxTick \in Nat

VARIABLES
  tick,      \* clock::ticks
  conn,      \* CONN
  app,       \* where the caller is inside tcp.rs
  tries,     \* SYNs sent by the connect in progress
  expected,  \* the number send waits for
  id,        \* history: number of the latest connection
  origin,    \* history: port and ISN of every connection
  got,       \* history: the bytes accepted on the latest connection
  acked,     \* history: its latest acknowledgement
  toServer,  \* segments the client has sent, deliverable at any time
  server     \* the server's side of each connection

vars == <<tick, conn, app, tries, expected, id, origin, got, acked, toServer, server>>

NoConn == [state |-> "None", port |-> 0, sndNxt |-> 0, sndUna |-> 0, rcvNxt |-> 0,
           rx |-> 0, remoteClosed |-> FALSE, reset |-> FALSE]

Add(a, n) == (a + n) % SeqMod

\* The distance from a to b, forwards.
Ahead(a, b) == (b - a) % SeqMod

\* Mutation: compared as plain numbers.
PlainLe(a, b) == a <= b

\* seq_le
SeqLe(a, b) == Ahead(a, b) < SeqMod \div 2

\* emit: a segment of connection c.  Its acknowledgement number is kept apart, in
\* acked; the sender's identity is history.
Emitted(c, seq, flags, len) ==
  [from |-> id, port |-> c.port, seq |-> seq, flags |-> flags, len |-> len]

-----------------------------------------------------------------------------
(* The server (external).                                                  *)

Iss(c) == (c * IssStep) % SeqMod

NoServer == [state |-> "None", irs |-> 0, rcvd |-> 0, reset |-> FALSE]

Live(c) == server[c].state \in {"SynReceived", "Open"}

\* A SYN opens a connection, or is refused, when nothing lives on its port.
ServerSyn ==
  \E s \in toServer :
    /\ s.flags = {"SYN"} /\ server[s.from].state = "None"
    /\ \A c \in Id : Live(c) => origin[c].port # s.port
    /\ server' = [server EXCEPT ![s.from] =
         [state |-> "SynReceived", irs |-> Add(s.seq, 1), rcvd |-> 0, reset |-> FALSE]]
    /\ UNCHANGED <<tick, conn, app, tries, expected, id, origin, got, acked, toServer>>

\* The connection that lives on the port takes the segment: its acknowledgement
\* completes the handshake (one of an earlier connection acknowledges another
\* number), its data counts when it is the next in order.
ServerReceives ==
  \E s \in toServer, c \in Id :
    /\ Live(c) /\ origin[c].port = s.port /\ "ACK" \in s.flags
    /\ server[c].state = "SynReceived" => s.from = c
    /\ LET next == s.seq = Add(server[c].irs, server[c].rcvd) IN
       server' = [server EXCEPT ![c].state = "Open",
                                ![c].rcvd = IF next THEN @ + s.len ELSE @]
    /\ UNCHANGED <<tick, conn, app, tries, expected, id, origin, got, acked, toServer>>

\* The server forgets a connection: with a RST at any time, quietly once the
\* client has sent its FIN.
ServerEnds ==
  \E c \in Id, rst \in BOOLEAN :
    /\ Live(c)
    /\ rst \/ \E s \in toServer : s.from = c /\ "FIN" \in s.flags
    /\ server' = [server EXCEPT ![c].state = "Gone", ![c].reset = rst]
    /\ UNCHANGED <<tick, conn, app, tries, expected, id, origin, got, acked, toServer>>

\* A piece of the reply on connection c, from byte i + 1 to byte j, with an
\* acknowledgement of a bytes.
Piece(c, i, j, a, fin) ==
  [port |-> origin[c].port, seq |-> Add(Iss(c), 1 + i), ack |-> Add(server[c].irs, a),
   flags |-> IF fin THEN {"ACK", "FIN"} ELSE {"ACK"},
   data |-> [k \in 1 .. j - i |-> <<c, i + k>>]]

Bare(c, flags) ==
  [port |-> origin[c].port, seq |-> Iss(c), ack |-> server[c].irs, flags |-> flags,
   data |-> <<>>]

\* Everything the server may have sent on connection c so far, in any order and
\* any number of times: the SYN-ACK, any piece of its reply with any
\* acknowledgement up to the current one, a FIN after the last byte, a RST.
FromServer(c) ==
  LET sv == server[c] IN
  (IF sv.state # "None" THEN {Bare(c, {"SYN", "ACK"})} ELSE {})
  \cup (IF sv.state = "Open" \/ sv.rcvd > 0
        THEN UNION {{Piece(c, i, j, a, j = ReplyLen /\ fin) :
                       j \in i .. ReplyLen, a \in 0 .. sv.rcvd, fin \in BOOLEAN} :
                    i \in 0 .. ReplyLen}
        ELSE {})
  \cup (IF sv.reset THEN {Bare(c, {"RST"})} ELSE {})

-----------------------------------------------------------------------------
(* handle: an inbound segment.                                             *)

Matches(s) == conn.state # "None" /\ conn.port = s.port

\* Any acknowledgement not behind the last one is taken.
TakeAck(c, s) ==
  IF "ACK" \in s.flags /\ SeqLe(c.sndUna, s.ack) THEN [c EXCEPT !.sndUna = s.ack] ELSE c

HandleReset(s) ==
  /\ "RST" \in s.flags
  /\ conn' = [conn EXCEPT !.reset = TRUE, !.state = "Closed"]
  /\ UNCHANGED <<got, acked, toServer>>

Reply(c) ==
  /\ acked' = {c.rcvNxt}
  /\ toServer' = toServer \cup {Emitted(c, c.sndNxt, {"ACK"}, 0)}

HandleSynSent(s) ==
  LET c == TakeAck(conn, s) IN
  /\ conn.state = "SynSent" /\ "RST" \notin s.flags
  /\ IF {"SYN", "ACK"} \subseteq s.flags
     THEN /\ conn' = [c EXCEPT !.rcvNxt = Add(s.seq, 1), !.state = "Established"]
          /\ Reply(conn')
     ELSE conn' = c /\ UNCHANGED <<acked, toServer>>
  /\ UNCHANGED got

\* Mutation: a segment that overlaps what was received is accepted too.
OverlapFits(s) == SeqLe(s.seq, conn.rcvNxt)

InOrder(s) == s.seq = conn.rcvNxt

\* Mutation: the FIN counts wherever the stream has got to.
AnyFin(s, rcvNxt) == "FIN" \in s.flags

FinInOrder(s, rcvNxt) == "FIN" \in s.flags /\ Add(s.seq, Len(s.data)) = rcvNxt

\* Mutation: the cap is ignored.
Whole(s) == IF InOrder(s) THEN Len(s.data) ELSE 0

\* How many bytes are kept: what arrives in order and fits under the cap.
Taken(s) ==
  LET room == IF MAX_RX_BYTES > conn.rx THEN MAX_RX_BYTES - conn.rx ELSE 0
  IN  IF ~InOrder(s) THEN 0 ELSE IF Len(s.data) < room THEN Len(s.data) ELSE room

\* Mutation: moved past the whole segment, also past what did not fit.
EndOfSegment(s) == IF InOrder(s) THEN Add(s.seq, Len(s.data)) ELSE conn.rcvNxt

\* rcv_nxt after the payload.
Received(s) == Add(conn.rcvNxt, Taken(s))

HandleEstablished(s) ==
  LET c == TakeAck(conn, s)
      take == Taken(s)
      next == Received(s)
      fin == FinInOrder(s, next)
  IN  /\ conn.state \in {"Established", "FinWait"} /\ "RST" \notin s.flags
      /\ conn' = [c EXCEPT !.rx = @ + take,
                           !.rcvNxt = IF fin THEN Add(next, 1) ELSE next,
                           !.remoteClosed = @ \/ fin]
      /\ got' = got \o SubSeq(s.data, 1, take)
      /\ IF s.data # <<>> \/ fin THEN Reply(conn') ELSE UNCHANGED <<acked, toServer>>

\* The segment comes from any connection there has been: only its port says
\* which one it belongs to.
Handle ==
  \E c \in Id : \E s \in FromServer(c) :
    /\ Matches(s)
    /\ HandleReset(s) \/ HandleSynSent(s) \/ HandleEstablished(s)
    /\ UNCHANGED <<tick, app, tries, expected, id, origin, server>>

-----------------------------------------------------------------------------
(* The calls.                                                              *)

\* A connection's port and initial sequence number come from the clock, which may
\* have moved or not since the last call.
Connect ==
  \E now \in tick .. MaxTick :
  LET port == now % PortRange
      isn == (now * IsnStep) % SeqMod
  IN  /\ app = "idle" /\ id < MaxConn
      /\ tick' = now
      /\ conn' = [NoConn EXCEPT !.state = "SynSent", !.port = port,
                                !.sndUna = isn, !.sndNxt = Add(isn, 1)]
      /\ id' = id + 1
      /\ origin' = [origin EXCEPT ![id + 1] = [port |-> port, isn |-> isn]]
      /\ got' = <<>> /\ acked' = {}
      /\ tries' = 0
      /\ app' = "connecting"
      /\ UNCHANGED <<expected, toServer, server>>

\* One more SYN; its number is the oldest unacknowledged one.
SendSyn ==
  /\ app = "connecting" /\ conn.state = "SynSent" /\ tries < SynTries
  /\ toServer' = toServer \cup {Emitted(conn, conn.sndUna, {"SYN"}, 0)}
  /\ tries' = tries + 1
  /\ UNCHANGED <<tick, conn, app, expected, id, origin, got, acked, server>>

\* The address cannot be resolved: connect returns and leaves CONN as it is.
ConnectFails ==
  /\ app = "connecting" /\ conn.state = "SynSent" /\ tries < SynTries
  /\ app' = "idle"
  /\ tries' = 0
  /\ UNCHANGED <<tick, conn, expected, id, origin, got, acked, toServer, server>>

ConnectTimesOut ==
  /\ app = "connecting" /\ conn.state = "SynSent" /\ tries = SynTries
  /\ conn' = NoConn /\ got' = <<>> /\ acked' = {}
  /\ app' = "idle"
  /\ tries' = 0
  /\ UNCHANGED <<tick, expected, id, origin, toServer, server>>

\* Established, or refused.
ConnectReturns ==
  /\ app = "connecting" /\ conn.state # "SynSent"
  /\ app' = IF conn.reset THEN "idle" ELSE "ready"
  /\ tries' = 0
  /\ UNCHANGED <<tick, conn, expected, id, origin, got, acked, toServer, server>>

\* One chunk of send; segments may be handled before snd_nxt is moved.
Send(len) ==
  /\ app = "ready" /\ conn.state = "Established"
  /\ Ahead(origin[id].isn, conn.sndNxt) - 1 + len <= RequestLen
  /\ toServer' = toServer \cup {Emitted(conn, conn.sndNxt, {"PSH", "ACK"}, len)}
  /\ expected' = Add(conn.sndNxt, len)
  /\ app' = "emitted"
  /\ UNCHANGED <<tick, conn, tries, id, origin, got, acked, server>>

SendRecorded ==
  /\ app = "emitted"
  /\ conn' = [conn EXCEPT !.sndNxt = expected]
  /\ app' = "sending"
  /\ UNCHANGED <<tick, tries, expected, id, origin, got, acked, toServer, server>>

SendOver == SeqLe(expected, conn.sndUna) \/ conn.reset \/ conn.remoteClosed

SendReturns ==
  /\ app = "sending" /\ SendOver
  /\ app' = "ready"
  /\ expected' = 0
  /\ UNCHANGED <<tick, conn, tries, id, origin, got, acked, toServer, server>>

\* No data is ever sent twice: the callers close, as they do when send finds the
\* connection gone and sends nothing.
SendTimesOut ==
  /\ app = "sending" /\ ~SendOver
  /\ app' = "failed"
  /\ expected' = 0
  /\ UNCHANGED <<tick, conn, tries, id, origin, got, acked, toServer, server>>

\* recv_some and recv_to_end hand over what has arrived.
Recv ==
  /\ app = "ready" /\ conn.rx > 0
  /\ conn' = [conn EXCEPT !.rx = 0]
  /\ UNCHANGED <<tick, app, tries, expected, id, origin, got, acked, toServer, server>>

Close ==
  /\ app \in {"ready", "failed"}
  /\ IF conn.state = "Established"
     THEN /\ conn' = [conn EXCEPT !.state = "FinWait"]
          /\ toServer' = toServer \cup {Emitted(conn, conn.sndNxt, {"FIN", "ACK"}, 0)}
     ELSE UNCHANGED <<conn, toServer>>
  /\ app' = "closing"
  /\ UNCHANGED <<tick, tries, expected, id, origin, got, acked, server>>

Closed ==
  /\ app = "closing"
  /\ conn' = NoConn /\ got' = <<>> /\ acked' = {}
  /\ app' = "idle"
  /\ UNCHANGED <<tick, tries, expected, id, origin, toServer, server>>

-----------------------------------------------------------------------------
Init ==
  /\ tick = 0 /\ conn = NoConn /\ app = "idle" /\ tries = 0 /\ expected = 0
  /\ id = 0 /\ origin = [c \in Id |-> [port |-> 0, isn |-> 0]]
  /\ got = <<>> /\ acked = {} /\ toServer = {}
  /\ server = [c \in Id |-> NoServer]

Call ==
  \/ Connect \/ SendSyn \/ ConnectFails \/ ConnectTimesOut \/ ConnectReturns
  \/ (\E len \in 1 .. RequestLen : Send(len)) \/ SendRecorded \/ SendReturns
  \/ SendTimesOut \/ Recv \/ Close \/ Closed

Next == Call \/ Handle \/ ServerSyn \/ ServerReceives \/ ServerEnds

Spec == Init /\ [][Next]_vars
-----------------------------------------------------------------------------
(* What the code promises.                                                 *)

TypeOK ==
  /\ tick \in 0 .. MaxTick /\ id \in 0 .. MaxConn /\ tries \in 0 .. SynTries
  /\ expected \in Seqno
  /\ conn \in [state : {"None", "Closed", "SynSent", "Established", "FinWait"},
               port : 0 .. PortRange - 1, sndNxt : Seqno, sndUna : Seqno, rcvNxt : Seqno,
               rx : 0 .. MAX_RX_BYTES, remoteClosed : BOOLEAN, reset : BOOLEAN]
  /\ app \in {"idle", "connecting", "ready", "emitted", "sending", "failed", "closing"}
  /\ origin \in [Id -> [port : 0 .. PortRange - 1, isn : Seqno]]
  /\ got \in Seq(Byte) /\ acked \subseteq Seqno

\* No earlier connection had the port of the latest one.
FreshPort == \A c \in 1 .. id - 1 : origin[c].port # origin[id].port

IsPrefix == \A k \in DOMAIN got : got[k] = <<id, k>>

\* What a caller receives is the server's stream on this connection, from its
\* first byte on, without a gap, a repetition or a byte of an earlier connection,
\* whatever the network does: provided the port is new.
StreamIsPrefix == FreshPort => IsPrefix

\* A FIN counts only when everything before it is in: if the connection shows
\* the peer closed, the reply is complete.
CompleteWhenClosed == FreshPort /\ conn.remoteClosed => Len(got) = ReplyLen

\* What the client takes as acknowledged has reached the server, also when the
\* acknowledgement arrives before snd_nxt has been moved.
AckedIsReceived ==
  FreshPort /\ conn.state \in {"Established", "FinWait"} =>
    Ahead(Add(origin[id].isn, 1), conn.sndUna) <= server[id].rcvd

\* The client acknowledges only bytes it has kept: a reply larger than the
\* buffer is not cut out of the middle.
NeverAcksWhatItDropped ==
  FreshPort => \A a \in acked :
    Ahead(Add(Iss(id), 1), a) <= Len(got) + (IF conn.remoteClosed THEN 1 ELSE 0)

\* tcp.rs:101-102: the port is "varied per connection so a quick reconnect to the
\* same server is not confused with the previous one".
ReconnectNotConfused == IsPrefix
=============================================================================
