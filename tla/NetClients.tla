------------------------------ MODULE NetClients ------------------------------
(***************************************************************************)
(* What the network stack asks of others over UDP: an address of a DHCP    *)
(* server (kernel/src/net/dhcp.rs) and the addresses of names of a DNS     *)
(* resolver (dns.rs), through the ports and the one queue of udp.rs.  One  *)
(* call runs at a time, polling.  What a server answers may be lost, late  *)
(* or delivered again at any time: an answer that was once on the wire     *)
(* stays a possible next datagram.                                         *)
(***************************************************************************)
EXTENDS Naturals, Sequences, FiniteSets, SequencesExt

CONSTANTS
  Names,       \* to resolve; a name stands for its address, too
  Servers,     \* DHCP servers, each with one address to lease
  None,        \* neither a name nor a server
  MAX_QUEUED,
  DhcpTries, DnsTries,
  MaxTick,     \* bound: how far the clock runs
  MaxCalls     \* bound: calls in a behaviour

VARIABLES
  tick,
  config,     \* IFACE: the server whose address is in use, or None
  bound,      \* BOUND
  queue,      \* QUEUE
  cache,      \* CACHE of dns.rs: the address remembered for a name, or None
  call,       \* the call that runs
  wire,       \* what may still be delivered to us
  calls,      \* history: calls so far
  committed,  \* history: the servers that acknowledged a lease
  clash       \* history: lookups of two names had the same query id

vars == <<tick, config, bound, queue, cache, call, wire, calls, committed, clash>>

CLIENT_PORT == "dhcp"
\* 40000 + id % 20000: different ids may share a port.
PortOf(id) == id % 2
Ports == {<<CLIENT_PORT, 0>>} \cup {<<"dns", p>> : p \in 0 .. 1}
DhcpPort == <<CLIENT_PORT, 0>>
DnsPort(id) == <<"dns", PortOf(id)>>

\* subject is the leasing server, or the name asked for; to is whom it is for.
Datagram(port, kind, id, subject, to) ==
  [port |-> port, kind |-> kind, id |-> id, subject |-> subject, to |-> to]

NoCall == [op |-> "none", id |-> 0, subject |-> None, tries |-> 0, deadline |-> 0]

\* xid and the query id are made of the MAC address and the clock.
NewId == tick

-----------------------------------------------------------------------------
(* What sending a message may bring onto the wire.                           *)

Offers(id) == {Datagram(DhcpPort, "offer", id, s, None) : s \in Servers}

\* The server asked for acknowledges; one that knows better may refuse.
Decisions(id, s) ==
  {Datagram(DhcpPort, "ack", id, s, None)} \cup
  {Datagram(DhcpPort, "nak", id, t, None) : t \in Servers}

Answer(id, n) == Datagram(DnsPort(id), "answer", id, n, config)

Attempt(op, id, subject, tries) ==
  [op |-> op, id |-> id, subject |-> subject, tries |-> tries, deadline |-> tick + 1]

SendDiscover(id, tries) ==
  /\ call' = Attempt("discover", id, None, tries)
  /\ wire' = wire \cup Offers(id)
  /\ UNCHANGED committed

SendRequest(id, s, tries) ==
  /\ call' = Attempt("request", id, s, tries)
  /\ \E answer \in Decisions(id, s) :
       /\ wire' = wire \cup {answer}
       /\ committed' = IF answer.kind = "ack" THEN committed \cup {answer.subject} ELSE committed

SendQuery(id, n, tries) ==
  /\ call' = Attempt("lookup", id, n, tries)
  /\ wire' = wire \cup {Answer(id, n)}
  /\ UNCHANGED committed

-----------------------------------------------------------------------------
(* udp.rs                                                                    *)

\* The sequence of the datagrams at these places, in their order; there is one.
Kept(places) ==
  {[i \in DOMAIN f |-> queue[f[i]]] :
     f \in {g \in [1 .. Cardinality(places) -> places] : \A i, j \in DOMAIN g : i < j => g[i] < g[j]}}

Unbind(port) ==
  /\ bound' = bound \ {port}
  /\ queue' \in Kept({i \in DOMAIN queue : queue[i].port # port})

\* poll and udp::handle: for us, on a port that is bound; the oldest of any
\* port makes room.
Deliver(d) ==
  /\ call # NoCall
  /\ config = None \/ d.to \in {config, None}
  /\ d.port \in bound
  /\ queue' = Append(IF Len(queue) >= MAX_QUEUED THEN Tail(queue) ELSE queue, d)
  /\ UNCHANGED <<tick, config, bound, cache, call, wire, calls, committed, clash>>

\* recv: the oldest datagram for the port.
At(port) == SelectInSeq(queue, LAMBDA d : d.port = port)

-----------------------------------------------------------------------------
(* The calls.                                                                *)

\* dhcp::configure: the old address is given up first.
Configure ==
  /\ call = NoCall /\ calls < MaxCalls
  /\ calls' = calls + 1
  /\ config' = None
  /\ bound' = bound \cup {DhcpPort}
  /\ SendDiscover(NewId, 1)
  /\ UNCHANGED <<tick, queue, cache, clash>>

\* dns::resolve of a name that is not cached.
Resolve(n) ==
  /\ call = NoCall /\ calls < MaxCalls
  /\ cache[n] = None /\ config # None
  /\ calls' = calls + 1
  /\ bound' = bound \cup {DnsPort(NewId)}
  /\ clash' = (clash \/ \E d \in wire : d.kind = "answer" /\ d.id = NewId /\ d.subject # n)
  /\ SendQuery(NewId, n, 1)
  /\ UNCHANGED <<tick, config, queue, cache>>

Finish(port) == call' = NoCall /\ Unbind(port)

\* A variant that takes any reply for the one it waits for (for the mutation
\* checks).
ExpectsAnything(d) == d.kind # "nak"

Expects(d) == d.kind = IF call.op = "discover" THEN "offer" ELSE "ack"

\* exchange: what is not for this exchange is thrown away.
RecvDhcp ==
  LET i == At(DhcpPort)
      d == queue[i]
  IN  /\ call.op \in {"discover", "request"}
      /\ i # 0
      /\ \/ /\ d.id # call.id \/ (~Expects(d) /\ d.kind # "nak")
            /\ queue' = RemoveAt(queue, i)
            /\ UNCHANGED <<config, bound, call, wire, committed>>
         \/ /\ d.id = call.id /\ Expects(d) /\ call.op = "discover"
            /\ queue' = RemoveAt(queue, i)
            /\ SendRequest(call.id, d.subject, 1)
            /\ UNCHANGED <<config, bound>>
         \/ /\ d.id = call.id /\ Expects(d) /\ call.op = "request"
            /\ config' = d.subject
            /\ Finish(DhcpPort)
            /\ UNCHANGED <<wire, committed>>
         \/ /\ d.id = call.id /\ d.kind = "nak"
            /\ Finish(DhcpPort)
            /\ UNCHANGED <<config, wire, committed>>
      /\ UNCHANGED <<tick, cache, calls, clash>>

\* A variant that takes whatever comes to the port (for the mutation checks).
AnyQuery(d) == TRUE

\* parse_response: the id, and nothing of the question.
ForThisQuery(d) == d.id = call.id

RecvDns ==
  LET port == DnsPort(call.id)
      i == At(port)
      d == queue[i]
  IN  /\ call.op = "lookup"
      /\ i # 0
      /\ IF ForThisQuery(d)
         THEN /\ cache' = [cache EXCEPT ![call.subject] = d.subject]
              /\ Finish(port)
         ELSE /\ queue' = RemoveAt(queue, i)
              /\ UNCHANGED <<cache, bound, call>>
      /\ UNCHANGED <<tick, config, wire, calls, committed, clash>>

\* The deadline of an attempt: ask again, or give up.
Expire ==
  /\ call # NoCall /\ tick >= call.deadline
  /\ LET most == IF call.op = "lookup" THEN DnsTries ELSE DhcpTries
         port == IF call.op = "lookup" THEN DnsPort(call.id) ELSE DhcpPort
     IN  IF call.tries = most
         THEN Finish(port) /\ UNCHANGED <<wire, committed>>
         ELSE /\ CASE call.op = "discover" -> SendDiscover(call.id, call.tries + 1)
                   [] call.op = "request" -> SendRequest(call.id, call.subject, call.tries + 1)
                   [] call.op = "lookup" -> SendQuery(call.id, call.subject, call.tries + 1)
              /\ UNCHANGED <<bound, queue>>
  /\ UNCHANGED <<tick, config, cache, calls, clash>>

ClockTicks ==
  /\ tick < MaxTick
  /\ tick' = tick + 1
  /\ UNCHANGED <<config, bound, queue, cache, call, wire, calls, committed, clash>>

-----------------------------------------------------------------------------
Init ==
  /\ tick = 0 /\ config = None /\ bound = {} /\ queue = <<>>
  /\ cache = [n \in Names |-> None] /\ call = NoCall /\ wire = {}
  /\ calls = 0 /\ committed = {} /\ clash = FALSE

Next ==
  \/ \E d \in wire : Deliver(d)
  \/ Configure \/ RecvDhcp \/ RecvDns \/ Expire \/ ClockTicks
  \/ \E n \in Names : Resolve(n)

Spec == Init /\ [][Next]_vars

-----------------------------------------------------------------------------
(* Every variable keeps its type.                                            *)
TypeOK ==
  LET datagrams == [port : Ports, kind : {"offer", "ack", "nak", "answer"}, id : 0 .. MaxTick,
                    subject : Names \cup Servers, to : Servers \cup {None}]
  IN  /\ tick \in 0 .. MaxTick /\ calls \in 0 .. MaxCalls
      /\ config \in Servers \cup {None}
      /\ bound \subseteq Ports
      /\ queue \in Seq(datagrams) /\ wire \subseteq datagrams
      /\ cache \in [Names -> Names \cup {None}]
      /\ call.op \in {"none", "discover", "request", "lookup"}
      /\ committed \subseteq Servers /\ clash \in BOOLEAN

(* A name is remembered with its own address, whatever late or repeated      *)
(* answers to earlier questions arrive, as long as the clock has moved on    *)
(* between two lookups: the query id is all that ties an answer to its       *)
(* question (parse_response, "only trust an answer that came back from the   *)
(* resolver we asked").                                                      *)
AnswersTheQuestion == ~clash => \A n \in Names : cache[n] \in {None, n}

(* The address in use is one a server has committed to this machine, not one *)
(* it only offered or refused, however offers, acknowledgements and refusals *)
(* of earlier attempts are delayed (exchange, configure).                    *)
LeaseIsCommitted == config # None => config \in committed
=============================================================================
