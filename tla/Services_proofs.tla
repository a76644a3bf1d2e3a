--------------------------- MODULE Services_proofs ---------------------------
(***************************************************************************)
(* What is proved of the parts that run beside each other: each one's own  *)
(* invariant, and from it the property of the composition.  The proofs of  *)
(* the network card, of the bulk transport, of finding the devices and of  *)
(* the ATA channel are in their modules, the others are here.              *)
(***************************************************************************)
EXTENDS MCServices, Integers, FiniteSetTheorems, WellFoundedInduction, SequenceTheorems, TLAPS

-----------------------------------------------------------------------------
(* A behaviour belongs to one part.                                        *)

\* A step of the composition is a step of the part it belongs to, or changes nothing of it.
LEMMA OnePart ==
  ASSUME [Next]_vars
  PROVE  /\ UNCHANGED part
         /\ part = "card" => [Card!Next]_(Card!vars)
         /\ part = "stack" => [Stack!Next]_(Stack!vars)
         /\ part = "clients" => [Clients!Next]_(Clients!vars)
         /\ part = "secure" => [Secure!Next]_(Secure!vars)
         /\ part = "web" => [Web!Next]_(Web!vars)
         /\ part = "bulk" => [Bulk!Next]_(Bulk!vars)
         /\ part = "input" => [Keyboards!Next]_(Keyboards!vars)
         /\ part = "ports" => [Ports!Next]_(Ports!vars)
         /\ part = "channel" => [Channel!Next]_(Channel!vars)
         /\ part = "installer" => [Setup!Next]_(Setup!vars)
<1>1. CASE Next
  BY <1>1 DEF Next, Only
<1>2. CASE UNCHANGED vars
  BY <1>2 DEF vars, cardVars, stackVars, clientVars, secureVars, webVars, bulkVars, inputVars,
     portVars, channelVars, setupVars,
     Card!vars, Card!rxVars,
     Card!txVars, Stack!vars, Clients!vars, Web!vars, Bulk!vars, Keyboards!vars, Ports!vars, Channel!vars,
     Setup!vars, Secure!vars, Secure!serverVars, Secure!clientVars
<1> QED BY <1>1, <1>2

-----------------------------------------------------------------------------
(* The card, the fetch and the bulk transport.                             *)

\* Also beside the others, the stack gets every good frame once and in order, and what
\* send reported as sent has been sent, for every size of the rings (net/e1000.rs).
THEOREM ServicesFramesPass ==
  ASSUME Card!RingSizes
  PROVE  Spec => []FramesGoThrough
<1> DEFINE I == part = "card" => Card!Inv
<1>1. Init => I
  BY Card!InitInv DEF Init
<1>2. I /\ [Next]_vars => I'
  BY OnePart, Card!StepInv
<1>3. I => FramesGoThrough
  BY Card!InvImplies DEF FramesGoThrough
<1> QED BY <1>1, <1>2, <1>3, PTL DEF Spec

\* The invariant holds in every step of get.
LEMMA FetchStep ==
  ASSUME Web!Limits, Web!Inv, [Web!Next]_(Web!vars)
  PROVE  Web!Inv'
<1> USE DEF Web!Limits, Web!Inv, Web!TypeOK, Web!FetchLeavesNothingOpen, Web!Return, Web!Answers
<1>1. CASE \E u \in Web!Urls : Web!Get(u)
  BY <1>1 DEF Web!Get
<1>2. CASE Web!Resolve
  BY <1>2 DEF Web!Resolve
<1>3. CASE Web!Connect
  BY <1>3 DEF Web!Connect
<1>4. CASE Web!Handshake
  BY <1>4 DEF Web!Handshake
<1>5. CASE Web!Send
  BY <1>5 DEF Web!Send, Web!Closed
<1>6. CASE Web!Recv
  BY <1>6 DEF Web!Recv
<1>7. CASE Web!Parse
  <2>1. /\ at = "parse" /\ answer \in Web!Answers /\ source = url /\ ~open
        /\ UNCHANGED <<open, answer, source, fetches>>
    BY <1>7 DEF Web!Parse
  <2>2. CASE Web!Return(Web!Failed)
    BY <2>1, <2>2
  <2>3. CASE Web!Return(url)
    BY <2>1, <2>3
  <2>4. CASE /\ hops # MAX_REDIRECTS
             /\ \E kind \in {"absolute", "host", "path"}, target \in Web!Targets : url' = Web!NextUrl(kind, target)
             /\ hops' = hops + 1 /\ at' = "resolve" /\ UNCHANGED fetched
    <3>1. url' \in Web!Urls
      BY <2>4 DEF Web!Targets, Web!NextUrl, Web!Urls
    <3>2. hops' \in 1 .. MAX_REDIRECTS
      BY <2>1, <2>4
    <3> QED BY <2>1, <2>4, <3>1, <3>2
  <2>5. \/ Web!Return(Web!Failed) \/ Web!Return(url)
        \/ /\ hops # MAX_REDIRECTS
           /\ \E kind \in {"absolute", "host", "path"}, target \in Web!Targets : url' = Web!NextUrl(kind, target)
           /\ hops' = hops + 1 /\ at' = "resolve" /\ UNCHANGED fetched
    BY <1>7, <2>1 DEF Web!Parse
  <2> QED BY <2>2, <2>3, <2>4, <2>5
<1>8. CASE UNCHANGED Web!vars
  BY <1>8 DEF Web!vars
<1> QED BY <1>1, <1>2, <1>3, <1>4, <1>5, <1>6, <1>7, <1>8 DEF Web!Next

\* No fetch is under way at the start.
LEMMA FetchInit ==
  ASSUME Web!Limits, Web!Init
  PROVE  Web!Inv
<1>1. url \in Web!Urls /\ source \in Web!Urls
  BY DEF Web!Init
<1>2. 0 \in 0 .. MAX_REDIRECTS /\ 0 \in 0 .. MaxFetches
  BY DEF Web!Limits
<1> QED BY <1>1, <1>2 DEF Web!Init, Web!Inv, Web!TypeOK, Web!FetchLeavesNothingOpen

\* Also beside the others, a fetch that has ended leaves no connection open and reports a
\* page under its own address, for any sites and limits (get of net/http.rs).
THEOREM ServicesFetchCloses ==
  ASSUME Web!Limits
  PROVE  Spec => []FetchLeavesNothingOpen
<1> DEFINE I == part = "web" => Web!Inv
<1>1. Init => I
  BY FetchInit DEF Init
<1>2. I /\ [Next]_vars => I'
  BY OnePart, FetchStep
<1>3. I => FetchLeavesNothingOpen
  BY DEF FetchLeavesNothingOpen, Web!Inv
<1> QED BY <1>1, <1>2, <1>3, PTL DEF Spec

\* Also beside the others, a command that returns Ok has been carried out on its own data,
\* for every number of packets and of commands (command of usb/msc.rs).
THEOREM ServicesOkIsDone ==
  ASSUME Bulk!Size
  PROVE  Spec => []OkMeansDone
<1> DEFINE I == part = "bulk" => Bulk!Inv
<1>1. Init => I
  BY Bulk!InitInv DEF Init
<1>2. I /\ [Next]_vars => I'
  BY OnePart, Bulk!StepInv
<1>3. I => OkMeansDone
  BY DEF OkMeansDone, Bulk!Inv
<1> QED BY <1>1, <1>2, <1>3, PTL DEF Spec

\* The devices of the composition: nothing is plugged into itself.
LEMMA PortsTopology ==
  Ports!Topology
<1>1. Ports!Things = {"hub", "keyboard", "drive", "mouse"}
  BY DEF Ports!Things
<1> DEFINE Port == [hub |-> [on |-> "root", n |-> 1], mouse |-> [on |-> "root", n |-> 2],
                    keyboard |-> [on |-> "hub", n |-> 1], drive |-> [on |-> "hub", n |-> 2]]
<1>2. /\ Port["hub"].on = "root" /\ Port["mouse"].on = "root"
      /\ Port["keyboard"].on = "hub" /\ Port["drive"].on = "hub"
  OBVIOUS
<1>3. Port \in [Ports!Things -> [on : Ports!Things \cup {"root"}, n : Nat]]
  BY <1>1
<1>4. \A h, t \in Ports!Things :
        t \in Ports!Behind(h) => \A S \in SUBSET Ports!Things :
          (\A u \in Ports!Things : Port[u].on \in S \cup {h} => u \in S) => t \in S
  BY DEF Ports!Behind
<1> HIDE DEF Port
<1>5. ASSUME NEW t \in Ports!Things, t \in Ports!Behind(t) PROVE FALSE
  <2>1. CASE t = "hub"
    <3>1. {"keyboard", "drive"} \in SUBSET Ports!Things
      BY <1>1
    <3>2. \A u \in Ports!Things : Port[u].on \in {"keyboard", "drive"} \cup {"hub"} => u \in {"keyboard", "drive"}
      BY <1>1, <1>2
    <3>3. t \in {"keyboard", "drive"}
      <4> DEFINE S == {"keyboard", "drive"}
      <4>1. S \in SUBSET Ports!Things /\ \A u \in Ports!Things : Port[u].on \in S \cup {t} => u \in S
        BY <2>1, <3>1, <3>2
      <4> HIDE DEF S
      <4>2. t \in S
        BY <1>4, <1>5, <4>1
      <4> QED BY <4>2 DEF S
    <3> QED BY <2>1, <3>3
  <2>2. CASE t # "hub"
    <3>1. \A u \in Ports!Things : Port[u].on \in {} \cup {t} => u \in {}
      BY <1>1, <1>2, <2>2
    <3> QED BY <1>4, <1>5, <3>1
  <2> QED BY <2>1, <2>2
<1>6. "root" \notin Ports!Things /\ "none" \notin Ports!Things
  BY <1>1
<1> QED BY <1>3, <1>5, <1>6 DEF Ports!Topology, Port

\* Also beside the others, the devices attached on the USB listen alone, for any slots and
\* any number of faults and unpluggings (usb/uhci.rs).
THEOREM ServicesAttachedAreAlone ==
  Spec => []AttachedListenAlone
<1> DEFINE I == part = "ports" => Ports!Inv
<1>1. Init => I
  BY Ports!InitInv, PortsTopology DEF Init
<1>2. I /\ [Next]_vars => I'
  BY OnePart, Ports!StepInv, PortsTopology
<1>3. I => AttachedListenAlone
  BY Ports!InvImplies DEF AttachedListenAlone
<1> QED BY <1>1, <1>2, <1>3, PTL DEF Spec

-----------------------------------------------------------------------------
(* The network clients: what was once on the wire is all a call can be     *)
(* told, and an answer's id ties it to its question.                       *)

\* Cardinality is that of FiniteSets in every part.
LEMMA Cardinalities ==
  ASSUME NEW S
  PROVE  /\ Keyboards!Cardinality(S) = Cardinality(S) /\ Stack!Cardinality(S) = Cardinality(S)
         /\ Clients!Cardinality(S) = Cardinality(S) /\ Secure!Cardinality(S) = Cardinality(S)
BY DEF Keyboards!Cardinality, Stack!Cardinality, Clients!Cardinality, Secure!Cardinality, Cardinality

\* Places of a sequence are finitely many.
LEMMA Places ==
  ASSUME NEW n \in Nat, NEW P \in SUBSET (1 .. n)
  PROVE  Cardinality(P) \in Nat
<1>1. 1 \in Int /\ n \in Int
  OBVIOUS
<1>2. IsFiniteSet(1 .. n)
  BY <1>1, FS_Interval
<1>3. IsFiniteSet(P)
  BY <1>2, FS_Subset
<1> QED BY <1>3, FS_CardinalityType

Told ==
  /\ queue \in Seq(wire)
  /\ \A d \in wire :
       /\ d.kind = "ack" => d.subject \in committed
       /\ d.kind = "answer" \/ d.port = Clients!DhcpPort
       /\ d.kind = "answer" /\ ~clash /\ call.op = "lookup" /\ d.id = call.id => d.subject = call.subject
  /\ config # None => config \in committed
  /\ cache = [n \in Names |-> cache[n]]
  /\ call = Clients!NoCall \/ call.op \in {"discover", "request", "lookup"}
  /\ call.op = "lookup" => call.subject \in Names
  /\ Clients!AnswersTheQuestion

\* Unbinding leaves some of the queue.
LEMMA UnbindLeaves ==
  ASSUME NEW S, queue \in Seq(S), NEW port, Clients!Unbind(port)
  PROVE  queue' \in Seq(S)
<1> DEFINE P == {i \in DOMAIN queue : queue[i].port # port}
<1>1. queue' \in Clients!Kept(P)
  BY DEF Clients!Unbind
<1>2. P \in SUBSET (1 .. Len(queue)) /\ Len(queue) \in Nat /\ \A i \in P : queue[i] \in S
  OBVIOUS
<1> HIDE DEF P
<1>3. Clients!Cardinality(P) \in Nat
  BY <1>2, Places, Cardinalities
<1>4. PICK f \in {g \in [1 .. Clients!Cardinality(P) -> P] : \A i, j \in DOMAIN g : i < j => g[i] < g[j]} :
        queue' = [i \in DOMAIN f |-> queue[f[i]]]
  BY <1>1, Zenon DEF Clients!Kept
<1> DEFINE n == Clients!Cardinality(P)
<1>5. f \in [1 .. n -> P] /\ n \in Nat
  BY <1>3
<1> HIDE DEF n
<1>6. queue' = [i \in 1 .. n |-> queue[f[i]]] /\ \A i \in 1 .. n : queue[f[i]] \in S
  BY <1>2, <1>4, <1>5
<1> QED BY <1>5, <1>6

\* What recv finds in the queue, if anything.
LEMMA AtFinds ==
  ASSUME NEW S, queue \in Seq(S), NEW port, Clients!At(port) # 0
  PROVE  /\ Clients!At(port) \in 1 .. Len(queue)
         /\ queue[Clients!At(port)] \in S /\ queue[Clients!At(port)].port = port
<1> DEFINE I == {i \in 1 .. Len(queue) : queue[i].port = port}
<1>1. Clients!At(port) = IF I # {} THEN Clients!Min(I) ELSE 0
  BY DEF Clients!At, Clients!SelectInSeq
<1>2. I \subseteq Nat /\ I # {}
  BY <1>1
<1> HIDE DEF I
<1>3. \E x \in I : \A y \in I : x <= y
  <2>1. PICK x \in I : \A y \in I : ~ (<<y, x>> \in OpToRel(<, Nat))
    BY <1>2, WFMin, NatLessThanWellFounded
  <2>2. \A y \in I : ~ (y < x)
    BY <1>2, <2>1 DEF OpToRel
  <2> QED BY <1>2, <2>2
<1>4. Clients!Min(I) \in I
  BY <1>3 DEF Clients!Min
<1>5. Clients!At(port) \in I
  BY <1>1, <1>2, <1>4
<1> QED BY <1>5 DEF I

\* A datagram less in the queue.
LEMMA RemoveLeaves ==
  ASSUME NEW S, queue \in Seq(S), NEW i \in 1 .. Len(queue)
  PROVE  Clients!RemoveAt(queue, i) \in Seq(S)
<1>1. SubSeq(queue, 1, i - 1) \in Seq(S) /\ SubSeq(queue, i + 1, Len(queue)) \in Seq(S)
  <2>1. \A j \in 1 .. i - 1 : queue[j] \in S
    OBVIOUS
  <2>2. \A j \in i + 1 .. Len(queue) : queue[j] \in S
    OBVIOUS
  <2> QED BY <2>1, <2>2, SubSeqProperties
<1> QED BY <1>1 DEF Clients!RemoveAt

\* The wire keeps what it has: a queue of it stays one.
LEMMA WireGrows ==
  ASSUME NEW S, NEW T, S \subseteq T, NEW q \in Seq(S)
  PROVE  q \in Seq(T)
OBVIOUS

\* An attempt brings onto the wire what answers it.
LEMMA SendTells ==
  ASSUME NEW id, NEW tries, NEW s,
         \/ Clients!SendDiscover(id, tries)
         \/ Clients!SendRequest(id, s, tries)
         \/ Clients!SendQuery(id, s, tries)
  PROVE  /\ wire \subseteq wire' /\ committed \subseteq committed'
         /\ \A d \in wire' \ wire :
              /\ d.kind = "ack" => d.subject \in committed'
              /\ d.kind = "answer" \/ d.port = Clients!DhcpPort
              /\ d.kind = "answer" => Clients!SendQuery(id, s, tries) /\ d.subject = s
         /\ Clients!SendQuery(id, s, tries) => call'.op = "lookup" /\ call'.id = id /\ call'.subject = s
         /\ ~Clients!SendQuery(id, s, tries) => call'.op \in {"discover", "request"}
<1> USE DEF Clients!Datagram, Clients!Attempt, Clients!DhcpPort
<1>1. CASE Clients!SendDiscover(id, tries)
  <2>1. wire' = wire \cup Clients!Offers(id) /\ UNCHANGED committed /\ call'.op = "discover"
    BY <1>1 DEF Clients!SendDiscover
  <2>2. \A d \in Clients!Offers(id) : d.kind = "offer" /\ d.port = Clients!DhcpPort
    BY DEF Clients!Offers
  <2>3. ~Clients!SendQuery(id, s, tries)
    BY <2>1 DEF Clients!SendQuery
  <2> QED BY <2>1, <2>2, <2>3
<1>2. CASE Clients!SendRequest(id, s, tries)
  <2>1. PICK decision \in Clients!Decisions(id, s) :
          /\ wire' = wire \cup {decision}
          /\ committed' = IF decision.kind = "ack" THEN committed \cup {decision.subject} ELSE committed
    BY <1>2 DEF Clients!SendRequest
  <2>2. decision.kind \in {"ack", "nak"} /\ decision.port = Clients!DhcpPort
    BY DEF Clients!Decisions
  <2>3. call'.op = "request"
    BY <1>2 DEF Clients!SendRequest
  <2>4. ~Clients!SendQuery(id, s, tries)
    BY <2>3 DEF Clients!SendQuery
  <2> QED BY <2>1, <2>2, <2>3, <2>4
<1>3. CASE Clients!SendQuery(id, s, tries)
  <2>1. /\ wire' = wire \cup {Clients!Answer(id, s)} /\ UNCHANGED committed
        /\ call'.op = "lookup" /\ call'.id = id /\ call'.subject = s
    BY <1>3 DEF Clients!SendQuery
  <2>2. Clients!Answer(id, s).kind = "answer" /\ Clients!Answer(id, s).subject = s
    BY DEF Clients!Answer
  <2> QED BY <1>3, <2>1, <2>2
<1> QED BY <1>1, <1>2, <1>3

\* The invariant holds in every step of the clients and of the network between them and the servers.
LEMMA ToldStep ==
  ASSUME None \notin Servers, Told, [Clients!Next]_(Clients!vars)
  PROVE  Told'
<1> USE DEF Told, Clients!AnswersTheQuestion
<1>0. Clients!NoCall.op = "none"
  BY DEF Clients!NoCall
<1>1. CASE \E d \in wire : Clients!Deliver(d)
  <2>1. PICK d \in wire : Clients!Deliver(d)
    BY <1>1
  <2>2. UNCHANGED <<config, cache, call, wire, committed, clash>>
    BY <2>1 DEF Clients!Deliver
  <2>3. queue' = Append(queue, d) \/ (queue' = Append(Tail(queue), d) /\ (queue # <<>> \/ queue = <<>>))
    BY <2>1 DEF Clients!Deliver
  <2>4. queue' \in Seq(wire)
    BY <2>3
  <2> QED BY <2>2, <2>4
<1>2. CASE Clients!Configure
  <2>1. /\ call'.op \in {"discover", "request"} /\ wire \subseteq wire' /\ committed \subseteq committed'
        /\ \A d \in wire' \ wire :
             /\ d.kind = "ack" => d.subject \in committed'
             /\ d.kind = "answer" \/ d.port = Clients!DhcpPort
    <3>1. Clients!SendDiscover(Clients!NewId, 1)
      BY <1>2 DEF Clients!Configure
    <3>2. ~Clients!SendQuery(Clients!NewId, None, 1)
      BY <3>1 DEF Clients!SendQuery, Clients!SendDiscover, Clients!Attempt
    <3> QED BY <3>1, <3>2, SendTells
  <2>2. config' = None /\ UNCHANGED <<queue, cache, clash>>
    BY <1>2 DEF Clients!Configure
  <2>3. queue' \in Seq(wire')
    BY <2>1, <2>2, WireGrows
  <2> QED BY <2>1, <2>2, <2>3
<1>3. CASE \E n \in Names : Clients!Resolve(n)
  <2>1. PICK n \in Names : Clients!Resolve(n)
    BY <1>3
  <2> DEFINE id == Clients!NewId
  <2>2. /\ clash' = (clash \/ \E d \in wire : d.kind = "answer" /\ d.id = id /\ d.subject # n)
        /\ UNCHANGED <<config, queue, cache>> /\ Clients!SendQuery(id, n, 1)
    BY <2>1 DEF Clients!Resolve
  <2> HIDE DEF id
  <2>3. /\ call'.op = "lookup" /\ call'.id = id /\ call'.subject = n
        /\ wire \subseteq wire' /\ committed \subseteq committed'
        /\ \A d \in wire' \ wire :
             /\ d.kind = "ack" => d.subject \in committed'
             /\ d.kind = "answer" \/ d.port = Clients!DhcpPort
             /\ d.kind = "answer" => d.subject = n
    BY <2>2, SendTells
  <2>4. queue' \in Seq(wire')
    BY <2>2, <2>3, WireGrows
  <2> QED BY <2>2, <2>3, <2>4
<1>4. CASE Clients!RecvDhcp
  <2> DEFINE i == Clients!At(Clients!DhcpPort)
             d == queue[i]
  <2>1. i # 0 /\ call.op \in {"discover", "request"} /\ UNCHANGED <<cache, clash>>
    BY <1>4 DEF Clients!RecvDhcp
  <2>2. i \in 1 .. Len(queue) /\ d \in wire
    BY <2>1, AtFinds
  <2>3. Clients!RemoveAt(queue, i) \in Seq(wire)
    BY <2>2, RemoveLeaves
  <2>4. CASE queue' = Clients!RemoveAt(queue, i) /\ UNCHANGED <<config, bound, call, wire, committed>>
    BY <2>1, <2>3, <2>4
  <2>5. CASE /\ queue' = Clients!RemoveAt(queue, i) /\ Clients!SendRequest(call.id, d.subject, 1)
             /\ UNCHANGED <<config, bound>>
    <3>1. ~Clients!SendQuery(call.id, d.subject, 1)
      BY <2>5 DEF Clients!SendQuery, Clients!SendRequest, Clients!Attempt
    <3>2. /\ call'.op \in {"discover", "request"} /\ wire \subseteq wire' /\ committed \subseteq committed'
          /\ \A e \in wire' \ wire :
               /\ e.kind = "ack" => e.subject \in committed'
               /\ e.kind = "answer" \/ e.port = Clients!DhcpPort
      BY <2>5, <3>1, SendTells
    <3>3. queue' \in Seq(wire')
      BY <2>3, <2>5, <3>2, WireGrows
    <3> QED BY <2>1, <2>5, <3>2, <3>3
  <2>6. CASE /\ Clients!Finish(Clients!DhcpPort) /\ UNCHANGED <<wire, committed>>
             /\ config' = config \/ (d.kind = "ack" /\ config' = d.subject)
    <3>1. call' = Clients!NoCall /\ queue' \in Seq(wire)
      BY <2>6, UnbindLeaves DEF Clients!Finish
    <3>2. config' # None => config' \in committed
      BY <2>2, <2>6
    <3> QED BY <1>0, <2>1, <2>6, <3>1, <3>2
  <2>7. Clients!Expects(d) /\ call.op = "request" => d.kind = "ack"
    BY DEF Clients!Expects
  <2> QED BY <1>4, <2>4, <2>5, <2>6, <2>7 DEF Clients!RecvDhcp
<1>5. CASE Clients!RecvDns
  <2> DEFINE port == Clients!DnsPort(call.id)
             i == Clients!At(port)
             d == queue[i]
  <2>1. i # 0 /\ call.op = "lookup" /\ UNCHANGED <<config, wire, committed, clash>>
    BY <1>5 DEF Clients!RecvDns
  <2>2. i \in 1 .. Len(queue) /\ d \in wire /\ d.port = port
    BY <2>1, AtFinds
  <2>3. d.kind = "answer"
    BY <2>2 DEF Clients!DnsPort, Clients!DhcpPort, Clients!CLIENT_PORT
  <2>4. CASE /\ d.id = call.id /\ cache' = [cache EXCEPT ![call.subject] = d.subject]
             /\ Clients!Finish(port)
    <3>1. call' = Clients!NoCall /\ queue' \in Seq(wire)
      BY <2>4, UnbindLeaves DEF Clients!Finish
    <3>2. ~clash => d.subject = call.subject
      BY <2>1, <2>2, <2>3, <2>4
    <3>3. cache' = [n \in Names |-> cache'[n]]
      BY <2>1, <2>4
    <3>4. ~clash => \A n \in Names : cache'[n] \in {None, n}
      BY <2>1, <2>4, <3>2
    <3> QED BY <1>0, <2>1, <3>1, <3>3, <3>4
  <2>5. CASE queue' = Clients!RemoveAt(queue, i) /\ UNCHANGED <<cache, bound, call>>
    <3>1. queue' \in Seq(wire)
      BY <2>2, <2>5, RemoveLeaves
    <3> QED BY <2>1, <2>5, <3>1
  <2> QED BY <1>5, <2>4, <2>5 DEF Clients!RecvDns, Clients!ForThisQuery
<1>6. CASE Clients!Expire
  <2>1. UNCHANGED <<config, cache, clash>>
    BY <1>6 DEF Clients!Expire
  <2>2. CASE \E port : Clients!Finish(port) /\ UNCHANGED <<wire, committed>>
    <3>1. call' = Clients!NoCall /\ queue' \in Seq(wire)
      BY <2>2, UnbindLeaves DEF Clients!Finish
    <3> QED BY <1>0, <2>1, <2>2, <3>1
  <2>3. ASSUME UNCHANGED queue, NEW tries, NEW s,
               \/ Clients!SendDiscover(call.id, tries) \/ Clients!SendRequest(call.id, s, tries)
               \/ Clients!SendQuery(call.id, s, tries) /\ call.op = "lookup" /\ s = call.subject
        PROVE  Told'
    <3> DEFINE again == Clients!SendQuery(call.id, s, tries)
    <3>1. /\ wire \subseteq wire' /\ committed \subseteq committed'
          /\ \A d \in wire' \ wire :
               /\ d.kind = "ack" => d.subject \in committed'
               /\ d.kind = "answer" \/ d.port = Clients!DhcpPort
               /\ d.kind = "answer" => again /\ d.subject = s
          /\ again => call'.op = "lookup" /\ call'.id = call.id /\ call'.subject = s
          /\ ~again => call'.op \in {"discover", "request"}
      BY <2>3, SendTells
    <3>2. again => call.op = "lookup" /\ s = call.subject
      BY <2>3 DEF Clients!SendQuery, Clients!SendDiscover, Clients!SendRequest, Clients!Attempt
    <3> HIDE DEF again
    <3>3. queue' \in Seq(wire')
      BY <2>3, <3>1, WireGrows
    <3> QED BY <2>1, <3>1, <3>2, <3>3
  <2>4. \/ \E port : Clients!Finish(port) /\ UNCHANGED <<wire, committed>>
        \/ UNCHANGED queue /\ Clients!SendDiscover(call.id, call.tries + 1)
        \/ UNCHANGED queue /\ Clients!SendRequest(call.id, call.subject, call.tries + 1)
        \/ UNCHANGED queue /\ call.op = "lookup" /\ Clients!SendQuery(call.id, call.subject, call.tries + 1)
    BY <1>6 DEF Clients!Expire
  <2> QED BY <2>2, <2>3, <2>4
<1>7. CASE Clients!ClockTicks
  <2>1. UNCHANGED <<config, queue, cache, call, wire, committed, clash>>
    BY <1>7 DEF Clients!ClockTicks
  <2> QED BY <2>1
<1>8. CASE UNCHANGED Clients!vars
  <2>1. UNCHANGED <<config, queue, cache, call, wire, committed, clash>>
    BY <1>8 DEF Clients!vars
  <2> QED BY <2>1
<1> QED BY <1>1, <1>2, <1>3, <1>4, <1>5, <1>6, <1>7, <1>8 DEF Clients!Next

-----------------------------------------------------------------------------
(* The stack: a reply that a ping may still take has been heard since the  *)
(* ping began, whatever nested poll handled it.                            *)

Calls ==
  [fn : {"main", "ping", "await", "resolve", "poll"}, dst : Stack!Hosts,
   seq : Seqs \cup {0}, tries : Nat, frames : Seq(Stack!Frames)]

\* The numbers of the pings on a stack, of which there is at most one.
WaitsOf(s) == {s[i].seq : i \in {j \in DOMAIN s : s[j].fn \in {"ping", "await"}}}

Heard ==
  /\ stack \in Seq(Calls) /\ ring \in Seq(Stack!Frames)
  /\ replies \in Seq(Stack!Hosts \X Seqs)
  /\ \A i \in DOMAIN replies : replies[i][2] \in WaitsOf(stack) => replies[i] \in heard
  /\ Stack!PingHearsItsTarget

\* A call that is no ping, on top of a stack.
LEMMA PushWaits ==
  ASSUME NEW c \in Calls, NEW s \in Seq(Calls)
  PROVE  /\ <<c>> \o s \in Seq(Calls)
         /\ WaitsOf(<<c>> \o s) \subseteq WaitsOf(s) \cup {c.seq}
         /\ c.fn \notin {"ping", "await"} => WaitsOf(<<c>> \o s) \subseteq WaitsOf(s)
<1> DEFINE t == <<c>> \o s
<1>1. t \in Seq(Calls) /\ DOMAIN t = 1 .. Len(s) + 1 /\ t[1] = c /\ Len(s) \in Nat
  OBVIOUS
<1>2. \A i \in DOMAIN t : i # 1 => i - 1 \in DOMAIN s /\ t[i] = s[i - 1]
  OBVIOUS
<1> HIDE DEF t
<1>3. WaitsOf(t) \subseteq WaitsOf(s) \cup {c.seq}
  BY <1>1, <1>2 DEF WaitsOf
<1>4. c.fn \notin {"ping", "await"} => WaitsOf(t) \subseteq WaitsOf(s)
  BY <1>1, <1>2 DEF WaitsOf
<1> QED BY <1>1, <1>3, <1>4 DEF t

\* A call less.
LEMMA PopWaits ==
  ASSUME NEW s \in Seq(Calls), s # <<>>
  PROVE  /\ Tail(s) \in Seq(Calls) /\ Head(s) \in Calls
         /\ WaitsOf(Tail(s)) \subseteq WaitsOf(s)
         /\ Head(s).fn \in {"ping", "await"} => Head(s).seq \in WaitsOf(s)
<1> DEFINE t == Tail(s)
<1>1. /\ t \in Seq(Calls) /\ DOMAIN t = 1 .. Len(s) - 1 /\ Len(s) \in Nat /\ Len(s) > 0
      /\ Head(s) = s[1] /\ 1 \in DOMAIN s
  OBVIOUS
<1>2. \A i \in DOMAIN t : i + 1 \in DOMAIN s /\ t[i] = s[i + 1]
  OBVIOUS
<1> HIDE DEF t
<1>3. WaitsOf(t) \subseteq WaitsOf(s)
  BY <1>1, <1>2 DEF WaitsOf
<1>4. Head(s) \in Calls
  BY <1>1
<1>5. Head(s).fn \in {"ping", "await"} => Head(s).seq \in WaitsOf(s)
  BY <1>1 DEF WaitsOf
<1> QED BY <1>1, <1>3, <1>4, <1>5 DEF t

\* The calls that the stack makes.
LEMMA CallTypes ==
  ASSUME Gateway \in Local
  PROVE  /\ \A h \in Stack!Hosts, n \in Seqs : Stack!Ping(h, n) \in Calls /\ Stack!Ping(h, n).seq = n
         /\ \A h \in Stack!Hosts, n \in Seqs \cup {0} : Stack!Await(h, n) \in Calls /\ Stack!Await(h, n).seq = n
         /\ \A h \in Stack!Hosts, n \in Nat : Stack!Resolve(h, n) \in Calls /\ Stack!Resolve(h, n).fn = "resolve"
         /\ \A f \in Seq(Stack!Frames) : Stack!Poll(f) \in Calls /\ Stack!Poll(f).fn = "poll"
<1>1. Gateway \in Stack!Hosts /\ <<>> \in Seq(Stack!Frames)
  BY DEF Stack!Hosts
<1>2. Stack!Empty \in Calls
  BY <1>1 DEF Calls, Stack!Empty
<1>3. ASSUME NEW h \in Stack!Hosts, NEW n \in Seqs \cup {0}
      PROVE  Stack!Ping(h, n) \in Calls /\ Stack!Ping(h, n).seq = n
  BY <1>2 DEF Calls, Stack!Ping
<1>4. ASSUME NEW h \in Stack!Hosts, NEW n \in Seqs \cup {0}
      PROVE  Stack!Await(h, n) \in Calls /\ Stack!Await(h, n).seq = n
  BY <1>3 DEF Calls, Stack!Await
<1>5. ASSUME NEW h \in Stack!Hosts, NEW n \in Nat
      PROVE  Stack!Resolve(h, n) \in Calls /\ Stack!Resolve(h, n).fn = "resolve"
  BY <1>2 DEF Calls, Stack!Resolve
<1>6. ASSUME NEW f \in Seq(Stack!Frames)
      PROVE  Stack!Poll(f) \in Calls /\ Stack!Poll(f).fn = "poll"
  BY <1>2 DEF Calls, Stack!Poll
<1> QED BY <1>3, <1>4, <1>5, <1>6

\* What ip::send leaves of the stack when it has sent, has not, or waits for an address.
LEMMA SendWaits ==
  ASSUME Gateway \in Local, NEW s \in Seq(Calls)
  PROVE  /\ Stack!Sent(s) \in Seq(Calls) /\ WaitsOf(Stack!Sent(s)) \subseteq WaitsOf(s)
         /\ Stack!NotSent(s) \in Seq(Calls) /\ WaitsOf(Stack!NotSent(s)) \subseteq WaitsOf(s)
         /\ \A h \in Stack!Hosts : \A known :
              /\ Stack!Sending(h, s, known) \in Seq(Calls)
              /\ WaitsOf(Stack!Sending(h, s, known)) \subseteq WaitsOf(s)
<1>1. Stack!Sent(s) \in Seq(Calls) /\ WaitsOf(Stack!Sent(s)) \subseteq WaitsOf(s)
  <2>1. CASE s # <<>> /\ Head(s).fn = "ping"
    <3> DEFINE c == Stack!Await(Head(s).dst, Head(s).seq)
    <3>1. Stack!Sent(s) = <<c>> \o Tail(s)
      BY <2>1 DEF Stack!Sent
    <3>2. Head(s).dst \in Stack!Hosts /\ Head(s).seq \in Seqs \cup {0}
      BY <2>1, PopWaits DEF Calls
    <3>3. c \in Calls /\ c.seq = Head(s).seq
      BY <3>2, CallTypes
    <3> HIDE DEF c
    <3> QED BY <2>1, <3>1, <3>3, PopWaits, PushWaits
  <2>2. CASE ~ (s # <<>> /\ Head(s).fn = "ping")
    BY <2>2 DEF Stack!Sent
  <2> QED BY <2>1, <2>2
<1>2. Stack!NotSent(s) \in Seq(Calls) /\ WaitsOf(Stack!NotSent(s)) \subseteq WaitsOf(s)
  BY PopWaits DEF Stack!NotSent
<1>3. ASSUME NEW h \in Stack!Hosts, NEW known
      PROVE  /\ Stack!Sending(h, s, known) \in Seq(Calls)
             /\ WaitsOf(Stack!Sending(h, s, known)) \subseteq WaitsOf(s)
  <2> DEFINE c == Stack!Resolve(Stack!NextHop(h), 1)
  <2>1. Stack!NextHop(h) \in Stack!Hosts
    BY DEF Stack!NextHop, Stack!Hosts
  <2>2. c \in Calls /\ c.fn = "resolve"
    BY <2>1, CallTypes
  <2>3. Stack!Sending(h, s, known) = Stack!Sent(s) \/ Stack!Sending(h, s, known) = <<c>> \o s
    BY DEF Stack!Sending
  <2> HIDE DEF c
  <2> QED BY <1>1, <2>2, <2>3, PushWaits
<1> QED BY <1>1, <1>2, <1>3

\* Forgetting leaves replies with other numbers.
LEMMA ForgetLeaves ==
  ASSUME NEW S, replies \in Seq(S), NEW n, NEW rest \in Stack!Forget(n)
  PROVE  /\ rest \in Seq(S)
         /\ \A i \in DOMAIN rest : rest[i][2] # n /\ \E j \in DOMAIN replies : rest[i] = replies[j]
<1> DEFINE P == {i \in DOMAIN replies : replies[i][2] # n}
<1>1. rest \in Stack!Kept(replies, P)
  BY DEF Stack!Forget
<1>2. P \in SUBSET (1 .. Len(replies)) /\ Len(replies) \in Nat
      /\ \A i \in P : i \in DOMAIN replies /\ replies[i] \in S /\ replies[i][2] # n
  OBVIOUS
<1> HIDE DEF P
<1>3. Stack!Cardinality(P) \in Nat
  BY <1>2, Places, Cardinalities
<1>4. PICK f \in {g \in [1 .. Stack!Cardinality(P) -> P] : \A i, j \in DOMAIN g : i < j => g[i] < g[j]} :
        rest = [i \in DOMAIN f |-> replies[f[i]]]
  BY <1>1, Zenon DEF Stack!Kept
<1> DEFINE m == Stack!Cardinality(P)
<1>5. f \in [1 .. m -> P] /\ m \in Nat
  BY <1>3
<1> HIDE DEF m
<1>6. rest = [i \in 1 .. m |-> replies[f[i]]] /\ \A i \in 1 .. m : replies[f[i]] \in S
  BY <1>2, <1>4, <1>5
<1>7. \A i \in 1 .. m : f[i] \in P /\ rest[i] = replies[f[i]]
  BY <1>5, <1>6
<1>8. DOMAIN rest = 1 .. m /\ rest \in Seq(S)
  BY <1>5, <1>6
<1>9. ASSUME NEW i \in DOMAIN rest
      PROVE  rest[i][2] # n /\ \E j \in DOMAIN replies : rest[i] = replies[j]
  BY <1>2, <1>7, <1>8
<1> QED BY <1>8, <1>9

\* The invariant holds in every step of the stack.
LEMMA HeardStep ==
  ASSUME Gateway \in Local, Heard, [Stack!Next]_(Stack!vars)
  PROVE  Heard'
<1> DEFINE Replies == Seq(Stack!Hosts \X Seqs)
           Taken(rs, ss, ts) == \A i \in DOMAIN rs : rs[i][2] \in WaitsOf(ss) => rs[i] \in ts
<1>0. /\ stack \in Seq(Calls) /\ ring \in Seq(Stack!Frames) /\ replies \in Replies
      /\ Taken(replies, stack, heard) /\ Stack!PingHearsItsTarget
  BY DEF Heard
<1>a. SUFFICES /\ stack' \in Seq(Calls) /\ ring' \in Seq(Stack!Frames) /\ replies' \in Replies
               /\ Taken(replies', stack', heard') /\ Stack!PingHearsItsTarget'
  BY DEF Heard
<1>b. stack # <<>> => Stack!Top = Head(stack)
  BY DEF Stack!Top
<1>c. Stack!Top.fn # "main" => stack # <<>>
  BY DEF Stack!Top, Stack!Empty
<1>d. ASSUME UNCHANGED <<replies, heard, result, ring>>, stack' \in Seq(Calls), WaitsOf(stack') \subseteq WaitsOf(stack)
      PROVE  /\ ring' \in Seq(Stack!Frames) /\ replies' \in Replies
             /\ Taken(replies', stack', heard') /\ Stack!PingHearsItsTarget'
  BY <1>0, <1>d DEF Stack!PingHearsItsTarget
<1>1. CASE \E f \in Stack!Frames : Stack!Arrive(f)
  BY <1>0, <1>1 DEF Stack!Arrive, Stack!PingHearsItsTarget
<1>2. CASE Stack!PollBegins
  <2>1. /\ stack' = <<Stack!Poll(ring)>> \o stack /\ ring' = <<>> /\ UNCHANGED <<replies, heard, result>>
    BY <1>2 DEF Stack!PollBegins
  <2>2. Stack!Poll(ring) \in Calls /\ Stack!Poll(ring).fn = "poll"
    BY <1>0, CallTypes
  <2>3. stack' \in Seq(Calls) /\ WaitsOf(stack') \subseteq WaitsOf(stack)
    BY <1>0, <2>1, <2>2, PushWaits
  <2> QED BY <1>0, <2>1, <2>3 DEF Stack!PingHearsItsTarget
<1>3. CASE Stack!Dispatch
  <2> DEFINE frames == Stack!Top.frames
             f == Head(frames)
             rest == <<Stack!Poll(Tail(frames))>> \o Tail(stack)
  <2>1. /\ Stack!Top.fn = "poll" /\ frames # <<>> /\ UNCHANGED <<ring, result>>
        /\ stack' = rest \/ stack' = Stack!Sending(f.src, rest, arp')
    BY <1>3 DEF Stack!Dispatch
  <2>2. \/ UNCHANGED <<replies, heard>>
        \/ /\ f.kind = "echoReply" /\ heard' = heard \cup {<<f.src, f.seq>>}
           /\ replies' = Append(replies, <<f.src, f.seq>>) \/ UNCHANGED replies
    BY <1>3 DEF Stack!Dispatch
  <2>3. stack # <<>> /\ frames \in Seq(Stack!Frames)
    <3>1. stack # <<>>
      BY <1>c, <2>1
    <3>2. Head(stack) \in Calls
      BY <1>0, <3>1, PopWaits
    <3> QED BY <1>b, <3>1, <3>2 DEF Calls
  <2>4. f \in Stack!Frames /\ Tail(frames) \in Seq(Stack!Frames)
    <3> HIDE DEF frames
    <3> QED BY <2>1, <2>3
  <2>5. f.src \in Stack!Hosts /\ (f.kind = "echoReply" => f.seq \in Seqs)
    <3> HIDE DEF f
    <3> QED BY <2>4 DEF Stack!Frames, Stack!Hosts
  <2>6. Stack!Poll(Tail(frames)) \in Calls /\ Stack!Poll(Tail(frames)).fn = "poll"
    BY <2>4, CallTypes
  <2>7. Tail(stack) \in Seq(Calls) /\ WaitsOf(Tail(stack)) \subseteq WaitsOf(stack)
    BY <1>0, <2>3, PopWaits
  <2>8. rest \in Seq(Calls) /\ WaitsOf(rest) \subseteq WaitsOf(stack)
    BY <2>6, <2>7, PushWaits
  <2> HIDE DEF f, frames, rest
  <2>9. stack' \in Seq(Calls) /\ WaitsOf(stack') \subseteq WaitsOf(stack)
    BY <2>1, <2>5, <2>8, SendWaits
  <2>10. CASE UNCHANGED <<replies, heard>>
    BY <1>d, <2>1, <2>9, <2>10
  <2>11. CASE /\ f.kind = "echoReply" /\ heard' = heard \cup {<<f.src, f.seq>>}
              /\ replies' = Append(replies, <<f.src, f.seq>>) \/ UNCHANGED replies
    <3>1. <<f.src, f.seq>> \in Stack!Hosts \X Seqs
      BY <2>5, <2>11
    <3>2. replies' \in Replies /\ \A i \in DOMAIN replies' :
            replies'[i] = <<f.src, f.seq>> \/ (i \in DOMAIN replies /\ replies'[i] = replies[i])
      <4> DEFINE S == Stack!Hosts \X Seqs
                 r == <<f.src, f.seq>>
      <4>1. r \in S /\ replies \in Seq(S) /\ (replies' = Append(replies, r) \/ replies' = replies)
        BY <1>0, <2>11, <3>1
      <4> HIDE DEF S, r
      <4>2. replies' \in Seq(S) /\ \A i \in DOMAIN replies' :
              replies'[i] = r \/ (i \in DOMAIN replies /\ replies'[i] = replies[i])
        BY <4>1
      <4> QED BY <4>2 DEF S, r
    <3>3. Taken(replies', stack', heard')
      BY <1>0, <2>9, <2>11, <3>2
    <3> QED BY <1>0, <2>1, <2>9, <2>11, <3>2, <3>3 DEF Stack!PingHearsItsTarget
  <2> QED BY <2>2, <2>10, <2>11
<1>4. CASE Stack!PollEnds \/ Stack!PingExpires
  <2>1. stack' = Tail(stack) /\ UNCHANGED <<replies, heard, result, ring>> /\ Stack!Top.fn # "main"
    BY <1>4 DEF Stack!PollEnds, Stack!PingExpires
  <2>2. stack' \in Seq(Calls) /\ WaitsOf(stack') \subseteq WaitsOf(stack)
    BY <1>0, <1>c, <2>1, PopWaits
  <2> QED BY <1>d, <2>1, <2>2
<1>5. CASE Stack!Resolved \/ Stack!ResolveExpires
  <2>1. /\ Stack!Top.fn = "resolve" /\ UNCHANGED <<replies, heard, result, ring>>
        /\ \/ stack' = Stack!Sent(Tail(stack)) \/ stack' = Stack!NotSent(Tail(stack))
           \/ stack' = <<Stack!Resolve(Stack!Top.dst, Stack!Top.tries + 1)>> \o Tail(stack)
    BY <1>5 DEF Stack!Resolved, Stack!ResolveExpires
  <2>2. stack # <<>> /\ Stack!Top \in Calls /\ Tail(stack) \in Seq(Calls) /\ WaitsOf(Tail(stack)) \subseteq WaitsOf(stack)
    BY <1>0, <1>b, <1>c, <2>1, PopWaits
  <2> DEFINE c == Stack!Resolve(Stack!Top.dst, Stack!Top.tries + 1)
  <2>3. c \in Calls /\ c.fn = "resolve"
    <3>1. Stack!Top.dst \in Stack!Hosts /\ Stack!Top.tries + 1 \in Nat
      BY <2>2 DEF Calls
    <3> QED BY <3>1, CallTypes
  <2> HIDE DEF c
  <2>4. stack' \in Seq(Calls) /\ WaitsOf(stack') \subseteq WaitsOf(stack)
    BY <2>1, <2>2, <2>3, PushWaits, SendWaits DEF c
  <2> QED BY <1>d, <2>1, <2>4
<1>6. CASE \E dst \in Stack!Hosts, n \in Seqs : Stack!StartPing(dst, n)
  <2>1. PICK dst \in Stack!Hosts, n \in Seqs : Stack!StartPing(dst, n)
    BY <1>6
  <2> DEFINE s == <<Stack!Ping(dst, n)>>
  <2>2. /\ replies' \in Stack!Forget(n) /\ stack' = Stack!Sending(dst, s, arp) /\ heard' = {}
        /\ result' = Stack!Idle /\ UNCHANGED ring
    BY <2>1 DEF Stack!StartPing
  <2>3. s \in Seq(Calls) /\ WaitsOf(s) \subseteq {n}
    <3>1. Stack!Ping(dst, n) \in Calls /\ Stack!Ping(dst, n).seq = n
      BY CallTypes
    <3> QED BY <3>1 DEF WaitsOf
  <2> HIDE DEF s
  <2>4. stack' \in Seq(Calls) /\ WaitsOf(stack') \subseteq {n}
    BY <2>2, <2>3, SendWaits
  <2>5. replies' \in Replies /\ \A i \in DOMAIN replies' : replies'[i][2] # n
    BY <1>0, <2>2, ForgetLeaves
  <2>6. Taken(replies', stack', heard')
    BY <2>4, <2>5
  <2> QED BY <1>0, <2>2, <2>4, <2>5, <2>6 DEF Stack!PingHearsItsTarget, Stack!Idle
<1>7. CASE Stack!PingAnswered
  <2>1. /\ Stack!Top.fn = "await" /\ <<Stack!Top.dst, Stack!Top.seq>> \in Stack!Range(replies)
        /\ replies' \in Stack!Forget(Stack!Top.seq)
        /\ result' = [dst |-> Stack!Top.dst, seq |-> Stack!Top.seq, ok |-> TRUE]
        /\ stack' = Tail(stack) /\ UNCHANGED <<ring, heard>>
    BY <1>7 DEF Stack!PingAnswered
  <2>2. /\ stack # <<>> /\ stack' \in Seq(Calls) /\ WaitsOf(stack') \subseteq WaitsOf(stack)
        /\ Stack!Top.seq \in WaitsOf(stack)
    BY <1>0, <1>b, <1>c, <2>1, PopWaits
  <2>3. <<Stack!Top.dst, Stack!Top.seq>> \in heard
    <3>1. PICK i \in DOMAIN replies : replies[i] = <<Stack!Top.dst, Stack!Top.seq>>
      BY <2>1 DEF Stack!Range
    <3>2. replies[i][2] = Stack!Top.seq
      BY <3>1
    <3>3. replies[i] \in heard
      BY <1>0, <2>2, <3>1, <3>2
    <3> QED BY <3>1, <3>3
  <2>4. /\ replies' \in Replies
        /\ \A i \in DOMAIN replies' : \E j \in DOMAIN replies : replies'[i] = replies[j]
    BY <1>0, <2>1, ForgetLeaves
  <2>5. Taken(replies', stack', heard')
    BY <1>0, <2>1, <2>2, <2>4
  <2> QED BY <1>0, <2>1, <2>2, <2>3, <2>4, <2>5 DEF Stack!PingHearsItsTarget
<1>8. CASE UNCHANGED Stack!vars
  <2>1. UNCHANGED <<stack, replies, heard, result, ring>>
    BY <1>8 DEF Stack!vars
  <2> QED BY <1>0, <1>d, <2>1
<1> QED BY <1>1, <1>2, <1>3, <1>4, <1>5, <1>6, <1>7, <1>8 DEF Stack!Next

\* However late, lost, repeated or reordered the datagrams are: a name is remembered with
\* its own address unless two lookups had one id, an address in use is one that a server
\* has committed, and a ping that succeeds has heard its target since it began, for every
\* number of names, servers, hosts and tries and every length of the queues (net/dns.rs,
\* net/dhcp.rs, net/icmp.rs).
THEOREM ServicesAnswersAreToTheQuestion ==
  ASSUME None \notin Servers, Gateway \in Local
  PROVE  Spec => []AnswersAreToTheQuestion
<1> DEFINE I == (part = "clients" => Told) /\ (part = "stack" => Heard)
<1>1. Init => I
  <2> SUFFICES ASSUME Clients!Init, Stack!Init PROVE Told /\ Heard
    BY DEF Init
  <2>1. Told
    BY DEF Clients!Init, Told, Clients!NoCall, Clients!AnswersTheQuestion
  <2>2. Heard
    BY DEF Stack!Init, Heard, Stack!PingHearsItsTarget, Stack!Idle
  <2> QED BY <2>1, <2>2
<1>2. I /\ [Next]_vars => I'
  BY OnePart, ToldStep, HeardStep
<1>3. I => AnswersAreToTheQuestion
  BY DEF AnswersAreToTheQuestion, Told, Heard, Clients!LeaseIsCommitted
<1> QED BY <1>1, <1>2, <1>3, PTL DEF Spec

-----------------------------------------------------------------------------
(* The input: what the loop will take for held once it has handled all     *)
(* events that wait is what the devices last said.                         *)

\* A sequence of events of which the last one of a button says b; with none, p was b.
Says(q, p, b) ==
  /\ (\A i \in DOMAIN q : q[i].kind # "button") => p = b
  /\ \A i \in DOMAIN q :
       q[i].kind = "button" /\ (\A j \in DOMAIN q : j > i => q[j].kind # "button") => q[i].left = b

\* The events that wait, those that inject_relative is about to push included.
Waiting == IF pass = "push" THEN EVENT_QUEUE \o pending ELSE EVENT_QUEUE

\* There are finitely many keys, and the mouse has a wheel or not.
Equipment == IsFiniteSet(Keys) /\ HAS_WHEEL \in BOOLEAN

HeldTypes ==
  /\ EVENT_QUEUE \in Seq(Keyboards!Events)
  /\ pass = "push" => pending \in Seq(Keyboards!Events)
  /\ flags \in Keyboards!Buttons
  /\ said \in [left : BOOLEAN, keys : SUBSET Keys] /\ prev_kbd \subseteq Keys

Held ==
  /\ HeldTypes
  /\ said.left = BTN_LEFT /\ said.keys = prev_kbd
  /\ REPEAT_CODE # None => REPEAT_CODE \in prev_kbd
  /\ Says(Waiting, prev_left, BTN_LEFT)

\* Events that are of no button change nothing.
LEMMA SaysOthers ==
  ASSUME NEW q \in Seq(Keyboards!Events), NEW r \in Seq(Keyboards!Events), NEW p, NEW b,
         Says(q, p, b), \A i \in DOMAIN r : r[i].kind # "button"
  PROVE  Says(q \o r, p, b)
<1> DEFINE s == q \o r
<1>1. /\ s \in Seq(Keyboards!Events) /\ DOMAIN s = 1 .. Len(q) + Len(r)
      /\ \A i \in 1 .. Len(q) : s[i] = q[i]
      /\ \A i \in DOMAIN s : i > Len(q) => s[i] = r[i - Len(q)] /\ i - Len(q) \in DOMAIN r
      /\ DOMAIN q = 1 .. Len(q) /\ Len(q) \in Nat
  OBVIOUS
<1> HIDE DEF s
<1>2. \A i \in DOMAIN s : s[i].kind = "button" => i \in DOMAIN q /\ s[i] = q[i]
  BY <1>1
<1>3. \A i \in DOMAIN q : i \in DOMAIN s /\ s[i] = q[i]
  BY <1>1
<1>4. Says(s, p, b)
  BY <1>2, <1>3 DEF Says
<1> QED BY <1>4 DEF s

\* A key is of no button.
LEMMA SaysKey ==
  ASSUME NEW q \in Seq(Keyboards!Events), NEW p, NEW b, Says(q, p, b)
  PROVE  Append(q, Keyboards!Key) \in Seq(Keyboards!Events) /\ Says(Append(q, Keyboards!Key), p, b)
<1> DEFINE r == <<Keyboards!Key>>
<1>1. Keyboards!Key \in Keyboards!Events /\ Keyboards!Key.kind # "button"
  BY DEF Keyboards!Events, Keyboards!Key
<1>2. r \in Seq(Keyboards!Events) /\ (\A i \in DOMAIN r : r[i].kind # "button")
  BY <1>1
<1>3. Append(q, Keyboards!Key) = q \o r /\ Append(q, Keyboards!Key) \in Seq(Keyboards!Events)
  BY <1>1
<1> HIDE DEF r
<1> QED BY <1>2, <1>3, SaysOthers

\* An event of a button is the last word.
LEMMA SaysButton ==
  ASSUME NEW q \in Seq(Keyboards!Events), NEW e \in Keyboards!Events, NEW p, NEW b,
         e.kind = "button", e.left = b
  PROVE  Says(Append(q, e), p, b)
<1> DEFINE s == Append(q, e)
<1>1. /\ DOMAIN s = 1 .. Len(q) + 1 /\ s[Len(q) + 1] = e /\ Len(q) \in Nat
  OBVIOUS
<1> HIDE DEF s
<1>2. Says(s, p, b)
  BY <1>1 DEF Says
<1> QED BY <1>2 DEF s

\* The first event has been handled.
LEMMA SaysTail ==
  ASSUME NEW q \in Seq(Keyboards!Events), q # <<>>, NEW p, NEW b, Says(q, p, b)
  PROVE  Says(Tail(q), IF Head(q).kind = "button" THEN Head(q).left ELSE p, b)
<1> DEFINE s == Tail(q)
           e == Head(q)
<1>1. /\ DOMAIN q = 1 .. Len(q) /\ DOMAIN s = 1 .. Len(q) - 1 /\ Len(q) \in Nat /\ Len(q) > 0
      /\ \A i \in DOMAIN s : s[i] = q[i + 1] /\ i + 1 \in DOMAIN q
      /\ e = q[1]
  OBVIOUS
<1>2. \A j \in DOMAIN q : j = 1 \/ (j - 1 \in DOMAIN s /\ q[j] = s[j - 1])
  BY <1>1
<1> HIDE DEF s, e
<1>3. ASSUME \A i \in DOMAIN s : s[i].kind # "button"
      PROVE  (IF e.kind = "button" THEN e.left ELSE p) = b
  <2>1. \A j \in DOMAIN q : j > 1 => q[j].kind # "button"
    BY <1>1, <1>2, <1>3
  <2>2. CASE e.kind = "button"
    BY <1>1, <2>1, <2>2 DEF Says
  <2>3. CASE e.kind # "button"
    <3>1. \A i \in DOMAIN q : q[i].kind # "button"
      BY <1>1, <1>2, <1>3, <2>3
    <3> QED BY <2>3, <3>1 DEF Says
  <2> QED BY <2>2, <2>3
<1>4. ASSUME NEW i \in DOMAIN s, s[i].kind = "button",
             \A j \in DOMAIN s : j > i => s[j].kind # "button"
      PROVE  s[i].left = b
  <2>1. \A j \in DOMAIN q : j > i + 1 => q[j].kind # "button"
    BY <1>1, <1>2, <1>4
  <2> QED BY <1>1, <1>4, <2>1 DEF Says
<1>5. Says(s, IF e.kind = "button" THEN e.left ELSE p, b)
  BY <1>3, <1>4 DEF Says
<1> QED BY <1>5 DEF s, e

\* What a mouse pushes says what its buttons have become.
LEMMA SaysPushes ==
  ASSUME NEW q \in Seq(Keyboards!Events), NEW p, NEW b \in Keyboards!Buttons, NEW wheel \in BOOLEAN,
         NEW new \in Keyboards!Pushes(b, wheel), Says(q, p, BTN_LEFT)
  PROVE  new \in Seq(Keyboards!Events) /\ Says(q \o new, p, b.left)
<1>1. PICK d \in Keyboards!Doubles(b) :
        new = (IF wheel THEN <<Keyboards!Wheel>> ELSE <<>>) \o
              (IF Keyboards!Changed(b) THEN <<Keyboards!Button(b, d)>> ELSE <<>>)
  BY DEF Keyboards!Pushes
<1> DEFINE e == Keyboards!Button(b, d)
           w == IF wheel THEN <<Keyboards!Wheel>> ELSE <<>>
<1>2. /\ e \in Keyboards!Events /\ e.kind = "button" /\ e.left = b.left
      /\ Keyboards!Wheel \in Keyboards!Events /\ Keyboards!Wheel.kind = "wheel"
  <2>1. d \in BOOLEAN
    BY <1>1 DEF Keyboards!Doubles
  <2> QED BY <2>1 DEF Keyboards!Events, Keyboards!Button, Keyboards!Wheel
<1> HIDE DEF e
<1>3. w \in Seq(Keyboards!Events) /\ \A i \in DOMAIN w : w[i].kind # "button"
  BY <1>2
<1> HIDE DEF w
<1>4. Says(q \o w, p, BTN_LEFT)
  BY <1>3, SaysOthers
<1>5. CASE Keyboards!Changed(b)
  <2>1. new = w \o <<e>>
    BY <1>1, <1>5 DEF w, e
  <2>2. q \o new = Append(q \o w, e) /\ q \o w \in Seq(Keyboards!Events)
    BY <1>2, <1>3, <2>1
  <2>3. new \in Seq(Keyboards!Events)
    BY <1>2, <1>3, <2>1
  <2> QED BY <1>2, <2>2, <2>3, SaysButton
<1>6. CASE ~Keyboards!Changed(b)
  <2>1. new = w
    BY <1>1, <1>3, <1>6 DEF w
  <2>2. b.left = BTN_LEFT
    BY <1>6 DEF Keyboards!Changed
  <2> QED BY <1>3, <1>4, <2>1, <2>2
<1> QED BY <1>5, <1>6

\* The invariant holds in every step of the devices and of the loop.
LEMMA HeldStep ==
  ASSUME Equipment, Held, [Keyboards!Next]_(Keyboards!vars)
  PROVE  Held'
<1> USE DEF Held, HeldTypes, Equipment
<1>1. Keyboards!Key \in Keyboards!Events /\ Keyboards!Key.kind # "button"
  BY DEF Keyboards!Events, Keyboards!Key
<1>2. CASE Keyboards!PsKeyboard
  <2>1. /\ Waiting = EVENT_QUEUE /\ Waiting' = EVENT_QUEUE'
        /\ EVENT_QUEUE' = EVENT_QUEUE \/ EVENT_QUEUE' = Append(EVENT_QUEUE, Keyboards!Key)
        /\ pass' # "push" /\ UNCHANGED <<prev_left, BTN_LEFT, flags, prev_kbd, REPEAT_CODE, said>>
    BY <1>2 DEF Keyboards!PsKeyboard, Keyboards!InterruptsOn, Waiting
  <2>2. Says(EVENT_QUEUE', prev_left, BTN_LEFT) /\ EVENT_QUEUE' \in Seq(Keyboards!Events)
    BY <2>1, SaysKey
  <2> QED BY <2>1, <2>2
<1>3. CASE Keyboards!PsMouseByte
  <2>1. /\ pass = "open" /\ pass' = "open" /\ Waiting = EVENT_QUEUE /\ Waiting' = EVENT_QUEUE'
        /\ UNCHANGED <<prev_left, prev_kbd, REPEAT_CODE>> /\ flags' \in Keyboards!Buttons
    BY <1>3 DEF Keyboards!PsMouseByte, Keyboards!InterruptsOn, Waiting
  <2>2. CASE UNCHANGED <<EVENT_QUEUE, BTN_LEFT, BTN_RIGHT, said>>
    BY <2>1, <2>2
  <2>3. CASE /\ \E wheel \in {FALSE, HAS_WHEEL} : \E new \in Keyboards!Pushes(flags, wheel) :
                  EVENT_QUEUE' = EVENT_QUEUE \o new
             /\ Keyboards!Press(flags)
    <3>1. PICK wheel \in {FALSE, HAS_WHEEL} : \E new \in Keyboards!Pushes(flags, wheel) :
                  EVENT_QUEUE' = EVENT_QUEUE \o new
      BY <2>3
    <3>2. PICK new \in Keyboards!Pushes(flags, wheel) : EVENT_QUEUE' = EVENT_QUEUE \o new
      BY <3>1
    <3>3. new \in Seq(Keyboards!Events) /\ Says(EVENT_QUEUE \o new, prev_left, flags.left)
      BY <2>1, <3>2, SaysPushes
    <3>4. BTN_LEFT' = flags.left /\ said' = [said EXCEPT !.left = flags.left] /\ flags.left \in BOOLEAN
      BY <2>3 DEF Keyboards!Press, Keyboards!Buttons
    <3>5. EVENT_QUEUE' \in Seq(Keyboards!Events)
      BY <3>2, <3>3
    <3> QED BY <2>1, <3>2, <3>3, <3>4, <3>5
  <2> QED BY <1>3, <2>2, <2>3 DEF Keyboards!PsMouseByte
<1>4. CASE Keyboards!Wake \/ Keyboards!Drained
  <2>1. /\ pass # "push" /\ pass' # "push"
        /\ UNCHANGED <<EVENT_QUEUE, prev_left, BTN_LEFT, flags, prev_kbd, REPEAT_CODE, pending, said>>
    BY <1>4 DEF Keyboards!Wake, Keyboards!Drained
  <2> QED BY <2>1 DEF Waiting
<1>5. CASE Keyboards!Pop
  <2>1. /\ pass = "drain" /\ pass' = "drain" /\ EVENT_QUEUE # <<>> /\ EVENT_QUEUE' = Tail(EVENT_QUEUE)
        /\ prev_left' = IF Head(EVENT_QUEUE).kind = "button" THEN Head(EVENT_QUEUE).left ELSE prev_left
        /\ UNCHANGED <<BTN_LEFT, flags, prev_kbd, REPEAT_CODE, said>>
    BY <1>5 DEF Keyboards!Pop
  <2>2. Says(EVENT_QUEUE', prev_left', BTN_LEFT)
    BY <2>1, SaysTail DEF Waiting
  <2>3. EVENT_QUEUE' \in Seq(Keyboards!Events)
    BY <2>1
  <2> QED BY <2>1, <2>2, <2>3 DEF Waiting
<1>6. CASE Keyboards!UsbKeyboard
  <2>1. /\ pass = "keyboard" /\ pass' = "mouse" /\ Waiting = EVENT_QUEUE /\ Waiting' = EVENT_QUEUE'
        /\ UNCHANGED <<prev_left, BTN_LEFT, flags>>
    BY <1>6 DEF Keyboards!UsbKeyboard, Waiting
  <2>2. CASE UNCHANGED <<EVENT_QUEUE, CTRL_HELD, prev_kbd, REPEAT_CODE, said>>
    BY <2>1, <2>2
  <2>3. CASE \E report \in Keyboards!Reports :
               LET pressed == report.keys \ prev_kbd
               IN  /\ EVENT_QUEUE' = EVENT_QUEUE \o [i \in 1 .. Keyboards!Cardinality(pressed) |-> Keyboards!Key]
                   /\ \E last \in IF pressed = {} THEN {REPEAT_CODE} ELSE pressed :
                        REPEAT_CODE' = Keyboards!Repeating(last, report.keys)
                   /\ CTRL_HELD' = report.ctrl
                   /\ prev_kbd' = report.keys
                   /\ said' = [said EXCEPT !.keys = report.keys]
    <3>0. PICK report \in Keyboards!Reports :
            LET pressed == report.keys \ prev_kbd
            IN  /\ EVENT_QUEUE' = EVENT_QUEUE \o [i \in 1 .. Keyboards!Cardinality(pressed) |-> Keyboards!Key]
                /\ \E last \in IF pressed = {} THEN {REPEAT_CODE} ELSE pressed :
                     REPEAT_CODE' = Keyboards!Repeating(last, report.keys)
                /\ prev_kbd' = report.keys
                /\ said' = [said EXCEPT !.keys = report.keys]
      BY <2>3
    <3> DEFINE pressed == report.keys \ prev_kbd
    <3>1. report.keys \subseteq Keys
      BY DEF Keyboards!Reports
    <3>2. Keyboards!Cardinality(pressed) \in Nat
      <4>1. Keyboards!Cardinality(pressed) = Cardinality(pressed)
        BY DEF Keyboards!Cardinality, Cardinality
      <4> QED BY <3>1, <4>1, FS_Subset, FS_CardinalityType
    <3>8. pressed = {} \/ pressed \subseteq report.keys
      OBVIOUS
    <3> DEFINE r == [i \in 1 .. Keyboards!Cardinality(pressed) |-> Keyboards!Key]
    <3>3. r \in Seq(Keyboards!Events) /\ \A i \in DOMAIN r : r[i].kind # "button"
      <4> HIDE DEF pressed
      <4>1. r \in [1 .. Keyboards!Cardinality(pressed) -> Keyboards!Events]
        BY <1>1, <3>2
      <4>2. \A i \in DOMAIN r : r[i] = Keyboards!Key
        BY <3>2
      <4> QED BY <1>1, <3>2, <4>1, <4>2
    <3> HIDE DEF r
    <3>4. Says(EVENT_QUEUE \o r, prev_left, BTN_LEFT)
      BY <2>1, <3>3, SaysOthers
    <3>5. EVENT_QUEUE' = EVENT_QUEUE \o r
      BY <3>0 DEF r
    <3>6. REPEAT_CODE' # None => REPEAT_CODE' \in report.keys
      BY <3>0 DEF Keyboards!Repeating
    <3>7. EVENT_QUEUE' \in Seq(Keyboards!Events)
      BY <3>3, <3>5
    <3> QED BY <2>1, <3>0, <3>1, <3>4, <3>5, <3>6, <3>7
  <2> QED BY <1>6, <2>2, <2>3 DEF Keyboards!UsbKeyboard
<1>7. CASE Keyboards!UsbMouse
  <2>1. /\ pass = "mouse" /\ Waiting = EVENT_QUEUE
        /\ UNCHANGED <<EVENT_QUEUE, prev_left, flags, prev_kbd, REPEAT_CODE>>
    BY <1>7 DEF Keyboards!UsbMouse, Waiting
  <2>2. CASE pass' = "tick" /\ UNCHANGED <<BTN_LEFT, BTN_RIGHT, pending, said>>
    BY <2>1, <2>2 DEF Waiting
  <2>3. CASE /\ \E report \in Keyboards!Buttons, wheel \in BOOLEAN :
                  pending' \in Keyboards!Pushes(report, wheel) /\ Keyboards!Press(report)
             /\ pass' = "push"
    <3>1. PICK report \in Keyboards!Buttons, wheel \in BOOLEAN :
            pending' \in Keyboards!Pushes(report, wheel) /\ Keyboards!Press(report)
      BY <2>3
    <3>2. pending' \in Seq(Keyboards!Events) /\ Says(EVENT_QUEUE \o pending', prev_left, report.left)
      BY <2>1, <3>1, SaysPushes
    <3>3. BTN_LEFT' = report.left /\ said' = [said EXCEPT !.left = report.left] /\ report.left \in BOOLEAN
      BY <3>1 DEF Keyboards!Press, Keyboards!Buttons
    <3>4. Waiting' = EVENT_QUEUE \o pending'
      BY <2>1, <2>3 DEF Waiting
    <3> QED BY <2>1, <2>3, <3>2, <3>3, <3>4
  <2> QED BY <1>7, <2>2, <2>3 DEF Keyboards!UsbMouse
<1>8. CASE Keyboards!UsbPush
  <2>1. /\ pass = "push" /\ pass' = "tick" /\ EVENT_QUEUE' = EVENT_QUEUE \o pending
        /\ UNCHANGED <<prev_left, BTN_LEFT, flags, prev_kbd, REPEAT_CODE, said>>
    BY <1>8 DEF Keyboards!UsbPush
  <2>2. EVENT_QUEUE' \in Seq(Keyboards!Events) /\ Waiting' = Waiting
    BY <2>1 DEF Waiting
  <2> QED BY <2>1, <2>2
<1>9. CASE Keyboards!HidTick
  <2>1. /\ Waiting = EVENT_QUEUE /\ Waiting' = EVENT_QUEUE'
        /\ EVENT_QUEUE' = EVENT_QUEUE \/ EVENT_QUEUE' = Append(EVENT_QUEUE, Keyboards!Key)
        /\ pass' # "push" /\ UNCHANGED <<prev_left, BTN_LEFT, flags, prev_kbd, REPEAT_CODE, said>>
    BY <1>9, SMTT(20) DEF Keyboards!HidTick, Waiting
  <2>2. Says(EVENT_QUEUE', prev_left, BTN_LEFT) /\ EVENT_QUEUE' \in Seq(Keyboards!Events)
    BY <2>1, SaysKey
  <2> QED BY <2>1, <2>2
<1>10. CASE UNCHANGED Keyboards!vars
  BY <1>10 DEF Keyboards!vars, Waiting
<1> QED BY <1>2, <1>3, <1>4, <1>5, <1>6, <1>7, <1>8, <1>9, <1>10 DEF Keyboards!Next

\* Whichever device speaks and whenever the loop runs: with no event left to handle, the
\* loop takes for held what the devices last said, and no key repeats that is not reported,
\* for every finite set of keys and every length of the queue (main.rs, mouse.rs, hid.rs).
THEOREM ServicesKnowWhatIsHeld ==
  ASSUME Equipment
  PROVE  Spec => []LoopKnowsWhatIsHeld
<1> DEFINE I == part = "input" => Held
<1>1. Init => I
  <2>1. Init => Keyboards!Init
    BY DEF Init
  <2> SUFFICES ASSUME Keyboards!Init PROVE Held
    BY <2>1
  <2>2. /\ EVENT_QUEUE = <<>> /\ Waiting = <<>> /\ ~prev_left /\ ~BTN_LEFT /\ pass = "open"
        /\ prev_left \in BOOLEAN /\ BTN_LEFT \in BOOLEAN
        /\ said = [left |-> FALSE, keys |-> {}] /\ prev_kbd = {} /\ REPEAT_CODE = None
        /\ flags = [left |-> FALSE, right |-> FALSE]
    BY DEF Keyboards!Init, Waiting
  <2>3. HeldTypes
    BY <2>2 DEF HeldTypes, Keyboards!Buttons
  <2>4. Says(Waiting, prev_left, BTN_LEFT)
    BY <2>2 DEF Says
  <2>5. said.left = BTN_LEFT /\ said.keys = prev_kbd
    BY <2>2
  <2> QED BY <2>2, <2>3, <2>4, <2>5 DEF Held
<1>2. I /\ [Next]_vars => I'
  BY OnePart, HeldStep
<1>3. I => LoopKnowsWhatIsHeld
  BY DEF LoopKnowsWhatIsHeld, Keyboards!LoopKnowsWhatIsHeld, Held, Waiting, Says
<1> QED BY <1>1, <1>2, <1>3, PTL DEF Spec

-----------------------------------------------------------------------------
(* The installer: whatever disks come and go, what is erased was named,    *)
(* and no volume is mounted on a disk that a copy or its success is about. *)

Chunks == {"mbr", "body", "other", "fs", "file", "fat", "slave"}
Statuses == {"closed", "welcome", "failed", "finished"}

IsWizard(w) ==
  /\ DOMAIN w = {"step", "source", "targets", "selected", "text", "status"}
  /\ w.step \in 0 .. 3 /\ w.source \in Setup!Disks \cup {None} /\ w.targets \in Seq(Setup!Disks)
  /\ w.selected \in Nat /\ w.text \in {"blank", "ERASE"} /\ w.status \in Statuses

SetupTypes ==
  /\ disks \in [Setup!Disks -> Seq(Chunks)]
  /\ stick \in {"none", "up", "gone"} /\ fresh \in BOOLEAN
  /\ mounted \subseteq {Setup!Slave, Setup!Usb}
  /\ IsWizard(wizard)
  /\ wizard.selected <= Len(wizard.targets)
  /\ wizard.step >= 2 => wizard.selected >= 1
  /\ wizard = Setup!Closed \/ wizard.source \in Setup!Disks

\* A copy, or one that is finished, is between two disks with no volume on them.
Apart(from, onto) ==
  /\ from \in Setup!Disks /\ onto \in Setup!Disks /\ from # onto
  /\ from \notin mounted /\ onto \notin mounted
  /\ Setup!Usb \in {from, onto} => stick # "none"
  /\ Len(disks[from]) > 0 /\ Len(disks[from]) <= Len(disks[onto])

Agree(from, onto, n) == \A i \in 1 .. n : disks[onto][i] = disks[from][i]

Confirmed == wizard.text = "ERASE" => wizard.step = 2 /\ Setup!Target \in warned

Copies ==
  \/ /\ copy.by \in {"nobody", "off", "boot"} /\ copy = [Setup!NoCopy EXCEPT !.by = copy.by]
     /\ copy.by # "nobody" => wizard = Setup!Closed
  \/ /\ copy.by \in {"wizard", "shell", "autoinst"}
     /\ copy = [source |-> copy.source, target |-> copy.target, lba |-> copy.lba, total |-> copy.total, by |-> copy.by]
     /\ Apart(copy.source, copy.target) /\ copy.target \in warned
     /\ copy.total = Len(disks[copy.source]) /\ copy.lba \in 0 .. copy.total
     /\ Agree(copy.source, copy.target, copy.lba)
     /\ IF copy.by = "wizard"
        THEN /\ wizard.source = copy.source /\ Setup!Target = copy.target /\ wizard.step = 2 /\ ~fresh
             /\ wizard.status # "finished"
        ELSE wizard = Setup!Closed

Volumes ==
  /\ Setup!Slave \in mounted => Head(disks[Setup!Slave]) = "fs"
  /\ Setup!Usb \in mounted => Head(disks[Setup!Usb]) = "fat" /\ stick # "none"

Finished ==
  wizard.status = "finished" =>
    /\ copy = Setup!NoCopy /\ wizard.step = 3
    /\ Apart(wizard.source, Setup!Target)
    /\ Agree(wizard.source, Setup!Target, Len(disks[wizard.source]))
    /\ Setup!Usb \in {wizard.source, Setup!Target} => ~fresh

Spared == SetupTypes /\ Confirmed /\ Copies /\ Volumes /\ Finished

\* The disks that are listed are disks.
LEMMA Listing ==
  ASSUME NEW d
  PROVE  /\ Setup!InstallTargets(d) \in Seq(Setup!Disks)
         /\ Setup!DefaultSource \in Setup!Disks
<1>1. ASSUME NEW e \in Setup!Disks, NEW f
      PROVE  Setup!Slot(e, f) \in Seq(Setup!Disks)
  BY DEF Setup!Slot
<1>2. Setup!Master \in Setup!Disks /\ Setup!Slave \in Setup!Disks /\ Setup!Usb \in Setup!Disks
  BY DEF Setup!Disks
<1>3. ASSUME NEW f
      PROVE  Setup!InstallTargets(f) \in Seq(Setup!Disks)
  BY <1>1, <1>2 DEF Setup!InstallTargets
<1>4. Setup!ListDisks \in Seq(Setup!Disks)
  BY <1>3 DEF Setup!ListDisks
<1>5. Setup!DefaultSource \in Setup!Disks
  BY <1>2, <1>4 DEF Setup!DefaultSource
<1> QED BY <1>3, <1>5

\* The three slots are told apart.
LEMMA SlotsDiffer ==
  /\ Setup!Disks = {Setup!Master, Setup!Slave, Setup!Usb}
  /\ Setup!Master # Setup!Slave /\ Setup!Master # Setup!Usb /\ Setup!Slave # Setup!Usb
BY DEF Setup!Disks, Setup!Master, Setup!Slave, Setup!Usb

\* What a disk of known chunks has.
LEMMA Lengths ==
  ASSUME NEW s \in Seq(Chunks)
  PROVE  Len(s) \in Nat /\ \A i \in 1 .. Len(s) : s[i] \in Chunks
OBVIOUS

\* A chunk replaced by another leaves the others.
LEMMA Rewritten ==
  ASSUME NEW s \in Seq(Chunks), NEW i \in 1 .. Len(s), NEW c \in Chunks
  PROVE  /\ [s EXCEPT ![i] = c] \in Seq(Chunks) /\ Len([s EXCEPT ![i] = c]) = Len(s)
         /\ [s EXCEPT ![i] = c][i] = c
         /\ \A j \in 1 .. Len(s) : j # i => [s EXCEPT ![i] = c][j] = s[j]
         /\ i # 1 => Head([s EXCEPT ![i] = c]) = Head(s)
         /\ i = 1 => Head([s EXCEPT ![i] = c]) = c
<1> DEFINE t == [s EXCEPT ![i] = c]
<1>1. t \in Seq(Chunks) /\ Len(t) = Len(s) /\ t[i] = c /\ (\A j \in 1 .. Len(s) : j # i => t[j] = s[j])
  OBVIOUS
<1>2. Head(t) = t[1] /\ Head(s) = s[1]
  BY <1>1
<1>3. 1 \in 1 .. Len(s)
  OBVIOUS
<1> HIDE DEF t
<1>4. (i # 1 => Head(t) = Head(s)) /\ (i = 1 => Head(t) = c)
  BY <1>1, <1>2, <1>3
<1> QED BY <1>1, <1>4 DEF t

\* While nothing is copied, a press in the wizard changes the wizard and what it warned of.
LEMMA WizardStep ==
  ASSUME None \notin Setup!Disks, Spared, Setup!Waiting, wizard.status # "finished",
         UNCHANGED <<disks, stick, fresh, mounted, copy>>,
         wizard'.status # "finished", SetupTypes', Confirmed'
  PROVE  Spared'
<1>1. copy = Setup!NoCopy /\ copy.by = "nobody"
  BY DEF Setup!Waiting, Setup!NoCopy
<1>2. Copies'
  BY <1>1 DEF Copies, Setup!NoCopy
<1>3. Volumes'
  BY DEF Spared, Volumes
<1>4. Finished'
  BY DEF Finished
<1> QED BY <1>2, <1>3, <1>4 DEF Spared

\* What the user does with sticks and files.
LEMMA VolumeSteps ==
  ASSUME None \notin Setup!Disks, Spared
  PROVE  /\ Setup!UsbTick => Spared'
         /\ \A s \in Seq(Chunks) : Setup!PlugIn(s) => Spared'
         /\ Setup!PullOut => Spared'
         /\ \A d \in {Setup!Slave, Setup!Usb}, f \in {"file", "slave"} : Setup!Save(d, f) => Spared'
<1> USE DEF Spared, SetupTypes
<1>1. ASSUME Setup!UsbTick PROVE Spared'
  <2>1. /\ fresh /\ copy = Setup!NoCopy /\ fresh' = FALSE /\ UNCHANGED <<disks, stick, wizard, copy, warned>>
        /\ mounted' = mounted \/ (mounted' = mounted \cup {Setup!Usb} /\ Head(disks[Setup!Usb]) = "fat" /\ stick = "up")
    BY <1>1, SlotsDiffer DEF Setup!UsbTick, Setup!MountUsb, Setup!Answers
  <2>2. SetupTypes'
    BY <2>1
  <2>3. Confirmed'
    BY <2>1 DEF Confirmed, Setup!Target
  <2>4. Copies'
    BY <2>1 DEF Copies, Setup!NoCopy
  <2>5. Volumes'
    BY <2>1, SlotsDiffer DEF Volumes
  <2>6. Finished'
    BY <2>1 DEF Finished, Apart, Agree, Setup!Target
  <2> QED BY <2>2, <2>3, <2>4, <2>5, <2>6
<1>2. ASSUME NEW s \in Seq(Chunks), Setup!PlugIn(s) PROVE Spared'
  <2>1. /\ copy = Setup!NoCopy /\ stick = "none" /\ stick' = "up" /\ disks' = [disks EXCEPT ![Setup!Usb] = s]
        /\ fresh' = TRUE /\ UNCHANGED <<mounted, wizard, copy, warned>>
    BY <1>2 DEF Setup!PlugIn, Setup!Waiting
  <2>2. SetupTypes'
    BY <2>1
  <2>3. Confirmed'
    BY <2>1 DEF Confirmed, Setup!Target
  <2>4. Copies'
    BY <2>1 DEF Copies, Setup!NoCopy
  <2>5. Setup!Usb \notin mounted /\ disks'[Setup!Slave] = disks[Setup!Slave]
    BY <2>1, SlotsDiffer DEF Volumes
  <2>6. Volumes'
    BY <2>1, <2>5 DEF Volumes
  <2>7. ASSUME wizard'.status = "finished"
        PROVE  /\ Apart(wizard.source, Setup!Target) /\ Setup!Usb \notin {wizard.source, Setup!Target}
               /\ disks'[wizard.source] = disks[wizard.source] /\ disks'[Setup!Target] = disks[Setup!Target]
    BY <2>1, <2>7 DEF Finished, Apart
  <2>8. Finished'
    BY <2>1, <2>7 DEF Finished, Apart, Agree, Setup!Target
  <2> QED BY <2>2, <2>3, <2>4, <2>6, <2>8
<1>3. ASSUME Setup!PullOut PROVE Spared'
  <2>1. stick = "up" /\ stick' = "gone" /\ UNCHANGED <<disks, fresh, mounted, wizard, copy, warned>>
    BY <1>3 DEF Setup!PullOut
  <2>2. SetupTypes'
    BY <2>1
  <2>3. Confirmed'
    BY <2>1 DEF Confirmed, Setup!Target
  <2>4. Copies'
    BY <2>1 DEF Copies, Apart, Agree, Setup!Target
  <2>5. Volumes'
    BY <2>1 DEF Volumes
  <2>6. Finished'
    BY <2>1 DEF Finished, Apart, Agree, Setup!Target
  <2> QED BY <2>2, <2>3, <2>4, <2>5, <2>6
<1>4. ASSUME NEW d \in {Setup!Slave, Setup!Usb}, NEW f \in {"file", "slave"}, Setup!Save(d, f) PROVE Spared'
  <2>1. /\ copy = Setup!NoCopy /\ d \in mounted /\ Len(disks[d]) > 1
        /\ disks' = [disks EXCEPT ![d] = [disks[d] EXCEPT ![2] = f]]
        /\ UNCHANGED <<stick, fresh, mounted, wizard, copy, warned>>
    BY <1>4 DEF Setup!Save, Setup!Waiting
  <2>2. d \in Setup!Disks /\ disks[d] \in Seq(Chunks) /\ f \in Chunks
    BY SlotsDiffer DEF Chunks
  <2>3. 2 \in 1 .. Len(disks[d])
    <3>1. Len(disks[d]) \in Nat
      BY <2>2, Lengths
    <3> QED BY <2>1, <3>1
  <2>4. disks'[d] \in Seq(Chunks) /\ Head(disks'[d]) = Head(disks[d])
    <3> DEFINE s == disks[d]
    <3>1. s \in Seq(Chunks) /\ 2 \in 1 .. Len(s) /\ f \in Chunks
      BY <2>2, <2>3
    <3>2. disks'[d] = [s EXCEPT ![2] = f]
      BY <2>1, <2>2
    <3> HIDE DEF s
    <3>3. [s EXCEPT ![2] = f] \in Seq(Chunks) /\ Head([s EXCEPT ![2] = f]) = Head(s)
      BY <3>1, Rewritten
    <3> QED BY <3>2, <3>3 DEF s
  <2>5. \A e \in Setup!Disks : e # d => disks'[e] = disks[e]
    BY <2>1
  <2>6. SetupTypes'
    BY <2>1, <2>4
  <2>7. Confirmed'
    BY <2>1 DEF Confirmed, Setup!Target
  <2>8. Copies'
    BY <2>1 DEF Copies, Setup!NoCopy
  <2>9. \A e \in {Setup!Slave, Setup!Usb} : Head(disks'[e]) = Head(disks[e])
    BY <2>4, <2>5, SlotsDiffer
  <2>10. Volumes'
    BY <2>1, <2>9 DEF Volumes
  <2>11. ASSUME wizard'.status = "finished"
         PROVE  /\ Apart(wizard.source, Setup!Target)
                /\ disks'[wizard.source] = disks[wizard.source] /\ disks'[Setup!Target] = disks[Setup!Target]
    BY <2>1, <2>5, <2>11 DEF Finished, Apart
  <2>12. Finished'
    BY <2>1, <2>11 DEF Finished, Apart, Agree, Setup!Target
  <2> QED BY <2>6, <2>7, <2>8, <2>10, <2>12
<1> QED BY <1>1, <1>2, <1>3, <1>4

\* What a press does to the wizard leaves it one.
LEMMA WizardWith ==
  ASSUME NEW w, IsWizard(w)
  PROVE  /\ \A n \in 0 .. 3 : LET t == [w EXCEPT !.step = n, !.text = "blank"] IN
              /\ IsWizard(t) /\ t.step = n /\ t.text = "blank" /\ t.selected = w.selected
              /\ t.targets = w.targets /\ t.status = w.status /\ t.source = w.source
         /\ \A n \in Nat : LET t == [w EXCEPT !.selected = n] IN
              /\ IsWizard(t) /\ t.step = w.step /\ t.text = w.text /\ t.selected = n
              /\ t.targets = w.targets /\ t.status = w.status /\ t.source = w.source
         /\ LET t == [w EXCEPT !.text = "ERASE"] IN
              /\ IsWizard(t) /\ t.step = w.step /\ t.text = "ERASE" /\ t.selected = w.selected
              /\ t.targets = w.targets /\ t.status = w.status /\ t.source = w.source
<1>1. ASSUME NEW n \in 0 .. 3
      PROVE  LET t == [w EXCEPT !.step = n, !.text = "blank"] IN
              /\ IsWizard(t) /\ t.step = n /\ t.text = "blank" /\ t.selected = w.selected
              /\ t.targets = w.targets /\ t.status = w.status /\ t.source = w.source
  BY DEF IsWizard
<1>2. ASSUME NEW n \in Nat
      PROVE  LET t == [w EXCEPT !.selected = n] IN
              /\ IsWizard(t) /\ t.step = w.step /\ t.text = w.text /\ t.selected = n
              /\ t.targets = w.targets /\ t.status = w.status /\ t.source = w.source
  BY DEF IsWizard
<1>3. LET t == [w EXCEPT !.text = "ERASE"] IN
              /\ IsWizard(t) /\ t.step = w.step /\ t.text = "ERASE" /\ t.selected = w.selected
              /\ t.targets = w.targets /\ t.status = w.status /\ t.source = w.source
  BY DEF IsWizard
<1> QED BY <1>1, <1>2, <1>3

\* What install has come to is shown on the last page.
LEMMA WizardShown ==
  ASSUME NEW w, IsWizard(w), NEW st \in {"failed", "finished"}
  PROVE  LET t == [w EXCEPT !.step = 3, !.status = st, !.text = "blank"] IN
           /\ IsWizard(t) /\ t.step = 3 /\ t.text = "blank" /\ t.selected = w.selected /\ t.status = st
           /\ t.targets = w.targets /\ t.source = w.source
<1> DEFINE t == [w EXCEPT !.step = 3, !.status = st, !.text = "blank"]
<1>1. DOMAIN t = {"step", "source", "targets", "selected", "text", "status"}
  BY DEF IsWizard
<1>2. t.step = 3 /\ t.status = st /\ t.text = "blank"
  BY DEF IsWizard
<1>3. t.selected = w.selected /\ t.targets = w.targets /\ t.source = w.source
  BY DEF IsWizard
<1>4. /\ w.source \in Setup!Disks \cup {None} /\ w.targets \in Seq(Setup!Disks) /\ w.selected \in Nat
  BY DEF IsWizard
<1>5. st \in Statuses
  BY DEF Statuses
<1> HIDE DEF t
<1>6. IsWizard(t)
  <2>1. t.step \in 0 .. 3 /\ t.text \in {"blank", "ERASE"}
    BY <1>2
  <2>2. t.source \in Setup!Disks \cup {None} /\ t.targets \in Seq(Setup!Disks) /\ t.selected \in Nat
    BY <1>3, <1>4
  <2>3. t.status \in Statuses
    BY <1>2, <1>5
  <2> QED BY <1>1, <2>1, <2>2, <2>3, Zenon DEF IsWizard
<1> QED BY <1>2, <1>3, <1>6 DEF t

\* A sector is copied, the copy fails or it ends.
LEMMA CopySteps ==
  ASSUME None \notin Setup!Disks, Spared
  PROVE  /\ Setup!CopyChunk => Spared'
         /\ Setup!CopyFails => Spared'
         /\ Setup!CopyEnds => Spared'
<1> USE DEF Spared, SetupTypes
<1>0. ASSUME copy.total > 0 \/ copy.lba < copy.total
      PROVE  /\ copy.by \in {"wizard", "shell", "autoinst"}
             /\ copy = [source |-> copy.source, target |-> copy.target, lba |-> copy.lba, total |-> copy.total, by |-> copy.by]
             /\ Apart(copy.source, copy.target) /\ copy.target \in warned
             /\ copy.total = Len(disks[copy.source]) /\ copy.lba \in 0 .. copy.total
             /\ Agree(copy.source, copy.target, copy.lba)
             /\ copy.by = "wizard" => wizard.source = copy.source /\ Setup!Target = copy.target /\ wizard.step = 2 /\ ~fresh
             /\ copy.by # "wizard" => wizard = Setup!Closed
             /\ wizard.status # "finished"
  <2>1. CASE /\ copy.by \in {"nobody", "off", "boot"} /\ copy = [Setup!NoCopy EXCEPT !.by = copy.by]
    <3>1. Setup!NoCopy.total = 0 /\ Setup!NoCopy.lba = 0
      BY DEF Setup!NoCopy
    <3>2. copy.total = 0 /\ copy.lba = 0
      BY <2>1, <3>1 DEF Setup!NoCopy
    <3> QED BY <1>0, <3>2
  <2>2. CASE copy.by \in {"wizard", "shell", "autoinst"}
    <3>0. Setup!Closed.status = "closed"
      BY DEF Setup!Closed
    <3>1. wizard.status # "finished"
      BY <2>2, <3>0 DEF Copies
    <3> QED BY <2>2, <3>1 DEF Copies
  <2> QED BY <2>1, <2>2 DEF Copies
<1>1. ASSUME Setup!CopyChunk PROVE Spared'
  <2> DEFINE from == copy.source
             onto == copy.target
             i == copy.lba + 1
  <2>1. /\ copy.lba < copy.total /\ disks' = [disks EXCEPT ![onto] = [disks[onto] EXCEPT ![i] = disks[from][i]]]
        /\ copy' = [copy EXCEPT !.lba = i] /\ UNCHANGED <<stick, fresh, mounted, wizard, warned>>
    BY <1>1 DEF Setup!CopyChunk
  <2>2. /\ Apart(from, onto) /\ copy.total = Len(disks[from]) /\ copy.lba \in 0 .. copy.total /\ Agree(from, onto, copy.lba)
    BY <1>0, <2>1
  <2>3. disks[from] \in Seq(Chunks) /\ disks[onto] \in Seq(Chunks)
    BY <2>2 DEF Apart
  <2>a. Len(disks[from]) \in Nat /\ Len(disks[onto]) \in Nat /\ Len(disks[from]) <= Len(disks[onto])
        /\ from # onto /\ from \in Setup!Disks /\ onto \in Setup!Disks
    BY <2>2, <2>3, Lengths DEF Apart
  <2>4. i \in 1 .. Len(disks[from]) /\ i \in 1 .. Len(disks[onto]) /\ i \in 0 .. copy.total
    BY <2>1, <2>2, <2>a
  <2>b. \A j \in 1 .. i : j = i \/ (j \in 1 .. copy.lba /\ j \in 1 .. Len(disks[onto]))
    BY <2>2, <2>4, <2>a
  <2>5. disks[from][i] \in Chunks
    BY <2>3, <2>4, Lengths
  <2> HIDE DEF i, from, onto
  <2>6. /\ disks'[onto] \in Seq(Chunks) /\ Len(disks'[onto]) = Len(disks[onto]) /\ disks'[onto][i] = disks[from][i]
        /\ \A j \in 1 .. Len(disks[onto]) : j # i => disks'[onto][j] = disks[onto][j]
    <3> DEFINE s == disks[onto]
               c == disks[from][i]
    <3>1. s \in Seq(Chunks) /\ i \in 1 .. Len(s) /\ c \in Chunks
      BY <2>3, <2>4, <2>5
    <3>2. disks'[onto] = [s EXCEPT ![i] = c]
      BY <2>1, <2>a
    <3> HIDE DEF s, c
    <3>3. /\ [s EXCEPT ![i] = c] \in Seq(Chunks) /\ Len([s EXCEPT ![i] = c]) = Len(s)
          /\ [s EXCEPT ![i] = c][i] = c
          /\ \A j \in 1 .. Len(s) : j # i => [s EXCEPT ![i] = c][j] = s[j]
      BY <3>1, Rewritten
    <3> QED BY <3>2, <3>3 DEF s, c
  <2>7. \A e \in Setup!Disks : e # onto => disks'[e] = disks[e]
    BY <2>1
  <2>8. copy' = [source |-> copy.source, target |-> copy.target, lba |-> i, total |-> copy.total, by |-> copy.by]
    BY <1>0, <2>1 DEF from, onto
  <2>9. SetupTypes'
    BY <2>1, <2>6, <2>7
  <2>10. Confirmed'
    BY <2>1 DEF Confirmed, Setup!Target
  <2>11. /\ copy'.source = from /\ copy'.target = onto /\ copy'.lba = i /\ copy'.total = copy.total /\ copy'.by = copy.by
    BY <2>8 DEF from, onto
  <2>12. disks'[from] = disks[from]
    BY <2>7, <2>a
  <2>13. Agree(copy.source, copy.target, copy.lba)'
    <3>1. ASSUME NEW j \in 1 .. i PROVE disks'[onto][j] = disks[from][j]
      <4>1. CASE j = i
        BY <2>6, <4>1
      <4>2. CASE j # i
        BY <2>2, <2>6, <2>b, <4>2 DEF Agree
      <4> QED BY <4>1, <4>2
    <3> QED BY <2>11, <2>12, <3>1 DEF Agree
  <2>14. Apart(copy.source, copy.target)'
    BY <2>1, <2>2, <2>6, <2>11, <2>12 DEF Apart
  <2>15. copy'.total = Len(disks'[copy'.source]) /\ copy'.lba \in 0 .. copy'.total
    BY <2>2, <2>4, <2>11, <2>12
  <2>16. IF copy'.by = "wizard"
         THEN /\ wizard'.source = copy'.source /\ Setup!Target' = copy'.target /\ wizard'.step = 2 /\ ~fresh'
              /\ wizard'.status # "finished"
         ELSE wizard' = Setup!Closed
    BY <1>0, <2>1, <2>11 DEF Setup!Target, from, onto
  <2>17. Copies'
    <3>1. copy'.by \in {"wizard", "shell", "autoinst"} /\ copy'.target \in warned'
      BY <1>0, <2>1, <2>11 DEF onto
    <3>2. copy' = [source |-> copy'.source, target |-> copy'.target, lba |-> copy'.lba, total |-> copy'.total, by |-> copy'.by]
      BY <2>8
    <3> HIDE DEF Spared
    <3> QED BY <2>13, <2>14, <2>15, <2>16, <3>1, <3>2 DEF Copies
  <2>18. \A e \in mounted : e # onto /\ e \in Setup!Disks
    BY <2>2, SlotsDiffer DEF Apart
  <2>19. Volumes'
    BY <2>1, <2>7, <2>18 DEF Volumes
  <2>20. Finished'
    BY <1>0, <2>1 DEF Finished
  <2> QED BY <2>9, <2>10, <2>17, <2>19, <2>20
<1>2. ASSUME Setup!CopyFails PROVE Spared'
  <2>1. /\ copy.lba < copy.total /\ copy' = Setup!NoCopy /\ wizard' = Setup!Shown(copy.by, "failed")
        /\ UNCHANGED <<disks, stick, fresh, mounted, warned>>
    BY <1>2 DEF Setup!CopyFails
  <2>2. wizard' = wizard \/ wizard' = [wizard EXCEPT !.step = 3, !.status = "failed", !.text = "blank"]
    BY <2>1 DEF Setup!Shown
  <2>3. wizard.status # "finished" /\ (wizard # Setup!Closed => wizard.step = 2)
    BY <1>0, <2>1
  <2>4. CASE wizard' = wizard
    <3>1. SetupTypes' /\ Confirmed' /\ Volumes'
      BY <2>1, <2>4 DEF Confirmed, Volumes, Setup!Target
    <3>2. Copies' /\ Finished'
      BY <2>1, <2>3, <2>4 DEF Copies, Finished, Setup!NoCopy
    <3> QED BY <3>1, <3>2
  <2>5. CASE wizard' = [wizard EXCEPT !.step = 3, !.status = "failed", !.text = "blank"] /\ wizard # Setup!Closed
    <3>1. /\ wizard'.step = 3 /\ wizard'.status = "failed" /\ wizard'.text = "blank" /\ wizard'.selected = wizard.selected
          /\ wizard'.targets = wizard.targets /\ wizard'.source = wizard.source
      BY <2>5
    <3>2. IsWizard(wizard)'
      BY <2>5, WizardShown
    <3>3. SetupTypes'
      <4>1. wizard'.selected <= Len(wizard'.targets) /\ wizard'.selected >= 1
        BY <2>3, <2>5, <3>1
      <4>2. wizard'.source \in Setup!Disks
        BY <2>5, <3>1
      <4> QED BY <2>1, <3>2, <4>1, <4>2
    <3>4. Confirmed' /\ Volumes' /\ Copies' /\ Finished'
      BY <2>1, <3>1 DEF Confirmed, Volumes, Copies, Finished, Setup!NoCopy
    <3> QED BY <3>3, <3>4
  <2>6. wizard = Setup!Closed => wizard' = wizard
    BY <2>1 DEF Setup!Shown
  <2> QED BY <2>2, <2>4, <2>5, <2>6
<1>3. ASSUME Setup!CopyEnds PROVE Spared'
  <2>1. /\ copy.total > 0 /\ copy.lba = copy.total /\ copy' = Setup!NoCopy /\ wizard' = Setup!Shown(copy.by, "finished")
        /\ mounted' = IF Setup!Usb \in {copy.source, copy.target} THEN mounted ELSE Setup!MountUsb(mounted)
        /\ UNCHANGED <<disks, stick, fresh, warned>>
    BY <1>3 DEF Setup!CopyEnds
  <2>2. \/ mounted' = mounted
        \/ /\ mounted' = mounted \cup {Setup!Usb} /\ Head(disks[Setup!Usb]) = "fat" /\ stick = "up"
           /\ Setup!Usb \notin {copy.source, copy.target}
    BY <2>1 DEF Setup!MountUsb, Setup!Answers
  <2>3. Volumes' /\ mounted' \subseteq {Setup!Slave, Setup!Usb}
    BY <2>1, <2>2, SlotsDiffer DEF Volumes
  <2>4. Copies'
    BY <2>1 DEF Copies, Setup!NoCopy
  <2>5. CASE copy.by # "wizard"
    <3>1. wizard' = wizard /\ wizard.status # "finished"
      BY <1>0, <2>1, <2>5 DEF Setup!Shown
    <3>2. SetupTypes' /\ Confirmed' /\ Finished'
      BY <2>1, <2>3, <3>1 DEF Confirmed, Finished, Setup!Target
    <3> QED BY <2>3, <2>4, <3>2
  <2>6. CASE copy.by = "wizard"
    <3>0. Setup!Closed.step = 0
      BY DEF Setup!Closed
    <3>1. wizard.step = 2 /\ wizard # Setup!Closed
      BY <1>0, <2>1, <2>6, <3>0
    <3>2. wizard' = [wizard EXCEPT !.step = 3, !.status = "finished", !.text = "blank"]
      BY <2>1, <2>6, <3>1 DEF Setup!Shown
    <3>3. /\ wizard'.step = 3 /\ wizard'.text = "blank" /\ wizard'.selected = wizard.selected
          /\ wizard'.targets = wizard.targets /\ wizard'.source = wizard.source
      BY <3>2
    <3>4. IsWizard(wizard)'
      BY <3>2, WizardShown
    <3>5. SetupTypes'
      <4>1. wizard'.selected <= Len(wizard'.targets) /\ wizard'.selected >= 1
        <5>1. wizard.selected >= 1 /\ wizard.selected <= Len(wizard.targets)
          BY <3>1
        <5> QED BY <3>3, <5>1
      <4>2. wizard'.source \in Setup!Disks
        BY <3>1, <3>3
      <4> QED BY <2>1, <2>3, <3>4, <4>1, <4>2
    <3>6. Confirmed'
      BY <3>3 DEF Confirmed
    <3>7. Setup!Target' = copy.target /\ wizard'.source = copy.source
      BY <1>0, <2>1, <2>6, <3>3 DEF Setup!Target
    <3>8. Apart(wizard.source, Setup!Target)'
      BY <1>0, <2>1, <2>2, <3>7 DEF Apart
    <3>9. Agree(wizard.source, Setup!Target, Len(disks[wizard.source]))'
      BY <1>0, <2>1, <3>7 DEF Agree
    <3>10. ~fresh'
      BY <1>0, <2>1, <2>6
    <3>11. Finished'
      BY <2>1, <3>3, <3>8, <3>9, <3>10 DEF Finished
    <3> QED BY <2>3, <2>4, <3>5, <3>6, <3>11
  <2> QED BY <2>5, <2>6
<1> QED BY <1>1, <1>2, <1>3

\* A wizard that turns a page or is told something, while nothing is copied.
LEMMA WizardSteps ==
  ASSUME None \notin Setup!Disks, Spared
  PROVE  /\ Setup!OpenInstaller => Spared'
         /\ Setup!InstallerNext => Spared'
         /\ Setup!InstallerBack => Spared'
         /\ \A i \in 1 .. 2 : Setup!InstallerPick(i) => Spared'
         /\ Setup!TypeErase => Spared'
         /\ Setup!Close => Spared'
<1>0. /\ SetupTypes /\ Confirmed /\ IsWizard(wizard) /\ wizard.selected \in Nat /\ wizard.step \in 0 .. 3
      /\ wizard.targets \in Seq(Setup!Disks) /\ wizard.selected <= Len(wizard.targets)
      /\ wizard.step >= 2 => wizard.selected >= 1
      /\ wizard.status = "finished" => wizard.step = 3
      /\ wizard = Setup!Closed \/ wizard.source \in Setup!Disks
  BY DEF Spared, SetupTypes, IsWizard, Finished
<1>a. /\ Setup!Closed.status = "closed" /\ Setup!Closed.text = "blank" /\ Setup!Closed.selected = 0
      /\ Setup!Closed.targets = <<>> /\ Setup!Closed.step = 0 /\ IsWizard(Setup!Closed)
  BY DEF Setup!Closed, IsWizard, Statuses
<1>1. ASSUME Setup!OpenInstaller PROVE Spared'
  <2> DEFINE w == [Setup!Closed EXCEPT !.source = Setup!DefaultSource,
                      !.targets = Setup!InstallTargets(Setup!DefaultSource), !.status = "welcome"]
  <2>1. /\ Setup!Waiting /\ wizard = Setup!Closed /\ wizard' = w
        /\ UNCHANGED <<disks, stick, fresh, mounted, copy>>
    BY <1>1 DEF Setup!OpenInstaller
  <2>2. /\ w.source = Setup!DefaultSource /\ w.targets = Setup!InstallTargets(Setup!DefaultSource)
        /\ DOMAIN w = {"step", "source", "targets", "selected", "text", "status"}
    BY DEF Setup!Closed
  <2>a. w.step = 0 /\ w.selected = 0 /\ w.text = "blank" /\ w.status = "welcome"
    BY DEF Setup!Closed
  <2> HIDE DEF w
  <2>4. /\ wizard'.step = 0 /\ wizard'.selected = 0 /\ wizard'.text = "blank" /\ wizard'.status = "welcome"
        /\ wizard'.targets \in Seq(Setup!Disks) /\ wizard'.source \in Setup!Disks
    BY <2>1, <2>2, <2>a, Listing
  <2>3. IsWizard(wizard)'
    BY <2>1, <2>2, <2>4 DEF IsWizard, Statuses
  <2>5. SetupTypes'
    <3>0. Len(wizard'.targets) \in Nat
      BY <2>4
    <3>1. wizard'.selected <= Len(wizard'.targets) /\ ~ (wizard'.step >= 2)
      BY <2>4, <3>0
    <3> QED BY <1>0, <2>1, <2>3, <2>4, <3>1 DEF SetupTypes
  <2>6. Confirmed'
    BY <2>4 DEF Confirmed
  <2> QED BY <1>a, <2>1, <2>4, <2>5, <2>6, WizardStep
<1>2. ASSUME NEW n \in 0 .. 2, Setup!Waiting, UNCHANGED <<disks, stick, fresh, mounted, copy>>,
             n = 2 => wizard.selected >= 1, wizard.status # "finished", wizard # Setup!Closed,
             wizard' = [wizard EXCEPT !.step = n, !.text = "blank"]
      PROVE  Spared'
  <2>1. n \in 0 .. 3
    OBVIOUS
  <2>3. IsWizard(wizard)'
    <3>1. IsWizard([wizard EXCEPT !.step = n, !.text = "blank"])
      BY <1>0, <2>1, WizardWith
    <3> QED BY <1>2, <3>1, SMTT(20) DEF IsWizard
  <2>4. /\ wizard'.step = n /\ wizard'.text = "blank" /\ wizard'.selected = wizard.selected
        /\ wizard'.targets = wizard.targets /\ wizard'.status = wizard.status /\ wizard'.source = wizard.source
    BY <1>0, <1>2, <2>1 DEF IsWizard
  <2>5. SetupTypes'
    BY <1>0, <1>2, <2>3, <2>4 DEF SetupTypes
  <2>6. Confirmed'
    BY <2>4 DEF Confirmed
  <2> QED BY <1>2, <2>4, <2>5, <2>6, WizardStep
<1>3. ASSUME Setup!Waiting, UNCHANGED <<disks, stick, fresh, mounted, copy, wizard>>, warned \subseteq warned',
             wizard.status # "finished"
      PROVE  Spared'
  <2>1. SetupTypes' /\ Confirmed'
    BY <1>0, <1>3 DEF SetupTypes, Confirmed, Setup!Target
  <2> QED BY <1>3, <2>1, WizardStep
<1>4. ASSUME Setup!InstallerNext PROVE Spared'
  <2>1. /\ wizard.step \in {0, 1} /\ Setup!Waiting /\ wizard # Setup!Closed /\ UNCHANGED <<disks, stick, fresh, mounted, copy, warned>>
        /\ \/ wizard.step = 1 /\ wizard.selected = 0 /\ wizard' = wizard
           \/ ~ (wizard.step = 1 /\ wizard.selected = 0) /\ wizard' = [wizard EXCEPT !.step = wizard.step + 1, !.text = "blank"]
    BY <1>4 DEF Setup!InstallerNext, Setup!Wizard
  <2>2. wizard.status # "finished"
    BY <1>0, <2>1
  <2> DEFINE n == wizard.step + 1
  <2>3. n \in 0 .. 2 /\ (~ (wizard.step = 1 /\ wizard.selected = 0) /\ n = 2 => wizard.selected >= 1)
    BY <1>0, <2>1
  <2>4. CASE wizard' = wizard
    BY <1>3, <2>1, <2>2, <2>4
  <2>5. CASE ~ (wizard.step = 1 /\ wizard.selected = 0) /\ wizard' = [wizard EXCEPT !.step = n, !.text = "blank"]
    <3> HIDE DEF n
    <3>1. n = 2 => wizard.selected >= 1
      BY <2>3, <2>5
    <3> QED BY <1>2, <2>1, <2>2, <2>3, <2>5, <3>1
  <2> QED BY <2>1, <2>4, <2>5
<1>5. ASSUME Setup!InstallerBack PROVE Spared'
  <2>1. /\ wizard.step \in {1, 2} /\ Setup!Waiting /\ wizard # Setup!Closed /\ UNCHANGED <<disks, stick, fresh, mounted, copy, warned>>
        /\ wizard' = [wizard EXCEPT !.step = wizard.step - 1, !.text = "blank"]
    BY <1>5 DEF Setup!InstallerBack, Setup!Wizard
  <2>2. wizard.status # "finished"
    BY <1>0, <2>1
  <2> DEFINE n == wizard.step - 1
  <2>3. n \in 0 .. 2 /\ n # 2 /\ wizard' = [wizard EXCEPT !.step = n, !.text = "blank"]
    BY <2>1
  <2> HIDE DEF n
  <2> QED BY <1>2, <2>1, <2>2, <2>3
<1>6. ASSUME NEW i \in 1 .. 2, Setup!InstallerPick(i) PROVE Spared'
  <2>1. /\ wizard.step = 1 /\ i \in DOMAIN wizard.targets /\ Setup!Waiting /\ wizard # Setup!Closed
        /\ UNCHANGED <<disks, stick, fresh, mounted, copy, warned>>
        /\ wizard' = [wizard EXCEPT !.selected = i]
    BY <1>6 DEF Setup!InstallerPick, Setup!Wizard
  <2>2. wizard.status # "finished" /\ wizard.text # "ERASE"
    BY <1>0, <2>1 DEF Confirmed
  <2>3. i \in Nat /\ i <= Len(wizard.targets)
    BY <1>0, <2>1, SMTT(20)
  <2>4. IsWizard(wizard)'
    BY <1>0, <2>1, <2>3, WizardWith
  <2>5. /\ wizard'.step = wizard.step /\ wizard'.text = wizard.text /\ wizard'.selected = i
        /\ wizard'.targets = wizard.targets /\ wizard'.status = wizard.status /\ wizard'.source = wizard.source
    BY <1>0, <2>1 DEF IsWizard
  <2>6. SetupTypes'
    BY <1>0, <2>1, <2>3, <2>4, <2>5 DEF SetupTypes
  <2>7. Confirmed'
    BY <2>2, <2>5 DEF Confirmed
  <2> QED BY <2>1, <2>2, <2>5, <2>6, <2>7, WizardStep
<1>7. ASSUME Setup!TypeErase PROVE Spared'
  <2>1. /\ wizard.step = 2 /\ Setup!Waiting /\ wizard # Setup!Closed /\ UNCHANGED <<disks, stick, fresh, mounted, copy>>
        /\ wizard' = [wizard EXCEPT !.text = "ERASE"] /\ warned' = warned \cup {Setup!Target}
    BY <1>7 DEF Setup!TypeErase, Setup!Wizard
  <2>2. wizard.status # "finished"
    BY <1>0, <2>1, SMTT(20)
  <2>3. IsWizard(wizard)'
    BY <1>0, <2>1, WizardWith
  <2>4. /\ wizard'.step = 2 /\ wizard'.selected = wizard.selected
        /\ wizard'.targets = wizard.targets /\ wizard'.status = wizard.status /\ wizard'.source = wizard.source
    BY <1>0, <2>1, WizardWith
  <2>5. SetupTypes'
    BY <1>0, <2>1, <2>3, <2>4 DEF SetupTypes
  <2>6. Confirmed'
    BY <2>1, <2>4 DEF Confirmed, Setup!Target
  <2> QED BY <2>1, <2>2, <2>4, <2>5, <2>6, WizardStep
<1>8. ASSUME Setup!Close PROVE Spared'
  <2>1. Setup!Waiting /\ UNCHANGED <<disks, stick, fresh, mounted, copy>> /\ wizard' = Setup!Closed
    BY <1>8 DEF Setup!Close, Setup!Wizard
  <2>2. SetupTypes'
    <3>1. IsWizard(wizard)'
      BY <1>a, <2>1, Zenon DEF IsWizard
    <3>2. wizard'.selected <= Len(wizard'.targets) /\ ~ (wizard'.step >= 2)
      BY <1>a, <2>1
    <3> QED BY <1>0, <2>1, <3>1, <3>2 DEF SetupTypes
  <2>3. Confirmed' /\ Finished' /\ Volumes'
    BY <1>a, <2>1 DEF Confirmed, Finished, Volumes, Spared
  <2>4. Copies'
    BY <2>1 DEF Copies, Setup!Waiting, Setup!NoCopy
  <2> QED BY <2>2, <2>3, <2>4 DEF Spared
<1> QED BY <1>1, <1>4, <1>5, <1>6, <1>7, <1>8

\* The copy that an accepted install begins.
LEMMA Begun ==
  ASSUME SetupTypes, NEW from \in Setup!Disks, NEW onto \in Setup!Disks, NEW by,
         ~Setup!Refused(from, onto),
         mounted' = mounted \ {from, onto}, UNCHANGED <<disks, stick>>,
         copy' = [source |-> from, target |-> onto, lba |-> 0, total |-> Len(disks[from]), by |-> by]
  PROVE  /\ Apart(copy.source, copy.target)'
         /\ copy' = [source |-> copy'.source, target |-> copy'.target, lba |-> copy'.lba, total |-> copy'.total, by |-> copy'.by]
         /\ copy'.source = from /\ copy'.target = onto /\ copy'.by = by
         /\ copy'.total = Len(disks'[from]) /\ copy'.lba \in 0 .. copy'.total
         /\ Agree(copy.source, copy.target, copy.lba)'
<1>1. copy'.source = from /\ copy'.target = onto /\ copy'.by = by /\ copy'.lba = 0 /\ copy'.total = Len(disks'[from])
  OBVIOUS
<1>2. disks[from] \in Seq(Chunks) /\ disks[onto] \in Seq(Chunks)
  BY DEF SetupTypes
<1>3. /\ from # onto /\ disks[from] # <<>> /\ Len(disks[onto]) >= Len(disks[from])
      /\ Setup!Usb \in {from, onto} => stick = "up"
  BY <1>2, Lengths DEF Setup!Refused, Setup!Answers, Setup!NoDisk
<1>4. Len(disks[from]) > 0 /\ Len(disks[from]) \in Nat
  BY <1>2, <1>3
<1>5. Apart(copy.source, copy.target)'
  BY <1>1, <1>2, <1>3, <1>4, Lengths DEF Apart
<1>6. Agree(copy.source, copy.target, copy.lba)'
  BY <1>1 DEF Agree
<1>7. copy'.lba \in 0 .. copy'.total
  BY <1>1, <1>4
<1> QED BY <1>1, <1>5, <1>6, <1>7

\* An install begins, from the wizard or the shell.
LEMMA InstallSteps ==
  ASSUME None \notin Setup!Disks, Spared
  PROVE  /\ Setup!InstallerStart => Spared'
         /\ \A onto \in Setup!Disks : Setup!ShellInstall(onto) => Spared'
         /\ Setup!TryAutoinstall => Spared'
<1>0. /\ SetupTypes /\ Confirmed /\ IsWizard(wizard) /\ Volumes /\ Finished
      /\ wizard.targets \in Seq(Setup!Disks) /\ wizard.selected <= Len(wizard.targets) /\ wizard.selected \in Nat
      /\ wizard.step >= 2 => wizard.selected >= 1
      /\ wizard = Setup!Closed \/ wizard.source \in Setup!Disks
      /\ wizard.status = "finished" => wizard.step = 3
  BY DEF Spared, SetupTypes, IsWizard, Finished
<1>a. /\ Setup!Closed.status = "closed" /\ Setup!Closed.text = "blank" /\ Setup!Closed.step = 0
  BY DEF Setup!Closed
<1>1. ASSUME NEW from \in Setup!Disks, NEW onto \in Setup!Disks, NEW by \in {"shell", "autoinst"},
             ~Setup!Refused(from, onto), wizard = Setup!Closed, UNCHANGED <<wizard, disks, stick, fresh>>,
             mounted' = mounted \ {from, onto}, warned' = {onto},
             copy' = [source |-> from, target |-> onto, lba |-> 0, total |-> Len(disks[from]), by |-> by]
      PROVE  Spared'
  <2>1. SetupTypes'
    BY <1>0, <1>1 DEF SetupTypes, IsWizard
  <2>2. Confirmed' /\ Finished'
    BY <1>1, <1>a DEF Confirmed, Finished
  <2>3. Volumes'
    BY <1>0, <1>1 DEF Volumes
  <2>4. Copies'
    BY <1>0, <1>1, Begun DEF Copies
  <2> QED BY <2>1, <2>2, <2>3, <2>4 DEF Spared
<1>2. ASSUME Setup!InstallerStart PROVE Spared'
  <2> DEFINE from == wizard.source
             onto == Setup!Target
  <2>1. /\ Setup!Waiting /\ wizard.step = 2 /\ wizard.text = "ERASE" /\ onto # None
        /\ UNCHANGED <<disks, stick, fresh, warned>>
        /\ \/ /\ wizard' = Setup!Shown("wizard", "failed") /\ UNCHANGED <<mounted, copy>>
           \/ /\ ~Setup!Refused(from, onto) /\ mounted' = mounted \ {from, onto}
              /\ copy' = [source |-> from, target |-> onto, lba |-> 0, total |-> Len(disks[from]), by |-> "wizard"]
              /\ wizard' = [wizard EXCEPT !.text = "blank"]
    BY <1>2 DEF Setup!InstallerStart, Setup!Install, Setup!Unmounted
  <2>2. /\ wizard # Setup!Closed /\ from \in Setup!Disks /\ wizard.selected >= 1 /\ wizard.status # "finished"
    BY <1>0, <1>a, <2>1
  <2>3. onto \in Setup!Disks /\ onto \in warned
    <3>1. onto = wizard.targets[wizard.selected] /\ wizard.selected \in 1 .. Len(wizard.targets)
      BY <1>0, <2>2 DEF Setup!Target
    <3>2. onto \in Setup!Disks
      BY <1>0, <3>1
    <3>3. onto \in warned
      BY <1>0, <2>1 DEF Confirmed
    <3> QED BY <3>2, <3>3
  <2>4. CASE wizard' = Setup!Shown("wizard", "failed") /\ UNCHANGED <<mounted, copy>>
    <3>1. wizard' = [wizard EXCEPT !.step = 3, !.status = "failed", !.text = "blank"]
      BY <2>2, <2>4 DEF Setup!Shown
    <3>2. LET t == [wizard EXCEPT !.step = 3, !.status = "failed", !.text = "blank"] IN
            /\ IsWizard(t) /\ t.step = 3 /\ t.text = "blank" /\ t.selected = wizard.selected /\ t.status = "failed"
            /\ t.targets = wizard.targets /\ t.source = wizard.source
      BY <1>0, WizardShown
    <3>3. IsWizard(wizard)'
      BY <3>1, <3>2 DEF IsWizard
    <3>4. /\ wizard'.text = "blank" /\ wizard'.selected = wizard.selected /\ wizard'.status = "failed"
          /\ wizard'.targets = wizard.targets /\ wizard'.source = wizard.source
      BY <3>1, <3>2
    <3>5. SetupTypes'
      BY <1>0, <2>1, <2>2, <2>4, <3>3, <3>4 DEF SetupTypes
    <3>6. Confirmed'
      BY <3>4 DEF Confirmed
    <3> QED BY <2>1, <2>2, <2>4, <3>4, <3>5, <3>6, WizardStep
  <2>5. CASE /\ ~Setup!Refused(from, onto) /\ mounted' = mounted \ {from, onto}
             /\ copy' = [source |-> from, target |-> onto, lba |-> 0, total |-> Len(disks[from]), by |-> "wizard"]
             /\ wizard' = [wizard EXCEPT !.text = "blank"]
    <3>1. /\ wizard'.step = 2 /\ wizard'.text = "blank" /\ wizard'.selected = wizard.selected
          /\ wizard'.targets = wizard.targets /\ wizard'.source = wizard.source /\ wizard'.status = wizard.status
      BY <1>0, <2>1, <2>5 DEF IsWizard
    <3>2. IsWizard(wizard)'
      BY <1>0, <2>5 DEF IsWizard
    <3>3. SetupTypes'
      BY <1>0, <2>1, <2>2, <2>5, <3>1, <3>2 DEF SetupTypes
    <3>4. Confirmed' /\ Finished'
      BY <2>2, <3>1 DEF Confirmed, Finished
    <3>5. Volumes'
      BY <1>0, <2>1, <2>5 DEF Volumes
    <3>6. Setup!Target' = onto
      BY <3>1 DEF Setup!Target
    <3> HIDE DEF from, onto
    <3>7. /\ Apart(copy.source, copy.target)'
          /\ copy' = [source |-> copy'.source, target |-> copy'.target, lba |-> copy'.lba, total |-> copy'.total, by |-> copy'.by]
          /\ copy'.source = from /\ copy'.target = onto /\ copy'.by = "wizard"
          /\ copy'.total = Len(disks'[from]) /\ copy'.lba \in 0 .. copy'.total
          /\ Agree(copy.source, copy.target, copy.lba)'
      BY <1>0, <2>1, <2>2, <2>3, <2>5, Begun
    <3>8. copy'.target \in warned' /\ ~fresh' /\ wizard'.source = copy'.source /\ wizard'.status # "finished"
      BY <2>1, <2>2, <2>3, <3>1, <3>7 DEF Setup!Waiting, from
    <3>9. Copies'
      BY <3>1, <3>6, <3>7, <3>8 DEF Copies
    <3> QED BY <3>3, <3>4, <3>5, <3>9 DEF Spared
  <2> QED BY <2>1, <2>4, <2>5
<1>3. ASSUME NEW onto \in Setup!Disks, Setup!ShellInstall(onto) PROVE Spared'
  <2> DEFINE from == Setup!DefaultSource
  <2>1. /\ Setup!Waiting /\ wizard = Setup!Closed /\ warned' = {onto} /\ UNCHANGED <<disks, stick, fresh>>
        /\ \/ wizard' = Setup!Shown("shell", "failed") /\ UNCHANGED <<mounted, copy>>
           \/ /\ ~Setup!Refused(from, onto) /\ mounted' = mounted \ {from, onto} /\ wizard' = wizard
              /\ copy' = [source |-> from, target |-> onto, lba |-> 0, total |-> Len(disks[from]), by |-> "shell"]
    BY <1>3 DEF Setup!ShellInstall, Setup!Install, Setup!Unmounted
  <2>2. Setup!Shown("shell", "failed") = wizard
    BY DEF Setup!Shown
  <2>3. CASE wizard' = wizard /\ UNCHANGED <<mounted, copy>>
    <3>1. SetupTypes' /\ Confirmed' /\ Finished'
      BY <1>0, <1>a, <2>1, <2>3 DEF SetupTypes, IsWizard, Confirmed, Finished
    <3>2. Copies' /\ Volumes'
      BY <1>0, <2>1, <2>3 DEF Copies, Volumes, Setup!Waiting, Setup!NoCopy
    <3> QED BY <3>1, <3>2 DEF Spared
  <2>4. from \in Setup!Disks
    BY Listing
  <2> HIDE DEF from
  <2> QED BY <1>1, <2>1, <2>2, <2>3, <2>4
<1>4. ASSUME Setup!TryAutoinstall PROVE Spared'
  <2> DEFINE from == Setup!DefaultSource
             onto == IF Setup!Usb \in mounted /\ Setup!Answers(Setup!Usb) THEN Setup!AutoTarget(disks[Setup!Usb][2]) ELSE None
  <2>1. /\ copy.by = "boot" /\ UNCHANGED <<disks, stick, fresh, wizard>>
        /\ \/ copy' = Setup!NoCopy /\ UNCHANGED <<mounted, warned>>
           \/ /\ onto # None /\ ~Setup!Refused(from, onto) /\ mounted' = mounted \ {from, onto} /\ warned' = {onto}
              /\ copy' = [source |-> from, target |-> onto, lba |-> 0, total |-> Len(disks[from]), by |-> "autoinst"]
    BY <1>4 DEF Setup!TryAutoinstall, Setup!Unmounted
  <2>2. wizard = Setup!Closed
    BY <2>1 DEF Spared, Copies
  <2>3. onto # None => onto \in Setup!Disks
    BY SlotsDiffer DEF Setup!AutoTarget
  <2>4. from \in Setup!Disks
    BY Listing
  <2> HIDE DEF from, onto
  <2>5. CASE copy' = Setup!NoCopy /\ UNCHANGED <<mounted, warned>>
    <3>1. SetupTypes' /\ Confirmed' /\ Finished' /\ Volumes'
      BY <1>0, <1>a, <2>1, <2>2, <2>5 DEF SetupTypes, IsWizard, Confirmed, Finished, Volumes
    <3>2. Copies'
      BY <2>5 DEF Copies, Setup!NoCopy
    <3> QED BY <3>1, <3>2 DEF Spared
  <2> QED BY <1>1, <2>1, <2>2, <2>3, <2>4, <2>5
<1> QED BY <1>2, <1>3, <1>4

\* The machine is switched off, or boots.
LEMMA PowerSteps ==
  ASSUME None \notin Setup!Disks, Spared
  PROVE  Setup!PowerOff \/ Setup!Boot => Spared'
<1> USE DEF Spared, SetupTypes
<1>a. /\ Setup!Closed.status = "closed" /\ Setup!Closed.text = "blank" /\ Setup!Closed.step = 0
      /\ Setup!Closed.selected = 0 /\ Setup!Closed.targets = <<>>
  BY DEF Setup!Closed
<1>b. IsWizard(Setup!Closed)
  BY DEF Setup!Closed, IsWizard, Statuses
<1>c. Setup!Closed.selected <= Len(Setup!Closed.targets)
  BY <1>a
<1>1. ASSUME Setup!PowerOff PROVE Spared'
  <2>1. /\ disks' \in {disks, [disks EXCEPT ![Setup!Master] = disks[Setup!Slave], ![Setup!Slave] = disks[Setup!Master]]}
        /\ stick' \in {"none", "up"} /\ fresh' = FALSE /\ mounted' = {} /\ wizard' = Setup!Closed
        /\ copy' = [Setup!NoCopy EXCEPT !.by = "off"]
    BY <1>1 DEF Setup!PowerOff
  <2>2. disks' \in [Setup!Disks -> Seq(Chunks)]
    BY <2>1, SlotsDiffer
  <2>3. IsWizard(wizard)' /\ wizard'.selected <= Len(wizard'.targets) /\ ~ (wizard'.step >= 2)
    <3>1. wizard' = Setup!Closed
      BY <2>1
    <3>2. IsWizard(wizard)'
      BY <1>b, <3>1, Zenon DEF IsWizard
    <3> QED BY <1>a, <1>c, <3>1, <3>2
  <2>4. SetupTypes'
    BY <2>1, <2>2, <2>3
  <2>5. Confirmed' /\ Finished' /\ Volumes'
    BY <1>a, <2>1 DEF Confirmed, Finished, Volumes
  <2>6. copy'.by = "off"
    BY <2>1 DEF Setup!NoCopy
  <2>7. Copies'
    BY <2>1, <2>6 DEF Copies
  <2> QED BY <2>4, <2>5, <2>7
<1>2. ASSUME Setup!Boot PROVE Spared'
  <2> DEFINE s == disks[Setup!Slave]
  <2>1. /\ copy.by = "off" /\ copy' = [Setup!NoCopy EXCEPT !.by = "boot"] /\ fresh' = (stick = "up") /\ warned' = {}
        /\ disks' = IF s = Setup!NoDisk THEN disks ELSE [disks EXCEPT ![Setup!Slave] = Setup!Formatted(s)]
        /\ mounted' = Setup!MountUsb(IF s = Setup!NoDisk THEN {} ELSE {Setup!Slave})
        /\ UNCHANGED <<stick, wizard>>
    BY <1>2 DEF Setup!Boot
  <2>2. wizard = Setup!Closed
    BY <2>1 DEF Copies
  <2>3. s \in Seq(Chunks)
    BY SlotsDiffer
  <2>4. ASSUME s # Setup!NoDisk
        PROVE  Setup!Formatted(s) \in Seq(Chunks) /\ Head(Setup!Formatted(s)) = "fs"
    <3> HIDE DEF s
    <3>1. 1 \in 1 .. Len(s)
      BY <2>3, <2>4 DEF Setup!NoDisk
    <3>2. "fs" \in Chunks
      BY DEF Chunks
    <3>3. [s EXCEPT ![1] = "fs"] \in Seq(Chunks) /\ Head([s EXCEPT ![1] = "fs"]) = "fs"
      BY <2>3, <3>1, <3>2, Rewritten
    <3> QED BY <2>3, <3>3 DEF Setup!Formatted
  <2>5. disks' \in [Setup!Disks -> Seq(Chunks)] /\ disks'[Setup!Usb] = disks[Setup!Usb]
        /\ (s # Setup!NoDisk => Head(disks'[Setup!Slave]) = "fs")
    <3> HIDE DEF s
    <3>1. CASE s = Setup!NoDisk
      BY <2>1, <3>1
    <3>2. CASE s # Setup!NoDisk
      BY <2>1, <2>4, <3>2, SlotsDiffer
    <3> QED BY <3>1, <3>2
  <2> HIDE DEF s
  <2>6. /\ mounted' \subseteq {Setup!Slave, Setup!Usb} /\ (Setup!Slave \in mounted' => s # Setup!NoDisk)
        /\ Setup!Usb \in mounted' => Head(disks[Setup!Usb]) = "fat" /\ stick = "up"
    BY <2>1, SlotsDiffer DEF Setup!MountUsb, Setup!Answers
  <2>7. Volumes'
    BY <2>1, <2>5, <2>6 DEF Volumes
  <2>8. fresh' \in BOOLEAN
    BY <2>1
  <2>9. IsWizard(wizard)' /\ wizard'.selected <= Len(wizard'.targets) /\ ~ (wizard'.step >= 2)
    BY <1>a, <1>b, <1>c, <2>1, <2>2 DEF IsWizard
  <2>10. SetupTypes'
    BY <2>1, <2>2, <2>5, <2>6, <2>8, <2>9
  <2>11. Confirmed' /\ Finished'
    BY <1>a, <2>1, <2>2 DEF Confirmed, Finished
  <2>12. copy'.by = "boot"
    BY <2>1 DEF Setup!NoCopy
  <2>13. Copies'
    BY <2>1, <2>2, <2>12 DEF Copies
  <2> QED BY <2>7, <2>10, <2>11, <2>13
<1> QED BY <1>1, <1>2

\* The invariant holds in every step of the installer.
LEMMA SparedStep ==
  ASSUME None \notin Setup!Disks, Spared, [Setup!Next]_(Setup!vars)
  PROVE  Spared'
<1>1. CASE UNCHANGED Setup!vars
  <2>1. UNCHANGED <<disks, stick, fresh, mounted, wizard, copy, warned>>
    BY <1>1 DEF Setup!vars
  <2>2. SetupTypes' /\ Confirmed'
    BY <2>1 DEF Spared, SetupTypes, IsWizard, Confirmed, Setup!Target
  <2>3. Copies' /\ Volumes' /\ Finished'
    BY <2>1 DEF Spared, Copies, Volumes, Finished, Apart, Agree, Setup!Target
  <2> QED BY <2>2, <2>3 DEF Spared
<1>2. \A s \in {<<"fat", "file">>, <<"mbr", "body">>} : s \in Seq(Chunks)
  <2>1. "mbr" \in Chunks /\ "body" \in Chunks /\ "file" \in Chunks /\ "fat" \in Chunks
    BY DEF Chunks
  <2>2. <<"fat", "file">> \in Seq(Chunks) /\ <<"mbr", "body">> \in Seq(Chunks)
    BY <2>1
  <2> QED BY <2>2, Zenon
<1>3. CASE Setup!Next
  BY <1>2, <1>3, VolumeSteps, CopySteps, WizardSteps, InstallSteps, PowerSteps DEF Setup!Next
<1> QED BY <1>1, <1>3

\* Nothing is mounted, shown or copied at the start.
LEMMA SparedInit ==
  ASSUME Setup!Init
  PROVE  Spared
<1>1. PICK s \in {<<>>, <<"other">>, <<"fs", "file", "file">>}, u \in {<<"fat", "file">>, <<"mbr", "body">>} \cup {Setup!NoDisk} :
        /\ disks = [d \in Setup!Disks |-> CASE d = Setup!Master -> Setup!Image [] d = Setup!Slave -> s [] d = Setup!Usb -> u]
        /\ stick = IF u = Setup!NoDisk THEN "none" ELSE "up"
  BY DEF Setup!Init
<1>2. s \in Seq(Chunks) /\ u \in Seq(Chunks) /\ Setup!Image \in Seq(Chunks)
  <2>1. /\ "mbr" \in Chunks /\ "body" \in Chunks /\ "other" \in Chunks /\ "fs" \in Chunks
        /\ "file" \in Chunks /\ "fat" \in Chunks
    BY DEF Chunks
  <2>2. <<>> \in Seq(Chunks) /\ <<"mbr", "body">> \in Seq(Chunks) /\ <<"other">> \in Seq(Chunks)
    BY <2>1
  <2>3. <<"fs", "file", "file">> \in Seq(Chunks) /\ <<"fat", "file">> \in Seq(Chunks)
    BY <2>1
  <2>4. s = <<>> \/ s = <<"other">> \/ s = <<"fs", "file", "file">>
    OBVIOUS
  <2>5. u = <<>> \/ u = <<"fat", "file">> \/ u = <<"mbr", "body">>
    BY DEF Setup!NoDisk
  <2> QED BY <2>2, <2>3, <2>4, <2>5 DEF Setup!Image
<1>3. disks \in [Setup!Disks -> Seq(Chunks)]
  BY <1>1, <1>2, SlotsDiffer
<1>4. fresh = FALSE /\ mounted = {} /\ wizard = Setup!Closed /\ copy = [Setup!NoCopy EXCEPT !.by = "off"]
  BY DEF Setup!Init
<1>a. /\ Setup!Closed.status = "closed" /\ Setup!Closed.text = "blank" /\ Setup!Closed.step = 0
      /\ Setup!Closed.selected = 0 /\ Setup!Closed.targets = <<>> /\ IsWizard(Setup!Closed)
  BY DEF Setup!Closed, IsWizard, Statuses
<1>5. wizard.selected <= Len(wizard.targets)
  BY <1>4, <1>a
<1>6. SetupTypes
  <2>1. stick \in {"none", "up", "gone"} /\ fresh \in BOOLEAN /\ mounted \subseteq {Setup!Slave, Setup!Usb}
    BY <1>1, <1>4
  <2>2. IsWizard(wizard) /\ ~ (wizard.step >= 2)
    BY <1>4, <1>a
  <2> QED BY <1>3, <1>4, <1>5, <2>1, <2>2 DEF SetupTypes
<1>7. copy.by = "off"
  BY <1>4 DEF Setup!NoCopy
<1>8. Confirmed /\ Copies /\ Volumes /\ Finished
  BY <1>4, <1>7, <1>a DEF Confirmed, Copies, Volumes, Finished
<1> QED BY <1>6, <1>8 DEF Spared

\* The invariant gives both properties.
LEMMA SparedImplies ==
  ASSUME None \notin Setup!Disks, Spared
  PROVE  Setup!ErasesWhatWasConfirmed /\ Setup!FinishedIsWhole
<1>1. Setup!NoCopy.lba = 0 /\ Setup!NoCopy.source = None /\ Setup!NoCopy.target = None
  BY DEF Setup!NoCopy
<1>2. mounted \subseteq Setup!Disks
  BY SlotsDiffer DEF Spared, SetupTypes
<1>3. copy.lba > 0 => copy.target \in warned
  <2>1. copy.by \in {"nobody", "off", "boot"} /\ copy = [Setup!NoCopy EXCEPT !.by = copy.by] => copy.lba = 0
    BY DEF Setup!NoCopy
  <2> QED BY <2>1 DEF Spared, Copies
<1>4. mounted \cap {copy.source, copy.target} = {}
  <2>1. copy = [Setup!NoCopy EXCEPT !.by = copy.by] => copy.source = None /\ copy.target = None
    BY DEF Setup!NoCopy
  <2> QED BY <1>2, <2>1 DEF Spared, Copies, Apart
<1>5. Setup!ErasesWhatWasConfirmed
  BY <1>3, <1>4 DEF Setup!ErasesWhatWasConfirmed, Spared, Volumes
<1>6. ASSUME wizard.status = "finished"
      PROVE  /\ SubSeq(disks[Setup!Target], 1, Len(disks[wizard.source])) = disks[wizard.source]
             /\ Setup!Target \notin mounted
  <2> DEFINE s == disks[wizard.source]
             t == disks[Setup!Target]
  <2>1. /\ Apart(wizard.source, Setup!Target) /\ Agree(wizard.source, Setup!Target, Len(s))
    BY <1>6 DEF Spared, Finished
  <2>2. s \in Seq(Chunks) /\ t \in Seq(Chunks) /\ Len(s) <= Len(t) /\ \A i \in 1 .. Len(s) : t[i] = s[i]
    BY <2>1 DEF Apart, Agree, Spared, SetupTypes
  <2> HIDE DEF s, t
  <2>3. SubSeq(t, 1, Len(s)) = s
    BY <2>2
  <2> QED BY <2>1, <2>3 DEF s, t, Apart
<1>7. Setup!FinishedIsWhole
  BY <1>6 DEF Setup!FinishedIsWhole
<1> QED BY <1>5, <1>7

\* The two drives of the composition.
LEMMA ChannelSizes ==
  ASSUME None \notin {"master", "slave"}
  PROVE  Channel!DriveSizes
<1> DEFINE C == [master |-> 2, slave |-> 2]
<1>1. DOMAIN C = {"master", "slave"} /\ C["master"] = 2 /\ C["slave"] = 2
  OBVIOUS
<1>2. C \in [DOMAIN C -> Nat]
  BY <1>1
<1>3. None \notin DOMAIN C
  BY <1>1
<1> QED BY <1>2, <1>3 DEF Channel!DriveSizes, Channel!Drives

\* Also beside the others, a transfer that ends well moved what was asked and left what it
\* wrote on the platter (ata.rs), no disk is erased that was not named, and an install is
\* called finished only over a whole copy that no volume can change (install.rs).
THEOREM ServicesDisksHoldWhatWasAsked ==
  ASSUME None \notin {"master", "slave", "AtaMaster", "AtaSlave", "Usb"}
  PROVE  Spec => []DisksHoldWhatWasAsked
<1> DEFINE I == (part = "channel" => Channel!Inv) /\ (part = "installer" => Spared)
<1>0. Channel!DriveSizes /\ None \notin Setup!Disks
  BY ChannelSizes DEF Setup!Disks, Setup!Master, Setup!Slave, Setup!Usb
<1>1. Init => I
  BY <1>0, Channel!InitInv, SparedInit DEF Init
<1>2. I /\ [Next]_vars => I'
  BY <1>0, OnePart, Channel!StepInv, SparedStep
<1>3. I => DisksHoldWhatWasAsked
  BY <1>0, Channel!InvImplies, SparedImplies DEF DisksHoldWhatWasAsked
<1> QED BY <1>1, <1>2, <1>3, PTL DEF Spec

-----------------------------------------------------------------------------
(* The secure channel: every record was put at a point of the server's     *)
(* sending, and the client that has read as many is at the same point.     *)

StreamBounds == MaxFragments \in Nat /\ MaxPieces \in Nat

\* The fragments of the whole flight, what a server may say first and what it says later.
FlightEnds == 2 * Len(flight)
Early == {"hello", "altered", "retry"}
Late == {"data", "close", "ticket", "update", "alert"}
Words == {"hello", "altered", "extensions", "request", "certificate", "finished"}
Points == [flown : Nat, seq : Nat, items : Nat, greeted : BOOLEAN, closed : BOOLEAN]
Hello == <<"hello">>
HeardUpTo(k) == Hello \o SubSeq(flight, 1, k)
\* The fragment of a message that is not whole after f fragments, and the next n of them.
LeftOver(f) == IF f % 2 = 0 THEN <<>> ELSE <<flight[(f + 1) \div 2]>>
Fragments(f, n) == [i \in 1 .. n |-> flight[(f + i + 1) \div 2]]
Rest(buffer) == SubSeq(buffer, 2 * Len(Secure!WholeMessages(buffer)) + 1, Len(buffer))
Count(k) == [i \in 1 .. k |-> i]

\* What the server had sent at a point: fragments, records under its keys, data records,
\* whether it had said hello, and whether it had closed.
Sane(a) ==
  /\ a.flown <= FlightEnds
  /\ ~a.greeted => a.flown = 0 /\ a.seq = 0
  /\ a.flown < FlightEnds => a.items = 0 /\ ~a.closed
  /\ a.items <= Secure!DataSent

\* The record r, put at the point a, leads to b.
PutsFlight(a, r, b) ==
  /\ r.body = "messages" /\ a.greeted
  /\ r.secret = Secure!Handshake(<<"hello">>) /\ r.seq = a.seq
  /\ \E n \in Nat :
       /\ n > 0 /\ a.flown + n <= FlightEnds
       /\ r.parts = Fragments(a.flown, n)
       /\ b = [flown |-> a.flown + n, seq |-> IF a.flown + n = FlightEnds THEN 0 ELSE a.seq + 1,
               items |-> a.items, greeted |-> TRUE, closed |-> FALSE]

PutsLate(a, r, b) ==
  /\ r.body \in Late /\ a.flown = FlightEnds
  /\ r.secret = Secure!Application(Secure!ServerTranscript) /\ r.seq = a.seq
  /\ r.body = "data" => r.parts = <<a.items + 1>>
  /\ b = [flown |-> FlightEnds, seq |-> a.seq + 1,
          items |-> IF r.body = "data" THEN a.items + 1 ELSE a.items,
          greeted |-> TRUE, closed |-> (r.body = "close")]

Puts(a, r, b) ==
  /\ ~a.closed
  /\ \/ r.body = "ccs" /\ a.flown < FlightEnds /\ b = a
     \/ /\ r.body \in Early /\ ~a.greeted
        /\ b = [flown |-> 0, seq |-> 0, items |-> a.items, greeted |-> TRUE, closed |-> FALSE]
     \/ PutsFlight(a, r, b)
     \/ PutsLate(a, r, b)

ServerNow == [flown |-> flown, seq |-> seq, items |-> Secure!DataSent, greeted |-> Secure!Greeted,
        closed |-> sent # <<>> /\ Secure!Last(sent).body = "close"]

\* The account of the points passed while the records there are were put.
Wrote(st) ==
  /\ st \in [0 .. Len(sent) -> Points]
  /\ st[Len(sent)] = ServerNow
  /\ \A i \in 0 .. Len(sent) : Sane(st[i])
  /\ \A i \in 1 .. Len(sent) : Puts(st[i - 1], sent[i], st[i])

\* The client has heard what the server had said at the point a.
InStep(a) ==
  /\ a.flown < FlightEnds /\ opened = a.seq
  /\ transcript = HeardUpTo(a.flown \div 2)
  /\ hs = LeftOver(a.flown)

Follows(a) ==
  /\ phase = "hello" => ~a.greeted /\ hs = <<>> /\ opened = 0 /\ data = <<>>
  /\ phase = "flight" => /\ a.greeted /\ data = <<>>
                         /\ (excuse /\ transcript = <<"altered">>) \/ InStep(a)
  /\ phase = "open" => a.greeted /\ a.flown = FlightEnds /\ opened = a.seq /\ transcript = Secure!ServerTranscript
  /\ phase \in {"open", "finished"} => data = Count(a.items)
  /\ phase = "finished" => a.closed

StreamTypes ==
  /\ (\E S : sent \in Seq(S)) /\ flight \in Secure!Flights /\ flown \in Nat /\ seq \in Nat
  /\ got \in 0 .. 2 * Len(sent) /\ read \in Nat /\ 2 * read <= got
  /\ phase \in {"hello", "flight", "open", "ended", "finished", "failed"}
  /\ excuse \in BOOLEAN

\* Every odd hello, flight or record is written down as a reason to fail.
Reasons ==
  /\ ~excuse => flight = Secure!Usual
  /\ ~excuse => \A i \in 1 .. Len(sent) : sent[i].body \notin {"altered", "retry", "update", "alert"}
  /\ phase = "failed" => excuse

\* What recv_to_end holds is the beginning of the data.
DataHeld == \E k \in 0 .. Secure!DataSent : data = Count(k)

\* The records tell, one by one, where the server was and what the client knows.
StreamInv ==
  /\ StreamTypes /\ Reasons /\ DataHeld
  /\ \E st : Wrote(st) /\ Follows(st[read])

-----------------------------------------------------------------------------
\* The two messages after the first of three.
LEMMA TailOfThree ==
  ASSUME NEW W, NEW t \in Seq(W), Len(t) = 3
  PROVE  Tail(t) \in Seq(W) /\ Len(Tail(t)) = 2 /\ Tail(t)[1] = t[2] /\ Tail(t)[2] = t[3]
BY SMTT(20)

\* A pair is a sequence of its members.
LEMMA PairOf ==
  ASSUME NEW W, NEW a \in W, NEW b \in W
  PROVE  <<a, b>> \in Seq(W) /\ Len(<<a, b>>) = 2 /\ <<a, b>>[1] = a /\ <<a, b>>[2] = b
OBVIOUS

\* Two messages before two others.
LEMMA Joined ==
  ASSUME NEW W, NEW h \in Seq(W), NEW t \in Seq(W), Len(h) = 2, Len(t) = 2
  PROVE  /\ h \o t \in Seq(W) /\ Len(h \o t) = 4 /\ (h \o t)[1] = h[1] /\ (h \o t)[2] = h[2]
         /\ (h \o t)[3] = t[1] /\ (h \o t)[4] = t[2]
<1>1. h \o t \in Seq(W) /\ Len(h \o t) = 4
  BY ConcatProperties, Z3
<1>2. 1 \in 1 .. 4 /\ 2 \in 1 .. 4 /\ 3 \in 1 .. 4 /\ 4 \in 1 .. 4
  OBVIOUS
<1> QED BY <1>1, <1>2, ConcatProperties

\* A flight ends with Finished and has it nowhere else; the usual one asks for no certificate.
LEMMA TheFlights ==
  ASSUME flight \in Secure!Flights
  PROVE  /\ flight \in Seq(Words) /\ Len(flight) \in {3, 4}
         /\ flight[Len(flight)] = "finished"
         /\ \A i \in 1 .. Len(flight) - 1 : flight[i] # "finished"
         /\ flight = Secure!Usual => \A i \in 1 .. Len(flight) : flight[i] # "request"
<1>1. /\ Secure!Usual \in Seq(Words) /\ Len(Secure!Usual) = 3
      /\ Secure!Usual[1] = "extensions" /\ Secure!Usual[2] = "certificate" /\ Secure!Usual[3] = "finished"
  BY DEF Secure!Usual, Words
<1>2. CASE flight = Secure!Usual
  <2>1. \A i \in 1 .. 3 : i = 1 \/ i = 2 \/ i = 3
    OBVIOUS
  <2>2. flight \in Seq(Words) /\ Len(flight) = 3
    BY <1>1, <1>2
  <2>3. flight[1] = "extensions" /\ flight[2] = "certificate" /\ flight[3] = "finished"
    BY <1>1, <1>2
  <2>4. \A i \in 1 .. Len(flight) - 1 : flight[i] # "finished"
    BY <2>1, <2>2, <2>3
  <2>5. \A i \in 1 .. Len(flight) : flight[i] # "request"
    BY <2>1, <2>2, <2>3
  <2> QED BY <2>2, <2>3, <2>4, <2>5
<1>3. CASE flight = <<"extensions", "request">> \o Tail(Secure!Usual)
  <2>1. /\ Tail(Secure!Usual) \in Seq(Words) /\ Len(Tail(Secure!Usual)) = 2
        /\ Tail(Secure!Usual)[1] = "certificate" /\ Tail(Secure!Usual)[2] = "finished"
    BY <1>1, TailOfThree
  <2>2. "extensions" \in Words /\ "request" \in Words
    BY DEF Words
  <2> DEFINE h == <<"extensions", "request">>
             t == Tail(Secure!Usual)
  <2>5. h \in Seq(Words) /\ Len(h) = 2 /\ h[1] = "extensions" /\ h[2] = "request"
    BY <2>2, PairOf
  <2>6. flight = h \o t
    BY <1>3
  <2>7. t \in Seq(Words) /\ Len(t) = 2 /\ t[1] = "certificate" /\ t[2] = "finished"
    BY <2>1
  <2> HIDE DEF h, t
  <2>3. /\ flight \in Seq(Words) /\ Len(flight) = 4 /\ flight[1] = "extensions" /\ flight[2] = "request"
        /\ flight[3] = "certificate" /\ flight[4] = "finished"
    BY <2>5, <2>6, <2>7, Joined
  <2>4. \A i \in 1 .. 4 : i = 1 \/ i = 2 \/ i = 3 \/ i = 4
    OBVIOUS
  <2> QED BY <2>3, <2>4, <1>1
<1> QED BY <1>2, <1>3 DEF Secure!Flights

\* Nothing changes what is meant by the records that are there.
LEMMA DataSentType ==
  ASSUME StreamTypes
  PROVE  Secure!DataSent \in Nat
<1>1. IsFiniteSet(1 .. Len(sent))
  BY FS_Interval DEF StreamTypes
<1>2. {i \in DOMAIN sent : sent[i].body = "data"} \subseteq 1 .. Len(sent)
  BY DEF StreamTypes
<1> QED BY <1>1, <1>2, FS_Subset, FS_CardinalityType, Cardinalities DEF Secure!DataSent

\* What a record more changes of what was sent.
LEMMA OneMore ==
  ASSUME StreamTypes, NEW r, sent' = Append(sent, r)
  PROVE  /\ Secure!DataSent' = IF r.body = "data" THEN Secure!DataSent + 1 ELSE Secure!DataSent
         /\ Len(sent') = Len(sent) + 1 /\ sent'[Len(sent) + 1] = r
         /\ \A i \in 1 .. Len(sent) : sent'[i] = sent[i]
         /\ (Secure!Greeted' <=> Secure!Greeted \/ r.body # "ccs")
         /\ sent' # <<>> /\ Secure!Last(sent') = r
         /\ \E R : sent' \in Seq(R)
<1> DEFINE D == {i \in DOMAIN sent : sent[i].body = "data"}
<1>0. PICK S : sent \in Seq(S)
  BY DEF StreamTypes
<1>1. /\ Len(sent') = Len(sent) + 1 /\ sent'[Len(sent) + 1] = r
      /\ \A i \in 1 .. Len(sent) : sent'[i] = sent[i]
      /\ Len(sent) \in Nat /\ DOMAIN sent = 1 .. Len(sent) /\ DOMAIN sent' = 1 .. Len(sent) + 1
      /\ \E R : sent' \in Seq(R)
  <2>1. sent \in Seq(S \cup {r}) /\ r \in S \cup {r}
    BY <1>0
  <2>2. sent' \in Seq(S \cup {r})
    BY <2>1
  <2> QED BY <2>1, <2>2
<1>2. IsFiniteSet(D) /\ Len(sent) + 1 \notin D
  <2>1. IsFiniteSet(1 .. Len(sent))
    BY <1>1, FS_Interval
  <2> QED BY <1>1, <2>1, FS_Subset
<1>3. {i \in DOMAIN sent' : sent'[i].body = "data"} = IF r.body = "data" THEN D \cup {Len(sent) + 1} ELSE D
  BY <1>1
<1>6. /\ Secure!DataSent = Cardinality(D)
      /\ Secure!DataSent' = Cardinality({i \in DOMAIN sent' : sent'[i].body = "data"})
  BY Cardinalities DEF Secure!DataSent
<1>4. Secure!DataSent' = IF r.body = "data" THEN Secure!DataSent + 1 ELSE Secure!DataSent
  BY <1>2, <1>3, <1>6, FS_AddElement, FS_CardinalityType
<1>5. Secure!Greeted' <=> Secure!Greeted \/ r.body # "ccs"
  BY <1>1 DEF Secure!Greeted
<1> QED BY <1>1, <1>4, <1>5 DEF Secure!Last

\* A record stays what it was put as, while the flight is the same.
LEMMA PutsStay ==
  ASSUME flight' = flight, NEW a, NEW r, NEW b, Puts(a, r, b)
  PROVE  Puts(a, r, b)'
<1>2. FlightEnds' = FlightEnds /\ Secure!ServerTranscript' = Secure!ServerTranscript
  BY DEF FlightEnds, Secure!ServerTranscript
<1>3. PutsFlight(a, r, b)' <=> PutsFlight(a, r, b)
  BY <1>2 DEF PutsFlight, Secure!Handshake, Fragments
<1>4. PutsLate(a, r, b)' <=> PutsLate(a, r, b)
  BY <1>2 DEF PutsLate, Secure!Application, Late
<1> QED BY <1>2, <1>3, <1>4 DEF Puts, Early

\* A step of the server that adds a record keeps the account, and the client's place in it.
LEMMA Extend ==
  ASSUME StreamTypes, NEW st, Wrote(st), Follows(st[read]), DataHeld, NEW r, sent' = Append(sent, r),
         flight' = flight, UNCHANGED Secure!clientVars, excuse => excuse',
         NEW b \in Points, b = ServerNow', Puts(ServerNow, r, b), Sane(b)'
  PROVE  DataHeld' /\ \E s : Wrote(s)' /\ Follows(s[read])'
<1> DEFINE s == [i \in 0 .. Len(sent) + 1 |-> IF i <= Len(sent) THEN st[i] ELSE b]
<1>1. /\ Len(sent') = Len(sent) + 1 /\ sent'[Len(sent) + 1] = r
      /\ \A i \in 1 .. Len(sent) : sent'[i] = sent[i]
      /\ Secure!DataSent' >= Secure!DataSent /\ Secure!DataSent \in Nat /\ Secure!DataSent' \in Nat /\ Len(sent) \in Nat
  BY OneMore, DataSentType DEF StreamTypes
<1>2. FlightEnds' = FlightEnds /\ Secure!ServerTranscript' = Secure!ServerTranscript
  BY DEF FlightEnds, Secure!ServerTranscript
<1>3. s \in [0 .. Len(sent') -> Points] /\ s[Len(sent')] = ServerNow'
  BY <1>1 DEF Wrote
<1>4. PICK s1 : s1 = s
  OBVIOUS
<1>5. \A i \in 0 .. Len(sent) : s1[i] = st[i]
  BY <1>1, <1>4
<1>6. s1[Len(sent) + 1] = b /\ s1 \in [0 .. Len(sent') -> Points] /\ s1[Len(sent')] = ServerNow'
  BY <1>1, <1>3, <1>4
<1> HIDE DEF s
<1>7. ASSUME NEW i \in 0 .. Len(sent')
      PROVE  Sane(s1[i])'
  <2>1. CASE i = Len(sent) + 1
    BY <1>6, <2>1
  <2>2. CASE i # Len(sent) + 1
    <3>1. i \in 0 .. Len(sent) /\ Sane(st[i]) /\ s1[i] = st[i] /\ st[i] \in Points
      BY <1>1, <1>5, <2>2 DEF Wrote
    <3> QED BY <3>1, <1>1, <1>2 DEF Sane, Points
  <2> QED BY <2>1, <2>2
<1>8. ASSUME NEW i \in 1 .. Len(sent')
      PROVE  Puts(s1[i - 1], sent[i], s1[i])'
  <2>1. CASE i = Len(sent) + 1
    <3>1. s1[i - 1] = ServerNow /\ s1[i] = b /\ sent'[i] = r
      BY <1>1, <1>5, <1>6, <2>1 DEF Wrote
    <3> QED BY <3>1, PutsStay
  <2>2. CASE i # Len(sent) + 1
    <3>1. i \in 1 .. Len(sent) /\ s1[i - 1] = st[i - 1] /\ s1[i] = st[i] /\ sent'[i] = sent[i]
      BY <1>1, <1>5, <2>2
    <3>2. Puts(st[i - 1], sent[i], st[i])
      BY <3>1 DEF Wrote
    <3> QED BY <3>1, <3>2, PutsStay
  <2> QED BY <2>1, <2>2
<1>9. Follows(s1[read])'
  <2>1. read \in 0 .. Len(sent) /\ s1[read] = st[read]
    BY <1>1, <1>5 DEF StreamTypes
  <2> QED BY <2>1, <1>2 DEF Follows, InStep, HeardUpTo, Hello, LeftOver, Secure!clientVars
<1>10. DataHeld'
  BY <1>1 DEF DataHeld, Secure!clientVars
<1>11. Wrote(s1)'
  BY <1>6, <1>7, <1>8 DEF Wrote
<1> QED BY <1>9, <1>10, <1>11

\* A step of the server that puts one record.
LEMMA AddRecord ==
  ASSUME StreamInv, NEW r, sent' = Append(sent, r), flight' = flight, UNCHANGED Secure!clientVars,
         excuse' \in BOOLEAN, excuse => excuse', r.body \in {"altered", "retry", "update", "alert"} => excuse',
         flown' \in Nat, seq' \in Nat, Puts(ServerNow, r, ServerNow'), Sane(ServerNow)'
  PROVE  StreamInv'
<1>1. PICK st : Wrote(st) /\ Follows(st[read])
  BY DEF StreamInv
<1>2. /\ Len(sent') = Len(sent) + 1 /\ sent'[Len(sent) + 1] = r /\ (\E S : sent' \in Seq(S))
      /\ (\A i \in 1 .. Len(sent) : sent'[i] = sent[i]) /\ Len(sent) \in Nat /\ Secure!DataSent' \in Nat
  <2>1. Secure!DataSent \in Nat /\ Len(sent) \in Nat
    BY DataSentType DEF StreamInv, StreamTypes
  <2> QED BY <2>1, OneMore DEF StreamInv
<1>3. PICK b : b = ServerNow'
  OBVIOUS
<1>4. b \in Points
  BY <1>2, <1>3 DEF ServerNow, Points, Secure!Greeted
<1>5. Sane(b)'
  BY <1>3 DEF Sane
<1>6. DataHeld' /\ \E s : Wrote(s)' /\ Follows(s[read])'
  BY <1>1, <1>3, <1>4, <1>5, Extend DEF StreamInv
<1>7. StreamTypes'
  BY <1>2 DEF StreamInv, StreamTypes, Secure!clientVars
<1>8. Reasons'
  BY <1>2 DEF StreamInv, Reasons, Secure!clientVars
<1> QED BY <1>6, <1>7, <1>8 DEF StreamInv

\* What the invariant says of the end of what was sent.
LEMMA AtTheEnd ==
  ASSUME StreamInv
  PROVE  /\ Sane(ServerNow) /\ ServerNow \in Points /\ Len(sent) \in Nat /\ Secure!DataSent \in Nat
         /\ flown \in Nat /\ seq \in Nat /\ FlightEnds \in {6, 8} /\ excuse \in BOOLEAN
         /\ sent # <<>> \/ ~Secure!Greeted
<1>1. PICK st : Wrote(st) /\ Follows(st[read])
  BY DEF StreamInv
<1>2. Len(sent) \in Nat /\ Secure!DataSent \in Nat
  BY DataSentType DEF StreamInv, StreamTypes
<1>3. Sane(ServerNow)
  BY <1>1, <1>2 DEF Wrote
<1>4. ServerNow \in Points
  BY <1>1, <1>2 DEF Wrote
<1>5. FlightEnds \in {6, 8}
  <2>1. Len(flight) \in {3, 4}
    BY TheFlights DEF StreamInv, StreamTypes
  <2>2. CASE Len(flight) = 3
    BY <2>2 DEF FlightEnds
  <2>3. CASE Len(flight) = 4
    BY <2>3 DEF FlightEnds
  <2> QED BY <2>1, <2>2, <2>3
<1>6. sent # <<>> \/ ~Secure!Greeted
  BY DEF Secure!Greeted
<1> QED BY <1>2, <1>3, <1>4, <1>5, <1>6 DEF StreamInv, StreamTypes

\* The server hello, or what stands in its place.
LEMMA KeepsHello ==
  ASSUME StreamInv, NEW body \in Early, Secure!ServerHello(body)
  PROVE  StreamInv'
<1> DEFINE r == Secure!Plain(body)
<1>1. /\ ~Secure!Greeted /\ sent' = Append(sent, r) /\ r.body = body /\ flown' = flown /\ seq' = seq
      /\ flight' = flight /\ UNCHANGED Secure!clientVars /\ excuse' = (excuse \/ body # "hello")
  BY DEF Secure!ServerHello, Secure!Plain
<1> HIDE DEF r
<1>2. /\ Secure!Greeted' /\ sent' # <<>> /\ Secure!Last(sent').body = body
      /\ Secure!DataSent' = Secure!DataSent
  BY <1>1, OneMore DEF StreamInv, Early
<1>3. /\ ServerNow' = [flown |-> 0, seq |-> 0, items |-> ServerNow.items, greeted |-> TRUE, closed |-> FALSE]
      /\ ~ServerNow.greeted /\ ~ServerNow.closed
  <2>1. ~ServerNow.closed /\ ~ServerNow.greeted /\ ServerNow.flown = 0 /\ ServerNow.seq = 0
    BY <1>1, AtTheEnd DEF ServerNow, Sane
  <2>2. Secure!Greeted' = TRUE /\ (sent' # <<>> /\ Secure!Last(sent').body = "close") = FALSE
    BY <1>2 DEF Early, Secure!Greeted
  <2>3. flown = 0 /\ seq = 0 /\ ServerNow.items = Secure!DataSent
    BY <2>1 DEF ServerNow
  <2>4. ServerNow' = [flown |-> flown', seq |-> seq', items |-> Secure!DataSent', greeted |-> TRUE, closed |-> FALSE]
    BY <2>2 DEF ServerNow
  <2> QED BY <2>1, <2>3, <2>4, <1>1, <1>2
<1>4. Puts(ServerNow, r, ServerNow')
  BY <1>1, <1>3 DEF Puts
<1>5. Sane(ServerNow)'
  BY <1>1, <1>2, <1>3, AtTheEnd DEF Sane, ServerNow, FlightEnds
<1> QED BY <1>1, <1>4, <1>5, AddRecord, AtTheEnd DEF Early

\* A change_cipher_spec record.
LEMMA KeepsCipher ==
  ASSUME StreamInv, Secure!ServerChangesCipher
  PROVE  StreamInv'
<1> DEFINE r == Secure!Plain("ccs")
<1>1. /\ ~Secure!Flown /\ sent' = Append(sent, r) /\ r.body = "ccs" /\ flown' = flown /\ seq' = seq
      /\ flight' = flight /\ UNCHANGED Secure!clientVars /\ excuse' = excuse
  BY DEF Secure!ServerChangesCipher, Secure!Plain
<1> HIDE DEF r
<1>2. /\ Secure!Greeted' = Secure!Greeted /\ sent' # <<>> /\ Secure!Last(sent').body = "ccs"
      /\ Secure!DataSent' = Secure!DataSent
  BY <1>1, OneMore DEF StreamInv, Secure!Greeted
<1>3. flown < FlightEnds
  BY <1>1, AtTheEnd DEF Secure!Flown, FlightEnds, Sane, ServerNow
<1>4. ServerNow' = ServerNow /\ ~ServerNow.closed
  BY <1>1, <1>2, <1>3, AtTheEnd DEF ServerNow, Sane
<1>5. Puts(ServerNow, r, ServerNow')
  BY <1>1, <1>3, <1>4 DEF Puts, ServerNow
<1>6. Sane(ServerNow)'
  BY <1>1, <1>2, <1>4, AtTheEnd DEF Sane, ServerNow, FlightEnds
<1> QED BY <1>1, <1>5, <1>6, AddRecord, AtTheEnd

\* The next fragments of the flight in one record.
LEMMA KeepsFlight ==
  ASSUME StreamInv, StreamBounds, NEW n \in 1 .. MaxFragments, Secure!ServerFlight(n)
  PROVE  StreamInv'
<1> DEFINE parts == [i \in 1 .. n |-> flight[(flown + i + 1) \div 2]]
           r == Secure!Sealed("messages", parts)
<1>1. /\ Secure!Greeted /\ flown + n <= FlightEnds /\ sent' = Append(sent, r) /\ r.body = "messages"
      /\ r.secret = Secure!Secret /\ r.seq = seq /\ r.parts = parts /\ flown' = flown + n
      /\ seq' = (IF flown + n = FlightEnds THEN 0 ELSE seq + 1)
      /\ flight' = flight /\ UNCHANGED Secure!clientVars /\ excuse' = excuse
  BY DEF Secure!ServerFlight, Secure!Sealed, FlightEnds
<1> HIDE DEF r
<1>2. n \in Nat /\ n > 0
  BY DEF StreamBounds
<1>3. /\ Secure!Greeted' /\ sent' # <<>> /\ Secure!Last(sent').body = "messages"
      /\ Secure!DataSent' = Secure!DataSent
  BY <1>1, OneMore DEF StreamInv
<1>4. flown < FlightEnds /\ ~Secure!Flown /\ r.secret = Secure!Handshake(<<"hello">>)
  BY <1>1, <1>2, AtTheEnd, SMTT(20) DEF Secure!Flown, FlightEnds, Secure!Secret
<1>5. ~ServerNow.closed /\ ServerNow.flown = flown /\ ServerNow.seq = seq /\ ServerNow.greeted
  BY <1>1, <1>4, AtTheEnd DEF ServerNow, Sane
<1>6. ServerNow' = [flown |-> ServerNow.flown + n, seq |-> IF ServerNow.flown + n = FlightEnds THEN 0 ELSE ServerNow.seq + 1,
              items |-> ServerNow.items, greeted |-> TRUE, closed |-> FALSE]
  <2>1. Secure!Greeted' = TRUE /\ (sent' # <<>> /\ Secure!Last(sent').body = "close") = FALSE
    BY <1>3 DEF Secure!Greeted
  <2>2. ServerNow' = [flown |-> flown', seq |-> seq', items |-> Secure!DataSent', greeted |-> TRUE, closed |-> FALSE]
    BY <2>1 DEF ServerNow
  <2>3. ServerNow.items = Secure!DataSent
    BY DEF ServerNow
  <2> QED BY <2>2, <2>3, <1>1, <1>3, <1>5
<1>7. PutsFlight(ServerNow, r, ServerNow')
  BY <1>1, <1>2, <1>4, <1>5, <1>6 DEF PutsFlight, Fragments
<1>8. Sane(ServerNow)'
  <2>1. Secure!DataSent = 0
    BY <1>4, AtTheEnd DEF Sane, ServerNow
  <2> QED BY <1>1, <1>2, <1>3, <2>1, AtTheEnd DEF Sane, ServerNow, FlightEnds
<1> QED BY <1>1, <1>2, <1>5, <1>7, <1>8, AddRecord, AtTheEnd DEF Puts

\* A record under the keys of the application.
LEMMA KeepsLate ==
  ASSUME StreamInv, NEW body \in Late, NEW parts, Secure!Flown, Secure!Last(sent).body # "close",
         Secure!ServerSends(body, parts), body = "data" => parts = <<Secure!DataSent + 1>>,
         excuse' = (excuse \/ body \in {"update", "alert"})
  PROVE  StreamInv'
<1> DEFINE r == Secure!Sealed(body, parts)
<1>1. /\ flown = FlightEnds /\ sent' = Append(sent, r) /\ r.body = body
      /\ r.secret = Secure!Application(Secure!ServerTranscript) /\ r.seq = seq /\ r.parts = parts
      /\ flown' = flown /\ seq' = seq + 1 /\ flight' = flight /\ UNCHANGED Secure!clientVars
  BY DEF Secure!ServerSends, Secure!Sealed, FlightEnds, Secure!Secret, Secure!Flown
<1> HIDE DEF r
<1>2. Secure!Greeted /\ sent # <<>>
  BY <1>1, AtTheEnd DEF Sane, ServerNow
<1>3. /\ Secure!Greeted' /\ sent' # <<>> /\ Secure!Last(sent').body = body
      /\ Secure!DataSent' = IF body = "data" THEN Secure!DataSent + 1 ELSE Secure!DataSent
  BY <1>1, <1>2, OneMore DEF StreamInv
<1>4. /\ ~ServerNow.closed /\ ServerNow.flown = FlightEnds /\ ServerNow.seq = seq
      /\ ServerNow.items = Secure!DataSent /\ ServerNow.greeted
  BY <1>1, <1>2 DEF ServerNow
<1>5. ServerNow' = [flown |-> FlightEnds, seq |-> ServerNow.seq + 1,
              items |-> IF body = "data" THEN ServerNow.items + 1 ELSE ServerNow.items,
              greeted |-> TRUE, closed |-> (body = "close")]
  <2>1. Secure!Greeted' = TRUE /\ (sent' # <<>> /\ Secure!Last(sent').body = "close") = (body = "close")
    BY <1>3 DEF Secure!Greeted
  <2>2. ServerNow' = [flown |-> flown', seq |-> seq', items |-> Secure!DataSent', greeted |-> TRUE, closed |-> (body = "close")]
    BY <2>1 DEF ServerNow
  <2> QED BY <2>2, <1>1, <1>3, <1>4
<1>6. PutsLate(ServerNow, r, ServerNow')
  BY <1>1, <1>4, <1>5 DEF PutsLate
<1>7. Sane(ServerNow)'
  BY <1>1, <1>3, AtTheEnd DEF Sane, ServerNow, FlightEnds
<1>8. Puts(ServerNow, r, ServerNow')
  BY <1>4, <1>6 DEF Puts
<1>9. r.body \in {"altered", "retry", "update", "alert"} => excuse'
  BY <1>1 DEF Late
<1> QED BY <1>1, <1>7, <1>8, <1>9, AddRecord, AtTheEnd

\* Halves and remainders of fragments.
LEMMA Halves ==
  ASSUME NEW f \in Nat, NEW n \in Nat
  PROVE  /\ f \div 2 \in Nat /\ f % 2 \in {0, 1} /\ f = 2 * (f \div 2) + (f % 2)
         /\ (f + n) \div 2 \in Nat /\ (f + n) % 2 \in {0, 1} /\ f + n = 2 * ((f + n) \div 2) + ((f + n) % 2)
         /\ ((f % 2) + n) \div 2 = ((f + n) \div 2) - (f \div 2)
<1>1. /\ f \div 2 \in Nat /\ f % 2 \in {0, 1} /\ f = 2 * (f \div 2) + (f % 2)
      /\ (f + n) \div 2 \in Nat /\ (f + n) % 2 \in {0, 1} /\ f + n = 2 * ((f + n) \div 2) + ((f + n) % 2)
  <2>1. \A k \in Nat : k \div 2 \in Nat /\ k % 2 \in {0, 1} /\ k = 2 * (k \div 2) + (k % 2)
    OBVIOUS
  <2>2. f + n \in Nat
    OBVIOUS
  <2> QED BY <2>1, <2>2
<1>2. \A k \in Int, r \in {0, 1} : (2 * k + r) \div 2 = k
  OBVIOUS
<1>3. (f % 2) + n = 2 * (((f + n) \div 2) - (f \div 2)) + ((f + n) % 2)
  BY <1>1
<1> QED BY <1>1, <1>2, <1>3

\* Two sequences one after the other.
LEMMA OneAfterOther ==
  ASSUME NEW W, NEW h \in Seq(W), NEW p \in Seq(W)
  PROVE  h \o p \in Seq(W) /\ Len(h \o p) = Len(h) + Len(p)
BY ConcatProperties

\* The fragments of a record, after what is left of the one before: whole messages and a rest.
LEMMA FragmentsRead ==
  ASSUME NEW W, flight \in Seq(W), NEW f \in Nat, NEW n \in Nat, f + n <= FlightEnds,
         NEW h, h = LeftOver(f), NEW p, p = Fragments(f, n)
  PROVE  /\ Secure!WholeMessages(h \o p) = SubSeq(flight, (f \div 2) + 1, (f + n) \div 2)
         /\ Len(Secure!WholeMessages(h \o p)) = ((f + n) \div 2) - (f \div 2)
         /\ Rest(h \o p) = LeftOver(f + n)
<1>0. /\ h = (IF f % 2 = 0 THEN <<>> ELSE <<flight[(f + 1) \div 2]>>)
      /\ p = [i \in 1 .. n |-> flight[(f + i + 1) \div 2]]
  BY DEF LeftOver, Fragments
<1> DEFINE q == f \div 2
           e == f % 2
           u == (f + n) \div 2
           v == (f + n) % 2
<1>1. /\ q \in Nat /\ e \in {0, 1} /\ f = 2 * q + e
      /\ u \in Nat /\ v \in {0, 1} /\ f + n = 2 * u + v
      /\ (e + n) \div 2 = u - q /\ q <= u
  BY Halves
<1>2. /\ Len(flight) \in Nat /\ u <= Len(flight) /\ (v = 1 => u < Len(flight))
      /\ DOMAIN flight = 1 .. Len(flight)
  BY <1>1 DEF FlightEnds
<1>3. \A i \in 1 .. n : (f + i + 1) \div 2 \in 1 .. Len(flight)
  BY <1>1 DEF FlightEnds
<1>4. p \in Seq(W) /\ Len(p) = n
  <2>1. p \in [1 .. n -> W]
    BY <1>3, <1>0
  <2>2. p \in Seq(W)
    BY <2>1, SeqDef
  <2> QED BY <2>1, <2>2, LenProperties
<1>5. h \in Seq(W) /\ Len(h) = e /\ (e = 1 => h[1] = flight[q + 1])
  <2>1. CASE e = 0
    BY <2>1, <1>0
  <2>2. CASE e = 1
    <3>1. (f + 1) \div 2 = q + 1 /\ q + 1 \in 1 .. Len(flight)
      BY <2>2, <1>1, <1>2
    <3>2. flight[q + 1] \in W /\ h = <<flight[q + 1]>>
      BY <2>2, <3>1, <1>0
    <3> QED BY <2>2, <3>2
  <2> QED BY <2>1, <2>2, <1>1
<1>6. h \o p \in Seq(W) /\ Len(h \o p) = e + n
  <2>1. h \o p \in Seq(W) /\ Len(h \o p) = Len(h) + Len(p)
    BY <1>4, <1>5, OneAfterOther, Zenon
  <2> QED BY <2>1, <1>4, <1>5
<1>7. \A j \in 1 .. e + n : (h \o p)[j] = flight[q + ((j + 1) \div 2)]
  <2> SUFFICES ASSUME NEW j \in 1 .. e + n
               PROVE  (h \o p)[j] = flight[q + ((j + 1) \div 2)]
    OBVIOUS
  <2>1. CASE j <= e
    <3>1. e = 1 /\ j = 1 /\ (j + 1) \div 2 = 1
      BY <2>1, <1>1
    <3> QED BY <3>1, <1>4, <1>5
  <2>2. CASE j > e
    <3>1. j - e \in 1 .. n /\ j \in 1 .. Len(h) + Len(p) /\ ~(j <= Len(h))
      BY <2>2, <1>1, <1>4, <1>5
    <3>4. \A i \in 1 .. Len(h) + Len(p) : (h \o p)[i] = IF i <= Len(h) THEN h[i] ELSE p[i - Len(h)]
      BY <1>4, <1>5, ConcatProperties
    <3>3. (h \o p)[j] = p[j - e]
      BY <3>1, <3>4, <1>5
    <3>2. (f + (j - e) + 1) \div 2 = q + ((j + 1) \div 2)
      BY <1>1
    <3>5. p[j - e] = flight[(f + (j - e) + 1) \div 2]
      BY <3>1, <1>0
    <3> QED BY <3>2, <3>3, <3>5
  <2>3. j <= e \/ j > e
    BY <1>1
  <2> QED BY <2>1, <2>2, <2>3
<1> DEFINE m == Secure!WholeMessages(h \o p)
<1> HIDE DEF q, e, u, v
<1>8. Len(m) = u - q /\ m = [i \in 1 .. u - q |-> flight[q + i]]
  <2>1. \A i \in 1 .. u - q : 2 * i \in 1 .. e + n /\ (2 * i + 1) \div 2 = i
    BY <1>1
  <2>2. m = [i \in 1 .. u - q |-> (h \o p)[2 * i]]
    BY <1>1, <1>6 DEF Secure!WholeMessages
  <2>4. \A i \in 1 .. u - q : (h \o p)[2 * i] = flight[q + i]
    BY <2>1, <1>7
  <2>3. m = [i \in 1 .. u - q |-> flight[q + i]]
    BY <2>2, <2>4
  <2> QED BY <2>3, <1>1
<1>9. SubSeq(flight, q + 1, u) = [i \in 1 .. u - q |-> flight[q + i]]
  BY <1>1, <1>2
<1>10. SubSeq(h \o p, 2 * (u - q) + 1, e + n) = IF v = 0 THEN <<>> ELSE <<flight[u + 1]>>
  <2>1. e + n = 2 * (u - q) + v /\ 2 * (u - q) + 1 \in Int
    BY <1>1
  <2>2. CASE v = 0
    BY <2>1, <2>2, <1>1, <1>6
  <2>3. CASE v = 1
    <3>1. e + n \in 1 .. e + n /\ (e + n + 1) \div 2 = u - q + 1 /\ q + (u - q + 1) = u + 1
      BY <2>1, <2>3, <1>1
    <3>2. (h \o p)[e + n] = flight[u + 1]
      BY <3>1, <1>7
    <3>3. SubSeq(h \o p, e + n, e + n) = <<(h \o p)[e + n]>>
      <4> DEFINE w == h \o p
                 k == e + n
      <4>1. w \in Seq(W) /\ k \in 1 .. Len(w) /\ k \in Int /\ w[k] \in W
        <5>1. w \in Seq(W) /\ Len(w) = k /\ k \in 1 .. Len(w) /\ k \in Int
          BY <3>1, <1>6, <1>1
        <5> QED BY <5>1, ElementOfSeq
      <4> HIDE DEF w, k
      <4>2. SubSeq(w, k, k) = <<w[k]>> \o SubSeq(w, k + 1, k)
        BY <4>1, SubSeqRecursiveFirst
      <4>3. SubSeq(w, k + 1, k) = <<>>
        BY <4>1, SubSeqEmpty
      <4>4. <<w[k]>> \in Seq(W)
        BY <4>1
      <4>5. SubSeq(w, k, k) = <<w[k]>>
        BY <4>2, <4>3, <4>4, ConcatEmptySeq
      <4> QED BY <4>5 DEF w, k
    <3>4. 2 * (u - q) + 1 = e + n /\ v # 0
      BY <2>1, <2>3, <1>1
    <3> QED BY <3>2, <3>3, <3>4
  <2> QED BY <2>2, <2>3, <1>1
<1>11. v = 1 => (f + n + 1) \div 2 = u + 1
  BY <1>1
<1> QED BY <1>1, <1>6, <1>8, <1>9, <1>10, <1>11 DEF q, e, u, v, LeftOver, Rest

-----------------------------------------------------------------------------
\* The record at the client's place, as it was put there.
LEMMA TheRecord ==
  ASSUME StreamTypes, NEW st, Wrote(st), Secure!Ready
  PROVE  /\ read + 1 \in 1 .. Len(sent) /\ 2 * (read + 1) <= got /\ read + 1 \in Nat
         /\ st[read] \in Points /\ st[read + 1] \in Points /\ Sane(st[read]) /\ Sane(st[read + 1])
         /\ Puts(st[read], Secure!Record, st[read + 1])
<1>1. read + 1 \in 1 .. Len(sent) /\ 2 * (read + 1) <= got /\ read + 1 \in Nat
  BY DEF StreamTypes, Secure!Ready
<1>2. read \in 0 .. Len(sent) /\ read + 1 \in 0 .. Len(sent) /\ read + 1 - 1 = read
  BY <1>1 DEF StreamTypes
<1> QED BY <1>1, <1>2 DEF Wrote, Secure!Record

\* A step of the client to the next record.
LEMMA NextRecord ==
  ASSUME StreamInv, NEW st, Wrote(st), Secure!Ready, UNCHANGED Secure!serverVars, got' = got, read' = read + 1, excuse' = excuse,
         phase' \in {"hello", "flight", "open", "ended", "finished", "failed"}, phase' = "failed" => excuse,
         NEW b, b = st[read + 1], Follows(b)', DataHeld'
  PROVE  StreamInv'
<1>1. StreamTypes'
  BY TheRecord DEF StreamInv, StreamTypes, Secure!serverVars
<1>2. Reasons'
  BY DEF StreamInv, Reasons, Secure!serverVars
<1>3. Secure!DataSent' = Secure!DataSent /\ ServerNow' = ServerNow /\ FlightEnds' = FlightEnds
  BY DEF Secure!DataSent, ServerNow, FlightEnds, Secure!serverVars, Secure!Greeted
<1>4. \A a, r, c : Puts(a, r, c) => Puts(a, r, c)'
  BY PutsStay DEF Secure!serverVars
<1>5. \A a : Sane(a)' <=> Sane(a)
  BY <1>3 DEF Sane
<1>6. Wrote(st)'
  BY <1>3, <1>4, <1>5 DEF Wrote, Secure!serverVars
<1>7. Follows(st[read])'
  OBVIOUS
<1> QED BY <1>1, <1>2, <1>6, <1>7 DEF StreamInv

\* handshake takes the first record.
LEMMA KeepsReadHello ==
  ASSUME StreamInv, Secure!ReadHello
  PROVE  StreamInv'
<1>1. PICK st : Wrote(st) /\ Follows(st[read])
  BY DEF StreamInv
<1>0. PICK a, b : a = st[read] /\ b = st[read + 1]
  OBVIOUS
<1>2. /\ Secure!Ready /\ phase = "hello" /\ read' = read + 1 /\ UNCHANGED Secure!serverVars
      /\ got' = got /\ excuse' = excuse
  BY DEF Secure!ReadHello
<1>3. /\ Puts(a, Secure!Record, b) /\ a \in Points /\ b \in Points /\ Sane(a) /\ Sane(b)
      /\ read + 1 \in 1 .. Len(sent) /\ Secure!Record = sent[read + 1]
  BY <1>0, <1>1, <1>2, TheRecord DEF StreamInv, Secure!Record
<1>4. ~a.greeted /\ hs = <<>> /\ opened = 0 /\ data = <<>> /\ a.flown = 0 /\ a.seq = 0
  BY <1>0, <1>1, <1>2, <1>3 DEF Follows, Sane
<1>5. Secure!DataSent' = Secure!DataSent /\ FlightEnds' = FlightEnds /\ flight' = flight
  BY <1>2 DEF Secure!DataSent, FlightEnds, Secure!serverVars
<1>6. FlightEnds \in {6, 8} /\ excuse \in BOOLEAN
  BY AtTheEnd
<1>7. \/ Secure!Record.body = "ccs" /\ b = a
      \/ Secure!Record.body \in Early /\ b.greeted /\ b.flown = 0 /\ b.seq = 0
  BY <1>3, <1>4, <1>6 DEF Puts, PutsFlight, PutsLate
<1>8. CASE Secure!Record.body = "ccs"
  <2>1. UNCHANGED <<phase, hs, transcript, opened, data>> /\ b = a
    BY <1>8, <1>7 DEF Secure!ReadHello, Secure!Skip, Early
  <2>2. Follows(b)'
    BY <2>1, <1>2, <1>4 DEF Follows
  <2>3. DataHeld'
    BY <2>1, <1>5 DEF DataHeld, StreamInv
  <2> QED BY <2>1, <2>2, <2>3, <1>1, <1>2, <1>0, NextRecord
<1>9. CASE Secure!Record.body \in {"hello", "altered"}
  <2>1. /\ transcript' = <<Secure!Record.body>> /\ phase' = "flight" /\ hs' = hs /\ opened' = opened
        /\ data' = data
        /\ b.greeted /\ b.flown = 0 /\ b.seq = 0
    BY <1>9, <1>7 DEF Secure!ReadHello
  <2>2. Secure!Record.body = "altered" => excuse
    BY <1>3, <1>6 DEF StreamInv, Reasons
  <2>3. Secure!Record.body = "hello" => InStep(b)'
    <3>1. SubSeq(flight, 1, 0) = <<>> /\ <<"hello">> \o <<>> = <<"hello">>
      BY SubSeqEmpty
    <3>4. HeardUpTo(0)' = <<"hello">>
      BY <3>1, <1>5 DEF HeardUpTo, Hello
    <3>2. 0 \div 2 = 0 /\ 0 % 2 = 0
      OBVIOUS
    <3> QED BY <2>1, <3>4, <3>2, <1>4, <1>5, <1>6 DEF InStep, LeftOver
  <2>4. Follows(b)'
    BY <2>1, <2>2, <2>3, <1>2, <1>4, <1>9 DEF Follows
  <2>5. DataHeld'
    BY <2>1, <1>5 DEF DataHeld, StreamInv
  <2> QED BY <2>1, <2>4, <2>5, <1>1, <1>2, <1>0, NextRecord
<1>10. CASE Secure!Record.body \notin {"ccs", "hello", "altered"}
  <2>1. phase' = "failed" /\ UNCHANGED <<hs, transcript, opened, data>>
    BY <1>10 DEF Secure!ReadHello, Secure!Fail
  <2>2. excuse
    <3>1. Secure!Record.body = "retry"
      BY <1>7, <1>10 DEF Early
    <3> QED BY <3>1, <1>3, <1>6 DEF StreamInv, Reasons
  <2>3. Follows(b)'
    BY <2>1 DEF Follows
  <2>4. DataHeld'
    BY <2>1, <1>5 DEF DataHeld, StreamInv
  <2> QED BY <2>1, <2>2, <2>3, <2>4, <1>1, <1>2, <1>0, NextRecord
<1> QED BY <1>8, <1>9, <1>10

\* recv_to_end takes a record.
LEMMA KeepsReadStream ==
  ASSUME StreamInv, Secure!ReadStream
  PROVE  StreamInv'
<1>1. PICK st : Wrote(st) /\ Follows(st[read])
  BY DEF StreamInv
<1>0. PICK a, b : a = st[read] /\ b = st[read + 1]
  OBVIOUS
<1>2. /\ Secure!Ready /\ phase = "open" /\ read' = read + 1 /\ UNCHANGED Secure!serverVars
      /\ got' = got /\ excuse' = excuse
  BY DEF Secure!ReadStream
<1>3. /\ Puts(a, Secure!Record, b) /\ a \in Points /\ b \in Points /\ Sane(a) /\ Sane(b)
      /\ read + 1 \in 1 .. Len(sent) /\ Secure!Record = sent[read + 1]
  BY <1>0, <1>1, <1>2, TheRecord DEF StreamInv, Secure!Record
<1>4. /\ a.greeted /\ a.flown = FlightEnds /\ opened = a.seq /\ transcript = Secure!ServerTranscript
      /\ data = Count(a.items)
  BY <1>0, <1>1, <1>2 DEF Follows
<1>5. /\ Secure!DataSent' = Secure!DataSent /\ FlightEnds' = FlightEnds
      /\ Secure!ServerTranscript' = Secure!ServerTranscript
  BY <1>2 DEF Secure!DataSent, FlightEnds, Secure!ServerTranscript, Secure!serverVars
<1>6. FlightEnds \in {6, 8} /\ excuse \in BOOLEAN /\ Secure!DataSent \in Nat
  BY AtTheEnd
<1>7. PutsLate(a, Secure!Record, b)
  <2>1. ~PutsFlight(a, Secure!Record, b)
    <3>1. \A n \in Nat : ~(n > 0 /\ a.flown + n <= FlightEnds)
      BY <1>4, <1>6
    <3> QED BY <3>1 DEF PutsFlight
  <2>2. ~(a.flown < FlightEnds)
    BY <1>4, <1>6
  <2> QED BY <2>1, <2>2, <1>3, <1>4 DEF Puts
<1>8. Secure!Record.body \in Late /\ Secure!Opens(Secure!Application(transcript))
  BY <1>7, <1>4 DEF PutsLate, Secure!Opens
<1>9. CASE Secure!Record.body \in {"alert", "update"}
  <2>1. phase' = "failed" /\ UNCHANGED <<hs, transcript, opened, data>>
    BY <1>8, <1>9 DEF Secure!ReadStream, Secure!Fail
  <2>2. excuse
    BY <1>3, <1>6, <1>9 DEF StreamInv, Reasons
  <2>3. Follows(b)'
    BY <2>1 DEF Follows
  <2>4. DataHeld'
    BY <2>1, <1>5 DEF DataHeld, StreamInv
  <2> QED BY <2>1, <2>2, <2>3, <2>4, <1>1, <1>2, <1>0, NextRecord
<1>10. CASE Secure!Record.body \notin {"alert", "update"}
  <2>1. /\ opened' = opened + 1 /\ transcript' = transcript
        /\ data' = IF Secure!Record.body = "data" THEN data \o Secure!Record.parts ELSE data
        /\ phase' = IF Secure!Record.body = "close" THEN "finished" ELSE "open"
    BY <1>2, <1>8, <1>10 DEF Secure!ReadStream, Late
  <2>2. /\ b.flown = FlightEnds /\ b.seq = a.seq + 1 /\ b.greeted
        /\ b.closed = (Secure!Record.body = "close")
        /\ b.items = IF Secure!Record.body = "data" THEN a.items + 1 ELSE a.items
        /\ Secure!Record.body = "data" => Secure!Record.parts = <<a.items + 1>>
    BY <1>7 DEF PutsLate
  <2>3. a.items \in Nat /\ b.items \in Nat /\ b.items <= Secure!DataSent
    BY <1>3 DEF Points, Sane
  <2>4. data' = Count(b.items)
    <3>1. Count(a.items) \o <<a.items + 1>> = Count(a.items + 1)
      BY <2>3 DEF Count
    <3> QED BY <2>1, <2>2, <3>1, <1>4
  <2>5. Follows(b)'
    BY <2>1, <2>2, <2>4, <1>4, <1>5 DEF Follows, Count
  <2>6. DataHeld'
    BY <2>3, <2>4, <1>5, <1>6 DEF DataHeld, Count
  <2>7. phase' \in {"open", "finished"}
    BY <2>1
  <2> QED BY <2>5, <2>6, <2>7, <1>1, <1>2, <1>0, NextRecord
<1> QED BY <1>9, <1>10

\* The hello is one message.
LEMMA HelloIsOne ==
  Hello \in Seq(Words) /\ Len(Hello) = 1 /\ Hello[1] = "hello"
<1>1. \A w \in Words : <<w>> \in Seq(Words) /\ Len(<<w>>) = 1 /\ <<w>>[1] = w
  OBVIOUS
<1>2. "hello" \in Words
  BY DEF Words
<1> QED BY <1>1, <1>2 DEF Hello

\* The transcript after k messages of the flight.
LEMMA Transcripts ==
  ASSUME flight \in Secure!Flights, NEW k \in 0 .. Len(flight)
  PROVE  /\ HeardUpTo(k) \in Seq(Words) /\ Len(HeardUpTo(k)) = k + 1 /\ HeardUpTo(k)[1] = "hello"
         /\ \A i \in 1 .. k : HeardUpTo(k)[i + 1] = flight[i]
         /\ \A l \in k .. Len(flight) : HeardUpTo(k) \o SubSeq(flight, k + 1, l) = HeardUpTo(l)
<1>1. flight \in Seq(Words) /\ Len(flight) \in Nat
  BY TheFlights
<1>2. PICK s : s = SubSeq(flight, 1, k)
  OBVIOUS
<1>3. s \in Seq(Words) /\ Len(s) = k /\ \A i \in 1 .. k : s[i] = flight[i]
  BY <1>1, <1>2
<1>4. HeardUpTo(k) = Hello \o s
  BY <1>2 DEF HeardUpTo
<1>5. /\ Hello \o s \in Seq(Words) /\ Len(Hello \o s) = 1 + k
      /\ \A i \in 1 .. 1 + k : (Hello \o s)[i] = IF i <= 1 THEN Hello[i] ELSE s[i - 1]
  BY <1>3, HelloIsOne, ConcatProperties
<1>6. (Hello \o s)[1] = "hello" /\ \A i \in 1 .. k : (Hello \o s)[i + 1] = flight[i]
  BY <1>3, <1>5, HelloIsOne
<1>7. ASSUME NEW l \in k .. Len(flight)
      PROVE  HeardUpTo(k) \o SubSeq(flight, k + 1, l) = HeardUpTo(l)
  <2>1. SubSeq(flight, k + 1, l) \in Seq(Words)
    BY <1>1
  <2>2. s \o SubSeq(flight, k + 1, l) = SubSeq(flight, 1, l)
    BY <1>1, <1>2, ConcatAdjacentSubSeq
  <2>3. \A x, y, z \in Seq(Words) : (x \o y) \o z = x \o (y \o z)
    BY ConcatAssociative
  <2>4. (Hello \o s) \o SubSeq(flight, k + 1, l) = Hello \o (s \o SubSeq(flight, k + 1, l))
    BY <2>1, <2>3, <1>3, HelloIsOne
  <2> QED BY <2>2, <2>4, <1>4 DEF HeardUpTo
<1>8. HeardUpTo(k) \in Seq(Words) /\ Len(HeardUpTo(k)) = k + 1
  BY <1>4, <1>5
<1>9. HeardUpTo(k)[1] = "hello" /\ \A i \in 1 .. k : HeardUpTo(k)[i + 1] = flight[i]
  BY <1>4, <1>6
<1> QED BY <1>7, <1>8, <1>9

\* The messages of a record of the flight, in step with the server.
LEMMA KeepsReadFlight ==
  ASSUME StreamInv, Secure!ReadFlight
  PROVE  StreamInv'
<1>1. PICK st : Wrote(st) /\ Follows(st[read])
  BY DEF StreamInv
<1>0. PICK a, b : a = st[read] /\ b = st[read + 1]
  OBVIOUS
<1>2. /\ Secure!Ready /\ phase = "flight" /\ read' = read + 1 /\ UNCHANGED Secure!serverVars
      /\ got' = got /\ excuse' = excuse
  BY DEF Secure!ReadFlight
<1>3. /\ Puts(a, Secure!Record, b) /\ a \in Points /\ b \in Points /\ Sane(a) /\ Sane(b)
      /\ read + 1 \in 1 .. Len(sent) /\ Secure!Record = sent[read + 1]
  BY <1>0, <1>1, <1>2, TheRecord DEF StreamInv, Secure!Record
<1>4. a.greeted /\ data = <<>> /\ ((excuse /\ transcript = <<"altered">>) \/ InStep(a))
  BY <1>0, <1>1, <1>2 DEF Follows
<1>5. /\ Secure!DataSent' = Secure!DataSent /\ FlightEnds' = FlightEnds
      /\ Secure!ServerTranscript' = Secure!ServerTranscript /\ flight' = flight
  BY <1>2 DEF Secure!DataSent, FlightEnds, Secure!ServerTranscript, Secure!serverVars
<1>6. FlightEnds \in {6, 8} /\ excuse \in BOOLEAN /\ Secure!DataSent \in Nat
  BY AtTheEnd
<1>7. \/ Secure!Record.body = "ccs" /\ b = a
      \/ PutsFlight(a, Secure!Record, b)
      \/ PutsLate(a, Secure!Record, b)
  BY <1>3, <1>4 DEF Puts
<1>8. DataHeld
  BY DEF StreamInv
\* What follows when the client gives up, and when it stays where it is.
<1>15. InStep(a) => /\ a.flown \div 2 \in 0 .. Len(flight) /\ transcript \in Seq(Words)
                    /\ transcript[1] = "hello" /\ Len(transcript) = (a.flown \div 2) + 1
  <2> SUFFICES ASSUME InStep(a)
               PROVE  /\ a.flown \div 2 \in 0 .. Len(flight) /\ transcript \in Seq(Words)
                      /\ transcript[1] = "hello" /\ Len(transcript) = (a.flown \div 2) + 1
    OBVIOUS
  <2>1. a.flown \div 2 \in 0 .. Len(flight)
    BY <1>3 DEF InStep, FlightEnds, Points
  <2> QED BY <2>1, Transcripts DEF InStep, StreamInv, StreamTypes
<1>9. ASSUME phase' = "failed", UNCHANGED data, excuse
      PROVE  StreamInv'
  <2>1. Follows(b)'
    BY <1>9 DEF Follows
  <2>2. DataHeld'
    BY <1>9, <1>5, <1>8 DEF DataHeld
  <2> QED BY <2>1, <2>2, <1>9, <1>0, <1>1, <1>2, NextRecord
<1>10. CASE Secure!Record.body = "ccs"
  <2>1. UNCHANGED <<phase, hs, transcript, opened, data>> /\ b = a
    BY <1>10, <1>7 DEF Secure!ReadFlight, Secure!Skip, PutsFlight, PutsLate, Late
  <2>2. InStep(a) => InStep(a)'
    BY <2>1, <1>5 DEF InStep, HeardUpTo, Hello, LeftOver
  <2>3. Follows(b)'
    BY <2>1, <2>2, <1>2, <1>4 DEF Follows
  <2>4. DataHeld'
    BY <2>1, <1>5, <1>8 DEF DataHeld
  <2> QED BY <2>1, <2>3, <2>4, <1>0, <1>1, <1>2, NextRecord
<1>11. CASE Secure!Record.body # "ccs" /\ ~Secure!Opens(Secure!Handshake(<<transcript[1]>>))
  <2>1. phase' = "failed" /\ UNCHANGED data
    BY <1>11 DEF Secure!ReadFlight, Secure!Fail
  <2>2. ~InStep(a)
    <3> SUFFICES ASSUME InStep(a)
                 PROVE  FALSE
      OBVIOUS
    <3>1. transcript[1] = "hello"
      BY <1>15
    <3>2. PutsFlight(a, Secure!Record, b)
      BY <1>7, <1>11, <1>6 DEF PutsLate, InStep
    <3> QED BY <3>1, <3>2, <1>11 DEF PutsFlight, Secure!Opens, InStep
  <2>3. excuse
    BY <2>2, <1>4
  <2> QED BY <2>1, <2>3, <1>9
<1>12. CASE Secure!Record.body # "ccs" /\ Secure!Opens(Secure!Handshake(<<transcript[1]>>))
  <2>1. ~PutsLate(a, Secure!Record, b)
    BY <1>12 DEF PutsLate, Secure!Opens, Secure!Handshake, Secure!Application
  <2>2. PutsFlight(a, Secure!Record, b)
    BY <2>1, <1>7, <1>12
  <2>3. InStep(a)
    <3>1. CASE transcript = <<"altered">>
      <4>1. Secure!Record.secret = Secure!Handshake(<<"altered">>)
        BY <3>1, <1>12 DEF Secure!Opens
      <4> QED BY <4>1, <2>2 DEF PutsFlight, Secure!Handshake
    <3> QED BY <3>1, <1>4
  <2>4. PICK n \in Nat :
          /\ n > 0 /\ a.flown + n <= FlightEnds
          /\ Secure!Record.parts = Fragments(a.flown, n)
          /\ b = [flown |-> a.flown + n, seq |-> IF a.flown + n = FlightEnds THEN 0 ELSE a.seq + 1,
                  items |-> a.items, greeted |-> TRUE, closed |-> FALSE]
    BY <2>2 DEF PutsFlight
  <2>5. PICK f : f = a.flown /\ f \in Nat /\ f < FlightEnds
    BY <2>3, <1>3 DEF InStep, Points
  <2>6. flight \in Secure!Flights /\ flight \in Seq(Words) /\ Len(flight) \in {3, 4}
    BY TheFlights DEF StreamInv, StreamTypes
  <2> DEFINE buffer == hs \o Secure!Record.parts
             messages == Secure!WholeMessages(buffer)
             seen == transcript \o messages
             q == f \div 2
             u == (f + n) \div 2
  <2>7. /\ messages = SubSeq(flight, q + 1, u) /\ Len(messages) = u - q
        /\ Rest(buffer) = LeftOver(f + n)
    <3>1. hs = LeftOver(f)
      BY <2>3, <2>5 DEF InStep
    <3>2. Secure!Record.parts = Fragments(f, n)
      BY <2>4, <2>5
    <3>3. f + n <= FlightEnds
      BY <2>4, <2>5
    <3>4. PICK h, p : h = hs /\ p = Secure!Record.parts
      OBVIOUS
    <3>6. h = LeftOver(f)
      BY <3>1, <3>4
    <3>7. p = Fragments(f, n)
      BY <3>2, <3>4
    <3>8. n \in Nat /\ f \in Nat /\ flight \in Seq(Words)
      BY <2>5, <2>6
    <3>5. /\ Secure!WholeMessages(h \o p) = SubSeq(flight, (f \div 2) + 1, (f + n) \div 2)
          /\ Len(Secure!WholeMessages(h \o p)) = ((f + n) \div 2) - (f \div 2)
          /\ Rest(h \o p) = LeftOver(f + n)
      BY <3>3, <3>6, <3>7, <3>8, FragmentsRead, ZenonT(60)
    <3> QED BY <3>4, <3>5
  <2>8. /\ q \in Nat /\ u \in Nat /\ q <= u /\ u <= Len(flight) /\ q < Len(flight)
        /\ (u = Len(flight) <=> f + n = FlightEnds)
    <3>1. /\ q \in Nat /\ u \in Nat /\ f % 2 \in {0, 1} /\ f = 2 * q + (f % 2)
          /\ (f + n) % 2 \in {0, 1} /\ f + n = 2 * u + ((f + n) % 2)
      BY <2>5, Halves
    <3>2. /\ f + n <= 2 * Len(flight) /\ f < 2 * Len(flight) /\ Len(flight) \in Nat /\ n \in Nat
          /\ FlightEnds = 2 * Len(flight)
      BY <2>4, <2>5, <2>6 DEF FlightEnds
    <3>3. PICK e, v : e = f % 2 /\ v = (f + n) % 2
      OBVIOUS
    <3> HIDE DEF q, u
    <3>4. e \in {0, 1} /\ v \in {0, 1} /\ f = 2 * q + e /\ f + n = 2 * u + v /\ q \in Nat /\ u \in Nat
      BY <3>1, <3>3
    <3>5. q <= u /\ u <= Len(flight) /\ q < Len(flight)
      BY <3>4, <3>2, <2>5
    <3>6. u = Len(flight) <=> f + n = FlightEnds
      BY <3>4, <3>2, <2>5
    <3> QED BY <3>4, <3>5, <3>6
  <2>9. seen = HeardUpTo(u)
    <3>1. transcript = HeardUpTo(q)
      BY <2>3, <2>5 DEF InStep
    <3> HIDE DEF q, u, messages
    <3>2. q \in 0 .. Len(flight) /\ u \in q .. Len(flight)
      BY <2>6, <2>8
    <3> QED BY <3>1, <3>2, <2>6, <2>7, Transcripts
  <2>16. IF "request" \in Secure!Range(messages) THEN Secure!Fail
         ELSE IF messages # <<>> /\ Secure!Last(messages) = "finished"
         THEN /\ transcript' = seen
              /\ phase' = IF Secure!Verifies(Secure!Front(seen)) THEN "open" ELSE "failed"
              /\ hs' = <<>> /\ opened' = 0
              /\ UNCHANGED data
         ELSE /\ transcript' = seen
              /\ hs' = SubSeq(buffer, 2 * Len(messages) + 1, Len(buffer))
              /\ opened' = opened + 1
              /\ UNCHANGED <<phase, data>>
    BY <1>12 DEF Secure!ReadFlight
  <2> HIDE DEF messages, buffer, seen
  <2>17. "request" \in Secure!Range(messages) => phase' = "failed" /\ data' = data
    BY <2>16 DEF Secure!Fail
  <2>18. "request" \notin Secure!Range(messages) /\ messages # <<>> /\ Secure!Last(messages) = "finished" =>
           /\ transcript' = seen
           /\ phase' = IF Secure!Verifies(Secure!Front(seen)) THEN "open" ELSE "failed"
           /\ hs' = <<>> /\ opened' = 0 /\ data' = data
    BY <2>16
  <2>19. "request" \notin Secure!Range(messages) /\ ~(messages # <<>> /\ Secure!Last(messages) = "finished") =>
           /\ transcript' = seen
           /\ hs' = Rest(buffer)
           /\ opened' = opened + 1 /\ phase' = phase /\ data' = data
    BY <2>16 DEF Rest, messages
  <2>11. messages \in Seq(Words) /\ \A i \in 1 .. u - q : messages[i] = flight[q + i]
    <3> HIDE DEF q, u, messages
    <3> QED BY <2>6, <2>7, <2>8
  <2>12. /\ b.flown = f + n /\ b.seq = (IF f + n = FlightEnds THEN 0 ELSE a.seq + 1)
         /\ b.items = a.items /\ b.greeted
         /\ a.items = 0 /\ opened = a.seq
    BY <2>3, <2>4, <2>5, <1>3 DEF InStep, Sane
  <2> HIDE DEF buffer, messages, seen, q, u
  <2>13. CASE "request" \in Secure!Range(messages)
    <3>1. phase' = "failed" /\ UNCHANGED data
      BY <2>17, <2>13
    <3>2. PICK i \in 1 .. u - q : messages[i] = "request"
      BY <2>7, <2>11, <2>13 DEF Secure!Range
    <3>3. flight[q + i] = "request" /\ q + i \in 1 .. Len(flight)
      BY <3>2, <2>6, <2>8, <2>11
    <3>4. excuse
      BY <3>3, <2>6, <1>6, TheFlights DEF StreamInv, Reasons
    <3> QED BY <3>1, <3>4, <1>9
  <2>14. CASE "request" \notin Secure!Range(messages) /\ messages # <<>> /\ Secure!Last(messages) = "finished"
    <3>1. u = Len(flight)
      <4>1. Len(messages) # 0
        BY <2>11, <2>14, EmptySeq
      <4>2. u - q \in 1 .. u - q /\ u \in 1 .. Len(flight) /\ q + (u - q) = u
        BY <4>1, <2>6, <2>7, <2>8
      <4>3. flight[u] = "finished"
        BY <4>2, <2>7, <2>11, <2>14 DEF Secure!Last
      <4> QED BY <4>2, <4>3, <2>6, TheFlights
    <3>2. seen = Secure!ServerTranscript
      BY <3>1, <2>6, <2>9, SubSeqFull DEF HeardUpTo, Hello, Secure!ServerTranscript
    <3>3. /\ transcript' = Secure!ServerTranscript /\ phase' = "open" /\ hs' = <<>> /\ opened' = 0
          /\ UNCHANGED data
      BY <2>18, <2>14, <3>2 DEF Secure!Verifies
    <3>4. f + n = FlightEnds
      BY <3>1, <2>8
    <3>5. Count(0) = <<>>
      BY DEF Count
    <3>6. Follows(b)'
      BY <3>3, <3>4, <3>5, <2>12, <1>4, <1>5 DEF Follows, Count
    <3>7. DataHeld'
      BY <3>3, <1>5, <1>8 DEF DataHeld
    <3> QED BY <3>3, <3>6, <3>7, <1>0, <1>1, <1>2, NextRecord
  <2>15. CASE "request" \notin Secure!Range(messages) /\ ~(messages # <<>> /\ Secure!Last(messages) = "finished")
    <3>1. transcript' = seen /\ hs' = Rest(buffer) /\ opened' = opened + 1 /\ UNCHANGED <<phase, data>>
      BY <2>19, <2>15
    <3>2. f + n < FlightEnds
      <4> SUFFICES ASSUME u = Len(flight)
                   PROVE  FALSE
        BY <2>4, <2>5, <2>6, <2>8, <1>6
      <4>1. Len(messages) # 0 /\ u - q \in 1 .. u - q /\ q + (u - q) = Len(flight)
        BY <2>6, <2>7, <2>8
      <4>2. messages # <<>>
        BY <4>1, EmptySeq
      <4>3. Secure!Last(messages) = "finished"
        BY <4>1, <2>6, <2>7, <2>11, TheFlights DEF Secure!Last
      <4> QED BY <4>2, <4>3, <2>15
    <3>3. InStep(b)'
      <4>1. transcript' = HeardUpTo(b.flown \div 2)'
        <5>1. transcript' = Hello \o SubSeq(flight, 1, b.flown \div 2)
          BY <3>1, <2>9, <2>12 DEF u, HeardUpTo
        <5> QED BY <5>1, <1>5 DEF HeardUpTo, Hello
      <4>2. hs' = LeftOver(b.flown)'
        <5>1. hs' = LeftOver(b.flown)
          BY <3>1, <2>7, <2>12
        <5> QED BY <5>1, <1>5 DEF LeftOver
      <4>3. b.flown < FlightEnds' /\ opened' = b.seq
        BY <3>1, <3>2, <2>4, <2>5, <2>12, <1>5, <1>6
      <4> QED BY <4>1, <4>2, <4>3 DEF InStep
    <3>4. Follows(b)'
      BY <3>1, <3>3, <2>12, <1>2, <1>4 DEF Follows
    <3>5. DataHeld'
      BY <3>1, <1>5, <1>8 DEF DataHeld
    <3> QED BY <3>1, <3>4, <3>5, <1>0, <1>1, <1>2, NextRecord
  <2> QED BY <2>13, <2>14, <2>15
<1> QED BY <1>10, <1>11, <1>12

\* Steps that read and send nothing leave the account as it is.
LEMMA SamePlace ==
  ASSUME StreamInv, UNCHANGED Secure!serverVars, read' = read, got \in Nat => got' \in Nat,
         got <= got', got' <= 2 * Len(sent), NEW st, Wrote(st), Follows(st[read])',
         phase' \in {"hello", "flight", "open", "ended", "finished", "failed"},
         phase' = "failed" => excuse', excuse => excuse', excuse' \in BOOLEAN, data' = data
  PROVE  StreamInv'
<1>1. StreamTypes'
  BY DEF StreamInv, StreamTypes, Secure!serverVars
<1>2. Reasons'
  BY DEF StreamInv, Reasons, Secure!serverVars
<1>3. Secure!DataSent' = Secure!DataSent /\ ServerNow' = ServerNow /\ FlightEnds' = FlightEnds
  BY DEF Secure!DataSent, ServerNow, FlightEnds, Secure!serverVars, Secure!Greeted
<1>4. \A a, r, c : Puts(a, r, c) => Puts(a, r, c)'
  BY PutsStay DEF Secure!serverVars
<1>5. \A a : Sane(a)' <=> Sane(a)
  BY <1>3 DEF Sane
<1>6. Wrote(st)'
  BY <1>3, <1>4, <1>5 DEF Wrote, Secure!serverVars
<1>7. DataHeld'
  BY <1>3 DEF DataHeld, StreamInv
<1> QED BY <1>1, <1>2, <1>6, <1>7 DEF StreamInv

\* Pieces arrive.
LEMMA KeepsDeliver ==
  ASSUME StreamInv, StreamBounds, NEW n \in 1 .. MaxPieces, Secure!Deliver(n)
  PROVE  StreamInv'
<1>1. PICK st : Wrote(st) /\ Follows(st[read])
  BY DEF StreamInv
<1>2. /\ got \in Nat /\ n \in Nat /\ Len(sent) \in Nat /\ got < 2 * Len(sent)
      /\ got' = Secure!Min({got + n, 2 * Len(sent)})
  BY AtTheEnd DEF Secure!Deliver, StreamBounds, StreamInv, StreamTypes
<1>3. got' \in Nat /\ got <= got' /\ got' <= 2 * Len(sent)
  <2>1. \E x \in {got + n, 2 * Len(sent)} : \A y \in {got + n, 2 * Len(sent)} : x =< y
    BY <1>2
  <2>2. got' \in {got + n, 2 * Len(sent)} /\ got' <= 2 * Len(sent)
    BY <1>2, <2>1 DEF Secure!Min
  <2> QED BY <1>2, <2>2
<1>4. UNCHANGED <<Secure!serverVars, read, phase, hs, transcript, opened, data, excuse>>
  BY DEF Secure!Deliver
<1>5. Follows(st[read])'
  BY <1>1, <1>4 DEF Follows, InStep, HeardUpTo, LeftOver, FlightEnds, Secure!ServerTranscript,
     Secure!serverVars
<1>6. /\ phase \in {"hello", "flight", "open", "ended", "finished", "failed"}
      /\ (phase = "failed" => excuse) /\ excuse \in BOOLEAN
  BY DEF StreamInv, StreamTypes, Reasons
<1> QED BY <1>1, <1>3, <1>4, <1>5, <1>6, SamePlace

\* The client gives up waiting.
LEMMA KeepsGiveUp ==
  ASSUME StreamInv, Secure!GiveUp
  PROVE  StreamInv'
<1>1. PICK st : Wrote(st) /\ Follows(st[read])
  BY DEF StreamInv
<1>2. /\ phase' = (IF phase = "open" THEN "ended" ELSE "failed") /\ excuse' = (excuse \/ phase # "open")
      /\ UNCHANGED <<Secure!serverVars, got, read, hs, transcript, opened, data>>
  BY DEF Secure!GiveUp
<1>3. /\ phase' \in {"ended", "failed"} /\ (phase' = "failed" => excuse') /\ (excuse => excuse')
      /\ excuse' \in BOOLEAN
  BY <1>2, AtTheEnd
<1>4. Follows(st[read])'
  BY <1>3 DEF Follows
<1>5. got \in Nat /\ got <= got' /\ got' <= 2 * Len(sent)
  BY <1>2, AtTheEnd DEF StreamInv, StreamTypes
<1> QED BY <1>1, <1>2, <1>3, <1>4, <1>5, SamePlace

\* Every step of the channel keeps the account.
LEMMA StreamStep ==
  ASSUME StreamBounds, StreamInv, [Secure!Next]_(Secure!vars)
  PROVE  StreamInv'
<1>1. CASE \E body \in {"hello", "altered", "retry"} : Secure!ServerHello(body)
  BY <1>1, KeepsHello DEF Early
<1>2. CASE \E n \in 1 .. MaxFragments : Secure!ServerFlight(n)
  BY <1>2, KeepsFlight
<1>3. CASE Secure!ServerData
  <2>1. /\ Secure!Flown /\ Secure!Last(sent).body # "close"
        /\ Secure!ServerSends("data", <<Secure!DataSent + 1>>) /\ excuse' = excuse
    BY <1>3 DEF Secure!ServerData
  <2> QED BY <2>1, AtTheEnd, KeepsLate DEF Late
<1>4. CASE Secure!ServerCloses
  <2>1. /\ Secure!Flown /\ Secure!Last(sent).body # "close" /\ Secure!ServerSends("close", <<>>)
        /\ excuse' = excuse
    BY <1>4 DEF Secure!ServerCloses
  <2> QED BY <2>1, AtTheEnd, KeepsLate DEF Late
<1>5. CASE \E body \in {"ticket", "update", "alert"} : Secure!ServerMore(body)
  <2>1. PICK body \in {"ticket", "update", "alert"} : Secure!ServerMore(body)
    BY <1>5
  <2>2. /\ Secure!Flown /\ Secure!Last(sent).body # "close" /\ Secure!ServerSends(body, <<body, body>>)
        /\ excuse' = (excuse \/ body \in {"update", "alert"})
    BY <2>1 DEF Secure!ServerMore
  <2>3. body \in Late /\ body # "data"
    BY DEF Late
  <2> QED BY <2>2, <2>3, KeepsLate
<1>6. CASE Secure!ServerChangesCipher
  BY <1>6, KeepsCipher
<1>7. CASE \E n \in 1 .. MaxPieces : Secure!Deliver(n)
  BY <1>7, KeepsDeliver
<1>8. CASE Secure!ReadHello \/ Secure!ReadFlight \/ Secure!ReadStream \/ Secure!GiveUp
  BY <1>8, KeepsReadHello, KeepsReadFlight, KeepsReadStream, KeepsGiveUp
<1>9. CASE UNCHANGED Secure!vars
  <2>1. UNCHANGED Secure!serverVars /\ UNCHANGED Secure!clientVars /\ excuse' = excuse
    BY <1>9 DEF Secure!vars
  <2>2. PICK st : Wrote(st) /\ Follows(st[read])
    BY DEF StreamInv
  <2>3. Follows(st[read])'
    BY <2>1, <2>2 DEF Follows, InStep, HeardUpTo, LeftOver, FlightEnds, Secure!ServerTranscript,
       Secure!serverVars, Secure!clientVars
  <2>4. /\ read' = read /\ got' = got /\ got \in Nat /\ got <= got' /\ got' <= 2 * Len(sent)
        /\ phase' = phase
        /\ phase \in {"hello", "flight", "open", "ended", "finished", "failed"} /\ data' = data
        /\ (phase = "failed" => excuse) /\ excuse \in BOOLEAN
    BY <2>1, AtTheEnd DEF StreamInv, StreamTypes, Reasons, Secure!clientVars
  <2> QED BY <2>1, <2>2, <2>3, <2>4, SamePlace
<1>10. CASE Secure!Next
  <2>1. \/ \E body \in {"hello", "altered", "retry"} : Secure!ServerHello(body)
        \/ \E n \in 1 .. MaxFragments : Secure!ServerFlight(n)
        \/ Secure!ServerData \/ Secure!ServerCloses \/ Secure!ServerChangesCipher
        \/ \E body \in {"ticket", "update", "alert"} : Secure!ServerMore(body)
        \/ \E n \in 1 .. MaxPieces : Secure!Deliver(n)
        \/ Secure!ReadHello \/ Secure!ReadFlight \/ Secure!ReadStream \/ Secure!GiveUp
    BY <1>10 DEF Secure!Next
  <2> QED BY <2>1, <1>1, <1>2, <1>3, <1>4, <1>5, <1>6, <1>7, <1>8
<1> QED BY <1>9, <1>10

\* Nothing is sent at the start.
LEMMA StreamInit ==
  ASSUME Secure!Init
  PROVE  StreamInv
<1> DEFINE a == [flown |-> 0, seq |-> 0, items |-> 0, greeted |-> FALSE, closed |-> FALSE]
           st == [i \in {0} |-> a]
<1>1. /\ sent = <<>> /\ Len(sent) = 0 /\ flight \in Secure!Flights /\ flown = 0 /\ seq = 0
      /\ got = 0 /\ read = 0
      /\ phase = "hello" /\ hs = <<>> /\ opened = 0 /\ data = <<>> /\ excuse = (flight # Secure!Usual)
  BY DEF Secure!Init
<1>2. sent \in Seq({}) /\ DOMAIN sent = {}
  BY <1>1
<1>3. Secure!DataSent = 0
  BY <1>2, FS_EmptySet, Cardinalities DEF Secure!DataSent
<1>4. StreamTypes
  BY <1>1, <1>2 DEF StreamTypes
<1>5. Reasons
  <2>1. ~excuse => flight = Secure!Usual
    BY <1>1
  <2>2. \A i \in 1 .. Len(sent) : FALSE
    BY <1>1
  <2>3. phase # "failed"
    BY <1>1
  <2> QED BY <2>1, <2>2, <2>3 DEF Reasons
<1>6. DataHeld
  BY <1>1, <1>3 DEF DataHeld, Count
<1>7. ServerNow = a
  BY <1>1, <1>2, <1>3 DEF ServerNow, Secure!Greeted
<1>8. FlightEnds \in {6, 8}
  <2>1. Len(flight) = 3 \/ Len(flight) = 4
    BY <1>1, TheFlights
  <2>2. Len(flight) = 3 => FlightEnds = 6
    BY DEF FlightEnds
  <2>3. Len(flight) = 4 => FlightEnds = 8
    BY DEF FlightEnds
  <2> QED BY <2>1, <2>2, <2>3
<1>9. Sane(a)
  BY <1>3, <1>8 DEF Sane
<1>10. Wrote(st)
  <2>1. 0 .. Len(sent) = {0} /\ 1 .. Len(sent) = {}
    BY <1>1
  <2>2. st \in [{0} -> Points] /\ st[0] = a
    BY DEF Points
  <2> HIDE DEF st, a
  <2> QED BY <2>1, <2>2, <1>1, <1>7, <1>9 DEF Wrote
<1>11. Follows(st[read])
  BY <1>1 DEF Follows
<1>12. PICK s : s = st
  OBVIOUS
<1> QED BY <1>4, <1>5, <1>6, <1>10, <1>11, <1>12 DEF StreamInv

\* The account says what was to be shown.
LEMMA StreamImplies ==
  ASSUME StreamInv
  PROVE  Secure!StreamIsUnderstood
<1>1. PICK st : Wrote(st) /\ Follows(st[read])
  BY DEF StreamInv
<1>2. PICK k \in 0 .. Secure!DataSent : data = Count(k)
  BY DEF StreamInv, DataHeld
<1>3. Secure!DataSent \in Nat /\ Len(sent) \in Nat
  BY AtTheEnd
<1>4. /\ Count(Secure!DataSent) \in Seq(Nat) /\ Count(k) \in Seq(Nat)
      /\ Len(Count(Secure!DataSent)) = Secure!DataSent /\ Len(Count(k)) = k
  BY <1>2, <1>3 DEF Count
<1>5. SubSeq(Count(k), 1, k) = SubSeq(Count(Secure!DataSent), 1, k)
  <2>1. SubSeq(Count(k), 1, k) = Count(k)
    BY <1>4, SubSeqFull
  <2>2. SubSeq(Count(Secure!DataSent), 1, k) = [i \in 1 .. k |-> Count(Secure!DataSent)[i]]
    BY <1>2, <1>3, <1>4
  <2>3. \A i \in 1 .. k : Count(Secure!DataSent)[i] = i
    BY <1>2, <1>3 DEF Count
  <2> QED BY <2>1, <2>2, <2>3 DEF Count
<1>6. Secure!IsPrefix(data, Count(Secure!DataSent))
  BY <1>2, <1>3, <1>4, <1>5 DEF Secure!IsPrefix
<1>7. phase = "finished" => data = Count(Secure!DataSent)
  <2> SUFFICES ASSUME phase = "finished"
               PROVE  data = Count(Secure!DataSent)
    OBVIOUS
  <2>1. st[read].closed /\ data = Count(st[read].items) /\ read \in 0 .. Len(sent)
    BY <1>1, AtTheEnd DEF Follows, StreamInv, StreamTypes
  <2>2. CASE read = Len(sent)
    BY <2>1, <2>2, <1>1 DEF Wrote, ServerNow
  <2>3. CASE read # Len(sent)
    <3>1. read + 1 \in 1 .. Len(sent) /\ (read + 1) - 1 = read
      BY <2>1, <2>3, <1>3
    <3>2. Puts(st[(read + 1) - 1], sent[read + 1], st[read + 1])
      BY <3>1, <1>1 DEF Wrote
    <3> QED BY <3>1, <3>2, <2>1 DEF Puts
  <2> QED BY <2>2, <2>3
<1>8. phase = "failed" => excuse
  BY DEF StreamInv, Reasons
<1> QED BY <1>6, <1>7, <1>8 DEF Secure!StreamIsUnderstood, Count

\* Also beside the others, what recv_to_end returns is what the server sent, in order and
\* whole when it closed, and handshake fails only for a reason, however the messages are cut
\* into records and the records into pieces (net/tls.rs).
THEOREM ServicesStreamIsUnderstood ==
  ASSUME StreamBounds
  PROVE  Spec => []StreamIsUnderstood
<1> DEFINE I == part = "secure" => StreamInv
<1>1. Init => I
  BY StreamInit DEF Init
<1>2. I /\ [Next]_vars => I'
  BY OnePart, StreamStep
<1>3. I => StreamIsUnderstood
  BY StreamImplies DEF StreamIsUnderstood
<1> QED BY <1>1, <1>2, <1>3, PTL DEF Spec
=============================================================================
