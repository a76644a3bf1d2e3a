--------------------------------- MODULE Net ---------------------------------
(***************************************************************************)
(* The polled IP stack (kernel/src/net/mod.rs, arp.rs, ip.rs, icmp.rs).    *)
(* There are no threads: whoever waits calls poll, poll hands every frame  *)
(* to its handler, a handler may send, and a send may have to wait for an  *)
(* address, which polls again.  "stack" is that call stack, innermost      *)
(* first.  Any station may put any frame on the wire at any time.          *)
(***************************************************************************)
EXTENDS Naturals, Sequences, FiniteSets, Functions

CONSTANTS
  Local,       \* addresses in our subnet
  Remote,      \* addresses behind the gateway
  Gateway,     \* one of Local
  Seqs,        \* sequence numbers of echo requests
  MAX_ENTRIES, MAX_REPLIES,
  Tries,       \* ARP requests before resolve gives up
  MaxArrivals, \* bound: frames that arrive
  MaxPings     \* bound: pings

VARIABLES
  stack,
  ring,     \* frames the card holds
  arp,      \* CACHE of arp.rs, oldest first: the addresses it knows
  replies,  \* REPLIES of icmp.rs
  arrivals, \* history: frames that arrived
  pings,    \* history: pings so far
  heard,    \* history: echo replies handled since the last ping began
  result    \* history: what the last ping returned

vars == <<stack, ring, arp, replies, arrivals, pings, heard, result>>

Hosts == Local \cup Remote
Frames ==
  [kind : {"arp"}, src : Local, seq : {0}] \cup
  [kind : {"echo"}, src : Hosts, seq : {0}] \cup
  [kind : {"echoReply"}, src : Hosts, seq : Seqs]

Empty == [fn |-> "main", dst |-> Gateway, seq |-> 0, tries |-> 0, frames |-> <<>>]
Ping(dst, seq) == [Empty EXCEPT !.fn = "ping", !.dst = dst, !.seq = seq]
Await(dst, seq) == [Ping(dst, seq) EXCEPT !.fn = "await"]
Resolve(hop, tries) == [Empty EXCEPT !.fn = "resolve", !.dst = hop, !.tries = tries]
Poll(frames) == [Empty EXCEPT !.fn = "poll", !.frames = frames]

Top == IF stack = <<>> THEN Empty ELSE Head(stack)
Idle == [dst |-> Gateway, seq |-> 0, ok |-> FALSE]

-----------------------------------------------------------------------------
(* arp.rs and ip.rs                                                          *)

\* A variant that never forgets an address (for the mutation checks).
AllLearned(host) == IF host \in Range(arp) THEN arp ELSE Append(arp, host)

\* learn
Learned(host) ==
  IF host \in Range(arp) THEN arp
  ELSE Append(IF Len(arp) >= MAX_ENTRIES THEN Tail(arp) ELSE arp, host)

NextHop(dst) == IF dst \in Local THEN dst ELSE Gateway

\* What the caller below does when ip::send has sent the packet, or has not.
Sent(rest) ==
  IF rest # <<>> /\ Head(rest).fn = "ping"
  THEN <<Await(Head(rest).dst, Head(rest).seq)>> \o Tail(rest)
  ELSE rest
NotSent(rest) ==
  IF rest # <<>> /\ Head(rest).fn = "ping" THEN Tail(rest) ELSE rest

\* ip::send called by the top of rest, with the addresses known.
Sending(dst, rest, known) ==
  IF NextHop(dst) \in Range(known) THEN Sent(rest)
  ELSE <<Resolve(NextHop(dst), 1)>> \o rest

-----------------------------------------------------------------------------
(* The wire and poll.                                                        *)

Arrive(f) ==
  /\ arrivals < MaxArrivals
  /\ arrivals' = arrivals + 1
  /\ ring' = Append(ring, f)
  /\ UNCHANGED <<stack, arp, replies, pings, heard, result>>

\* poll drains the ring; the card is not locked while the frames are handled.
PollBegins ==
  /\ Top.fn \in {"main", "await", "resolve"}
  /\ ring # <<>>
  /\ stack' = <<Poll(ring)>> \o stack
  /\ ring' = <<>>
  /\ UNCHANGED <<arp, replies, arrivals, pings, heard, result>>

\* handle_frame: ip::handle learns the sender before the protocol's handler;
\* what comes from behind the gateway is learned, too.
Dispatch ==
  /\ Top.fn = "poll" /\ Top.frames # <<>>
  /\ LET f == Head(Top.frames)
         rest == <<Poll(Tail(Top.frames))>> \o Tail(stack)
     IN  /\ arp' = Learned(f.src)
         /\ stack' = IF f.kind = "echo" THEN Sending(f.src, rest, arp') ELSE rest
         /\ IF f.kind = "echoReply"
            THEN /\ replies' = IF Len(replies) < MAX_REPLIES
                               THEN Append(replies, <<f.src, f.seq>>) ELSE replies
                 /\ heard' = heard \cup {<<f.src, f.seq>>}
            ELSE UNCHANGED <<replies, heard>>
  /\ UNCHANGED <<ring, arrivals, pings, result>>

PollEnds ==
  /\ Top.fn = "poll" /\ Top.frames = <<>>
  /\ stack' = Tail(stack)
  /\ UNCHANGED <<ring, arp, replies, arrivals, pings, heard, result>>

-----------------------------------------------------------------------------
(* arp::resolve, which waits.                                                *)

Resolved ==
  /\ Top.fn = "resolve" /\ Top.dst \in Range(arp)
  /\ stack' = Sent(Tail(stack))
  /\ UNCHANGED <<ring, arp, replies, arrivals, pings, heard, result>>

\* A second without an answer.
ResolveExpires ==
  /\ Top.fn = "resolve" /\ Top.dst \notin Range(arp)
  /\ stack' = IF Top.tries < Tries
              THEN <<Resolve(Top.dst, Top.tries + 1)>> \o Tail(stack)
              ELSE NotSent(Tail(stack))
  /\ UNCHANGED <<ring, arp, replies, arrivals, pings, heard, result>>

-----------------------------------------------------------------------------
(* icmp::ping                                                                *)

\* A variant that keeps earlier replies (for the mutation checks).
ForgetNothing(seq) == {replies}

\* retain: the sequence of those at these places, in their order; there is one.
Kept(s, places) ==
  {[i \in DOMAIN f |-> s[f[i]]] :
     f \in {g \in [1 .. Cardinality(places) -> places] : \A i, j \in DOMAIN g : i < j => g[i] < g[j]}}

Forget(seq) == Kept(replies, {i \in DOMAIN replies : replies[i][2] # seq})

StartPing(dst, seq) ==
  /\ stack = <<>>
  /\ pings < MaxPings
  /\ pings' = pings + 1
  /\ replies' \in Forget(seq)
  /\ stack' = Sending(dst, <<Ping(dst, seq)>>, arp)
  /\ heard' = {}
  /\ result' = Idle
  /\ UNCHANGED <<ring, arp, arrivals>>

PingAnswered ==
  /\ Top.fn = "await"
  /\ <<Top.dst, Top.seq>> \in Range(replies)
  /\ replies' \in Forget(Top.seq)
  /\ result' = [dst |-> Top.dst, seq |-> Top.seq, ok |-> TRUE]
  /\ stack' = Tail(stack)
  /\ UNCHANGED <<ring, arp, arrivals, pings, heard>>

PingExpires ==
  /\ Top.fn = "await"
  /\ <<Top.dst, Top.seq>> \notin Range(replies)
  /\ stack' = Tail(stack)
  /\ UNCHANGED <<ring, arp, replies, arrivals, pings, heard, result>>

-----------------------------------------------------------------------------
Init ==
  /\ stack = <<>> /\ ring = <<>> /\ arp = <<>> /\ replies = <<>>
  /\ arrivals = 0 /\ pings = 0 /\ heard = {} /\ result = Idle

Next ==
  \/ \E f \in Frames : Arrive(f)
  \/ PollBegins \/ Dispatch \/ PollEnds
  \/ Resolved \/ ResolveExpires
  \/ \E dst \in Hosts, seq \in Seqs : StartPing(dst, seq)
  \/ PingAnswered \/ PingExpires

Spec == Init /\ [][Next]_vars

-----------------------------------------------------------------------------
(* Every variable keeps its type; a call is a ping only at the bottom of the *)
(* stack, and every nested poll is inside a resolve or the ping.             *)
TypeOK ==
  /\ \A i \in DOMAIN stack :
       /\ stack[i].fn \in {"ping", "await", "resolve", "poll"}
       /\ stack[i].fn \in {"ping", "await"} => i = Len(stack)
       /\ stack[i].fn = "poll" /\ i < Len(stack) => stack[i + 1].fn \in {"resolve", "await"}
       /\ stack[i].frames \in Seq(Frames)
  /\ ring \in Seq(Frames) /\ arp \in Seq(Hosts) /\ Len(arp) <= MAX_ENTRIES
  /\ replies \in Seq(Hosts \X Seqs) /\ Len(replies) <= MAX_REPLIES
  /\ heard \subseteq Hosts \X Seqs

(* A ping that succeeds has heard an answer from its own target, with its    *)
(* own number, since it began: replies to earlier pings that arrived late,   *)
(* in whatever nested poll, do not count (ping, "retain").                   *)
PingHearsItsTarget == result.ok => <<result.dst, result.seq>> \in heard
=============================================================================
