--------------------------------- MODULE Tls ---------------------------------
(***************************************************************************)
(* The TLS 1.3 client (kernel/src/net/tls.rs).  A record is a header and a *)
(* body, TCP delivers them in pieces of any size; a handshake message is   *)
(* two fragments, and the server packs fragments into records as it likes, *)
(* so a message may span records and a record hold several messages.  The  *)
(* secrets are what they are derived from: the phase and the transcript.   *)
(***************************************************************************)
EXTENDS Naturals, Sequences, SequencesExt

CONSTANTS
  MaxFragments, \* bound: fragments in one record
  MaxPieces,    \* bound: pieces that TCP delivers at once
  MaxData,      \* bound: application data records
  MaxExtras     \* bound: change_cipher_spec records, alerts, tickets, key updates

VARIABLES
  \* the server
  sent,     \* its records, in order
  flight,   \* the handshake messages it has for us
  flown,    \* how many of their fragments it has sent
  seq,      \* records under its current keys
  extras,
  \* the client
  got,      \* pieces (headers and bodies) that TCP has delivered
  read,     \* records taken out of reader.raw
  phase,
  hs,       \* pending_handshake
  transcript,
  opened,   \* recv_keys.seq
  data,     \* what recv_to_end has put together
  excuse    \* history: the server or the network gave a reason to fail

serverVars == <<sent, flight, flown, seq, extras>>
clientVars == <<got, read, phase, hs, transcript, opened, data>>
vars == <<serverVars, clientVars, excuse>>

\* A certificate and the signature made with it are one message here: the
\* client skips both.
Usual == <<"extensions", "certificate", "finished">>
Flights == {Usual, <<"extensions", "request">> \o Tail(Usual)}

Plain(body) == [body |-> body, secret |-> <<>>, seq |-> 0, parts |-> <<>>]
ServerTranscript == <<"hello">> \o flight
Handshake(t) == <<"handshake", t>>
Application(t) == <<"application", t>>
Flown == flown = 2 * Len(flight)
Secret == IF Flown THEN Application(ServerTranscript) ELSE Handshake(<<"hello">>)
Sealed(body, parts) == [body |-> body, secret |-> Secret, seq |-> seq, parts |-> parts]

-----------------------------------------------------------------------------
(* The server, and whoever alters its hello on the way.                      *)

Greeted == \E i \in DOMAIN sent : sent[i].body # "ccs"

ServerHello(body) ==
  /\ ~Greeted
  /\ sent' = Append(sent, Plain(body))
  /\ excuse' = (excuse \/ body # "hello")
  /\ UNCHANGED <<flight, flown, seq, extras, clientVars>>

\* The next n fragments of the flight, in one record.
ServerFlight(n) ==
  /\ Greeted /\ flown + n <= 2 * Len(flight)
  /\ sent' = Append(sent, Sealed("messages",
               [i \in 1 .. n |-> flight[(flown + i + 1) \div 2]]))
  /\ flown' = flown + n
  /\ seq' = IF flown' = 2 * Len(flight) THEN 0 ELSE seq + 1
  /\ UNCHANGED <<flight, extras, clientVars, excuse>>

\* Records of application data so far; each holds its number.
DataSent == Cardinality({i \in DOMAIN sent : sent[i].body = "data"})

ServerSends(body, parts) ==
  /\ sent' = Append(sent, Sealed(body, parts))
  /\ seq' = seq + 1
  /\ UNCHANGED <<flight, flown, clientVars>>

ServerData ==
  /\ Flown /\ DataSent < MaxData
  /\ Last(sent).body # "close"
  /\ ServerSends("data", <<DataSent + 1>>)
  /\ UNCHANGED <<extras, excuse>>

ServerCloses ==
  /\ Flown /\ Last(sent).body # "close"
  /\ ServerSends("close", <<>>)
  /\ UNCHANGED <<extras, excuse>>

\* A ticket, a request for new keys, or an alert.
ServerMore(body) ==
  /\ Flown /\ extras < MaxExtras /\ Last(sent).body # "close"
  /\ extras' = extras + 1
  /\ ServerSends(body, <<body, body>>)
  /\ excuse' = (excuse \/ body # "ticket")

ServerChangesCipher ==
  /\ extras < MaxExtras /\ ~Flown
  /\ sent' = Append(sent, Plain("ccs"))
  /\ extras' = extras + 1
  /\ UNCHANGED <<flight, flown, seq, clientVars, excuse>>

-----------------------------------------------------------------------------
(* The client.                                                               *)

\* next_record and fill, which reads on while a record is not whole.
Ready == got >= 2 * (read + 1)

Deliver(n) ==
  /\ phase \in {"hello", "flight", "open"} /\ ~Ready
  /\ got < 2 * Len(sent)
  /\ got' = Min({got + n, 2 * Len(sent)})
  /\ UNCHANGED <<serverVars, read, phase, hs, transcript, opened, data, excuse>>

Record == sent[read + 1]
Opens(secret) == Record.secret = secret /\ Record.seq = opened

Fail == phase' = "failed" /\ UNCHANGED <<hs, transcript, opened, data>>
Skip == UNCHANGED <<phase, hs, transcript, opened, data>>

ReadHello ==
  /\ phase = "hello" /\ Ready
  /\ read' = read + 1
  /\ CASE Record.body = "ccs" -> Skip
       [] Record.body \in {"hello", "altered"} ->
            /\ transcript' = <<Record.body>>
            /\ phase' = "flight"
            /\ UNCHANGED <<hs, opened, data>>
       [] OTHER -> Fail
  /\ UNCHANGED <<serverVars, got, excuse>>

\* A variant that takes one message of a record (for the mutation checks).
FirstMessage(buffer) == IF Len(buffer) < 2 THEN <<>> ELSE <<buffer[2]>>

\* take_handshake_message until the buffer holds no whole message.
WholeMessages(buffer) == [i \in 1 .. Len(buffer) \div 2 |-> buffer[2 * i]]

\* The MAC of Finished is over everything before it.
Verifies(before) == before = Front(ServerTranscript)

ReadFlight ==
  /\ phase = "flight" /\ Ready
  /\ read' = read + 1
  /\ IF Record.body = "ccs" THEN Skip
     ELSE IF ~Opens(Handshake(<<transcript[1]>>)) THEN Fail
     ELSE LET buffer == hs \o Record.parts
              messages == WholeMessages(buffer)
              seen == transcript \o messages
          IN  IF "request" \in Range(messages) THEN Fail
              ELSE IF messages # <<>> /\ Last(messages) = "finished"
              THEN /\ transcript' = seen
                   /\ phase' = IF Verifies(Front(seen)) THEN "open" ELSE "failed"
                   /\ hs' = <<>> /\ opened' = 0
                   /\ UNCHANGED data
              ELSE /\ transcript' = seen
                   /\ hs' = SubSeq(buffer, 2 * Len(messages) + 1, Len(buffer))
                   /\ opened' = opened + 1
                   /\ UNCHANGED <<phase, data>>
  /\ UNCHANGED <<serverVars, got, excuse>>

\* recv_to_end, one record.
ReadStream ==
  /\ phase = "open" /\ Ready
  /\ read' = read + 1
  /\ IF Record.body = "ccs" THEN Skip
     ELSE IF ~Opens(Application(transcript)) \/ Record.body \in {"alert", "update"} THEN Fail
     ELSE /\ opened' = opened + 1
          /\ data' = IF Record.body = "data" THEN data \o Record.parts ELSE data
          /\ phase' = IF Record.body = "close" THEN "finished" ELSE phase
          /\ UNCHANGED <<hs, transcript>>
  /\ UNCHANGED <<serverVars, got, excuse>>

\* The deadline passes, or the connection ends: a stream that is open is over
\* with what it has.
GiveUp ==
  /\ phase \in {"hello", "flight", "open"} /\ ~Ready
  /\ phase' = IF phase = "open" THEN "ended" ELSE "failed"
  /\ excuse' = (excuse \/ phase # "open")
  /\ UNCHANGED <<serverVars, got, read, hs, transcript, opened, data>>

-----------------------------------------------------------------------------
Init ==
  /\ sent = <<>> /\ flight \in Flights /\ flown = 0 /\ seq = 0 /\ extras = 0
  /\ got = 0 /\ read = 0 /\ phase = "hello" /\ hs = <<>> /\ transcript = <<>>
  /\ opened = 0 /\ data = <<>> /\ excuse = (flight # Usual)

Next ==
  \/ \E body \in {"hello", "altered", "retry"} : ServerHello(body)
  \/ \E n \in 1 .. MaxFragments : ServerFlight(n)
  \/ ServerData \/ ServerCloses \/ ServerChangesCipher
  \/ \E body \in {"ticket", "update", "alert"} : ServerMore(body)
  \/ \E n \in 1 .. MaxPieces : Deliver(n)
  \/ ReadHello \/ ReadFlight \/ ReadStream \/ GiveUp

Spec == Init /\ [][Next]_vars

-----------------------------------------------------------------------------
(* Every variable keeps its type.                                            *)
TypeOK ==
  /\ flight \in Flights /\ flown \in 0 .. 2 * Len(flight)
  /\ got \in 0 .. 2 * Len(sent) /\ 2 * read <= got
  /\ phase \in {"hello", "flight", "open", "ended", "finished", "failed"}
  /\ Len(hs) <= 1 /\ extras \in 0 .. MaxExtras /\ excuse \in BOOLEAN
  /\ data \in Seq(1 .. MaxData)

(* The caller gets what the server sent, in order and, after a close_notify, *)
(* all of it; and the client gives up on the server only for a reason that   *)
(* lies outside it.  So both ends hold the same secrets and count the same   *)
(* records, however messages and records are split, joined and delivered     *)
(* (handshake, recv_to_end, "drain whatever is complete").                   *)
StreamIsUnderstood ==
  LET all == [i \in 1 .. DataSent |-> i]
  IN  /\ IsPrefix(data, all)
      /\ phase = "finished" => data = all
      /\ phase = "failed" => excuse
=============================================================================
