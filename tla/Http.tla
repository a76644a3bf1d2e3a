--------------------------------- MODULE Http ---------------------------------
(***************************************************************************)
(* Fetching a URL (kernel/src/net/http.rs): the name is resolved, the one  *)
(* TCP connection of the kernel opened, the request sent and the answer    *)
(* read to its end, over TLS or not, and a redirect starts over.  Every    *)
(* step may fail.                                                          *)
(***************************************************************************)
EXTENDS Naturals

CONSTANTS
  Sites,         \* hosts
  MAX_REDIRECTS,
  MaxFetches     \* bound: calls of get

VARIABLES
  at,       \* where in get the client is
  url,      \* current
  hops,     \* turns of the loop
  open,     \* whether CONN holds a connection
  answer,   \* what the server sent; "none" before it is read
  result,   \* history: what the last get returned
  source,   \* history: the URL of the last answer read
  fetches   \* history: calls of get

vars == <<at, url, hops, open, answer, result, source, fetches>>

Urls == [host : Sites, secure : BOOLEAN]
Answers == {"page", "redirect", "empty", "malformed"}
Nothing == [host |-> "nothing", secure |-> FALSE]
Failed == [host |-> "failed", secure |-> FALSE]

\* get returns: an error is the caller's, and the loop is over.
Return(what) == at' = "idle" /\ result' = what /\ UNCHANGED <<url, hops>>

-----------------------------------------------------------------------------
\* Url::parse: any absolute URL; one without a scheme is secure.
Get(u) ==
  /\ at = "idle" /\ fetches < MaxFetches
  /\ fetches' = fetches + 1
  /\ url' = u /\ hops' = 1 /\ at' = "resolve"
  /\ result' = Nothing
  /\ UNCHANGED <<open, answer, source>>

Resolve ==
  /\ at = "resolve"
  /\ \/ at' = "connect" /\ UNCHANGED <<result, url, hops>>
     \/ Return(Failed)
  /\ UNCHANGED <<open, answer, source, fetches>>

\* tcp::connect puts nothing in place when it fails.
Connect ==
  /\ at = "connect"
  /\ \/ /\ at' = IF url.secure THEN "handshake" ELSE "send"
        /\ open' = TRUE
        /\ UNCHANGED <<result, url, hops>>
     \/ Return(Failed) /\ open' = FALSE
  /\ UNCHANGED <<answer, source, fetches>>

\* tls::connect closes the connection when the handshake fails.
Handshake ==
  /\ at = "handshake"
  /\ \/ at' = "send" /\ UNCHANGED <<open, result, url, hops>>
     \/ Return(Failed) /\ open' = FALSE
  /\ UNCHANGED <<answer, source, fetches>>

\* A variant that leaves without closing (for the mutation checks).
LeaveOpen == open

Closed == FALSE

\* fetch_over_tcp and fetch_over_tls
Send ==
  /\ at = "send"
  /\ \/ at' = "recv" /\ UNCHANGED <<open, result, url, hops>>
     \/ Return(Failed) /\ open' = Closed
  /\ UNCHANGED <<answer, source, fetches>>

Recv ==
  /\ at = "recv"
  /\ open' = FALSE
  /\ \/ /\ answer' \in Answers
        /\ source' = url
        /\ at' = "parse"
        /\ UNCHANGED <<result, url, hops>>
     \/ Return(Failed) /\ UNCHANGED <<answer, source>>
  /\ UNCHANGED fetches

\* resolve_redirect: an absolute location goes anywhere, one that names a host
\* keeps the scheme, and a path stays where it is.
Targets == Urls
NextUrl(kind, target) ==
  CASE kind = "absolute" -> target
    [] kind = "host" -> [target EXCEPT !.secure = url.secure]
    [] kind = "path" -> url

Parse ==
  /\ at = "parse"
  /\ CASE answer \in {"empty", "malformed"} -> Return(Failed)
       [] answer = "page" -> Return(url)
       [] answer = "redirect" ->
            IF hops = MAX_REDIRECTS THEN Return(Failed)
            ELSE /\ \E kind \in {"absolute", "host", "path"}, target \in Targets :
                      url' = NextUrl(kind, target)
                 /\ hops' = hops + 1
                 /\ at' = "resolve"
                 /\ UNCHANGED result
  /\ UNCHANGED <<open, answer, source, fetches>>

-----------------------------------------------------------------------------
Init ==
  /\ at = "idle" /\ url \in {u \in Urls : u.secure} /\ hops = 0 /\ open = FALSE
  /\ answer = "none" /\ result = Nothing /\ source = url /\ fetches = 0

Next ==
  \/ \E u \in Urls : Get(u)
  \/ Resolve \/ Connect \/ Handshake \/ Send \/ Recv \/ Parse

Spec == Init /\ [][Next]_vars

-----------------------------------------------------------------------------
(* Every variable keeps its type.                                            *)
TypeOK ==
  /\ at \in {"idle", "resolve", "connect", "handshake", "send", "recv", "parse"}
  /\ url \in Urls /\ hops \in 0 .. MAX_REDIRECTS /\ open \in BOOLEAN
  /\ answer \in Answers \cup {"none"} /\ source \in Urls
  /\ result \in Urls \cup {Nothing, Failed} /\ fetches \in 0 .. MaxFetches

(* However a fetch ends, after any number of redirects and at whichever step *)
(* it fails, the one connection of the kernel is free for the next, and a    *)
(* page is reported under the address its body came from (get, "the URL the  *)
(* body actually came from, after any redirects").                           *)
FetchLeavesNothingOpen ==
  /\ at \in {"idle", "resolve", "connect"} => ~open
  /\ at = "idle" /\ result \notin {Nothing, Failed} => result = source

-----------------------------------------------------------------------------
(* What Services_proofs proves inductive.                                    *)

\* A fetch is allowed at least one turn.
Limits == MAX_REDIRECTS \in Nat \ {0} /\ MaxFetches \in Nat

\* While a fetch is under way nothing is reported and its turn is one of those allowed;
\* what is being parsed came from the current address over a connection that is closed.
Inv ==
  /\ TypeOK
  /\ FetchLeavesNothingOpen
  /\ at # "idle" => result = Nothing /\ hops >= 1
  /\ at = "parse" => ~open /\ source = url /\ answer \in Answers
=============================================================================
