------------------------------- MODULE Browser -------------------------------
(***************************************************************************)
(* The browser window (kernel/src/window.rs) and the session of the page   *)
(* it shows (kernel/src/browser/script.rs): navigation, history, the       *)
(* navigations a page's scripts ask for, and the timers and promise jobs   *)
(* they leave behind.  Fetching a page blocks the whole desktop, so one    *)
(* user action runs to its end, todo, before the next begins; what a       *)
(* script does is left open.                                               *)
(***************************************************************************)
EXTENDS Naturals, Sequences, FiniteSets, SequencesExt

CONSTANTS
  Urls,            \* addresses of pages
  HOME,            \* one of Urls: the page the browser writes itself
  None,            \* no address: not one of Urls
  MAX_SCRIPT_NAV,  \* how deep navigations by scripts may nest
  MaxHistory,      \* the pages Back remembers (32)
  MaxOffset        \* bound: how far, in screens, a page can be scrolled

VARIABLES
  page,     \* session: the document on screen with its engine, or NoPage
  current,  \* the address on screen
  history,
  scroll,
  depth,    \* SCRIPT_NAV_DEPTH
  todo      \* what the running action still has to do, next step first

vars == <<page, current, history, scroll, depth, todo>>

NoPage == [url |-> None]
Offsets == 0 .. MaxOffset

\* limit is browser_scroll_limit; nav is pending_navigation.
Page == [url : Urls, limit : Offsets, timers : BOOLEAN, jobs : BOOLEAN,
         pending : BOOLEAN, dirty : BOOLEAN, nav : Urls \cup {None}]

Open == page # NoPage
Idle == todo = <<>>

Lower(a, b) == IF a < b THEN a ELSE b

Navigate(u, record) == <<[op |-> "navigate", url |-> u, record |-> record]>>
Follow == <<[op |-> "follow"]>>
Leave == <<[op |-> "leave"]>>

-----------------------------------------------------------------------------
(* The session.                                                              *)

\* What a page's code may do while it runs: change the document, set and clear
\* timers, and assign to location, once or not at all.
Ran(pg) ==
  {[pg EXCEPT !.timers = t, !.dirty = d, !.nav = n] :
     t \in BOOLEAN, d \in {pg.dirty, TRUE}, n \in {pg.nav} \cup Urls}

\* pump_jobs runs what has been queued; a job that throws leaves the rest.
PumpJobs(pg) == {[q EXCEPT !.jobs = j] : q \in Ran(pg), j \in BOOLEAN}

RefreshPending(pg) == [pg EXCEPT !.pending = pg.jobs \/ pg.timers]

Settle(pg) ==
  IF pg.dirty THEN {[pg EXCEPT !.dirty = FALSE, !.limit = l] : l \in Offsets} ELSE {pg}

\* eval_bounded and fire: the code, the jobs it queued, then the flag.
Fire(pg) == {RefreshPending(q) : q \in PumpJobs(pg)}

Dispatch(pg) == UNION {Settle(q) : q \in Fire(pg)}

\* __os101_tick answers whether a timer is left before the jobs it queued run;
\* if the engine fails the session stops asking it.
Pump(pg) ==
  IF ~pg.pending THEN {pg}
  ELSE UNION {Settle(q) : q \in UNION {PumpJobs([ticked EXCEPT !.pending = ticked.timers]) :
                                         ticked \in Ran(pg)}
                                 \cup {[ticked EXCEPT !.pending = FALSE] : ticked \in Ran(pg)}}

Fresh(url, limit) ==
  [url |-> url, limit |-> limit, timers |-> FALSE, jobs |-> FALSE,
   pending |-> FALSE, dirty |-> FALSE, nav |-> None]

\* run_scripts: every script in turn, the two load events, one pump, one layout.
Loaded ==
  [url \in Urls |-> UNION {UNION {Settle(r) : r \in Pump(q)} :
                           q \in UNION {Fire(Fresh(url, l)) : l \in Offsets}}]

-----------------------------------------------------------------------------
(* Steps of a running action.                                                *)

\* A variant without the ceiling (for the mutation checks).
AlwaysFollow == TRUE

\* The ceiling on navigations asked for by scripts.
MayFollow == depth < MAX_SCRIPT_NAV

\* browser_navigate: fetch, which may fail or end elsewhere, and show.  The
\* page that was on screen is remembered, while there is room.
DoNavigate ==
  /\ ~Idle /\ Head(todo).op = "navigate"
  /\ \E url \in IF Head(todo).url = HOME THEN {HOME} ELSE Urls \ {HOME} :
       page' \in Loaded[url] /\ current' = url
  /\ scroll' = 0
  /\ history' = IF Head(todo).record /\ current # None /\ Len(history) < MaxHistory
                THEN Append(history, current) ELSE history
  /\ todo' = Follow \o Tail(todo)
  /\ UNCHANGED depth

\* browser_follow_script_navigation.
DoFollow ==
  /\ ~Idle /\ Head(todo).op = "follow"
  /\ page' = [page EXCEPT !.nav = None]
  /\ IF page.nav # None /\ MayFollow
     THEN /\ depth' = depth + 1
          /\ todo' = Navigate(page.nav, TRUE) \o Leave \o Tail(todo)
     ELSE /\ todo' = Tail(todo)
          /\ UNCHANGED depth
  /\ UNCHANGED <<current, history, scroll>>

DoLeave ==
  /\ ~Idle /\ Head(todo).op = "leave"
  /\ depth' = depth - 1
  /\ todo' = Tail(todo)
  /\ UNCHANGED <<page, current, history, scroll>>

-----------------------------------------------------------------------------
(* What the user does, and the tick of the main loop.                        *)

OpenBrowser ==
  /\ Idle /\ ~Open
  /\ todo' = Navigate(HOME, FALSE)
  /\ UNCHANGED <<page, current, history, scroll, depth>>

\* The close button, and Escape.
CloseBrowser ==
  /\ Idle /\ Open
  /\ page' = NoPage /\ current' = None /\ history' = <<>> /\ scroll' = 0
  /\ UNCHANGED <<depth, todo>>

\* The address bar, the Home and Pictures buttons, the context menu.
Go(u) ==
  /\ Idle /\ Open
  /\ todo' = Navigate(u, TRUE)
  /\ UNCHANGED <<page, current, history, scroll, depth>>

Reload ==
  /\ Idle /\ Open
  /\ todo' = Navigate(current, FALSE)
  /\ UNCHANGED <<page, current, history, scroll, depth>>

Back ==
  /\ Idle /\ Open
  /\ history # <<>>
  /\ history' = Front(history)
  /\ todo' = Navigate(Last(history), FALSE)
  /\ UNCHANGED <<page, current, scroll, depth>>

Scroll(s) ==
  /\ Idle /\ Open
  /\ scroll' = Lower(s, page.limit)
  /\ UNCHANGED <<page, current, history, depth, todo>>

\* browser_click on the page, its link if it is on one: the handlers run, then
\* what they asked for, then the link.
Click ==
  /\ Idle /\ Open
  /\ \E pg \in Dispatch(page), link \in {<<>>} \cup {Navigate(u, TRUE) : u \in Urls} :
       /\ page' = pg
       /\ scroll' = Lower(scroll, pg.limit)
       /\ todo' = Follow \o link
  /\ UNCHANGED <<current, history, depth>>

\* browser_submit_field.
Submit ==
  /\ Idle /\ Open
  /\ \E pg \in Dispatch(page), form \in {<<>>} \cup {Navigate(u, TRUE) : u \in Urls} :
       page' = pg /\ todo' = Follow \o form
  /\ UNCHANGED <<current, history, scroll, depth>>

\* A keystroke the page hears: what its handler asks for waits for the tick.
Key ==
  /\ Idle /\ Open
  /\ page' \in Dispatch(page)
  /\ UNCHANGED <<current, history, scroll, depth, todo>>

\* wm_tick.
Tick ==
  /\ Idle /\ Open
  /\ page.nav # None \/ page.pending
  /\ \E pg \in Pump([page EXCEPT !.nav = None]) :
       LET to == IF page.nav # None THEN page.nav ELSE pg.nav
       IN  /\ page' = IF page.nav = None THEN [pg EXCEPT !.nav = None] ELSE pg
           /\ scroll' = Lower(scroll, IF page.pending THEN pg.limit ELSE scroll)
           /\ todo' = IF to = None THEN <<>> ELSE Navigate(to, TRUE)
  /\ UNCHANGED <<current, history, depth>>

-----------------------------------------------------------------------------
Init == page = NoPage /\ current = None /\ history = <<>> /\ scroll = 0 /\ depth = 0 /\ todo = <<>>

Next ==
  \/ DoNavigate \/ DoFollow \/ DoLeave
  \/ OpenBrowser \/ CloseBrowser \/ Reload \/ Back \/ Click \/ Submit \/ Key \/ Tick
  \/ \E u \in Urls : Go(u)
  \/ \E s \in Offsets : Scroll(s)

Spec == Init /\ [][Next]_vars

-----------------------------------------------------------------------------
(* Every variable keeps its type.                                            *)
TypeOK ==
  /\ page \in Page \cup {NoPage}
  /\ current \in Urls \cup {None}
  /\ history \in Seq(Urls) /\ Len(history) <= MaxHistory
  /\ scroll \in Offsets
  /\ depth \in Nat
  /\ \A i \in DOMAIN todo : todo[i].op \in {"navigate", "follow", "leave"}

(* Pages that send the browser to each other nest at most MAX_SCRIPT_NAV     *)
(* deep, and when they have been stopped the next page may redirect again:   *)
(* SCRIPT_NAV_DEPTH counts exactly the navigations still on the stack        *)
(* (browser_follow_script_navigation, "would recurse until the kernel stack  *)
(* ran out").                                                                *)
ScriptRedirectsBounded ==
  /\ depth = Cardinality({i \in DOMAIN todo : todo[i].op = "leave"})
  /\ depth <= MAX_SCRIPT_NAV
=============================================================================
