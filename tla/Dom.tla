--------------------------------- MODULE Dom ---------------------------------
(***************************************************************************)
(* The document and what a page's scripts do to it: the tree of            *)
(* kernel/src/browser/dom.rs and the native functions of                   *)
(* kernel/src/browser/script.rs.  A node lives in the document or in one   *)
(* of the subtrees a script holds on to, detached; scripts name nodes by   *)
(* id and may name any id they ever saw.  Nothing is laid out until a      *)
(* batch of changes ends.  Text and elements are not told apart.           *)
(***************************************************************************)
EXTENDS Integers, Sequences, FiniteSets, SequencesExt, FiniteSetsExt

CONSTANTS
  MAX_DETACHED,
  MaxId          \* bound: nodes made in a behaviour

VARIABLES
  kids,      \* of each id, the ids of its children
  detached,  \* the roots a script holds on to
  next,      \* next_id
  hidden,    \* text put in by textContent, which has no id until the layout
  dirty,
  anchor,    \* write_anchor
  laid,      \* history: the tree the layout was made from
  gone,      \* the ids of nodes that were destroyed
  written    \* history: the script and what it has written, undisturbed

vars == <<kids, detached, next, hidden, dirty, anchor, laid, gone, written>>

Root == 0
NO_NODE == -1
Ids == Root .. MaxId
Known == Root .. next - 1

-----------------------------------------------------------------------------
(* Walking a forest f, a record of kids and detached.                        *)

Forest == [kids |-> kids, detached |-> detached]

Below(f, id) ==
  LET step[k \in 0 .. MaxId] ==
        IF k = 0 THEN {id}
        ELSE LET upper == step[k - 1] IN upper \cup UNION {Range(f.kids[n]) : n \in upper}
  IN  step[MaxId]

InDocument(f) == Below(f, Root)

\* find: with an id, and neither destroyed nor without one yet.
Found(id) == id \in Known \ (gone \cup hidden)

ParentOf(id) ==
  LET holders == {n \in Known : id \in Range(kids[n])}
  IN  IF holders = {} THEN NO_NODE ELSE CHOOSE n \in holders : TRUE

IndexOf(s, x) == SelectInSeq(s, LAMBDA y : y = x)

-----------------------------------------------------------------------------
(* Changing a forest.                                                        *)

\* take_node; the document's root cannot be taken.
MayTake(id) == id # Root /\ Found(id)
Take(f, id) ==
  [kids |-> [n \in Ids |-> SelectSeq(f.kids[n], LAMBDA x : x # id)],
   detached |-> SelectSeq(f.detached, LAMBDA x : x # id)]

\* A variant that lets go of what it cannot attach (for the mutation checks).
ParkNothing(f, id) == f

Park(f, id) ==
  IF Len(f.detached) < MAX_DETACHED THEN [f EXCEPT !.detached = Append(@, id)] ELSE f

MayAttach(parent, child) ==
  parent # child /\ Found(parent) /\ MayTake(child) /\ parent \notin Below(Forest, child)

\* The place is looked up before the child is taken out of the tree.
Attach(f, parent, child, before) ==
  LET at == IndexOf(f.kids[parent], before)
      taken == Take(f, child)
      there == taken.kids[parent]
  IN  IF parent \in Below(f, child) THEN Park(taken, child)
      ELSE [taken EXCEPT !.kids[parent] =
              IF at # 0 /\ at <= Len(there) + 1 THEN InsertAt(there, at, child)
              ELSE Append(there, child)]

\* A fresh subtree with its ids.
Adopt(f, ids) ==
  LET top == Head(ids)
  IN  Park([f EXCEPT !.kids[top] = Tail(ids)], top)

-----------------------------------------------------------------------------
(* The natives, each a call by a script that is running.                     *)

\* Whatever can no longer be reached has been destroyed; its children with it.
Become(f, unnumbered) ==
  LET alive == InDocument(f) \cup UNION {Below(f, n) : n \in Range(f.detached)}
  IN  /\ kids' = [n \in Ids |-> IF n \in alive THEN f.kids[n] ELSE <<>>]
      /\ detached' = f.detached
      /\ gone' = (1 .. next' - 1) \ alive
      /\ hidden' = unnumbered \cap alive

Numbered(n) == next + n - 1 <= MaxId /\ next' = next + n

\* A variant that leaves the layout stale (for the mutation checks).
TouchNothing == dirty' = dirty

\* dirty is set by every attach, and by taking a node out of the document.
Touch == dirty' = TRUE

CreateNode ==
  /\ Numbered(1)
  /\ Become(Adopt(Forest, <<next>>), hidden)
  /\ UNCHANGED <<dirty, anchor, laid, written>>

\* appendChild and insertBefore; a call the DOM refuses changes nothing.
InsertBefore(parent, child, before) ==
  /\ MayAttach(parent, child)
  /\ next' = next
  /\ Become(Attach(Forest, parent, child, before), hidden)
  /\ Touch /\ written' = <<>>
  /\ UNCHANGED <<anchor, laid>>

\* detach and removeChild: the node is kept for the script to put back.
Detach(id) ==
  /\ MayTake(id)
  /\ next' = next
  /\ Become(Park(Take(Forest, id), id), hidden)
  /\ Touch /\ written' = <<>>
  /\ UNCHANGED <<anchor, laid>>

ReplaceChild(parent, fresh, stale) ==
  /\ Found(parent) /\ stale \in Range(kids[parent]) /\ stale \notin hidden
  /\ MayAttach(parent, fresh)
  /\ LET put == Attach(Forest, parent, fresh, stale)
     IN  next' = next /\ Become(Park(Take(put, stale), stale), hidden)
  /\ Touch /\ written' = <<>>
  /\ UNCHANGED <<anchor, laid>>

\* textContent, and document.title where there is a title.
SetText(id) ==
  /\ Found(id)
  /\ Numbered(1)
  /\ Become([Forest EXCEPT !.kids[id] = <<next>>], hidden \cup {next})
  /\ Touch /\ written' = <<>>
  /\ UNCHANGED <<anchor, laid>>

SetInnerHtml(id, n) ==
  /\ Found(id)
  /\ Numbered(n)
  /\ Become([Forest EXCEPT !.kids[id] = [i \in 1 .. n |-> next + i - 1]], hidden)
  /\ Touch /\ written' = <<>>
  /\ UNCHANGED <<anchor, laid>>

\* A variant whose cursor stays at the script (for the mutation checks).
CursorStays(id) == anchor

\* The cursor moves past what was written.
CursorAfter(id) == id

\* document.write of one node, while a load-time script runs: it goes where
\* the parser would have put it.
Write ==
  LET parent == ParentOf(anchor)
      held == Adopt(Forest, <<next>>)
      follows == IndexOf(kids[parent], anchor) + 1
      before == IF follows <= Len(kids[parent]) THEN kids[parent][follows] ELSE NO_NODE
      placed == Len(detached) < MAX_DETACHED /\ Found(parent)
  IN  /\ anchor # NO_NODE /\ parent # NO_NODE
      /\ Numbered(1)
      /\ Become(IF placed THEN Attach(held, parent, next, before) ELSE held, hidden)
      /\ IF placed THEN Touch ELSE UNCHANGED dirty
      /\ anchor' = CursorAfter(next)
      /\ written' = IF written # <<>> THEN Append(written, next) ELSE <<>>
      /\ UNCHANGED laid

\* run_one: a script element's code starts, and ends.
StartScript(id) ==
  /\ anchor = NO_NODE
  /\ id \in InDocument(Forest) \ (hidden \cup {Root})
  /\ anchor' = id /\ written' = <<id>>
  /\ UNCHANGED <<kids, detached, next, hidden, dirty, laid, gone>>

EndScript ==
  /\ anchor # NO_NODE
  /\ anchor' = NO_NODE /\ written' = <<>>
  /\ UNCHANGED <<kids, detached, next, hidden, dirty, laid, gone>>

\* settle: at the end of a batch, and before a script asks where a node is.
Settle ==
  /\ dirty
  /\ dirty' = FALSE
  /\ hidden' = hidden \ InDocument(Forest)
  /\ laid' = [n \in InDocument(Forest) |-> kids[n]]
  /\ UNCHANGED <<kids, detached, next, anchor, gone, written>>

-----------------------------------------------------------------------------
\* A page of one element, laid out.
Init ==
  /\ kids = [n \in Ids |-> IF n = Root THEN <<1>> ELSE <<>>]
  /\ detached = <<>> /\ next = 2 /\ hidden = {} /\ dirty = FALSE /\ anchor = NO_NODE
  /\ laid = [n \in {Root, 1} |-> IF n = Root THEN <<1>> ELSE <<>>]
  /\ gone = {} /\ written = <<>>

Next ==
  \/ CreateNode \/ Write \/ EndScript \/ Settle
  \/ \E id \in Known :
       \/ Detach(id) \/ SetText(id) \/ StartScript(id)
       \/ \E n \in 0 .. 1 : SetInnerHtml(id, n)
       \/ \E child \in Known :
            \/ \E before \in (Range(kids[id]) \ hidden) \cup {NO_NODE} : InsertBefore(id, child, before)
            \/ \E stale \in Range(kids[id]) : ReplaceChild(id, child, stale)

Spec == Init /\ [][Next]_vars

-----------------------------------------------------------------------------
(* Every variable keeps its type.                                            *)
TypeOK ==
  /\ kids \in [Ids -> Seq(Ids)] /\ detached \in Seq(Ids)
  /\ next \in 2 .. MaxId + 1
  /\ hidden \subseteq Ids /\ gone \subseteq Ids
  /\ dirty \in BOOLEAN
  /\ anchor \in Ids \cup {NO_NODE} /\ written \in Seq(Ids)

(* A node that is moved about is never lost: it is destroyed only with the  *)
(* content it is part of, when that is replaced, or when a script holds too  *)
(* many subtrees (take_node, attach and park, "keeping it alive so a script  *)
(* can put it back").                                                        *)
MovesLoseNothing ==
  [][gone' # gone =>
       \/ Len(detached) = MAX_DETACHED
       \/ \E id \in Known : /\ Range(kids'[id]) \cap Known = {}
                            /\ gone' \ gone \subseteq Below(Forest, id) \ {id}]_vars

(* When nothing is waiting to be laid out, the page on screen is the         *)
(* document (touch and settle: "nothing lays the page out until the whole    *)
(* batch has finished").                                                     *)
LayoutIsCurrent ==
  ~dirty => laid = [n \in InDocument(Forest) |-> kids[n]]

(* What one script writes with document.write comes right after the script,  *)
(* in the order it was written: "a second write lands after the first rather *)
(* than in front of it" (script.rs:1321).                                    *)
WritesLandInOrder ==
  LET parent == ParentOf(Head(written))
      at == IndexOf(kids[parent], Head(written))
      fits == {i \in DOMAIN written : written[i] \notin gone}
  IN  written # <<>> /\ parent # NO_NODE /\ fits = DOMAIN written =>
        SubSeq(kids[parent], at, at + Len(written) - 1) = written
=============================================================================
