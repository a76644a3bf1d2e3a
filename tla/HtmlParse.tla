------------------------------ MODULE HtmlParse ------------------------------
(***************************************************************************)
(* A page's source becomes a tree (parse of browser/htmlparse.rs).  A step *)
(* takes one piece of the source, a tag or a run of text, as classify      *)
(* tells them apart; the open elements are a stack, and content goes into  *)
(* the one on top.  Comments and declarations leave nothing.  A text is    *)
(* known by its number, and attributes are left out.                       *)
(***************************************************************************)
EXTENDS Integers, Sequences, SequencesExt

CONSTANTS
  Tags,               \* the elements of the sources that have content
  VOID, RAW_TEXT,
  MAX_DEPTH, MAX_NODES,
  MaxPieces           \* bound on the pieces of a source

VARIABLES
  stack,              \* of open elements: a tag and the children so far
  node_count,
  source,             \* how many pieces were read
  given               \* history: the texts taken, each with the tags it stood in

htmlVars == <<stack, node_count, source, given>>

Element(tag, children) == [tag |-> tag, children |-> children]
TextNode(n) == [text |-> n]

Init ==
  /\ stack = <<Element("document", <<>>)>>
  /\ node_count = 0 /\ source = 0 /\ given = <<>>

-----------------------------------------------------------------------------
implicitly_closes(open, new) ==
  CASE new = "li" -> open = "li"
    [] new = "p" -> open \in {"p", "li", "h1", "h2", "h3", "h4", "h5", "h6"}
    [] new \in {"dt", "dd"} -> open \in {"dt", "dd"}
    [] new = "tr" -> open \in {"tr", "td", "th"}
    [] new \in {"td", "th"} -> open \in {"td", "th"}
    [] new = "option" -> open = "option"
    [] OTHER -> FALSE

\* Into the element on top.
push_child(s, node) == [s EXCEPT ![Len(s)].children = Append(@, node)]

\* The element on top is done and goes into the one below; a wrong form of it drops
\* what it holds.
Emptied(s) == push_child(Front(s), Element(Last(s).tag, <<>>))
pop_into_parent(s) == push_child(Front(s), Last(s))

\* The elements from a depth on are done.
RECURSIVE PoppedTo(_, _)
PoppedTo(s, depth) == IF Len(s) <= depth THEN s ELSE PoppedTo(pop_into_parent(s), depth)

\* What a new element ends: the elements on top, one after another; a wrong form
\* of it ends one of them at most.
EndsOne(s, tag) == IF Len(s) > 1 /\ implicitly_closes(Last(s).tag, tag) THEN Len(s) - 1 ELSE Len(s)
EndsTo(s, tag) ==
  CHOOSE d \in 1 .. Len(s) :
    /\ \A i \in d + 1 .. Len(s) : implicitly_closes(s[i].tag, tag)
    /\ d > 1 => ~implicitly_closes(s[d].tag, tag)

Path(s) == [i \in DOMAIN s |-> s[i].tag]

\* An element with content: where it would be too deep, its content goes into the
\* element that is open.
OpenTag(tag) ==
  /\ IF node_count >= MAX_NODES THEN UNCHANGED <<stack, node_count>>
     ELSE LET s == PoppedTo(stack, EndsTo(stack, tag))
          IN /\ node_count' = node_count + 1
             /\ stack' = IF Len(s) >= MAX_DEPTH THEN s ELSE Append(s, Element(tag, <<>>))
  /\ UNCHANGED given

\* An element that is empty by its kind, or by a slash in its tag; it ends nothing.
EmptyTag(tag) ==
  /\ IF node_count >= MAX_NODES THEN UNCHANGED <<stack, node_count>>
     ELSE /\ node_count' = node_count + 1
          /\ stack' = push_child(stack, Element(tag, <<>>))
  /\ UNCHANGED given

\* An element of raw text, up to its end tag.
RawElement(tag) ==
  IF node_count >= MAX_NODES THEN UNCHANGED <<stack, node_count, given>>
  ELSE /\ node_count' = node_count + 1
       /\ stack' = push_child(stack, Element(tag, <<TextNode(source)>>))
       /\ given' = Append(given, [text |-> source, path |-> Append(Path(stack), tag)])

\* The nearest open element of that tag is done, and all within it; a tag that is
\* not open is ignored.
CloseTag(tag) ==
  /\ stack' = LET open == {i \in 2 .. Len(stack) : stack[i].tag = tag}
              IN IF open = {} THEN stack
                 ELSE PoppedTo(stack, (CHOOSE i \in open : \A j \in open : j <= i) - 1)
  /\ UNCHANGED <<node_count, given>>

ReadText ==
  IF node_count >= MAX_NODES THEN UNCHANGED <<stack, node_count, given>>
  ELSE /\ node_count' = node_count + 1
       /\ stack' = push_child(stack, TextNode(source))
       /\ given' = Append(given, [text |-> source, path |-> Path(stack)])

Piece == source < MaxPieces /\ source' = source + 1

Next ==
  \/ \E tag \in Tags : Piece /\ OpenTag(tag)
  \/ \E tag \in VOID \cup Tags : Piece /\ EmptyTag(tag)
  \/ \E tag \in RAW_TEXT : Piece /\ RawElement(tag)
  \/ \E tag \in Tags : Piece /\ CloseTag(tag)
  \/ Piece /\ ReadText

Spec == Init /\ [][Next]_htmlVars

-----------------------------------------------------------------------------
\* What parse returns, were this the end of the source: what is open is closed.
Tree == PoppedTo(stack, 1)[1]

\* The texts of a tree, in the order they stand, each with the tags around it.
RECURSIVE Texts(_, _)
Texts(node, path) ==
  IF "text" \in DOMAIN node THEN <<[text |-> node.text, path |-> path]>>
  ELSE FlattenSeq([i \in DOMAIN node.children |->
                     Texts(node.children[i], Append(path, node.tag))])

TypeOK ==
  /\ Len(stack) \in 1 .. MAX_DEPTH
  /\ stack[1].tag = "document"
  /\ node_count \in 0 .. MAX_NODES

\* Whatever the source closes, leaves open or closes without having opened it, the
\* page keeps every text it took, in the order of the source and inside the very
\* elements that were open when it was read.
TextsStayWhereTheyStood == Texts(Tree, <<>>) = given

\* Never does an element with content stand in one that it ends: no row in a cell,
\* no item in an item, however they were nested before.
RECURSIVE Proper(_)
Proper(node) ==
  "text" \in DOMAIN node \/
  \A i \in DOMAIN node.children :
    LET child == node.children[i]
    IN /\ Proper(child)
       /\ "tag" \in DOMAIN child /\ child.children # <<>> =>
            ~implicitly_closes(node.tag, child.tag)
NoneInsideWhatItEnds == Proper(Tree)

=============================================================================
