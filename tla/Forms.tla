-------------------------------- MODULE Forms --------------------------------
(***************************************************************************)
(* The form controls of a page: the table of their values and the caret    *)
(* (kernel/src/browser/forms.rs), the keys and presses they are given      *)
(* (kernel/src/window.rs) and what scripts do to them meanwhile            *)
(* (kernel/src/browser/script.rs).  Every event goes to the page's scripts *)
(* first, and the table is made again from the document when they are      *)
(* done; only then comes the browser's own part.  A control is named by    *)
(* its node; a password field is a text field.                             *)
(***************************************************************************)
EXTENDS Naturals, Sequences, FiniteSets, SequencesExt, FiniteSetsExt

CONSTANTS
  Letters, Newline,
  Page,              \* the document's controls at first, in order
  Nameless,          \* those of them without a name
  MAX_CONTROLS, MAX_VALUE_CHARS,
  MaxKeys,           \* bound: keys struck in a behaviour
  MaxScript          \* bound: calls by scripts in a behaviour

VARIABLES
  doc,       \* the controls in the document, in order
  attrs,     \* the attributes of each
  controls,  \* the table
  focus,
  dirty,
  event,     \* what the scripts are being told of
  sent,      \* the request a submission made
  touched,   \* history: the control the last step meant to change
  keys, script

vars == <<doc, attrs, controls, focus, dirty, event, sent, touched, keys, script>>

NO_NODE == 0
Nodes == 1 .. Len(Page)
Kinds == {"Text", "Area", "Submit", "Push", "Hidden", "Unsupported"}
Editable == {"Text", "Area"}
Idle == [kind |-> "idle", at |-> NO_NODE, key |-> ""]
Told(kind, n, key) == [kind |-> kind, at |-> n, key |-> key]
Nothing == [by |-> "nobody", query |-> <<>>]
Keystrokes == Letters \cup {Newline, "backspace", "left", "home"}

-----------------------------------------------------------------------------
(* A control, and what a key does to it.                                     *)

SetValue(c, text) ==
  LET v == SubSeq(text, 1, Min({Len(text), MAX_VALUE_CHARS}))
  IN  [c EXCEPT !.value = v, !.caret = Len(v)]

Insert(c, x) ==
  IF (x = Newline /\ c.kind # "Area") \/ Len(c.value) >= MAX_VALUE_CHARS THEN c
  ELSE [c EXCEPT !.value = InsertAt(@, c.caret + 1, x), !.caret = @ + 1]

Backspace(c) ==
  IF c.caret = 0 THEN c
  ELSE [c EXCEPT !.value = RemoveAt(@, c.caret), !.caret = @ - 1]

Typed(c, k) ==
  CASE k = "backspace" -> Backspace(c)
    [] k = "left" -> [c EXCEPT !.caret = Max({@, 1}) - 1]
    [] k = "home" -> [c EXCEPT !.caret = 0]
    [] OTHER -> Insert(c, k)

-----------------------------------------------------------------------------
(* The table.                                                                *)

Entry(table, n) == SelectSeq(table, LAMBDA c : c.node = n)
Has(table, n) == Entry(table, n) # <<>>
Get(table, n) == Head(Entry(table, n))
MayFocus(table, n) ==
  Has(table, n) /\ Get(table, n).kind \in Editable /\ ~Get(table, n).disabled
Changed(table, n, c) == [i \in DOMAIN table |-> IF table[i].node = n THEN c ELSE table[i]]

\* control_of: a text area's value is its text, which no attribute changes.
ControlOf(n) ==
  LET a == attrs[n]
  IN  SetValue([node |-> n, form |-> a.form, kind |-> a.kind, value |-> <<>>, caret |-> 0,
                disabled |-> a.disabled \/ a.kind = "Unsupported"],
               IF a.kind = "Area" THEN <<>> ELSE a.value)

Collected == [i \in 1 .. Min({Len(doc), MAX_CONTROLS}) |-> ControlOf(doc[i])]

\* A variant that takes a control for another (for the mutation checks).
SameKind(c) == SelectSeq(controls, LAMBDA o : o.kind = c.kind)
Carried(c) == SelectSeq(controls, LAMBDA o : o.node = c.node /\ o.kind = c.kind)

\* rebuild: a control that is still there keeps what was typed into it.
Rebuild ==
  [i \in DOMAIN Collected |->
     LET c == Collected[i]
         old == Carried(c)
     IN  IF old = <<>> THEN c
         ELSE [c EXCEPT !.value = old[1].value, !.caret = Min({old[1].caret, Len(old[1].value)})]]

\* A variant that leaves the table as it was (for the mutation checks).
NotSettled == controls

\* settle: the page is laid out again if a script changed it.
Settled == IF dirty THEN Rebuild ELSE controls
FocusIn(table) == IF MayFocus(table, focus) THEN focus ELSE NO_NODE

Successful(c, pressed) ==
  /\ c.node \notin Nameless /\ ~c.disabled
  /\ \/ c.kind \in {"Text", "Area", "Hidden"}
     \/ c.kind \in {"Submit", "Push"} /\ c.node = pressed /\ c.value # <<>>

Query(table, form, pressed) ==
  LET out == SelectSeq(table, LAMBDA c : c.form = form /\ Successful(c, pressed))
  IN  [i \in DOMAIN out |-> [name |-> out[i].node, value |-> out[i].value]]

\* submission: what is sent when n is pressed, or Enter struck in it.
Submission(table, n, by) ==
  LET c == Get(table, n)
  IN  IF /\ Has(table, n) /\ c.form # NO_NODE /\ ~c.disabled
         /\ c.kind = "Submit" \/ c.kind \in Editable
      THEN [by |-> by, query |-> Query(table, c.form, IF c.kind = "Submit" THEN n ELSE NO_NODE)]
      ELSE Nothing

-----------------------------------------------------------------------------
(* What a field of that many characters and rows shows (view, forms.rs).     *)

Wrapped(text, room) ==
  FoldLeft(LAMBDA w, x :
             IF x = Newline THEN [lines |-> Append(w.lines, w.line), line |-> <<>>]
             ELSE LET line == Append(w.line, x)
                  IN  IF Len(line) = room THEN [lines |-> Append(w.lines, line), line |-> <<>>]
                      ELSE [w EXCEPT !.line = line],
           [lines |-> <<>>, line |-> <<>>], text)

View(text, caret, room, rows) ==
  IF rows = 1
  THEN LET start == Max({caret, room}) - room
       IN  [rows |-> <<SubSeq(text, start + 1, Min({start + room, Len(text)}))>>,
            row |-> 0, column |-> caret - start]
  ELSE LET whole == Wrapped(text, room)
           lines == Append(whole.lines, whole.line)
           before == Wrapped(SubSeq(text, 1, caret), room)
           first == Max({Len(before.lines) + 1, rows}) - rows
       IN  [rows |-> SubSeq(lines, first + 1, Min({first + rows, Len(lines)})),
            row |-> Len(before.lines) - first, column |-> Len(before.line)]

-----------------------------------------------------------------------------
(* The user, while no script runs.                                           *)

UserActs == event = Idle /\ sent = Nothing /\ touched' = NO_NODE

\* browser_field_key: keydown, before the key does anything.
Key(k) ==
  /\ UserActs /\ focus # NO_NODE /\ keys < MaxKeys
  /\ keys' = keys + 1
  /\ event' = Told("keydown", focus, k)
  /\ UNCHANGED <<doc, attrs, controls, focus, dirty, sent, script>>

\* A disabled control is drawn as one of no known type.
Drawn(n) == IF attrs[n].disabled THEN "Unsupported" ELSE attrs[n].kind

\* browser_click on a field: focus_at.
ClickField(n, column) ==
  /\ UserActs /\ n \in Range(doc) /\ Drawn(n) \in Editable
  /\ MayFocus(controls, n)
  /\ focus' = n
  /\ LET c == Get(controls, n)
     IN  controls' = Changed(controls, n, [c EXCEPT !.caret = Min({column, Len(c.value)})])
  /\ UNCHANGED <<doc, attrs, dirty, event, sent, keys, script>>

\* browser_click on any other control.
ClickButton(n) ==
  /\ UserActs /\ n \in Range(doc) /\ Drawn(n) \notin Editable \cup {"Hidden"}
  /\ focus' = NO_NODE
  /\ event' = Told("click", n, "")
  /\ UNCHANGED <<doc, attrs, controls, dirty, sent, keys, script>>

\* browser_click elsewhere on the page, and browser_blur_field.
ClickPage ==
  /\ UserActs /\ focus # NO_NODE
  /\ focus' = NO_NODE
  /\ UNCHANGED <<doc, attrs, controls, dirty, event, sent, keys, script>>

\* A timer of the page.
Timer ==
  /\ UserActs /\ script < MaxScript
  /\ event' = Told("timer", NO_NODE, "")
  /\ UNCHANGED <<doc, attrs, controls, focus, dirty, sent, keys, script>>

-----------------------------------------------------------------------------
(* Scripts, while they handle the event.                                     *)

Calls == event # Idle /\ script < MaxScript /\ script' = script + 1

\* insertBefore and removeChild.
InsertControl(n, i, form) ==
  /\ Calls /\ n \notin Range(doc)
  /\ doc' = InsertAt(doc, i, n) /\ attrs' = [attrs EXCEPT ![n].form = form]
  /\ dirty' = TRUE /\ touched' = NO_NODE
  /\ UNCHANGED <<controls, focus, event, sent, keys>>

RemoveControl(n) ==
  /\ Calls /\ n \in Range(doc)
  /\ doc' = SelectSeq(doc, LAMBDA m : m # n)
  /\ dirty' = TRUE /\ touched' = NO_NODE
  /\ UNCHANGED <<attrs, controls, focus, event, sent, keys>>

\* set_attribute: a field's value lives in the table, too.
WithValue(n, text) ==
  IF Has(controls, n) THEN Changed(controls, n, SetValue(Get(controls, n), text)) ELSE controls

SetAttribute(n, text) ==
  /\ Calls
  /\ attrs' = [attrs EXCEPT ![n].value = text]
  /\ controls' = WithValue(n, text)
  /\ dirty' = TRUE /\ touched' = n
  /\ UNCHANGED <<doc, focus, event, sent, keys>>

SetDisabled(n) ==
  /\ Calls
  /\ attrs' = [attrs EXCEPT ![n].disabled = ~@]
  /\ dirty' = TRUE /\ touched' = NO_NODE
  /\ UNCHANGED <<doc, controls, focus, event, sent, keys>>

SetType(n, kind) ==
  /\ Calls /\ attrs[n].kind \notin {"Area", kind}
  /\ attrs' = [attrs EXCEPT ![n].kind = kind]
  /\ dirty' = TRUE /\ touched' = NO_NODE
  /\ UNCHANGED <<doc, controls, focus, event, sent, keys>>

\* n_focus, on and off.
Focus(n) ==
  /\ Calls /\ MayFocus(controls, n)
  /\ focus' = n
  /\ controls' = Changed(controls, n, [Get(controls, n) EXCEPT !.caret = 0])
  /\ touched' = NO_NODE
  /\ UNCHANGED <<doc, attrs, dirty, event, sent, keys>>

Blur ==
  /\ Calls /\ focus # NO_NODE
  /\ focus' = NO_NODE /\ touched' = NO_NODE
  /\ UNCHANGED <<doc, attrs, controls, dirty, event, sent, keys>>

\* n_submit: from the table as it is, whatever the script has changed since.
Submit(n) ==
  /\ Calls /\ Submission(controls, n, "script") # Nothing
  /\ sent' = Submission(controls, n, "script")
  /\ touched' = NO_NODE
  /\ UNCHANGED <<doc, attrs, controls, focus, dirty, event, keys>>

-----------------------------------------------------------------------------
(* The end of the scripts, and the browser's part.                           *)

Handled(kind) ==
  /\ event.kind \in kind
  /\ dirty' = FALSE
  /\ focus' = FocusIn(Settled)
  /\ UNCHANGED <<doc, attrs, keys, script>>

\* The handler called preventDefault, or there is nothing more to do.
Prevented ==
  /\ Handled({"keydown", "click", "submit", "change", "timer"})
  /\ event' = Idle /\ controls' = Settled
  /\ touched' = NO_NODE /\ UNCHANGED sent

\* The key goes where the caret is now.
KeyDown ==
  /\ Handled({"keydown"})
  /\ IF focus' = NO_NODE
     THEN event' = Idle /\ controls' = Settled /\ touched' = NO_NODE
     ELSE LET c == Get(Settled, focus')
          IN  IF event.key = Newline /\ c.kind # "Area"
              THEN /\ event' = IF c.form # NO_NODE THEN Told("submit", focus', "") ELSE Idle
                   /\ controls' = Settled /\ touched' = NO_NODE
              ELSE /\ controls' = Changed(Settled, focus', Typed(c, event.key))
                   /\ event' = Told("input", event.at, "") /\ touched' = focus'
  /\ UNCHANGED sent

InputEvent ==
  /\ Handled({"input"})
  /\ event' = Told("change", event.at, "") /\ controls' = Settled
  /\ touched' = NO_NODE /\ UNCHANGED sent

\* The press of a button, or Enter in a field; it wins over what scripts asked for.
UserSubmits ==
  /\ Handled({"click", "submit"})
  /\ event' = Idle /\ controls' = Settled /\ touched' = NO_NODE
  /\ sent' = LET made == Submission(Settled, event.at, "user")
             IN  IF made = Nothing THEN sent ELSE made

\* browser_navigate: another page, with fields of its own.
NextPage ==
  /\ event = Idle /\ sent # Nothing
  /\ doc' = <<>> /\ controls' = <<>> /\ focus' = NO_NODE /\ sent' = Nothing
  /\ touched' = NO_NODE
  /\ UNCHANGED <<attrs, dirty, event, keys, script>>

-----------------------------------------------------------------------------
Init ==
  /\ attrs = Page
  /\ doc = [i \in Nodes |-> i]
  /\ controls = Collected
  /\ focus = NO_NODE /\ dirty = FALSE /\ event = Idle /\ sent = Nothing
  /\ touched = NO_NODE /\ keys = 0 /\ script = 0

Next ==
  \/ \E k \in Keystrokes : Key(k)
  \/ \E n \in Nodes, column \in 0 .. 1 : ClickField(n, column)
  \/ \E n \in Nodes : ClickButton(n)
  \/ ClickPage \/ Timer
  \/ \E n \in Nodes, i \in {1, Len(doc) + 1}, form \in {NO_NODE, 1} : InsertControl(n, i, form)
  \/ \E n \in Nodes : RemoveControl(n)
  \/ \E n \in Nodes, x \in Letters : SetAttribute(n, <<x>>)
  \/ \E n \in Nodes : SetDisabled(n)
  \/ \E n \in Nodes, kind \in {"Text", "Hidden"} : SetType(n, kind)
  \/ \E n \in Nodes : Focus(n)
  \/ Blur
  \/ \E n \in Nodes : Submit(n)
  \/ Prevented \/ KeyDown \/ InputEvent \/ UserSubmits \/ NextPage

Spec == Init /\ [][Next]_vars

-----------------------------------------------------------------------------
Values == SeqOf(Letters \cup {Newline}, MAX_VALUE_CHARS)

TypeOK ==
  /\ Range(doc) \subseteq Nodes /\ IsInjective(doc)
  /\ \A n \in Nodes : attrs[n].kind \in Kinds /\ attrs[n].form \in {NO_NODE, 1}
  /\ Len(controls) <= MAX_CONTROLS
  /\ \A i \in DOMAIN controls :
       controls[i].value \in Values /\ controls[i].caret \in 0 .. Len(controls[i].value)
  /\ focus \in Nodes \cup {NO_NODE}
  /\ dirty \in BOOLEAN
  /\ touched \in Nodes \cup {NO_NODE}
  /\ keys \in 0 .. MaxKeys /\ script \in 0 .. MaxScript

(* What the user sends is what the page shows: the fields of the form as the *)
(* scripts that were told of it have left them, in the order of the document,*)
(* and no disabled one, whatever was moved, switched off or typed into while *)
(* the press was handled; and the caret is then in a field that may have it. *)
SendsWhatItShows ==
  /\ ~dirty /\ focus # NO_NODE => MayFocus(controls, focus) /\ focus \in Range(doc)
  /\ sent.by = "user" =>
       LET shown == SubSeq(doc, 1, Min({Len(doc), MAX_CONTROLS}))
           names == [i \in DOMAIN sent.query |-> sent.query[i].name]
       IN  /\ names = SelectSeq(shown, LAMBDA n : n \in Range(names))
           /\ \A i \in DOMAIN sent.query :
                LET n == sent.query[i].name
                IN  ~attrs[n].disabled /\ sent.query[i].value = Get(controls, n).value
           /\ \A n \in Range(shown) \ Nameless :
                /\ attrs[n].kind \in {"Text", "Area", "Hidden"} /\ ~attrs[n].disabled
                /\ \E m \in Range(names) : attrs[m].form = attrs[n].form
                => n \in Range(names)

(* "the caret is always on a row that is drawn" (forms.rs:395), right behind *)
(* the character that is before it in the value.                             *)
CaretIsShown ==
  \A i \in DOMAIN controls, room \in 1 .. 2, rows \in 1 .. 2 :
    LET c == controls[i]
        v == View(c.value, c.caret, room, rows)
    IN  /\ v.row \in 0 .. Len(v.rows) - 1 /\ v.column <= Len(v.rows[v.row + 1])
        /\ v.column > 0 => v.rows[v.row + 1][v.column] = c.value[c.caret]

(* "a picture arriving lower down the page must not empty the field somebody *)
(* is typing a search into" (forms.rs:177-179): while a control stays what it*)
(* is, its value changes only by a key that goes to it or by a script that   *)
(* assigns to it, however the page is changed around it.                     *)
TypingSurvives ==
  [][\A i \in DOMAIN controls, j \in DOMAIN controls' :
       (/\ controls[i].node = controls'[j].node /\ controls[i].kind = controls'[j].kind
        /\ controls[i].value # controls'[j].value)
       => touched' = controls[i].node]_vars
=============================================================================
