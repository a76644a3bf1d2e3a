----------------------------- MODULE Calculator -----------------------------
(***************************************************************************)
(* The calculator window: a left operand, a pending operator and an entry  *)
(* that is text (the WinAction::Calc* arms of apply_action in window.rs).  *)
(* Characters are numbers: a digit is what it is worth, then come the minus *)
(* and the word for an error.  The width of an i64 is -HALF .. HALF - 1.   *)
(***************************************************************************)
EXTENDS Integers, Sequences, SequencesExt

CONSTANTS
  Base, Digits,       \* the digits that are pressed, of 0 .. Base - 1
  MAX_ENTRY,          \* characters of an entry
  HALF,               \* half the numbers of the width
  None

VARIABLES lhs, op, entry, new_entry, display, footer

calculatorVars == <<lhs, op, entry, new_entry, display, footer>>

Int64 == -HALF .. HALF - 1
Minus == Base
Error == <<Base + 1>>
Zero == <<0>>

ValueOf(digits) == FoldLeft(LAMBDA n, d : n * Base + d, 0, digits)
Unsigned(text) == IF text # <<>> /\ Head(text) = Minus THEN Tail(text) ELSE text
IsNumber(text) ==
  /\ Unsigned(text) # <<>>
  /\ \A i \in DOMAIN Unsigned(text) : Unsigned(text)[i] \in 0 .. Base - 1

\* What the entry is worth: nothing that is no number of the width is worth 0.
parse(text) ==
  LET n == IF Head(text) = Minus THEN -ValueOf(Tail(text)) ELSE ValueOf(text)
  IN IF IsNumber(text) /\ n \in Int64 THEN n ELSE 0

RECURSIVE DigitsOf(_)
DigitsOf(n) == IF n < Base THEN <<n>> ELSE Append(DigitsOf(n \div Base), n % Base)
to_string(n) == IF n < 0 THEN <<Minus>> \o DigitsOf(-n) ELSE DigitsOf(n)

\* The quotient is cut towards zero.
Quotient(a, b) ==
  LET size(n) == IF n < 0 THEN -n ELSE n
  IN IF (a < 0) = (b < 0) THEN size(a) \div size(b) ELSE -(size(a) \div size(b))

Exact(a, b, o) ==
  CASE o = "+" -> a + b [] o = "-" -> a - b [] o = "*" -> a * b [] o = "/" -> Quotient(a, b)

\* None: no result of the width, or none at all.  A wrong form of it goes round.
Wrapped(a, b, o) ==
  IF o = "/" /\ b = 0 THEN None
  ELSE ((Exact(a, b, o) + HALF) % (2 * HALF)) - HALF
Applied(a, b, o) ==
  IF o = "/" /\ b = 0 THEN None
  ELSE IF Exact(a, b, o) \in Int64 THEN Exact(a, b, o) ELSE None

\* A wrong form of Refreshed: the line under the display is left.
DisplayAlone == display' = entry' /\ footer' = footer
Refreshed ==
  /\ display' = entry'
  /\ footer' = IF lhs' # None /\ op' # None THEN <<lhs', op'>> ELSE <<>>

Init ==
  /\ lhs = None /\ op = None /\ entry = Zero /\ new_entry = TRUE
  /\ display = Zero /\ footer = <<>>

-----------------------------------------------------------------------------
CalcDigit(d) ==
  /\ entry' = IF new_entry \/ entry = Zero THEN <<d>>
              ELSE IF Len(entry) < MAX_ENTRY THEN Append(entry, d) ELSE entry
  /\ new_entry' = FALSE
  /\ UNCHANGED <<lhs, op>> /\ Refreshed

\* A wrong form of NothingLeft: a lone minus stays.
Empty(text) == text = <<>>
NothingLeft(text) == text \in {<<>>, <<Minus>>}

\* The arrow takes a digit of an entry that is being typed.
CalcBack ==
  /\ IF new_entry THEN UNCHANGED <<entry, new_entry>>
     ELSE IF NothingLeft(Front(entry)) THEN entry' = Zero /\ new_entry' = TRUE
     ELSE entry' = Front(entry) /\ UNCHANGED new_entry
  /\ UNCHANGED <<lhs, op>> /\ Refreshed

CalcSign ==
  /\ entry # Zero
  /\ entry' = IF Head(entry) = Minus THEN Tail(entry) ELSE <<Minus>> \o entry
  /\ UNCHANGED <<lhs, op, new_entry>> /\ Refreshed

\* An operator first works the one that is pending, then waits; after an error it
\* waits with no left operand.
CalcOp(o) ==
  LET v == IF lhs # None /\ op # None THEN Applied(lhs, parse(entry), op) ELSE parse(entry)
  IN /\ lhs' = v
     /\ entry' = IF v = None THEN Error ELSE to_string(v)
     /\ op' = o /\ new_entry' = TRUE /\ Refreshed

CalcEq ==
  /\ lhs # None /\ op # None
  /\ LET v == Applied(lhs, parse(entry), op)
     IN entry' = IF v = None THEN Error ELSE to_string(v)
  /\ lhs' = None /\ op' = None /\ new_entry' = TRUE /\ Refreshed

CalcClear ==
  /\ lhs' = None /\ op' = None /\ entry' = Zero /\ new_entry' = TRUE /\ Refreshed

Next ==
  \/ \E d \in Digits : CalcDigit(d)
  \/ CalcBack
  \/ CalcSign
  \/ \E o \in {"+", "-", "*", "/"} : CalcOp(o)
  \/ CalcEq
  \/ CalcClear

Spec == Init /\ [][Next]_calculatorVars

-----------------------------------------------------------------------------
TypeOK ==
  /\ lhs \in Int64 \cup {None}
  /\ op \in {"+", "-", "*", "/", None}
  /\ new_entry \in BOOLEAN
  /\ Len(entry) \in 1 .. MAX_ENTRY + 2

\* The entry is a number as one writes it, or the word for an error, whatever was
\* typed, erased and turned: never empty, a lone minus, or a minus and a zero.
EntryIsANumber ==
  \/ Unsigned(entry) = Error
  \/ /\ IsNumber(entry)
     /\ Head(Unsigned(entry)) = 0 => entry = Zero

\* The display and the line under it are those of the state that the next key acts
\* on, after every key.
DisplayIsTheState ==
  /\ display = entry
  /\ footer = IF lhs # None /\ op # None THEN <<lhs, op>> ELSE <<>>

\* A result is exact, or it is an error: it never goes round the width of a number.
ResultsAreExact ==
  [][CalcEq => \/ entry' = Error
               \/ parse(entry') = Exact(lhs, parse(entry), op)]_calculatorVars

=============================================================================
