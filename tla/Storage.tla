------------------------------- MODULE Storage -------------------------------
(***************************************************************************)
(* localStorage (the storage module of kernel/src/browser/script.rs): what *)
(* pages keep under their origins, in memory and in one file of the data   *)
(* disk.  The file is read on first use and written back when the size of  *)
(* what an origin keeps has changed.  A text is a sequence of characters;  *)
(* tab, lf, cr and bs are the control characters and the backslash.        *)
(***************************************************************************)
EXTENDS Naturals, Sequences, SequencesExt

CONSTANTS
  Origins,           \* texts, as are Keys and Texts
  StoreKeys,
  Texts,             \* the values that pages store
  MAX_STORE_BYTES, MAX_BYTES,
  None

VARIABLES
  STORE,     \* None, or of each origin the entries, each a key and a value
  file,      \* the file's text, None if there is none
  disk,      \* has_disk
  excuse     \* history: an entry was replaced by one of its size since the file was written

vars == <<STORE, file, disk, excuse>>

-----------------------------------------------------------------------------
(* The text of the file.                                                     *)

\* A variant that escapes what ends a field or a line alone (for the mutation checks).
EscapeEnds(x) ==
  CASE x = "tab" -> <<"bs", "t">>
    [] x = "lf" -> <<"bs", "n">>
    [] OTHER -> <<x>>

EscapeChar(x) ==
  CASE x = "bs" -> <<"bs", "bs">>
    [] x = "tab" -> <<"bs", "t">>
    [] x = "lf" -> <<"bs", "n">>
    [] OTHER -> <<x>>

Escape(text) == FlattenSeq([i \in DOMAIN text |-> EscapeChar(text[i])])

Unescape(text) ==
  FoldLeft(LAMBDA u, x :
             CASE u.after /\ x = "t" -> [out |-> Append(u.out, "tab"), after |-> FALSE]
               [] u.after /\ x = "n" -> [out |-> Append(u.out, "lf"), after |-> FALSE]
               [] ~u.after /\ x = "bs" -> [u EXCEPT !.after = TRUE]
               [] OTHER -> [out |-> Append(u.out, x), after |-> FALSE],
           [out |-> <<>>, after |-> FALSE], text).out

Line(origin, e) ==
  Escape(origin) \o <<"tab">> \o Escape(e.key) \o <<"tab">> \o Escape(e.value) \o <<"lf">>

\* save: an origin's entries are written as long as there is room.
WriteOrigin(out, o) ==
  FoldLeft(LAMBDA w, e :
             IF w.full \/ Len(w.text) + Len(e.key) + Len(e.value) + Len(o.origin) + 3 > MAX_BYTES
             THEN [w EXCEPT !.full = TRUE]
             ELSE [w EXCEPT !.text = @ \o Line(o.origin, e)],
           [text |-> out, full |-> FALSE], o.entries).text

Text(store) == FoldLeft(WriteOrigin, <<>>, store)

\* The pieces of a text between marks; the first most only, if there is a limit.
Split(text, mark, most) ==
  FoldLeft(LAMBDA s, x : IF x = mark /\ Len(s) < most THEN Append(s, <<>>)
                         ELSE [s EXCEPT ![Len(s)] = Append(@, x)],
           <<(<<>>)>>, text)

WithoutCr(line) == IF line # <<>> /\ Last(line) = "cr" THEN Front(line) ELSE line

\* lines: a carriage return before the line feed goes with it.
Lines(text) ==
  LET pieces == Split(text, "lf", Len(text) + 1)
  IN  [i \in 1 .. Len(pieces) - 1 |-> WithoutCr(pieces[i])]

Position(store, origin) == SelectInSeq(store, LAMBDA o : o.origin = origin)

AddEntry(store, origin, e) ==
  LET at == Position(store, origin)
  IN  IF at = 0 THEN Append(store, [origin |-> origin, entries |-> <<e>>])
      ELSE [store EXCEPT ![at].entries = Append(@, e)]

\* load; a line without three fields is passed over.
Load ==
  IF file = None THEN <<>>
  ELSE FoldLeft(LAMBDA store, line :
                  LET fields == Split(line, "tab", 3)
                  IN  IF Len(fields) < 3 THEN store
                      ELSE AddEntry(store, Unescape(fields[1]),
                                    [key |-> Unescape(fields[2]), value |-> Unescape(fields[3])]),
                <<>>, Lines(file))

-----------------------------------------------------------------------------
(* What pages do.                                                            *)

Size(entries) == FoldLeft(LAMBDA n, e : n + Len(e.key) + Len(e.value), 0, entries)

\* store_op: a new key is refused when there is no room, a new value never.
WithKey(entries, key, value) ==
  LET at == SelectInSeq(entries, LAMBDA e : e.key = key)
  IN  IF at # 0 THEN [entries EXCEPT ![at].value = value]
      ELSE IF Size(entries) + Len(key) + Len(value) <= MAX_STORE_BYTES
           THEN Append(entries, [key |-> key, value |-> value])
           ELSE entries

Loaded == IF STORE = None THEN Load ELSE STORE
Entries(store, origin) ==
  LET at == Position(store, origin) IN IF at = 0 THEN <<>> ELSE store[at].entries

\* A variant that counts the entries (for the mutation checks).
MoreOrLess(before, after) == Len(after) # Len(before)
NeedsSaving(before, after) == Len(after) # Len(before) \/ Size(after) # Size(before)

\* Without a disk, and when the write fails, the entries are in memory only.
Save(store) == file' = (IF disk THEN Text(store) ELSE file) /\ excuse' = FALSE

\* with: the origin's entries become new.
With(origin, new) ==
  LET known == IF Position(Loaded, origin) = 0
               THEN Append(Loaded, [origin |-> origin, entries |-> <<>>]) ELSE Loaded
      before == Entries(known, origin)
  IN  /\ STORE' = [known EXCEPT ![Position(known, origin)].entries = new]
      /\ IF NeedsSaving(before, new) THEN Save(STORE')
         ELSE /\ UNCHANGED file
              /\ excuse' = (excuse \/ (new # before /\ Size(new) = Size(before)))
      /\ UNCHANGED disk

SetItem(origin, key, value) == With(origin, WithKey(Entries(Loaded, origin), key, value))
RemoveItem(origin, key) ==
  With(origin, SelectSeq(Entries(Loaded, origin), LAMBDA e : e.key # key))
Clear(origin) == With(origin, <<>>)
GetItem(origin) == With(origin, Entries(Loaded, origin))

\* forget
Forget(origin) ==
  /\ STORE' = SelectSeq(Loaded, LAMBDA o : o.origin # origin)
  /\ IF Len(STORE') # Len(Loaded) THEN Save(STORE')
     ELSE UNCHANGED <<file, excuse>>
  /\ UNCHANGED disk

Reboot ==
  /\ STORE # None /\ STORE' = None /\ excuse' = FALSE
  /\ UNCHANGED <<file, disk>>

-----------------------------------------------------------------------------
Init == STORE = None /\ file = None /\ disk \in BOOLEAN /\ excuse = FALSE

Next ==
  \/ \E o \in Origins, k \in StoreKeys, v \in Texts : SetItem(o, k, v)
  \/ \E o \in Origins, k \in StoreKeys : RemoveItem(o, k)
  \/ \E o \in Origins : Clear(o) \/ GetItem(o) \/ Forget(o)
  \/ Reboot

Spec == Init /\ [][Next]_vars

-----------------------------------------------------------------------------
IsEntry(e) == e.key \in StoreKeys /\ e.value \in Texts \cup {WithoutCr(t) : t \in Texts}

TypeOK ==
  /\ STORE # None =>
       /\ \A i, j \in DOMAIN STORE : STORE[i].origin = STORE[j].origin => i = j
       /\ \A i \in DOMAIN STORE : STORE[i].origin \in Origins
                                  /\ \A e \in Range(STORE[i].entries) : IsEntry(e)
  /\ disk \in BOOLEAN /\ excuse \in BOOLEAN

EndsInCr(e) == e.value # <<>> /\ Last(e.value) = "cr"

(* What a page stored survives a reboot, whatever characters it is made of:  *)
(* each origin finds the entries it had when the file was last due, in their *)
(* order, up to the file's limit, and nothing of another origin's.  Two      *)
(* things are known to be lost and excused: a value replaced by another of   *)
(* the same size is not written until something else is, and a value that    *)
(* ends in a carriage return loses it.                                       *)
StoredSurvives ==
  STORE # None /\ disk /\ ~excuse =>
    \A o \in Origins :
      LET had == Entries(STORE, o)
          back == Entries(Load, o)
      IN  /\ Len(back) <= Len(had)
          /\ \A i \in DOMAIN back : EndsInCr(had[i]) \/ back[i] = had[i]
          /\ Len(Text(STORE)) + 3 + Size(had) + Len(o) <= MAX_BYTES => Len(back) = Len(had)
=============================================================================
