----------------------------- MODULE WindowList -----------------------------
(***************************************************************************)
(* The list of windows as WindowManager keeps it (kernel/src/window.rs):   *)
(* from the bottom of the screen to the top, so an index means "how deep"  *)
(* and every raise, close and removal moves the indices of others.         *)
(* Windows are records with at least the fields kind and minimized.        *)
(***************************************************************************)
EXTENDS Naturals, Sequences, FiniteSets, SequencesExt

\* iter().position(|w| w.kind == kind): the lowest one, or 0 for None.
Position(ws, kind) == SelectInSeq(ws, LAMBDA w : w.kind = kind)

\* The index the caller holds is the window's old one: raising moves it last.
Raise(ws, i) == Append(RemoveAt(ws, i), [ws[i] EXCEPT !.minimized = FALSE])

\* The highest window that is not hidden in the taskbar, or 0 for None.
TopmostIdx(ws) == SelectLastInSeq(ws, LAMBDA w : ~w.minimized)

Spawn(ws, w) == Append(ws, w)

RaiseOrSpawn(ws, w) ==
  LET i == Position(ws, w.kind)
  IN  IF i # 0 THEN Raise(ws, i) ELSE Spawn(ws, w)

RemoveKind(ws, kind) ==
  LET i == Position(ws, kind) IN IF i = 0 THEN ws ELSE RemoveAt(ws, i)

Kinds(ws) == {ws[i].kind : i \in DOMAIN ws}
=============================================================================
