------------------------------- MODULE Editors -------------------------------
(***************************************************************************)
(* The documents of the desktop (kernel/src/window.rs): Notepad and the    *)
(* Code Editor, the one file dialog they share, and the File Manager that  *)
(* opens files in them.  What a window shows is held in the window; the    *)
(* path it is saved under, the scratch copy it is reopened from, the text  *)
(* waiting for the dialog and the dialog's target are globals.  Which      *)
(* files exist is left open: reading or writing one may fail at any time.  *)
(*                                                                         *)
(* A text is the document it belongs to and a version of it.  Which        *)
(* document a text belongs to is an annotation: it is the path the text    *)
(* was read from or last saved under.                                      *)
(***************************************************************************)
EXTENDS WindowList

CONSTANTS
  TextPaths, SourcePaths,  \* file names; is_c_source_path tells them apart
  UntitledC,               \* one of SourcePaths: the name Build gives an unnamed program
  Unsaved,                 \* the empty path, none of the others
  MaxVersion,              \* bound: changes to a text in a behaviour
  MaxOpen                  \* bound: windows of these kinds at a time

VARIABLES
  desk,     \* WM.windows of these kinds, bottom to top
  path,     \* NOTEPAD_PATH, CODE_PATH
  scratch,  \* NOTEPAD_SCRATCH, CODE_SCRATCH
  pending,  \* SAVE_AS_PENDING
  target,   \* FILE_DIALOG_TARGET
  edits     \* history: changes so far

vars == <<desk, path, scratch, pending, target, edits>>

Editor == {"Notepad", "CodeEditor"}
Paths == TextPaths \cup SourcePaths
Text == [doc : Paths \cup {Unsaved}, version : 0 .. MaxVersion]
Fresh == [doc |-> Unsaved, version |-> 0]

\* mode is the file dialog's and text an editor's; in a dialog, for and text
\* are history: the editor whose button opened it and what that one showed.
NewWindow(kind, text, mode, for) ==
  [kind |-> kind, minimized |-> FALSE, text |-> text, mode |-> mode, for |-> for]
EditorWindow(e, text) == NewWindow(e, text, "none", e)

Deep == 1 .. Len(desk)
Room == Len(desk') <= MaxOpen

\* with_top: the window of an editor, if it is open.
Showing(ws, e, text) ==
  [i \in DOMAIN ws |-> IF ws[i].kind = e THEN [ws[i] EXCEPT !.text = text] ELSE ws[i]]

\* A press anywhere in a window raises it before its button acts.
Pressed(kind) == Raise(desk, Position(desk, kind))
Open(kind) == kind \in Kinds(desk)
TextOf(e) == desk[Position(desk, e)].text

\* Saved under a name, a text is that document.
As(text, p) == [text EXCEPT !.doc = p]

-----------------------------------------------------------------------------
(* The editors' own windows.                                                 *)

\* From the launcher: a new window shows the scratch copy.
OpenEditor(e) ==
  /\ desk' = RaiseOrSpawn(desk, EditorWindow(e, scratch[e]))
  /\ Room
  /\ UNCHANGED <<path, scratch, pending, target, edits>>

\* Typing, pasting, cutting, and Notepad's Clear.
Type(e) ==
  /\ Open(e)
  /\ edits < MaxVersion
  /\ edits' = edits + 1
  /\ desk' = Showing(Pressed(e), e, [TextOf(e) EXCEPT !.version = edits + 1])
  /\ UNCHANGED <<path, scratch, pending, target>>

\* A variant that stacks dialogs (for the mutation checks).
StackedFileDialog(ws, mode, e) ==
  Spawn(ws, NewWindow("FileDialog", IF mode = "Save" THEN TextOf(e) ELSE Fresh, mode, e))

\* One dialog at a time: an older one is removed.
OpenFileDialog(ws, mode, e) ==
  Spawn(RemoveKind(ws, "FileDialog"), NewWindow("FileDialog", IF mode = "Save" THEN TextOf(e) ELSE Fresh, mode, e))

PressSave(e) ==
  /\ Open(e)
  /\ pending' = TextOf(e)
  /\ scratch' = [scratch EXCEPT ![e] = TextOf(e)]
  /\ target' = e
  /\ desk' = OpenFileDialog(Pressed(e), "Save", e)
  /\ Room
  /\ UNCHANGED <<path, edits>>

PressOpen(e) ==
  /\ Open(e)
  /\ target' = e
  /\ desk' = OpenFileDialog(Pressed(e), "Open", e)
  /\ Room
  /\ UNCHANGED <<path, scratch, pending, edits>>

PressNew ==
  /\ Open("CodeEditor")
  /\ path' = [path EXCEPT !["CodeEditor"] = Unsaved]
  /\ scratch' = [scratch EXCEPT !["CodeEditor"] = Fresh]
  /\ desk' = Showing(Pressed("CodeEditor"), "CodeEditor", Fresh)
  /\ UNCHANGED <<pending, target, edits>>

\* Build and Run write what is on screen first, under a default name if it has
\* none; path and scratch copy are set whether or not the write succeeds.
PressBuild ==
  LET e == "CodeEditor"
      name == IF path[e] = Unsaved THEN UntitledC ELSE path[e]
      text == IF path[e] = Unsaved THEN As(TextOf(e), name) ELSE TextOf(e)
  IN  /\ Open(e)
      /\ path' = [path EXCEPT ![e] = name]
      /\ scratch' = [scratch EXCEPT ![e] = text]
      /\ desk' = Showing(Pressed(e), e, text)
      /\ UNCHANGED <<pending, target, edits>>

Close(i) ==
  /\ desk' = Front(Raise(desk, i))
  /\ UNCHANGED <<path, scratch, pending, target, edits>>

-----------------------------------------------------------------------------
(* The file dialog.                                                          *)

\* file_dialog_confirm_save, when the write succeeds; the screen is left alone.
DialogSave(p) ==
  LET saved == As(pending, p)
      relabelled == IF Open(target) /\ TextOf(target).doc = pending.doc
                    THEN Showing(desk, target, As(TextOf(target), p)) ELSE desk
  IN  /\ Open("FileDialog") /\ desk[Position(desk, "FileDialog")].mode = "Save"
      /\ path' = [path EXCEPT ![target] = p]
      /\ scratch' = [scratch EXCEPT ![target] = saved]
      /\ desk' = RemoveKind(relabelled, "FileDialog")
      /\ UNCHANGED <<pending, target, edits>>

\* file_dialog_open_path, for a file that is there and is text.
DialogOpen(p) ==
  LET text == [doc |-> p, version |-> 0]
  IN  /\ Open("FileDialog") /\ desk[Position(desk, "FileDialog")].mode = "Open"
      /\ path' = [path EXCEPT ![target] = p]
      /\ scratch' = [scratch EXCEPT ![target] = text]
      /\ desk' = RemoveKind(Showing(desk, target, text), "FileDialog")
      /\ UNCHANGED <<pending, target, edits>>

\* Cancel, and every refusal that leaves the dialog where it is but on top.
DialogCancel ==
  /\ Open("FileDialog")
  /\ desk' \in {RemoveKind(desk, "FileDialog"), Pressed("FileDialog")}
  /\ UNCHANGED <<path, scratch, pending, target, edits>>

-----------------------------------------------------------------------------
(* The File Manager.                                                         *)

\* OpenDrive makes a fresh window.
OpenDrive ==
  /\ desk' = Spawn(RemoveKind(desk, "FileManager"), NewWindow("FileManager", Fresh, "none", "Notepad"))
  /\ Room
  /\ UNCHANGED <<path, scratch, pending, target, edits>>

\* open_path_in_notepad and open_path_in_code_editor: the index is looked up
\* before the raise and used after it.
OpenPathIn(ws, e, text) ==
  LET idx == Position(ws, e)
      raised == Raise(ws, idx)
  IN  IF idx = 0 THEN Spawn(ws, EditorWindow(e, text))
      ELSE IF raised[idx].kind = e THEN Showing(raised, e, text) ELSE raised

\* A double click on a text file that is still there.
FmOpen(p) ==
  LET e == IF p \in SourcePaths THEN "CodeEditor" ELSE "Notepad"
      text == [doc |-> p, version |-> 0]
  IN  /\ Open("FileManager")
      /\ path' = [path EXCEPT ![e] = p]
      /\ scratch' = [scratch EXCEPT ![e] = text]
      /\ desk' = OpenPathIn(Pressed("FileManager"), e, text)
      /\ Room
      /\ UNCHANGED <<pending, target, edits>>

\* Everything else in it, and what fails: it comes to the front.
FmOther ==
  /\ Open("FileManager")
  /\ desk' = Pressed("FileManager")
  /\ UNCHANGED <<path, scratch, pending, target, edits>>

-----------------------------------------------------------------------------
Init ==
  /\ desk = <<>>
  /\ path = [e \in Editor |-> Unsaved]
  /\ scratch = [e \in Editor |-> Fresh]
  /\ pending = Fresh
  /\ target = "Notepad"
  /\ edits = 0

Next ==
  \/ \E e \in Editor : OpenEditor(e) \/ Type(e) \/ PressSave(e) \/ PressOpen(e)
  \/ PressNew \/ PressBuild \/ DialogCancel \/ OpenDrive \/ FmOther
  \/ \E p \in Paths : DialogSave(p) \/ DialogOpen(p) \/ FmOpen(p)
  \/ \E i \in Deep : Close(i)

Spec == Init /\ [][Next]_vars

-----------------------------------------------------------------------------
(* Every variable keeps its type.                                            *)
TypeOK ==
  /\ desk \in Seq([kind : Editor \cup {"FileDialog", "FileManager"}, minimized : BOOLEAN,
                   text : Text, mode : {"none", "Save", "Open"}, for : Editor])
  /\ path \in [Editor -> Paths \cup {Unsaved}]
  /\ scratch \in [Editor -> Text]
  /\ pending \in Text
  /\ target \in Editor
  /\ edits \in 0 .. MaxVersion

(* The dialog writes the text of the editor whose Save opened it, as it was  *)
(* then: two editors share one dialog, one pending text and one target, and  *)
(* either may be pressed while the dialog of the other is open               *)
(* (open_file_dialog keeps "one dialog at a time").                          *)
DialogSavesItsEditor ==
  \A i \in Deep : desk[i].mode = "Save" => pending = desk[i].text /\ target = desk[i].for

(* An editor and its path agree: what is on screen is the document the label *)
(* names and the next Build overwrites.  "opening a second file while one is *)
(* already open replaces its content" (window.rs:2614-2616).                 *)
EditorShowsItsFile ==
  \A i \in Deep : desk[i].kind \in Editor => desk[i].text.doc = path[desk[i].kind]
=============================================================================
