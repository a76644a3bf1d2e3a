----------------------------- MODULE FileDialog -----------------------------
(***************************************************************************)
(* The list of the Save As and Open dialogs (refresh_file_dialog and       *)
(* file_dialog_* in window.rs).  What the editors do with the path that is *)
(* chosen is in Editors.                                                   *)
(*                                                                         *)
(* A folder is a sequence of names from the root, and `tree` gives what is *)
(* in each: a sequence of entries, a folder or a file.  Programs change    *)
(* the files of a folder while the dialog shows it.                        *)
(***************************************************************************)
EXTENDS Integers, Sequences, SequencesExt

CONSTANTS
  Tree,               \* the folders and what is in them at first
  Home,               \* the folder a dialog opens at
  Writable(_),        \* whether files can be saved in a folder
  FileNames,          \* names that are typed
  FD_ROWS,            \* rows of the list
  None

VARIABLES
  tree,
  dialog,             \* None, or the window
  path                \* FILE_DIALOG_PATH, kept from one dialog to the next

dialogVars == <<tree, dialog, path>>

\* What cmd_ls lists: the paths of the entries of a folder.
Listed(folder) ==
  [i \in DOMAIN tree[folder] |-> [path |-> Append(folder, tree[folder][i].name),
                                  folder |-> tree[folder][i].folder]]
Row(entry) == Last(entry.path)
Shown(entries) == [i \in 1 .. FD_ROWS |-> IF i \in DOMAIN entries THEN Row(entries[i]) ELSE None]

Init == tree = Tree /\ dialog = None /\ path = <<>>

-----------------------------------------------------------------------------
(* The entries are those of the folder, and nothing is selected; the marks   *)
(* are painted before that, so that the row that was selected keeps its one. *)

\* A wrong form of Unselected: the selection outlives the list it was made in.
StillSelected(win) == win.selected
Unselected(win) == None

Marks(selected) == IF selected = None \/ selected > FD_ROWS THEN {} ELSE {selected}
Refreshed(win, folder) ==
  [win EXCEPT !.location = folder, !.entries = Listed(folder), !.rows = Shown(Listed(folder)),
              !.marks = Marks(win.selected), !.selected = Unselected(win)]

\* One dialog at a time, at the folder of the last one when it can be written to.
open_file_dialog(mode, name) ==
  LET folder == IF path = <<>> \/ ~Writable(path) THEN Home ELSE path
      fresh == [mode |-> mode, location |-> <<>>, entries |-> <<>>, selected |-> None, rows |-> Shown(<<>>),
                marks |-> {}, box |-> IF mode = "Save" THEN name ELSE None]
  IN /\ path' = folder
     /\ dialog' = Refreshed(fresh, folder)
     /\ UNCHANGED tree

file_dialog_up ==
  /\ path' = IF path = <<>> THEN path ELSE Front(path)
  /\ dialog' = Refreshed(dialog, path')
  /\ UNCHANGED tree

\* A click in the list: on an entry it is selected and marked, and a file's name
\* goes to the box; below the entries nothing is selected any more.
Selects(i) ==
  IF i \notin DOMAIN dialog.entries THEN [dialog EXCEPT !.selected = None]
  ELSE [dialog EXCEPT !.selected = i, !.rows = Shown(dialog.entries), !.marks = {i},
                      !.box = IF dialog.entries[i].folder THEN @ ELSE Row(dialog.entries[i])]

Click(i) == dialog' = Selects(i) /\ UNCHANGED <<tree, path>>

IsFile(p) ==
  \E i \in DOMAIN tree[Front(p)] :
    ~tree[Front(p)][i].folder /\ tree[Front(p)][i].name = Last(p)

\* The file is read and handed to the editor; one that is gone leaves the dialog.
file_dialog_open_path(win, p) == dialog' = IF IsFile(p) THEN None ELSE win

\* The entry selected in `win`: a folder is shown, a file is opened.
Activate(win) ==
  LET entry == win.entries[win.selected]
  IN IF entry.folder
     THEN path' = entry.path /\ dialog' = Refreshed(win, entry.path)
     ELSE /\ IF win.mode = "Open" THEN file_dialog_open_path(win, entry.path) ELSE dialog' = win
          /\ UNCHANGED path

\* A double click selects, as a click does, and then activates.
DoubleClick(i) ==
  /\ IF Selects(i).selected = None THEN dialog' = Selects(i) /\ UNCHANGED path
     ELSE Activate(Selects(i))
  /\ UNCHANGED tree

TypeName(name) ==
  /\ dialog' = [dialog EXCEPT !.box = name]
  /\ UNCHANGED <<tree, path>>

\* At the root a name that is typed is one of the data disk.
Parent == IF path = <<>> THEN Home ELSE path

\* Open: the entry that is selected, or else the name in the box.
file_dialog_confirm_open ==
  /\ dialog.mode = "Open"
  /\ IF dialog.selected # None THEN Activate(dialog)
     ELSE /\ IF dialog.box = None THEN UNCHANGED dialog
             ELSE file_dialog_open_path(dialog, Append(Parent, dialog.box))
          /\ UNCHANGED path
  /\ UNCHANGED tree

\* Save: the name in the box, in a folder that can be written to; a file that is
\* new comes last.
file_dialog_confirm_save ==
  /\ dialog.mode = "Save" /\ dialog.box # None /\ Writable(Parent)
  /\ \A i \in DOMAIN tree[Parent] : tree[Parent][i].name = dialog.box => ~tree[Parent][i].folder
  /\ tree' = IF IsFile(Append(Parent, dialog.box)) THEN tree
             ELSE [tree EXCEPT ![Parent] = Append(@, [name |-> dialog.box, folder |-> FALSE])]
  /\ dialog' = None
  /\ UNCHANGED path

file_dialog_close == dialog' = None /\ UNCHANGED <<tree, path>>

\* Another program removes a file.
RemoveFile ==
  /\ \E f \in DOMAIN tree : \E i \in DOMAIN tree[f] :
       ~tree[f][i].folder /\ tree' = [tree EXCEPT ![f] = RemoveAt(@, i)]
  /\ UNCHANGED <<dialog, path>>

Next ==
  \/ \E mode \in {"Open", "Save"}, name \in FileNames : open_file_dialog(mode, name)
  \/ dialog # None /\ file_dialog_up
  \/ dialog # None /\ \E i \in 1 .. FD_ROWS : Click(i)
  \/ dialog # None /\ \E i \in 1 .. FD_ROWS : DoubleClick(i)
  \/ dialog # None /\ \E name \in FileNames : TypeName(name)
  \/ dialog # None /\ file_dialog_confirm_open
  \/ dialog # None /\ file_dialog_confirm_save
  \/ dialog # None /\ file_dialog_close
  \/ RemoveFile

Spec == Init /\ [][Next]_dialogVars

-----------------------------------------------------------------------------
TypeOK ==
  /\ DOMAIN tree = DOMAIN Tree
  /\ path \in DOMAIN Tree
  /\ dialog # None => dialog.mode \in {"Open", "Save"}

\* The entry that is selected, which Open and a double click act on, is the one
\* whose row carries the mark, in the folder the dialog says it shows: also after
\* the folder was changed, or its files were, under the dialog.
SelectionIsTheMark ==
  dialog # None /\ dialog.selected # None =>
    /\ dialog.selected \in DOMAIN dialog.entries
    /\ dialog.marks = {dialog.selected}
    /\ dialog.entries[dialog.selected].path =
         Append(dialog.location, dialog.rows[dialog.selected])

=============================================================================
