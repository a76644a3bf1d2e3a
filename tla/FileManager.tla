------------------------------ MODULE FileManager ------------------------------
(***************************************************************************)
(* The File Explorer (kernel/src/window.rs).  Its window shows a listing   *)
(* taken when it was last refreshed; the selection is an index into that   *)
(* listing, and the context menu acts on the selection.  Other programs    *)
(* write and remove files meanwhile.  A path is the sequence of its parts; *)
(* a part is a folder or a file, and the number that tells "New folder_2"  *)
(* and "untitled_2.txt" from the others.  The drives are folders 1 and 2   *)
(* of the root: /data, in memory, and one that is read-only.               *)
(***************************************************************************)
EXTENDS Naturals, Sequences, FiniteSetsExt, SequencesExt

CONSTANTS
  MAX_NAMES,                \* names fm_unique_name considers
  FM_ROWS, FM_LG_VISIBLE,   \* entries a view has room for
  MaxDepth                  \* bound: parts of a path

VARIABLES
  tree,      \* the files and folders that exist
  texts,     \* history: the files among them that hold something
  FM_PATH,
  explorer,  \* its window: listing, selection (0 for none), menu and view; or NoExplorer
  chosen     \* history: the entry the user pointed at last, or the root

vars == <<tree, texts, FM_PATH, explorer, chosen>>

Root == <<>>
Part == [dir : BOOLEAN, n : 1 .. MAX_NAMES]
Folder(n) == [dir |-> TRUE, n |-> n]
File(n) == [dir |-> FALSE, n |-> n]
Data == <<Folder(1)>>
ReadOnly == <<Folder(2)>>

IsDir(p) == p # Root => Last(p).dir
Writable(p) == p # Root /\ Head(p) = Head(Data)
ChildrenIn(t, dir) == {p \in t : p # Root /\ Front(p) = dir}
Children(dir) == ChildrenIn(tree, dir)

\* ls: folders before files, each kind by number; nothing if it is not there.
Before(p, q) == \/ Last(p).dir /\ ~Last(q).dir
                \/ Last(p).dir = Last(q).dir /\ Last(p).n < Last(q).n
Ls(t, dir) == IF dir \in t THEN SetToSortSeq(ChildrenIn(t, dir), Before) ELSE <<>>

NoExplorer == [open |-> FALSE, entries |-> <<>>, selected |-> 0, menu |-> FALSE, mode |-> "List"]
Fresh == [NoExplorer EXCEPT !.open = TRUE]
Visible == IF explorer.mode = "List" THEN FM_ROWS ELSE FM_LG_VISIBLE

\* A variant that keeps the selection (for the mutation checks).
RelistedAsSelected(w, t, dir) == [w EXCEPT !.entries = Ls(t, dir)]

\* refresh_file_manager
Refreshed(w, t, dir) == [w EXCEPT !.entries = Ls(t, dir), !.selected = 0]

Selection == IF explorer.selected \in DOMAIN explorer.entries
             THEN explorer.entries[explorer.selected] ELSE Root

-----------------------------------------------------------------------------
(* Opening it.                                                               *)

LaunchBuiltin ==
  /\ explorer' = Refreshed(IF explorer.open THEN explorer ELSE Fresh, tree, FM_PATH)
  /\ UNCHANGED <<tree, texts, FM_PATH, chosen>>

OpenDrive(drive) ==
  /\ FM_PATH' = drive
  /\ explorer' = Refreshed(Fresh, tree, drive)
  /\ UNCHANGED <<tree, texts, chosen>>

CloseWindow ==
  /\ explorer' = NoExplorer
  /\ UNCHANGED <<tree, texts, FM_PATH, chosen>>

-----------------------------------------------------------------------------
(* Pointing at an entry, or below the last one.                              *)

Point(row) ==
  /\ explorer.open /\ row <= Visible
  /\ chosen' = IF row \in DOMAIN explorer.entries THEN explorer.entries[row] ELSE Root

\* The selection and the menu after it.
Pointed(row, menu) ==
  [explorer EXCEPT !.menu = menu,
                   !.selected = IF row \in DOMAIN explorer.entries THEN row ELSE 0]

RightClick(row) ==
  /\ Point(row)
  /\ explorer' = Pointed(row, TRUE)
  /\ UNCHANGED <<tree, texts, FM_PATH>>

\* file_manager_open_entry_internal: into a folder; a file opens elsewhere.
OpenEntry(w, p) ==
  IF p # Root /\ IsDir(p)
  THEN FM_PATH' = p /\ explorer' = Refreshed(w, tree, p)
  ELSE explorer' = w /\ UNCHANGED FM_PATH

LeftClick(row, dbl) ==
  /\ Point(row)
  /\ IF dbl THEN OpenEntry(Pointed(row, FALSE), chosen')
     ELSE explorer' = Pointed(row, FALSE) /\ UNCHANGED FM_PATH
  /\ UNCHANGED <<tree, texts>>

-----------------------------------------------------------------------------
(* The commands.  From the toolbar one closes the menu first; from the menu  *)
(* only Open, Preview, Refresh and Set as wallpaper do.                      *)

Closed(w) == [w EXCEPT !.menu = FALSE]
Commanded == {Closed(explorer)} \cup (IF explorer.menu THEN {explorer} ELSE {})

FmOpen ==
  /\ explorer.menu
  /\ OpenEntry(Closed(explorer), Selection)
  /\ UNCHANGED <<tree, texts, chosen>>

\* Preview and Set as wallpaper read the file, and close the menu.
FmPreview ==
  /\ explorer.open
  /\ explorer' = Closed(explorer)
  /\ UNCHANGED <<tree, texts, FM_PATH, chosen>>

RefreshFiles ==
  /\ explorer.open
  /\ explorer' = Refreshed(Closed(explorer), tree, FM_PATH)
  /\ UNCHANGED <<tree, texts, FM_PATH, chosen>>

FmView(mode) ==
  /\ explorer.open
  /\ explorer' = Refreshed([Closed(explorer) EXCEPT !.mode = mode], tree, FM_PATH)
  /\ UNCHANGED <<tree, texts, FM_PATH, chosen>>

FmUp ==
  /\ explorer.open
  /\ IF FM_PATH = Root THEN explorer' = Closed(explorer) /\ UNCHANGED FM_PATH
     ELSE FM_PATH' = Front(FM_PATH) /\ explorer' = Refreshed(Closed(explorer), tree, Front(FM_PATH))
  /\ UNCHANGED <<tree, texts, chosen>>

\* fm_working_parent: the root stands for /data; none on a read-only drive.
WorkingParent == IF FM_PATH = Root THEN Data ELSE FM_PATH
MayCreate == Writable(WorkingParent) /\ Len(WorkingParent) < MaxDepth

\* fm_unique_name: the first of the numbered names that is free, or the plain one
\* if none is.
Free(parent, names) == {n \in DOMAIN names : Append(parent, names[n]) \notin Children(parent)}
UniqueName(parent, names) ==
  names[IF Free(parent, names) = {} THEN 1 ELSE Min(Free(parent, names))]

FolderNames == [n \in 1 .. MAX_NAMES |-> Folder(n)]
FileNames == [n \in 1 .. MAX_NAMES |-> File(n)]

\* mkdir_p and create_file make what is missing above, too.
WithAbove(p) == tree \cup {SubSeq(p, 1, i) : i \in 1 .. Len(p)}

\* The command did what it does, or the volume refused.
Create(p) ==
  \E w \in Commanded :
    \/ tree' = WithAbove(p) /\ texts' = texts \ {p}
       /\ explorer' = Refreshed(w, WithAbove(p), FM_PATH)
    \/ explorer' = w /\ UNCHANGED <<tree, texts>>

FmNewFolder ==
  /\ explorer.open
  /\ IF MayCreate THEN Create(Append(WorkingParent, UniqueName(WorkingParent, FolderNames)))
     ELSE explorer' \in Commanded /\ UNCHANGED <<tree, texts>>
  /\ UNCHANGED <<FM_PATH, chosen>>

FmNewFile ==
  /\ explorer.open
  /\ IF MayCreate THEN Create(Append(WorkingParent, UniqueName(WorkingParent, FileNames)))
     ELSE explorer' \in Commanded /\ UNCHANGED <<tree, texts>>
  /\ UNCHANGED <<FM_PATH, chosen>>

\* remove: a file, or a folder with nothing in it; never a drive.
Removable(p) == p \in tree /\ Len(p) > 1 /\ Children(p) = {}

\* Only in the menu.  What cannot be removed leaves the listing as it was.
FmDelete ==
  LET target == Selection
  IN /\ explorer.menu
     /\ IF Writable(target) /\ Removable(target)
        THEN /\ tree' = tree \ {target} /\ texts' = texts \ {target}
             /\ explorer' = Refreshed(explorer, tree \ {target}, FM_PATH)
        ELSE UNCHANGED <<tree, texts, explorer>>
     /\ UNCHANGED <<FM_PATH, chosen>>

-----------------------------------------------------------------------------
(* Editors, downloads and the shell write and remove files.                  *)
Outside ==
  /\ \/ \E dir \in tree : \E n \in 1 .. MAX_NAMES :
          /\ IsDir(dir) /\ Writable(dir) /\ Len(dir) < MaxDepth
          /\ tree' = tree \cup {Append(dir, File(n))}
          /\ texts' = texts \cup {Append(dir, File(n))}
     \/ \E p \in tree :
          /\ Writable(p) /\ Removable(p)
          /\ tree' = tree \ {p} /\ texts' = texts \ {p}
  /\ UNCHANGED <<FM_PATH, explorer, chosen>>

Init ==
  /\ tree = {Root, Data, ReadOnly}
  /\ texts = {}
  /\ FM_PATH = Root
  /\ explorer = NoExplorer
  /\ chosen = Root

Next ==
  \/ Outside \/ LaunchBuiltin \/ CloseWindow
  \/ \E drive \in {Data, ReadOnly} : OpenDrive(drive)
  \/ \E row \in 1 .. FM_ROWS : RightClick(row) \/ \E dbl \in BOOLEAN : LeftClick(row, dbl)
  \/ FmOpen \/ FmPreview \/ RefreshFiles \/ FmUp \/ FmNewFolder \/ FmNewFile \/ FmDelete
  \/ \E mode \in {"List", "LargeIcons"} : FmView(mode)

Spec == Init /\ [][Next]_vars

-----------------------------------------------------------------------------
(* Every variable keeps its type; what exists is inside a folder that exists. *)
TypeOK ==
  /\ \A p \in tree : p \in Seq(Part) /\ Len(p) <= MaxDepth
  /\ \A p \in tree \ {Root} : Front(p) \in tree /\ IsDir(Front(p))
  /\ texts \subseteq {p \in tree : ~IsDir(p)}
  /\ IsDir(FM_PATH)
  /\ explorer.open \in BOOLEAN /\ explorer.menu \in BOOLEAN
  /\ explorer.selected \in 0 .. Len(explorer.entries)
  /\ explorer.mode \in {"List", "LargeIcons"}

(* Whatever the explorer does, a file that holds something loses it only if  *)
(* it is the one the user pointed at last, however old the listing is, or if *)
(* a new file found every name taken: the selection is an index, and names   *)
(* are chosen against the folder as it is now (refresh_file_manager,         *)
(* file_manager_delete and fm_unique_name, window.rs).                       *)
HarmsOnlyTheChosen ==
  [][\/ Outside
     \/ \A p \in texts : p \in texts' \/ p = chosen \/ Free(Front(p), FileNames) = {}]_vars
=============================================================================
