------------------------------ MODULE RamLayer ------------------------------
(***************************************************************************)
(* The files and directories kept in memory under /data and /apps          *)
(* (RamLayer and save_download, kernel/src/fs.rs).  A path is the sequence *)
(* of its parts, a part a name and the number save_download added to it;   *)
(* the two maps are independent, so a path may be in both.                 *)
(***************************************************************************)
EXTENDS Naturals, Sequences, SequencesExt, FiniteSetsExt

CONSTANTS
  Root,            \* one of WRITABLE_ROOTS
  Parts,           \* names of files and directories
  Sizes,           \* of files
  MAX_RAM_BYTES,
  Tries,           \* names save_download considers
  MaxSaves         \* bound: writes that set contents

VARIABLES
  dirs,     \* RamLayer.dirs
  files,    \* RamLayer.files: path to its contents, [id, size]
  given,    \* history: what each path was last given, and every download
  saves     \* history: how many contents were written

vars == <<dirs, files, given, saves>>

Name(part) == [of |-> part, n |-> 1]
ChildNames == [of : Parts, n : 1 .. Tries]
RootPath == <<Name(Root)>>
\* Directories are at most two below the root, files three.
Paths == {RootPath} \cup {RootPath \o <<a>> : a \in ChildNames}
           \cup {RootPath \o <<a, b>> : a \in {Name(p) : p \in Parts}, b \in ChildNames}
Inside == Paths \ {RootPath}

NoBytes == [id |-> 0, size |-> 0]
Total(fs) == MapThenSumSet(LAMBDA p : fs[p].size, DOMAIN fs)
Put(fs, p, contents) == [q \in DOMAIN fs \cup {p} |-> IF q = p THEN contents ELSE fs[q]]
Without(fs, p) == [q \in DOMAIN fs \ {p} |-> fs[q]]

\* mkdir_p: the directory and all above it.
WithDir(p) == dirs \cup {SubSeq(p, 1, i) : i \in 1 .. Len(p)}

-----------------------------------------------------------------------------
Mkdir(p) ==
  /\ dirs' = WithDir(p)
  /\ UNCHANGED <<files, given, saves>>

\* create_file: an existing file is emptied.
CreateFile(p) ==
  /\ p \notin dirs
  /\ dirs' = WithDir(Front(p))
  /\ files' = Put(files, p, NoBytes)
  /\ given' = {g \in given : g.path # p} \cup {[path |-> p, contents |-> NoBytes]}
  /\ UNCHANGED saves

\* Room under the ceiling, an overwritten file discounted.
Fits(p, size) ==
  Total(files) - (IF p \in DOMAIN files THEN files[p].size ELSE 0) + size <= MAX_RAM_BYTES

\* write_file.  Only a new file asks whether the path is a directory.
MayWrite(p, size) == Fits(p, size) /\ (p \in DOMAIN files \/ p \notin dirs)

Written(p, contents) ==
  /\ dirs' = IF p \in DOMAIN files THEN dirs ELSE WithDir(Front(p))
  /\ files' = Put(files, p, contents)

WriteFile(p, size) ==
  LET contents == [id |-> saves + 1, size |-> size]
  IN  /\ saves < MaxSaves /\ saves' = saves + 1
      /\ MayWrite(p, size) /\ Written(p, contents)
      /\ given' = {g \in given : g.path # p} \cup {[path |-> p, contents |-> contents]}

\* ls: what is directly in a directory.
Listed(dir) ==
  IF dir \notin dirs THEN {} ELSE {q \in dirs \cup DOMAIN files : Len(q) > 1 /\ Front(q) = dir}

\* The first of a name, name-2, ... that is not taken; the last one is not looked at.
Chosen(dir, part) ==
  LET Named(n) == dir \o <<[of |-> part, n |-> n]>>
  IN  Named(CHOOSE n \in 1 .. Tries : /\ n = Tries \/ Named(n) \notin Listed(dir)
                                      /\ \A m \in 1 .. n - 1 : Named(m) \in Listed(dir))

\* save_download
SaveDownload(dir, part, size) ==
  LET p == Chosen(dir, part)
      contents == [id |-> saves + 1, size |-> size]
      full == p \in Listed(dir)
  IN  /\ saves < MaxSaves /\ saves' = saves + 1
      /\ MayWrite(p, size) /\ Written(p, contents)
      /\ given' = (IF full THEN {g \in given : g.path # p} ELSE given)
                    \cup {[path |-> p, contents |-> contents]}

\* A variant that does not look for files (for the mutation checks).
NoSubdirs(p) == \A d \in dirs : ~IsStrictPrefix(p, d)

Empty(p) == /\ \A d \in dirs : ~IsStrictPrefix(p, d)
            /\ \A q \in DOMAIN files : Front(q) # p

\* remove: the file of that name first, else an empty directory.
RemovePath(p) ==
  /\ \/ p \in DOMAIN files /\ files' = Without(files, p) /\ UNCHANGED dirs
     \/ /\ p \notin DOMAIN files /\ p \in dirs /\ Empty(p)
        /\ dirs' = dirs \ {p} /\ UNCHANGED files
  /\ given' = {g \in given : g.path # p}
  /\ UNCHANGED saves

-----------------------------------------------------------------------------
Init ==
  /\ dirs = {RootPath}
  /\ files = [p \in {} |-> NoBytes]
  /\ given = {} /\ saves = 0

Next ==
  \/ \E p \in Inside : Mkdir(p) \/ CreateFile(p) \/ RemovePath(p)
  \/ \E p \in Inside, size \in Sizes : WriteFile(p, size)
  \/ \E dir \in {p \in Paths : Len(p) < 3}, part \in Parts, size \in Sizes :
       Chosen(dir, part) \in Inside /\ SaveDownload(dir, part, size)

Spec == Init /\ [][Next]_vars

-----------------------------------------------------------------------------
(* Every variable keeps its type.                                            *)
TypeOK ==
  /\ dirs \subseteq Paths /\ DOMAIN files \subseteq Inside
  /\ \A p \in DOMAIN files : files[p].id \in 0 .. MaxSaves
  /\ saves \in 0 .. MaxSaves

(* What was written and not removed since is found going down from the root, *)
(* with the contents it was given, every download under a name of its own,   *)
(* and all of it within the ceiling (RamLayer, save_download).               *)
FilesAreFound ==
  /\ \A g \in given :
       /\ g.path \in DOMAIN files /\ files[g.path] = g.contents
       /\ \A i \in 2 .. Len(g.path) : SubSeq(g.path, 1, i) \in Listed(SubSeq(g.path, 1, i - 1))
  /\ Total(files) <= MAX_RAM_BYTES
=============================================================================
