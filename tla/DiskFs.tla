------------------------------- MODULE DiskFs -------------------------------
(***************************************************************************)
(* OS101FS, the filesystem of the data disk (kernel/src/diskfs.rs), down   *)
(* to the order of its device writes.                                      *)
(*                                                                         *)
(* The in-memory bitmap and directory are the working copy; an operation   *)
(* plans on them and puts sectors on the disk one after the other.  The    *)
(* machine may stop between any two sectors, and a write may fail whether  *)
(* or not it reached the disk; an operation whose write fails returns      *)
(* there, with whatever it had already changed in memory.  The kernel is   *)
(* single-threaded, so nobody reads in the middle of an operation.         *)
(*                                                                         *)
(* Abstracted: file contents to a version; the bitmap to the set of data   *)
(* blocks in use (metadata and tail blocks are always in use); a data      *)
(* block is written in one piece.                                          *)
(***************************************************************************)
EXTENDS Integers, Sequences, FiniteSets

CONSTANTS
  Paths,          \* file names validate_path accepts
  NoPath,         \* the name in a free slot
  Versions,       \* contents a caller may write
  DataStart, TotalBlocks,
  BitsPerByte, SectorBytes,
  SlotCount, EntriesPerSector,
  MaxLen,         \* bound: blocks in a file
  MaxSeq,         \* bound: sequence numbers given out
  MaxFaults,      \* bound: write errors and crashes inside an operation
  UseAfterCut,    \* bound: whether the volume is used on after a cut (see cut)
  Faults,         \* which faults the disk shows
  Junk            \* directories a disk that is not recognised may seem to have

Block == DataStart .. TotalBlocks - 1
Slot == 0 .. SlotCount - 1
BitmapSectors == {(b \div BitsPerByte) \div SectorBytes : b \in Block}
DirSectors == {s \div EntriesPerSector : s \in Slot}

ASSUME PathAssumption == NoPath \notin Paths
ASSUME GeometryAssumption ==
  /\ DataStart \in Nat \ {0} /\ TotalBlocks \in Nat /\ DataStart < TotalBlocks
  /\ BitsPerByte \in Nat \ {0} /\ SectorBytes \in Nat \ {0}
  /\ SlotCount \in Nat \ {0} /\ EntriesPerSector \in Nat \ {0}
  /\ MaxLen \in Nat /\ MaxSeq \in Nat /\ MaxFaults \in Nat /\ UseAfterCut \in BOOLEAN

Free == [path |-> NoPath, first |-> 0, len |-> 0, seq |-> 0]
Entry == [path : Paths \cup {NoPath}, first : 0 .. TotalBlocks,
          len : 0 .. MaxLen, seq : 0 .. MaxSeq]
Used(e) == e.path # NoPath

ASSUME JunkAssumption == Junk \subseteq [Slot -> Entry]

VARIABLES
  super,    \* the superblock on disk is recognised
  dbitmap,  \* disk: data blocks its bitmap marks
  ddir,     \* disk: directory
  data,     \* disk: what each data block holds
  bitmap, dir, nextSeq,  \* DiskFs's working copy
  pc,       \* the operation in progress and how far it is
  op,       \* its arguments and plan
  todo,     \* device writes of the current step still to come
  stored,   \* history: what the last completed operation left under each path
  created,  \* history: the files there are, as pairs <<p, q>> in which the creation
            \* of p completed no later than that of q
  cut,      \* history: an overwrite that moved or shrank a file was interrupted
            \* between its bitmap and its directory entry
  faults    \* how many faults so far

diskVars == <<super, dbitmap, ddir, data>>
memVars == <<bitmap, dir, nextSeq>>
histVars == <<stored, created, cut, faults>>
vars == <<diskVars, memVars, pc, op, todo, histVars>>

Run(first, len) == first .. first + len - 1
Blocks(e) == Run(e.first, e.len)

NoOp == [path |-> NoPath, slot |-> 0, first |-> 0, len |-> 0, version |-> 0,
         old |-> {}, create |-> FALSE]

\* What stored says of a path: no file, unknown, or a file and its contents.
NoFile == [is |-> "no file", len |-> 0, version |-> 0]
Unknown == [is |-> "unknown", len |-> 0, version |-> 0]
File(len, version) == [is |-> "file", len |-> len, version |-> version]

-----------------------------------------------------------------------------
(* Helpers of the source.                                                  *)

\* find: the slot of a path, as a set of at most one.
Find(path) ==
  {s \in Slot : dir[s].path = path /\ \A t \in Slot : t < s => dir[t].path # path}

\* free_slot
FreeSlot ==
  {s \in Slot : ~Used(dir[s]) /\ \A t \in Slot : t < s => Used(dir[t])}

\* Mutation: the end of the volume is not checked.
EndlessFits(used, first, len) == first >= DataStart /\ Run(first, len) \cap used = {}

Fits(used, first, len) ==
  /\ first >= DataStart /\ first + len <= TotalBlocks
  /\ Run(first, len) \cap used = {}

\* find_run: first fit.
FindRun(used, len) ==
  {f \in DataStart .. TotalBlocks :
     Fits(used, f, len) /\ \A g \in DataStart .. f - 1 : ~Fits(used, g, len)}

\* Mutation: only the sector the range starts in.
FirstSectorOnly(low, high) == {low \div SectorBytes}

\* sector_span, of the bitmap bytes [low, high).
SectorSpan(low, high) == (low \div SectorBytes) .. ((high - 1) \div SectorBytes)

\* The writes that put the numbered sectors of a region down, in order.
Writes(region, sectors) ==
  LET least(k) == CHOOSE s \in sectors : Cardinality({t \in sectors : t < s}) = k - 1
  IN  [k \in 1 .. Cardinality(sectors) |-> <<region, least(k)>>]

\* flush_bitmap: the sectors of the span that the bitmap has.
FlushBitmap(low, high) == Writes("bitmap", SectorSpan(low, high) \cap BitmapSectors)

FlushDirEntry(slot) == <<<<"dir", slot \div EntriesPerSector>>>>

SectorBlocks(s) == {b \in Block : (b \div BitsPerByte) \div SectorBytes = s}

\* Mutation: the sector is rebuilt from the one entry that changed.
LoneDirSector(s) ==
  [t \in Slot |-> IF t \div EntriesPerSector # s THEN ddir[t]
                  ELSE IF t = op.slot THEN dir[t] ELSE Free]

\* A directory sector is rebuilt from all the entries that share it.
DirSector(s) == [t \in Slot |-> IF t \div EntriesPerSector = s THEN dir[t] ELSE ddir[t]]

Contents(b) == <<op.path, op.version, b - op.first>>

\* What one device write does to the disk.
Put(w) ==
  /\ super' = (super \/ w[1] = "super")
  /\ dbitmap' = IF w[1] = "bitmap"
                THEN (dbitmap \ SectorBlocks(w[2])) \cup (bitmap \cap SectorBlocks(w[2]))
                ELSE dbitmap
  /\ ddir' = IF w[1] = "dir" THEN DirSector(w[2]) ELSE ddir
  /\ data' = IF w[1] = "data" THEN [data EXCEPT ![w[2]] = Contents(w[2])] ELSE data

-----------------------------------------------------------------------------
(* Mounting.                                                               *)

Seqs(d) == {d[s].seq : s \in {t \in Slot : Used(d[t])}}

\* Mutation: numbering goes on at the highest number in use.
ReusedSeq(d) == IF Seqs(d) = {} THEN 0 ELSE CHOOSE n \in Seqs(d) : \A m \in Seqs(d) : m <= n

SeqAfter(d) == IF Seqs(d) = {} THEN 0 ELSE 1 + CHOOSE n \in Seqs(d) : \A m \in Seqs(d) : m <= n

Mount ==
  /\ pc = "off" /\ super
  /\ bitmap' = dbitmap /\ dir' = ddir /\ nextSeq' = SeqAfter(ddir)
  /\ pc' = "idle"
  /\ UNCHANGED <<diskVars, op, todo, histVars>>

\* mount_or_format formats when the superblock is not recognised, and also when
\* it could not be read.  Bitmap and directory first, the superblock last.
Format ==
  /\ pc = "off" /\ (~super \/ "read error" \in Faults)
  /\ bitmap' = {} /\ dir' = [s \in Slot |-> Free] /\ nextSeq' = 0
  /\ todo' = Writes("bitmap", BitmapSectors) \o Writes("dir", DirSectors) \o <<<<"super", 0>>>>
  /\ pc' = "format"
  /\ UNCHANGED <<diskVars, op, histVars>>

FormatDone ==
  /\ pc = "format" /\ todo = <<>>
  /\ pc' = "idle"
  /\ UNCHANGED <<diskVars, memVars, op, todo, histVars>>

-----------------------------------------------------------------------------
(* write_file                                                              *)

\* Mutation: an overwrite does not give the old run back.
KeptRun(old) == bitmap

\* The scratch copy of the bitmap in which the file's old run is free again.
Plan(old) == bitmap \ old

\* The allocation is planned before anything is touched: a full disk or a full
\* directory refuses the call and leaves no trace.  Then the data goes down.
WriteFile(path, len, version) ==
  /\ pc = "idle" /\ (cut => UseAfterCut)
  /\ LET over == Find(path)
         old == UNION {Blocks(dir[s]) : s \in over}
     IN  /\ over = {} => nextSeq < MaxSeq
         /\ \E slot \in IF over # {} THEN over ELSE FreeSlot,
               first \in IF len = 0 THEN {0} ELSE FindRun(Plan(old), len) :
              /\ op' = [path |-> path, slot |-> slot, first |-> first, len |-> len,
                        version |-> version, old |-> old, create |-> over = {}]
              /\ todo' = Writes("data", Run(first, len))
  /\ stored' = [stored EXCEPT ![path] = Unknown]
  /\ pc' = "data"
  /\ UNCHANGED <<diskVars, memVars, created, cut, faults>>

\* The plan becomes the bitmap, and the sectors between the first and the last
\* byte that changed go down.
PutBitmap ==
  LET plan == Plan(op.old) \cup Run(op.first, op.len)
      changed == {b \div BitsPerByte : b \in (bitmap \ plan) \cup (plan \ bitmap)}
      low == CHOOSE i \in changed : \A j \in changed : i <= j
      last == CHOOSE i \in changed : \A j \in changed : j <= i
  IN  /\ pc = "data" /\ todo = <<>>
      /\ bitmap' = plan
      /\ todo' = IF changed = {} THEN <<>> ELSE FlushBitmap(low, last + 1)
      /\ pc' = "bitmap"
      /\ UNCHANGED <<diskVars, dir, nextSeq, op, histVars>>

\* The entry that points at the blocks.  An overwrite keeps its number.
PutEntry ==
  /\ pc = "bitmap" /\ todo = <<>>
  /\ dir' = [dir EXCEPT ![op.slot] =
       [path |-> op.path, first |-> op.first, len |-> op.len,
        seq |-> IF op.create THEN nextSeq ELSE @.seq]]
  /\ nextSeq' = IF op.create THEN nextSeq + 1 ELSE nextSeq
  /\ todo' = FlushDirEntry(op.slot)
  /\ pc' = "entry"
  /\ UNCHANGED <<diskVars, bitmap, op, histVars>>

WriteDone ==
  /\ pc = "entry" /\ todo = <<>>
  /\ stored' = [stored EXCEPT ![op.path] = File(op.len, op.version)]
  /\ created' = IF op.create
                THEN created \cup {<<p, op.path>> : p \in {c[1] : c \in created} \cup {op.path}}
                ELSE created
  /\ pc' = "idle" /\ op' = NoOp
  /\ UNCHANGED <<diskVars, memVars, todo, cut, faults>>

-----------------------------------------------------------------------------
(* remove                                                                  *)

\* The entry is cleared first.
Remove(path) ==
  /\ pc = "idle" /\ (cut => UseAfterCut)
  /\ \E slot \in Find(path) :
       /\ op' = [NoOp EXCEPT !.path = path, !.slot = slot,
                             !.first = dir[slot].first, !.len = dir[slot].len]
       /\ dir' = [dir EXCEPT ![slot] = Free]
       /\ todo' = FlushDirEntry(slot)
  /\ stored' = [stored EXCEPT ![path] = Unknown]
  /\ created' = {c \in created : path # c[1] /\ path # c[2]}
  /\ pc' = "unlink"
  /\ UNCHANGED <<diskVars, bitmap, nextSeq, cut, faults>>

\* Mutation: the blocks are freed, and flushed, before the entry is.
BlocksFirst ==
  /\ pc = "unlink" /\ todo # <<>> /\ Head(todo)[1] = "dir"
  /\ bitmap' = bitmap \ Run(op.first, op.len)
  /\ todo' = FlushBitmap(op.first \div BitsPerByte,
                         (op.first + op.len) \div BitsPerByte + 1) \o todo
  /\ pc' = "release"
  /\ UNCHANGED <<diskVars, dir, nextSeq, op, histVars>>

\* The blocks are freed after; an empty file has none.
FreeBlocks ==
  /\ pc = "unlink" /\ todo = <<>>
  /\ bitmap' = bitmap \ Run(op.first, op.len)
  /\ todo' = IF op.len = 0 THEN <<>>
             ELSE FlushBitmap(op.first \div BitsPerByte,
                              (op.first + op.len) \div BitsPerByte + 1)
  /\ pc' = "release"
  /\ UNCHANGED <<diskVars, dir, nextSeq, op, histVars>>

RemoveDone ==
  /\ pc = "release" /\ todo = <<>>
  /\ stored' = [stored EXCEPT ![op.path] = NoFile]
  /\ pc' = "idle" /\ op' = NoOp
  /\ UNCHANGED <<diskVars, memVars, todo, created, cut, faults>>

-----------------------------------------------------------------------------
(* The disk.                                                               *)

DeviceWrite ==
  /\ todo # <<>>
  /\ Put(Head(todo))
  /\ todo' = Tail(todo)
  /\ UNCHANGED <<memVars, pc, op, histVars>>

\* An overwrite stopped here leaves the entry on disk, or in memory, pointing at
\* blocks the bitmap may already show as free.
Cutting ==
  op.old \ bitmap # {} /\ (pc = "bitmap" \/ (pc = "entry" /\ todo # <<>>))

\* The driver reports an error, whether or not the sector was written.  The
\* operation returns with it; a format that fails leaves no disk mounted.
WriteError ==
  /\ "write error" \in Faults /\ faults < MaxFaults
  /\ todo # <<>>
  /\ Put(Head(todo)) \/ UNCHANGED diskVars
  /\ IF pc = "format"
     THEN bitmap' = {} /\ dir' = [s \in Slot |-> Free] /\ nextSeq' = 0 /\ pc' = "off"
     ELSE pc' = "idle" /\ UNCHANGED memVars
  /\ op' = NoOp /\ todo' = <<>>
  /\ cut' = (cut \/ Cutting)
  /\ faults' = faults + 1
  /\ UNCHANGED <<stored, created>>

PowerOff ==
  /\ bitmap' = {} /\ dir' = [s \in Slot |-> Free] /\ nextSeq' = 0
  /\ op' = NoOp /\ todo' = <<>> /\ pc' = "off"
  /\ UNCHANGED <<diskVars, stored, created>>

Reboot == pc = "idle" /\ PowerOff /\ UNCHANGED <<cut, faults>>

Crash ==
  /\ "crash" \in Faults /\ faults < MaxFaults
  /\ pc \notin {"off", "idle"}
  /\ PowerOff
  /\ cut' = (cut \/ Cutting)
  /\ faults' = faults + 1

-----------------------------------------------------------------------------
\* A disk nobody has formatted: its sectors hold anything but a superblock.
Init ==
  /\ super = FALSE /\ dbitmap \in SUBSET Block
  /\ ddir \in Junk
  /\ data = [b \in Block |-> <<>>]
  /\ bitmap = {} /\ dir = [s \in Slot |-> Free] /\ nextSeq = 0
  /\ pc = "off" /\ op = NoOp /\ todo = <<>>
  /\ stored = [p \in Paths |-> NoFile] /\ created = {}
  /\ cut = FALSE /\ faults = 0

Next ==
  \/ Mount \/ Format \/ FormatDone
  \/ \E p \in Paths, n \in 0 .. MaxLen, v \in Versions : WriteFile(p, n, v)
  \/ PutBitmap \/ PutEntry \/ WriteDone
  \/ (\E p \in Paths : Remove(p)) \/ FreeBlocks \/ RemoveDone
  \/ DeviceWrite \/ WriteError \/ Reboot \/ Crash

Spec == Init /\ [][Next]_vars
-----------------------------------------------------------------------------
(* What the code promises.                                                 *)

TypeOK ==
  /\ super \in BOOLEAN /\ dbitmap \subseteq Block /\ bitmap \subseteq Block
  /\ ddir \in [Slot -> Entry] /\ dir \in [Slot -> Entry]
  /\ \A b \in Block : data[b] = <<>> \/ data[b] \in Paths \X Versions \X (0 .. MaxLen)
  /\ nextSeq \in 0 .. MaxSeq
  /\ pc \in {"off", "idle", "format", "data", "bitmap", "entry", "unlink", "release"}
  /\ stored \in [Paths -> {NoFile, Unknown} \cup
                        {File(n, v) : n \in 0 .. MaxLen, v \in Versions}]
  /\ created \subseteq Paths \X Paths
  /\ cut \in BOOLEAN /\ faults \in 0 .. MaxFaults

\* read_file of a path, the way the working copy finds it.
Holds(p, file) ==
  \E s \in Find(p) :
    /\ dir[s].len = file.len
    /\ \A i \in 0 .. file.len - 1 : data[dir[s].first + i] = <<p, file.version, i>>

\* Between operations a path reads back what it was last given, and nothing
\* once removed.
ReadsAsStored ==
  pc = "idle" => \A p \in Paths :
    /\ stored[p] = NoFile => Find(p) = {}
    /\ stored[p].is = "file" => Holds(p, stored[p])

\* Two entries of one directory never share a block, and every block of an entry
\* is marked in the bitmap kept with it: on disk between any two sector writes
\* (a crash may come there), and in memory.  The one exception is the overwrite
\* in progress or cut short.
OwnBlocks(d, used) ==
  \A s, t \in Slot : Used(d[s]) =>
    /\ Blocks(d[s]) \subseteq used
    /\ Used(d[t]) /\ s # t => Blocks(d[s]) \cap Blocks(d[t]) = {}
EntriesOwnTheirBlocks ==
  cut \/ op.old \ bitmap # {} \/
    /\ super /\ pc # "format" => OwnBlocks(ddir, dbitmap)
    /\ pc = "idle" => OwnBlocks(dir, bitmap)

\* While nothing has failed, no block is lost: the bitmap holds the blocks of the
\* entries and no others, however often files are rewritten and removed.
NothingLeaks ==
  pc = "idle" /\ faults = 0 => bitmap = UNION {Blocks(dir[s]) : s \in Slot}

\* While nothing has failed, the sectors each operation chose to write back are
\* enough: the disk is what a reboot must find.
DiskIsCurrent == pc = "idle" /\ faults = 0 => dbitmap = bitmap /\ ddir = dir

\* list shows the files in the order they were created, across reboots and
\* rewrites.
ListedInCreationOrder ==
  pc = "idle" => \A c \in created : c[1] # c[2] =>
    \A s \in Find(c[1]), t \in Find(c[2]) : dir[s].seq < dir[t].seq

\* What read_file gives for a path: through the working copy of the directory
\* when the disk is mounted, through the one a mount would load when it is not; a
\* disk that is not recognised is formatted and shows no file.
Read(p) ==
  LET d == IF super /\ pc \in {"off", "format"} THEN ddir ELSE dir
      found == {s \in Slot : d[s].path = p}
      s == CHOOSE t \in found : \A u \in found : t <= u
  IN  IF found = {} THEN <<"no file">>
      ELSE <<"file">> \o [i \in 1 .. d[s].len |-> data[d[s].first + i - 1]]

Wanted ==
  IF pc \in {"unlink", "release"} THEN <<"no file">>
  ELSE <<"file">> \o [i \in 1 .. op.len |-> <<op.path, op.version, i - 1>>]

Files == INSTANCE FileMap WITH
  Names <- Paths,
  Values <- {<<"no file">>} \cup
            {<<"file">> \o [i \in 1 .. n |-> <<p, v, i - 1>>] :
               n \in 0 .. MaxLen, p \in Paths, v \in Versions},
  Absent <- <<"no file">>, Lost <- <<"lost">>, Nothing <- <<>>,
  files <- [p \in Paths |-> IF stored[p] = Unknown THEN <<"lost">> ELSE Read(p)],
  call <- IF op = NoOp THEN <<>> ELSE <<op.path, Wanted>>

\* The disk keeps files the way its callers count on, whatever sector the machine
\* stops at: no device write of one operation changes what is read of another
\* file, a call that returns has left what it was asked to, and a reboot changes
\* nothing that was known.
ImplementsFileMap == Files!MapSpec

\* diskfs.rs:76-78: "an interruption can lose the file being written but never
\* damage a different one".
NeverDamagesAnother == ReadsAsStored

\* diskfs.rs:694-696: "we must not reformat a volume that *is* OS101FS but failed
\* to mount for some other reason".
RecognisedVolumeKept == [][super /\ pc = "off" => pc' # "format"]_vars
=============================================================================
