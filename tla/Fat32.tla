-------------------------------- MODULE Fat32 --------------------------------
(***************************************************************************)
(* The writable FAT32 driver (kernel/src/fat32.rs) on a volume of a root   *)
(* directory and directories in it.  The file allocation table gives each  *)
(* cluster its successor; a directory is a chain of clusters of slots.  A  *)
(* name is one that its 8.3 form keeps.                                    *)
(***************************************************************************)
EXTENDS Naturals, Sequences, FiniteSets, SequencesExt, FiniteSetsExt

CONSTANTS
  Names,        \* of files
  Dirs,         \* of directories, none of them in Names
  LastCluster,
  SLOTS,        \* directory entries in a cluster
  MaxLen,       \* bound: clusters of a file
  MaxCalls      \* bound: calls that change the volume

VARIABLES
  vol,   \* the volume: fat, slots and data of each cluster, and alloc_cursor
  kept,  \* history: what each path was last given with success
  full,  \* history: a call has found the volume full
  calls  \* history: how many calls there were

vars == <<vol, kept, full, calls>>

Clusters == 2 .. LastCluster
RootCluster == 2
FREE == 0
EOC == 1

Slot(name, first, size) == [name |-> name, first |-> first, size |-> size]
EndOfDir == Slot("end", 0, 0)
\* A variant that ends the directory there (for the mutation checks).
DeletedIsEnd == EndOfDir
Deleted == Slot("deleted", 0, 0)
Dot == Slot("dot", 0, 0)
Blank == [i \in 1 .. SLOTS |-> EndOfDir]
NoFile == <<"no file">>
\* What the i-th cluster of a file holds.
Piece(p, i) == <<p, i>>

Homes == {"/"} \cup Dirs
Paths == Homes \X Names

-----------------------------------------------------------------------------
(* Chains.                                                                   *)

\* next_cluster, to the end.
Chain(fat, first) ==
  LET f[k \in Nat] ==
        IF k = 0 THEN <<first>>
        ELSE LET p == f[k - 1] IN IF fat[Last(p)] = EOC THEN p ELSE Append(p, fat[Last(p)])
  IN  IF first = 0 THEN <<>> ELSE f[LastCluster]

\* alloc_cluster: the first free cluster at or after the cursor, around once.
FreeClusters(v) == {c \in Clusters : v.fat[c] = FREE}
Ahead(v, c) == IF c >= v.cursor THEN c - v.cursor ELSE c + LastCluster - v.cursor
NextFree(v) == CHOOSE c \in FreeClusters(v) : \A d \in FreeClusters(v) : Ahead(v, c) <= Ahead(v, d)

\* A new cluster c at the end of the chain that ends with last, if any.
Linked(v, last, c) ==
  [v EXCEPT !.fat = [d \in Clusters |-> IF d = last THEN c ELSE IF d = c THEN EOC ELSE @[d]],
            !.cursor = IF c = LastCluster THEN 2 ELSE c + 1]

\* n more clusters; what was linked before the volume was full stays.
Extended(v, last, n) ==
  LET f[k \in 0 .. n] ==
        IF k = 0 THEN [v |-> v, last |-> last, first |-> last, ok |-> TRUE]
        ELSE LET p == f[k - 1] IN
             IF ~p.ok \/ FreeClusters(p.v) = {} THEN [p EXCEPT !.ok = FALSE]
             ELSE [v |-> Linked(p.v, p.last, NextFree(p.v)), last |-> NextFree(p.v),
                   first |-> IF p.first = 0 THEN NextFree(p.v) ELSE p.first, ok |-> TRUE]
  IN  f[n]

\* A variant that frees the first cluster only (for the mutation checks).
FirstFreed(v, chain) ==
  [v EXCEPT !.fat = [c \in Clusters |-> IF \E i \in DOMAIN chain : i = 1 /\ chain[i] = c THEN FREE ELSE @[c]]]

\* free_chain
Freed(v, chain) ==
  [v EXCEPT !.fat = [c \in Clusters |-> IF c \in Range(chain) THEN FREE ELSE @[c]]]

Cut(v, chain, n) ==
  Freed([v EXCEPT !.fat[chain[n]] = EOC], SubSeq(chain, n + 1, Len(chain)))

\* set_chain_length
Resized(v, first, n) ==
  LET chain == Chain(v.fat, first)
  IN  CASE n = 0 -> [v |-> Freed(v, chain), first |-> 0, ok |-> TRUE]
        [] n > 0 /\ first = 0 -> Extended(v, 0, n)
        [] n > Len(chain) /\ first # 0 ->
             [Extended(v, Last(chain), n - Len(chain)) EXCEPT !.first = first]
        [] OTHER -> [v |-> Cut(v, chain, n), first |-> first, ok |-> TRUE]

\* write_file_chain
Filled(v, first, p, n) ==
  LET chain == Chain(v.fat, first)
  IN  [v EXCEPT !.data = [c \in Clusters |->
         IF \E i \in 1 .. n : chain[i] = c
         THEN Piece(p, CHOOSE i \in 1 .. n : chain[i] = c) ELSE @[c]]]

-----------------------------------------------------------------------------
(* Directories.                                                              *)

SlotsOf(v, first) ==
  LET chain == Chain(v.fat, first)
  IN  [i \in 1 .. SLOTS * Len(chain) |->
         v.slots[chain[(i - 1) \div SLOTS + 1]][((i - 1) % SLOTS) + 1]]

PutSlot(v, first, i, slot) ==
  [v EXCEPT !.slots[Chain(v.fat, first)[(i - 1) \div SLOTS + 1]][((i - 1) % SLOTS) + 1] = slot]

\* parse_dir_entries stops at the end marker: where the entry called name is.
Find(v, first, name) ==
  LET slots == SlotsOf(v, first)
      end == SelectInSeq(slots, LAMBDA s : s = EndOfDir)
  IN  SelectInSeq(IF end = 0 THEN slots ELSE SubSeq(slots, 1, end - 1), LAMBDA s : s.name = name)

\* find_or_make_free_slot
WithSlot(v, first) ==
  LET slots == SlotsOf(v, first)
      i == SelectInSeq(slots, LAMBDA s : s \in {Deleted, EndOfDir})
      grown == Extended(v, Last(Chain(v.fat, first)), 1)
  IN  CASE i # 0 /\ slots[i] = EndOfDir /\ i < Len(slots) ->
             [v |-> PutSlot(v, first, i + 1, EndOfDir), at |-> i, ok |-> TRUE]
        [] i # 0 /\ ~(slots[i] = EndOfDir /\ i < Len(slots)) -> [v |-> v, at |-> i, ok |-> TRUE]
        [] OTHER -> [v |-> IF grown.ok THEN [grown.v EXCEPT !.slots[grown.last] = Blank] ELSE grown.v,
                     at |-> Len(slots) + 1, ok |-> grown.ok]

\* dir_cluster_for; 0 when there is no such directory.
DirCluster(v, home) ==
  IF home = "/" THEN RootCluster
  ELSE LET i == Find(v, RootCluster, home)
       IN  IF i = 0 THEN 0 ELSE SlotsOf(v, RootCluster)[i].first

\* read_file
ReadFile(v, p) ==
  LET d == DirCluster(v, p[1])
      i == IF d = 0 THEN 0 ELSE Find(v, d, p[2])
  IN  IF i = 0 THEN NoFile
      ELSE LET e == SlotsOf(v, d)[i] IN
           [k \in 1 .. e.size |-> v.data[Chain(v.fat, e.first)[k]]]

-----------------------------------------------------------------------------
(* The calls.                                                                *)

\* write_file: the chain and its clusters first, then the directory entry.
WriteFile(p, n) ==
  LET d == DirCluster(vol, p[1])
      i == Find(vol, d, p[2])
      old == IF i = 0 THEN 0 ELSE SlotsOf(vol, d)[i].first
      sized == Resized(vol, old, n)
      filled == Filled(sized.v, sized.first, p, n)
      place == IF i # 0 THEN [v |-> filled, at |-> i, ok |-> TRUE] ELSE WithSlot(filled, d)
      done == sized.ok /\ place.ok
  IN  /\ d # 0
      /\ vol' = CASE ~sized.ok -> sized.v
                  [] sized.ok /\ ~place.ok -> place.v
                  [] OTHER -> PutSlot(place.v, d, place.at, Slot(p[2], sized.first, n))
      /\ full' = (full \/ ~done)
      /\ kept' = IF done THEN [kept EXCEPT ![p] = [k \in 1 .. n |-> Piece(p, k)]] ELSE kept

\* mkdir, of a directory that is not there: its first cluster, then its entry.
Mkdir(name) ==
  /\ Find(vol, RootCluster, name) = 0
  /\ LET made == Extended(vol, 0, 1)
         blank == [made.v EXCEPT !.slots[made.last] =
                     [i \in 1 .. SLOTS |-> IF i <= 2 THEN Dot ELSE EndOfDir]]
         place == WithSlot(blank, RootCluster)
         done == made.ok /\ place.ok
     IN  /\ vol' = CASE ~made.ok -> vol
                     [] made.ok /\ ~place.ok -> place.v
                     [] OTHER -> PutSlot(place.v, RootCluster, place.at, Slot(name, made.first, 0))
         /\ full' = (full \/ ~done)
  /\ UNCHANGED kept

\* remove, of a file or of an empty directory.
Removed(first, name) ==
  LET i == Find(vol, first, name)
      e == SlotsOf(vol, first)[i]
  IN  PutSlot(Freed(vol, Chain(vol.fat, e.first)), first, i, Deleted)

RemoveFile(p) ==
  LET d == DirCluster(vol, p[1])
  IN  /\ d # 0 /\ Find(vol, d, p[2]) # 0
      /\ vol' = Removed(d, p[2])
      /\ kept' = [kept EXCEPT ![p] = NoFile]
      /\ UNCHANGED full

RemoveDir(name) ==
  /\ Find(vol, RootCluster, name) # 0
  /\ \A n \in Names : Find(vol, DirCluster(vol, name), n) = 0
  /\ vol' = Removed(RootCluster, name)
  /\ UNCHANGED <<kept, full>>

-----------------------------------------------------------------------------
Init ==
  /\ vol = [fat |-> [c \in Clusters |-> IF c = RootCluster THEN EOC ELSE FREE],
            slots |-> [c \in Clusters |-> Blank],
            data |-> [c \in Clusters |-> <<>>], cursor |-> 2]
  /\ kept = [p \in Paths |-> NoFile]
  /\ full = FALSE
  /\ calls = 0

Next ==
  /\ calls < MaxCalls /\ calls' = calls + 1
  /\ \/ \E p \in Paths, n \in 0 .. MaxLen : WriteFile(p, n)
     \/ \E name \in Dirs : Mkdir(name) \/ RemoveDir(name)
     \/ \E p \in Paths : RemoveFile(p)

Spec == Init /\ [][Next]_vars

-----------------------------------------------------------------------------
(* Every variable keeps its type.                                            *)
TypeOK ==
  /\ vol.fat \in [Clusters -> {FREE, EOC} \cup Clusters]
  /\ vol.cursor \in Clusters
  /\ DOMAIN kept = Paths /\ full \in BOOLEAN /\ calls \in 0 .. MaxCalls

(* A path reads back what it was last given with success, and nothing once   *)
(* removed: across growing and shrinking chains, directories that grow, slots *)
(* and clusters used again, a cursor that wraps, and calls that fail half way *)
(* because the volume is full, which leave every file as it was (write_file). *)
FilesReadBack == \A p \in Paths : ReadFile(vol, p) = kept[p]

(* No cluster belongs to two chains, and none in use is lost unless a call   *)
(* once found the volume full ("never corrupt the volume").                  *)
EveryClusterHasOneOwner ==
  LET Entries(first) ==
        LET slots == SlotsOf(vol, first) IN
        {slots[i] : i \in {i \in DOMAIN slots : slots[i].first # 0
                             /\ Find(vol, first, slots[i].name) = i}}
      firsts == {<<RootCluster>>} \cup
                {<<e.first>> : e \in UNION {Entries(DirCluster(vol, h)) :
                                  h \in {h \in Homes : DirCluster(vol, h) # 0}}}
      Of(f) == Range(Chain(vol.fat, f[1]))
      used == Clusters \ FreeClusters(vol)
  IN  /\ \A f, g \in firsts : f # g => Of(f) \cap Of(g) = {}
      /\ UNION {Of(f) : f \in firsts} \subseteq used
      /\ ~full => used = UNION {Of(f) : f \in firsts}
=============================================================================
