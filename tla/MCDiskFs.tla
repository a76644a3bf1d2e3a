------------------------------ MODULE MCDiskFs ------------------------------
(* A disk of a few blocks for TLC: two data blocks to a bitmap sector, so     *)
(* that runs straddle sectors, and two entries, which share one directory    *)
(* sector.                                                                   *)
EXTENDS DiskFs, TLC

\* Before it is formatted the disk seems empty, or full of one file.
AnyDirectory ==
  {[s \in Slot |-> e] : e \in {Free} \cup
     [path : Paths, first : {DataStart}, len : {MaxLen}, seq : {MaxSeq}]}

\* No definition orders or names paths or versions.
Symmetry == Permutations(Paths) \cup Permutations(Versions)
=============================================================================
