------------------------------ MODULE FileMap -------------------------------
(***************************************************************************)
(* What the data disk promises to its callers (kernel/src/fs.rs): paths    *)
(* map to contents, one operation is under way at a time, and an operation *)
(* that is interrupted leaves nothing unknown but the file it was about.   *)
(***************************************************************************)
CONSTANTS
  Names,    \* the paths
  Values,   \* what a path may hold, Absent included
  Absent,   \* that there is no file
  Lost,     \* that nothing is known; not in Values
  Nothing   \* no operation

VARIABLES
  files,    \* what a read of each path gives, once the disk is mounted
  call      \* the operation under way: its path and what it is to leave there

fileVars == <<files, call>>

\* Nothing is known of the file while an operation is changing it.
Begin(p, v) ==
  /\ call = Nothing
  /\ files' = [files EXCEPT ![p] = Lost]
  /\ call' = <<p, v>>

\* The call returned success.
Finish ==
  /\ call # Nothing
  /\ files' = [files EXCEPT ![call[1]] = call[2]]
  /\ call' = Nothing

\* The call returned an error, or the machine stopped.
Interrupt ==
  /\ call # Nothing /\ call' = Nothing
  /\ UNCHANGED files

MapInit == files = [p \in Names |-> Absent] /\ call = Nothing

MapNext == (\E p \in Names, v \in Values : Begin(p, v)) \/ Finish \/ Interrupt

MapSpec == MapInit /\ [][MapNext]_fileVars
=============================================================================
