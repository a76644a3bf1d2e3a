------------------------------- MODULE Installer -------------------------------
(***************************************************************************)
(* Installing onto another disk (kernel/src/install.rs), with the wizard   *)
(* that asks for it (kernel/src/window.rs) and the volumes that come and   *)
(* go with the disks (kernel/src/fs.rs).  A disk is the sequence of its    *)
(* chunks of CHUNK_SECTORS; what the first says tells what is on it.  The  *)
(* copy runs inside one press of a button: nothing else does until it ends,*)
(* but a disk may fail, the stick be pulled out or the power go.           *)
(***************************************************************************)
EXTENDS Naturals, Sequences

CONSTANTS
  DataDisks,         \* what may be attached as the ATA slave, NoDisk for nothing
  Sticks,            \* what may be plugged in
  MaxBoots,          \* bound: boots in a behaviour
  MaxSaves,          \* bound: files saved in a behaviour
  None

VARIABLES
  disks,     \* of each slot, the chunks of the disk in it, or NoDisk
  stick,     \* "none", "up" once attached, or "gone" when it was pulled out
  fresh,     \* msc_just_attached
  mounted,   \* the volumes at /disk and /usb
  wizard,    \* the installer's window, or Closed
  copy,      \* the copy under way, or NoCopy
  warned,    \* history: the disks shown as about to be erased when ERASE was typed
  boots, saves

vars == <<disks, stick, fresh, mounted, wizard, copy, warned, boots, saves>>

Master == "AtaMaster"
Slave == "AtaSlave"
Usb == "Usb"
Disks == {Master, Slave, Usb}
Image == <<"mbr", "body">>
NoDisk == <<>>

Closed == [step |-> 0, source |-> None, targets |-> <<>>, selected |-> 0, text |-> "blank", status |-> "closed"]
NoCopy == [source |-> None, target |-> None, lba |-> 0, total |-> 0, by |-> "nobody"]

\* Transfers to a stick that was pulled out fail.
Answers(d) == disks[d] # NoDisk /\ (d = Usb => stick = "up")

\* The main loop waits for input: nothing is copied, and a new stick was seen to.
Waiting == copy = NoCopy /\ ~fresh /\ boots > 0

-----------------------------------------------------------------------------
(* The volumes.                                                              *)

\* mount_usb: a volume that is not FAT32 is left alone, and what was mounted stays.
MountUsb(m) == IF Answers(Usb) /\ Head(disks[Usb]) = "fat" THEN m \cup {Usb} ELSE m

\* usb_tick
UsbTick ==
  /\ fresh /\ copy = NoCopy
  /\ fresh' = FALSE
  /\ mounted' = MountUsb(mounted)
  /\ UNCHANGED <<disks, stick, wizard, copy, warned, boots, saves>>

PlugIn(s) ==
  /\ Waiting /\ stick = "none"
  /\ disks' = [disks EXCEPT ![Usb] = s]
  /\ stick' = "up" /\ fresh' = TRUE
  /\ UNCHANGED <<mounted, wizard, copy, warned, boots, saves>>

\* Nothing notices; not even a stick put back is used before the next boot.
PullOut ==
  /\ stick = "up"
  /\ stick' = "gone"
  /\ UNCHANGED <<disks, fresh, mounted, wizard, copy, warned, boots, saves>>

\* write_file, routed by the path; a file takes the second chunk.
Save(d, file) ==
  /\ Waiting /\ saves < MaxSaves
  /\ d \in mounted /\ Answers(d) /\ Len(disks[d]) > 1
  /\ disks' = [disks EXCEPT ![d][2] = file]
  /\ saves' = saves + 1
  /\ UNCHANGED <<stick, fresh, mounted, wizard, copy, warned, boots>>

-----------------------------------------------------------------------------
(* The copy.                                                                 *)

\* list_disks, default_source and install_targets: the slots in this order, as they answer.
Slot(d, source) == IF Answers(d) /\ d # source THEN <<d>> ELSE <<>>
InstallTargets(source) == Slot(Master, source) \o Slot(Slave, source) \o Slot(Usb, source)
ListDisks == InstallTargets(None)
DefaultSource == IF ListDisks = <<>> THEN Master ELSE Head(ListDisks)

\* A variant that leaves the volumes as they are (for the mutation checks).
UnmountNothing(used) == mounted

\* The volumes on disks that are about to be read or overwritten go.
Unmounted(used) == mounted \ used

Refused(source, target) ==
  \/ source = target \/ ~Answers(source) \/ ~Answers(target)
  \/ Len(disks[target]) < Len(disks[source])

\* What the caller shows when install returns.
Shown(by, status) ==
  IF by = "wizard" /\ wizard # Closed THEN [wizard EXCEPT !.step = 3, !.status = status, !.text = "blank"]
  ELSE wizard

Install(source, target, by) ==
  IF Refused(source, target)
  THEN wizard' = Shown(by, "failed") /\ UNCHANGED <<mounted, copy>>
  ELSE /\ mounted' = Unmounted({source, target})
       /\ copy' = [source |-> source, target |-> target, lba |-> 0, total |-> Len(disks[source]), by |-> by]
       /\ wizard' = IF by = "wizard" THEN [wizard EXCEPT !.text = "blank"] ELSE wizard

CopyChunk ==
  /\ copy.lba < copy.total
  /\ Answers(copy.source) /\ Answers(copy.target)
  /\ disks' = [disks EXCEPT ![copy.target][copy.lba + 1] = disks[copy.source][copy.lba + 1]]
  /\ copy' = [copy EXCEPT !.lba = @ + 1]
  /\ UNCHANGED <<stick, fresh, mounted, wizard, warned, boots, saves>>

\* A read or a write that fails ends it.
CopyFails ==
  /\ copy.lba < copy.total
  /\ copy' = NoCopy
  /\ wizard' = Shown(copy.by, "failed")
  /\ UNCHANGED <<disks, stick, fresh, mounted, warned, boots, saves>>

CopyEnds ==
  /\ copy.total > 0 /\ copy.lba = copy.total
  /\ copy' = NoCopy
  /\ mounted' = IF Usb \in {copy.source, copy.target} THEN mounted ELSE MountUsb(mounted)
  /\ wizard' = Shown(copy.by, "finished")
  /\ UNCHANGED <<disks, stick, fresh, warned, boots, saves>>

-----------------------------------------------------------------------------
(* The wizard.  Whatever rebuilds its widgets empties the text box.          *)

Target == IF wizard.selected = 0 THEN None ELSE wizard.targets[wizard.selected]
Wizard(new) ==
  /\ Waiting /\ wizard # Closed
  /\ wizard' = new
  /\ UNCHANGED <<disks, stick, fresh, mounted, copy, boots, saves>>

OpenInstaller ==
  /\ Waiting /\ wizard = Closed
  /\ wizard' = [Closed EXCEPT !.source = DefaultSource, !.targets = InstallTargets(DefaultSource),
                              !.status = "welcome"]
  /\ warned' = {}
  /\ UNCHANGED <<disks, stick, fresh, mounted, copy, boots, saves>>

InstallerNext ==
  /\ wizard.step \in {0, 1}
  /\ Wizard(IF wizard.step = 1 /\ wizard.selected = 0 THEN wizard
            ELSE [wizard EXCEPT !.step = @ + 1, !.text = "blank"])
  /\ UNCHANGED warned

InstallerBack ==
  /\ wizard.step \in {1, 2}
  /\ Wizard([wizard EXCEPT !.step = @ - 1, !.text = "blank"]) /\ UNCHANGED warned

InstallerPick(i) ==
  /\ wizard.step = 1 /\ i \in DOMAIN wizard.targets
  /\ Wizard([wizard EXCEPT !.selected = i]) /\ UNCHANGED warned

TypeErase ==
  /\ wizard.step = 2 /\ Wizard([wizard EXCEPT !.text = "ERASE"])
  /\ warned' = warned \cup {Target}

Close == Wizard(Closed) /\ UNCHANGED warned

InstallerStart ==
  /\ Waiting /\ wizard.step = 2 /\ wizard.text = "ERASE" /\ Target # None
  /\ Install(wizard.source, Target, "wizard")
  /\ UNCHANGED <<disks, stick, fresh, warned, boots, saves>>

\* install to, in the shell, which asks for nothing more.
ShellInstall(target) ==
  /\ Waiting /\ wizard = Closed
  /\ Install(DefaultSource, target, "shell")
  /\ warned' = {target}
  /\ UNCHANGED <<disks, stick, fresh, boots, saves>>

-----------------------------------------------------------------------------
(* Boot: mount_disk, mount_usb, try_autoinstall.  The machine boots from a   *)
(* disk that holds the whole image.                                          *)

AutoTarget(file) ==
  CASE file = "master" -> Master [] file = "slave" -> Slave [] file = "usb" -> Usb [] OTHER -> None

\* mount_or_format
Formatted(d) == IF Head(d) = "fs" THEN d ELSE [d EXCEPT ![1] = "fs"]

\* The power goes, at any time; disks may be exchanged before it comes back.
PowerOff ==
  /\ boots > 0
  /\ disks' \in {disks, [disks EXCEPT ![Master] = disks[Slave], ![Slave] = disks[Master]]}
  /\ stick' \in IF disks[Usb] = NoDisk THEN {"none"} ELSE {"up", "none"}
  /\ fresh' = FALSE /\ mounted' = {} /\ wizard' = Closed /\ copy' = [NoCopy EXCEPT !.by = "off"]
  /\ UNCHANGED <<warned, boots, saves>>

Booted == {d \in {Master, Usb} : Answers(d) /\ Len(disks[d]) >= 2 /\ SubSeq(disks[d], 1, 2) = Image}

Boot ==
  /\ copy.by = "off" /\ boots < MaxBoots /\ Booted # {}
  /\ boots' = boots + 1
  /\ disks' = IF disks[Slave] = NoDisk THEN disks ELSE [disks EXCEPT ![Slave] = Formatted(disks[Slave])]
  /\ mounted' = MountUsb(IF disks[Slave] = NoDisk THEN {} ELSE {Slave})
  /\ copy' = [NoCopy EXCEPT !.by = "boot"] /\ fresh' = (stick = "up") /\ warned' = {}
  /\ UNCHANGED <<stick, wizard, saves>>

\* The first line of /usb/autoinst.txt names the target.
TryAutoinstall ==
  LET target == IF Usb \in mounted /\ Answers(Usb) THEN AutoTarget(disks[Usb][2]) ELSE None
  IN  /\ copy.by = "boot"
      /\ IF target = None \/ Refused(DefaultSource, target)
         THEN copy' = NoCopy /\ UNCHANGED <<mounted, warned>>
         ELSE /\ mounted' = Unmounted({DefaultSource, target})
              /\ copy' = [source |-> DefaultSource, target |-> target, lba |-> 0,
                          total |-> Len(disks[DefaultSource]), by |-> "autoinst"]
              /\ warned' = {target}
      /\ UNCHANGED <<disks, stick, fresh, wizard, boots, saves>>

-----------------------------------------------------------------------------
Init ==
  /\ \E s \in DataDisks, u \in Sticks \cup {NoDisk} :
       /\ disks = [d \in Disks |-> CASE d = Master -> Image [] d = Slave -> s [] d = Usb -> u]
       /\ stick = IF u = NoDisk THEN "none" ELSE "up"
  /\ fresh = FALSE /\ mounted = {} /\ wizard = Closed /\ copy = [NoCopy EXCEPT !.by = "off"]
  /\ warned = {} /\ boots = 0 /\ saves = 0

Next ==
  \/ UsbTick \/ PullOut
  \/ \E s \in Sticks : PlugIn(s)
  \/ \E d \in {Slave, Usb}, file \in {"file", "slave"} : Save(d, file)
  \/ CopyChunk \/ CopyFails \/ CopyEnds
  \/ OpenInstaller \/ InstallerNext \/ InstallerBack \/ TypeErase \/ Close \/ InstallerStart
  \/ \E i \in 1 .. 2 : InstallerPick(i)
  \/ \E d \in Disks : ShellInstall(d)
  \/ PowerOff \/ Boot \/ TryAutoinstall

Spec == Init /\ [][Next]_vars

-----------------------------------------------------------------------------
(* Every variable keeps its type.                                            *)
TypeOK ==
  /\ DOMAIN disks = Disks
  /\ stick \in {"none", "up", "gone"} /\ fresh \in BOOLEAN
  /\ mounted \subseteq {Slave, Usb} /\ warned \subseteq Disks
  /\ wizard.step \in 0 .. 3 /\ wizard.selected \in 0 .. Len(wizard.targets)
  /\ copy.lba \in 0 .. copy.total
  /\ boots \in 0 .. MaxBoots /\ saves \in 0 .. MaxSaves

(* A disk is erased only after its name stood there when ERASE was typed     *)
(* ("The UI requires typing ERASE before anything is written", install.rs:14)*)
(* or when autoinst.txt or a command names it, whatever was picked, taken    *)
(* back and picked again before; and what is mounted is on a disk that the   *)
(* installer neither reads nor writes.                                       *)
ErasesWhatWasConfirmed ==
  /\ copy.lba > 0 => copy.target \in warned
  /\ mounted \cap {copy.source, copy.target} = {}
  /\ Slave \in mounted => Head(disks[Slave]) = "fs"
  /\ Usb \in mounted => Head(disks[Usb]) = "fat"

(* "Install finished" stands over a target that holds the whole source, and  *)
(* no volume is mounted that could change it.                                *)
FinishedIsWhole ==
  wizard.status = "finished" =>
    /\ SubSeq(disks[Target], 1, Len(disks[wizard.source])) = disks[wizard.source]
    /\ Target \notin mounted
=============================================================================
