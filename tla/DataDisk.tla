------------------------------- MODULE DataDisk -------------------------------
(***************************************************************************)
(* vm/data.img from both sides: the launcher commands that create and grow *)
(* it (start, resize-data), each a stat followed by a truncate, and the    *)
(* guest's boot services that format it, relabel it and grow its file      *)
(* system (format-data-disk, grow-var-fs).                                 *)
(*                                                                         *)
(* Sizes are in GB.  The code multiplies them by 2^30 in an int64: since   *)
(* 2^30 divides 2^64, that is the size in GB modulo 2^34, as a signed      *)
(* number.  Half stands for 2^33.                                          *)
(***************************************************************************)
EXTENDS Integers

CONSTANTS
  CLIs,     \* launcher processes
  Sizes,    \* the sizes that users ask start for
  NewSizes, \* the sizes that users ask resize-data for
  Half,     \* sizes wrap around at Half
  MaxFile,  \* the largest file that the host's file system takes
  Serial,   \* users run one command at a time
  None

ASSUME DiskAssumption ==
  /\ Half \in Nat \ {0}
  /\ MaxFile \in 1..(Half - 1)
  /\ Sizes \subseteq Int /\ NewSizes \subseteq Int
  /\ Serial \in BOOLEAN
  /\ None \notin Int

VARIABLES
  size,   \* of data.img, None when there is no such file
  fs,     \* the file system on it: its type, label and size
  data,   \* the guest's files: "none" yet, "kept" or "lost"
  vm,     \* where the daemon and the boot of the guest are
  disk,   \* the size the disk had when the VM was started
  shared, \* history: a daemon was spawned on the disk of another one
  pc,     \* where each command is
  arg     \* the size each command was given

vars == <<size, fs, data, vm, disk, shared, pc, arg>>
guestVars == <<fs, data, vm, disk, shared>>

-----------------------------------------------------------------------------
(* int64(gb) * 1024 * 1024 * 1024, in GB.                                  *)
Bytes(gb) == ((gb + Half) % (2 * Half)) - Half

Blank == [type |-> "none", label |-> "none", size |-> 0]
Ext4(label, n) == [type |-> "ext4", label |-> label, size |-> n]

(* Either a first installation, or a disk that an earlier one left behind, *)
(* possibly with another label or another kind of file system.             *)
Init ==
  /\ \/ size = None /\ fs = Blank /\ data = "none"
     \/ /\ size \in 1..MaxFile
        /\ fs \in {Ext4("exasol-data", size), Ext4("other", size),
                   [type |-> "xfs", label |-> "other", size |-> size]}
        /\ data = "kept"
  /\ vm = "off"
  /\ disk = 0
  /\ shared = FALSE
  /\ pc = [c \in CLIs |-> "idle"]
  /\ arg = [c \in CLIs |-> 0]

Goto(c, from, to) ==
  /\ pc[c] = from
  /\ pc' = [pc EXCEPT ![c] = to]

Alone(c) == Serial => \A d \in CLIs \ {c} : pc[d] = "idle"

(* The file gets a new size; what it loses of a file system is lost.       *)
SetSize(n) ==
  /\ size' = n
  /\ data' = IF n < fs.size /\ data = "kept" THEN "lost" ELSE data
  /\ fs' = IF n = 0 THEN Blank ELSE fs
  /\ UNCHANGED <<vm, disk, shared>>

(* ftruncate refuses a negative size and one that is too large.            *)
Truncatable(n) == n \in 0..MaxFile

-----------------------------------------------------------------------------
(* Slips, as in ForwardRegistry.                                           *)

\* StartStat that takes an existing disk as it is
SlipAnySize(c) ==
  /\ pc[c] = "stat"
  /\ pc' = [pc EXCEPT ![c] = IF size = None THEN "create" ELSE "spawn"]
  /\ UNCHANGED <<size, guestVars, arg>>

\* StartStat that sets the size whatever it was
SlipResizeAlways(c) ==
  /\ pc[c] = "stat"
  /\ pc' = [pc EXCEPT ![c] = IF size = None THEN "create" ELSE "extend"]
  /\ UNCHANGED <<size, guestVars, arg>>

\* StartStat that compares the sizes in GB, as resize-data does
SlipCompareGB(c) ==
  /\ pc[c] = "stat"
  /\ pc' = [pc EXCEPT ![c] = IF size = None THEN "create"
                             ELSE IF size < arg[c] THEN "extend"
                             ELSE IF size = arg[c] THEN "spawn" ELSE "idle"]
  /\ UNCHANGED <<size, guestVars, arg>>

\* ResizeStat that only refuses the size the disk has
SlipOtherSize(c) ==
  /\ pc[c] = "check"
  /\ pc' = [pc EXCEPT ![c] =
              IF size # None /\ arg[c] # size THEN "resize" ELSE "idle"]
  /\ UNCHANGED <<size, guestVars, arg>>

\* StartStat that leaves a missing disk to the daemon
SlipNoCreate(c) ==
  /\ pc[c] = "stat"
  /\ pc' = [pc EXCEPT ![c] =
              IF size = None \/ size >= Bytes(arg[c]) THEN "spawn" ELSE "extend"]
  /\ UNCHANGED <<size, guestVars, arg>>

\* FormatKeeps that asks for the label instead of the superblock
SlipFormatByLabel ==
  /\ vm = "boot"
  /\ vm' = "formatted"
  /\ fs' = IF fs.label = "exasol-data" THEN fs ELSE Ext4("exasol-data", disk)
  /\ data' = IF fs.label # "exasol-data" /\ data = "kept" THEN "lost" ELSE data
  /\ UNCHANGED <<size, disk, shared, pc, arg>>

-----------------------------------------------------------------------------
(* launcher start, as far as the disk is concerned: startCmd,              *)
(* ensureDataDisk, createSparseDataDisk.  A VM that answers the probe ends *)
(* the command before it has touched the disk; one that does not answer it *)
(* goes unseen, running or not (VMLifecycle's StartProbe says when).       *)

Start(c, gb) ==
  /\ gb > 0
  /\ Alone(c)
  /\ Goto(c, "idle", "stat")
  /\ arg' = [arg EXCEPT ![c] = gb]
  /\ UNCHANGED <<size, guestVars>>

StartStat(c) ==
  /\ \/ size = None /\ Goto(c, "stat", "create")
     \/ size # None /\ size < Bytes(arg[c]) /\ Goto(c, "stat", "extend")
     \/ size # None /\ size = Bytes(arg[c]) /\ Goto(c, "stat", "spawn")
     \/ size # None /\ size > Bytes(arg[c]) /\ Goto(c, "stat", "idle")
  /\ UNCHANGED <<size, guestVars, arg>>

(* os.Create empties a file that has appeared since the stat.              *)
StartCreate(c) ==
  /\ Goto(c, "create", "extend")
  /\ SetSize(0)
  /\ UNCHANGED arg

StartExtend(c) ==
  /\ Truncatable(Bytes(arg[c]))
  /\ Goto(c, "extend", "spawn")
  /\ SetSize(Bytes(arg[c]))
  /\ UNCHANGED arg

(* For lack of space or of permission, or for a size that is not one.      *)
StartDiskFails(c) ==
  /\ pc[c] \in {"create", "extend"}
  /\ pc' = [pc EXCEPT ![c] = "idle"]
  /\ UNCHANGED <<size, guestVars, arg>>

(* Nothing keeps a second daemon from the disk of one that was overlooked: *)
(* vm is from then on whichever of the two VMs one likes.                  *)
StartSpawn(c) ==
  /\ Goto(c, "spawn", "idle")
  /\ \/ vm' = "launched"
     \/ vm # "off" /\ UNCHANGED vm
  /\ shared' = (shared \/ vm # "off")
  /\ UNCHANGED <<size, fs, data, disk, arg>>

-----------------------------------------------------------------------------
(* launcher resize-data: resizeDataDiskCmd.                                *)

Resize(c, gb) ==
  /\ Alone(c)
  /\ Goto(c, "idle", "check")
  /\ arg' = [arg EXCEPT ![c] = gb]
  /\ UNCHANGED <<size, guestVars>>

(* The argument itself is compared, not the number of bytes it becomes.    *)
ResizeStat(c) ==
  /\ \/ size # None /\ arg[c] > size /\ Goto(c, "check", "resize")
     \/ size = None /\ Goto(c, "check", "idle")
     \/ size # None /\ arg[c] <= size /\ Goto(c, "check", "idle")
  /\ UNCHANGED <<size, guestVars, arg>>

ResizeTruncate(c) ==
  /\ Truncatable(Bytes(arg[c]))
  /\ Goto(c, "resize", "idle")
  /\ SetSize(Bytes(arg[c]))
  /\ UNCHANGED arg

ResizeFails(c) ==
  /\ Goto(c, "resize", "idle")
  /\ UNCHANGED <<size, guestVars, arg>>

(* A command is interrupted between two of its steps.                      *)
Interrupt(c) ==
  /\ pc[c] # "idle"
  /\ pc' = [pc EXCEPT ![c] = "idle"]
  /\ UNCHANGED <<size, guestVars, arg>>

-----------------------------------------------------------------------------
(* The daemon and the guest's boot services.                               *)

Attach ==
  /\ vm = "launched"
  /\ vm' = "boot"
  /\ disk' = size
  /\ UNCHANGED <<size, fs, data, shared, pc, arg>>

(* dumpe2fs finds an ext4 superblock: keep the file system, relabel it.    *)
FormatKeeps ==
  /\ vm = "boot" /\ fs.type = "ext4"
  /\ vm' = "formatted"
  /\ fs' = [fs EXCEPT !.label = "exasol-data"]
  /\ UNCHANGED <<size, data, disk, shared, pc, arg>>

(* It finds none and blkid knows of no other file system.                  *)
FormatMakes ==
  /\ vm = "boot" /\ fs.type = "none" /\ disk > 0
  /\ vm' = "formatted"
  /\ fs' = Ext4("exasol-data", disk)
  /\ data' = IF data = "kept" THEN "lost" ELSE data
  /\ UNCHANGED <<size, disk, shared, pc, arg>>

(* The service finds no disk among the devices, whatever is on it; another *)
(* file system is refused; relabelling or mkfs.ext4 may fail.              *)
FormatFails ==
  /\ vm = "boot"
  /\ vm' = "noData"
  /\ UNCHANGED <<size, fs, data, disk, shared, pc, arg>>

(* resize2fs, which may fail and leave the file system as it is.  The      *)
(* service only comes after format-data-disk, it does not need it.         *)
Grow ==
  /\ vm \in {"formatted", "noData"}
  /\ vm' = IF vm = "formatted" THEN "up" ELSE "noVar"
  /\ \/ fs.type = "ext4" /\ fs' = [fs EXCEPT !.size = disk]
     \/ UNCHANGED fs
  /\ UNCHANGED <<size, data, disk, shared, pc, arg>>

Write ==
  /\ vm = "up" /\ data = "none"
  /\ data' = "kept"
  /\ UNCHANGED <<size, fs, vm, disk, shared, pc, arg>>

(* Two VMs write to one disk, each with a cache of its own: files are lost *)
(* and so may be the superblock.                                           *)
Clobber ==
  /\ shared
  /\ data' = IF data = "kept" THEN "lost" ELSE data
  /\ fs' \in {fs, Blank}
  /\ UNCHANGED <<size, vm, disk, shared, pc, arg>>

(* The VM stops, the daemon is killed or the host fails, at any point.     *)
Off ==
  /\ vm # "off"
  /\ vm' = "off"
  /\ UNCHANGED <<size, fs, data, disk, shared, pc, arg>>

-----------------------------------------------------------------------------
Next ==
  \/ \E c \in CLIs :
       \/ \E gb \in Sizes : Start(c, gb)
       \/ \E gb \in NewSizes : Resize(c, gb)
       \/ StartStat(c) \/ StartCreate(c) \/ StartExtend(c) \/ StartDiskFails(c)
       \/ StartSpawn(c)
       \/ ResizeStat(c) \/ ResizeTruncate(c) \/ ResizeFails(c)
       \/ Interrupt(c)
  \/ Attach \/ FormatKeeps \/ FormatMakes \/ FormatFails \/ Grow \/ Write
  \/ Clobber \/ Off

Spec == Init /\ [][Next]_vars

-----------------------------------------------------------------------------
(* Every variable holds a value of its type: no file of a negative size,   *)
(* no VM with a disk that is not there.                                    *)
TypeOK ==
  /\ size \in (0..MaxFile) \cup {None}
  /\ fs \in [type: {"none", "ext4", "xfs"}, label: {"none", "other", "exasol-data"},
             size: 0..MaxFile]
  /\ data \in {"none", "kept", "lost"}
  /\ vm \in {"off", "launched", "boot", "formatted", "noData", "noVar", "up"}
  /\ disk \in 0..MaxFile
  /\ shared \in BOOLEAN
  /\ pc \in [CLIs -> {"idle", "stat", "create", "extend", "spawn", "check", "resize"}]
  /\ arg \in [CLIs -> Sizes \cup NewSizes \cup {0}]

(* The data disk only ever grows (docs/requirements.md: grow-only).  start *)
(* keeps to that also for a size whose bytes overflow, as it compares the  *)
(* number it truncates to; resize-data only for one whose bytes do not.    *)
NoShrink == size # None => size' # None /\ size' >= size
GrowOnly == [][NoShrink]_vars

(* The guest's files survive every sequence of starts, resizes, crashes    *)
(* and boots: no command cuts the file system and no boot formats over it. *)
(* The exception is a start whose probe has overlooked a VM.               *)
DataSurvives == data = "lost" => shared

(* The file system never claims more than the file has, with the same      *)
(* exception.                                                              *)
FsFits == fs.type = "ext4" /\ ~shared => size # None /\ fs.size <= size

(* A start that gets as far as the daemon runs on the size that was asked, *)
(* unless its bytes overflow.                                              *)
SpawnsAtRequest ==
  \A c \in CLIs : pc[c] = "spawn" /\ arg[c] < Half => size = arg[c]
=============================================================================
