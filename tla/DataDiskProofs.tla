---------------------------- MODULE DataDiskProofs ----------------------------
(***************************************************************************)
(* The data disk under the two conditions that the code needs: commands    *)
(* are run one at a time, and no size that resize-data is given overflows  *)
(* when it is turned into bytes.  Then the disk only grows, whatever start *)
(* is given, and the guest's files survive every crash between two steps,  *)
(* until a start overlooks a VM on the same disk.                          *)
(***************************************************************************)
EXTENDS DataDisk, TLAPS

InRange == NewSizes \subseteq (-Half)..(Half - 1)

(* A command acts on what its stat has seen.  start has compared the bytes,*)
(* or has just made an empty file; resize-data has compared its argument.  *)
Starting == {"stat", "create", "extend", "spawn"}
Commands ==
  /\ \A c, d \in CLIs : pc[c] # "idle" /\ pc[d] # "idle" => c = d
  /\ \A c \in CLIs :
       /\ pc[c] \in Starting => arg[c] \in Nat \ {0}
       /\ pc[c] \in {"check", "resize"} => arg[c] \in NewSizes
       /\ pc[c] = "create" => size = None
       /\ pc[c] = "extend" => size # None /\ (size = 0 \/ size < Bytes(arg[c]))
       /\ pc[c] = "resize" => size # None /\ size < arg[c]
       /\ pc[c] = "spawn" => size # None /\ size = Bytes(arg[c])

(* The file covers its file system and the disk that the VM has attached;  *)
(* there is nothing on an empty one.                                       *)
Coverage ==
  /\ size = None => fs = Blank /\ vm = "off"
  /\ size = 0 => fs = Blank
  /\ size # None => fs.size <= size
  /\ vm \notin {"off", "launched"} => size # None /\ disk <= size
  /\ vm \notin {"off", "launched"} /\ disk = 0 => fs = Blank
  /\ fs.type = "none" => fs = Blank /\ (data = "none" \/ shared)
  /\ vm \in {"formatted", "up"} => fs.type # "none" \/ shared
  /\ data = "lost" => shared

IInv == TypeOK /\ Commands /\ Coverage

(* In range, the bytes of a size are the size.                             *)
LEMMA BytesExact ==
  ASSUME NEW gb \in (-Half)..(Half - 1)
  PROVE  Bytes(gb) = gb
<1>1. Half \in Nat \ {0}
  BY DiskAssumption
<1>2. gb + Half \in 0..(2 * Half - 1)
  BY <1>1
<1>3. \A x, m \in Nat : x < m => x % m = x
  OBVIOUS
<1>4. (gb + Half) % (2 * Half) = gb + Half
  BY <1>1, <1>2, <1>3
<1>. QED
  BY <1>1, <1>4 DEF Bytes

(* Every step keeps the types of the variables.                            *)
LEMMA TypeStep ==
  ASSUME TypeOK, Coverage, [Next]_vars
  PROVE  TypeOK'
<1> USE DiskAssumption DEF TypeOK, Blank, Ext4
<1>1. ASSUME NEW c \in CLIs, NEW gb \in Sizes, Start(c, gb) PROVE TypeOK'
  BY <1>1 DEF Start, Alone, Goto, guestVars
<1>2. ASSUME NEW c \in CLIs, NEW gb \in NewSizes, Resize(c, gb) PROVE TypeOK'
  BY <1>2 DEF Resize, Alone, Goto, guestVars
<1>3. ASSUME NEW c \in CLIs, StartStat(c) PROVE TypeOK'
  BY <1>3 DEF StartStat, Goto, guestVars
<1>4. ASSUME NEW c \in CLIs, StartCreate(c) PROVE TypeOK'
  BY <1>4 DEF StartCreate, Goto, SetSize
<1>5. ASSUME NEW c \in CLIs, StartExtend(c) PROVE TypeOK'
  BY <1>5 DEF StartExtend, Goto, SetSize, Truncatable
<1>6. ASSUME NEW c \in CLIs, StartDiskFails(c) PROVE TypeOK'
  BY <1>6 DEF StartDiskFails, guestVars
<1>7. ASSUME NEW c \in CLIs, StartSpawn(c) PROVE TypeOK'
  BY <1>7 DEF StartSpawn, Goto
<1>8. ASSUME NEW c \in CLIs, ResizeStat(c) PROVE TypeOK'
  BY <1>8 DEF ResizeStat, Goto, guestVars
<1>9. ASSUME NEW c \in CLIs, ResizeTruncate(c) PROVE TypeOK'
  BY <1>9 DEF ResizeTruncate, Goto, SetSize, Truncatable
<1>10. ASSUME NEW c \in CLIs, ResizeFails(c) PROVE TypeOK'
  BY <1>10 DEF ResizeFails, Goto, guestVars
<1>11. ASSUME NEW c \in CLIs, Interrupt(c) PROVE TypeOK'
  BY <1>11 DEF Interrupt, guestVars
<1>12. CASE Attach
  BY <1>12 DEF Attach, Coverage
<1>13. CASE FormatKeeps
  BY <1>13 DEF FormatKeeps
<1>14. CASE FormatMakes
  BY <1>14 DEF FormatMakes, Coverage
<1>15. CASE FormatFails
  BY <1>15 DEF FormatFails
<1>16. CASE Grow
  BY <1>16 DEF Grow
<1>17. CASE Write
  BY <1>17 DEF Write
<1>18. CASE Clobber
  BY <1>18 DEF Clobber
<1>19. CASE Off
  BY <1>19 DEF Off
<1>20. CASE UNCHANGED vars
  BY <1>20 DEF vars
<1>. QED
  BY <1>1, <1>2, <1>3, <1>4, <1>5, <1>6, <1>7, <1>8, <1>9, <1>10, <1>11,
     <1>12, <1>13, <1>14, <1>15, <1>16, <1>17, <1>18, <1>19, <1>20 DEF Next

(* Every step of a lone command acts on what the command has seen.         *)
LEMMA CommandsStep ==
  ASSUME Serial, InRange, TypeOK, Commands, [Next]_vars
  PROVE  Commands'
<1> USE DiskAssumption DEF TypeOK, Commands, Starting
<1>1. ASSUME NEW c \in CLIs, NEW gb \in Sizes, Start(c, gb) PROVE Commands'
  BY <1>1 DEF Start, Alone, Goto, guestVars
<1>2. ASSUME NEW c \in CLIs, NEW gb \in NewSizes, Resize(c, gb) PROVE Commands'
  BY <1>2 DEF Resize, Alone, Goto, guestVars
<1>3. ASSUME NEW c \in CLIs, StartStat(c) PROVE Commands'
  BY <1>3 DEF StartStat, Goto, guestVars
<1>4. ASSUME NEW c \in CLIs, StartCreate(c) PROVE Commands'
  BY <1>4 DEF StartCreate, Goto, SetSize
<1>5. ASSUME NEW c \in CLIs, StartExtend(c) PROVE Commands'
  BY <1>5 DEF StartExtend, Goto, SetSize, Truncatable
<1>6. ASSUME NEW c \in CLIs, StartDiskFails(c) PROVE Commands'
  BY <1>6 DEF StartDiskFails, guestVars
<1>7. ASSUME NEW c \in CLIs, StartSpawn(c) PROVE Commands'
  BY <1>7 DEF StartSpawn, Goto
<1>8. ASSUME NEW c \in CLIs, ResizeStat(c) PROVE Commands'
  BY <1>8 DEF ResizeStat, Goto, guestVars
<1>9. ASSUME NEW c \in CLIs, ResizeTruncate(c) PROVE Commands'
  <2>1. Bytes(arg[c]) = arg[c] /\ arg[c] \in Int
    BY <1>9, BytesExact DEF InRange, ResizeTruncate, Goto
  <2>. QED
    BY <1>9, <2>1 DEF ResizeTruncate, Goto, SetSize, Truncatable
<1>10. ASSUME NEW c \in CLIs, ResizeFails(c) PROVE Commands'
  BY <1>10 DEF ResizeFails, Goto, guestVars
<1>11. ASSUME NEW c \in CLIs, Interrupt(c) PROVE Commands'
  BY <1>11 DEF Interrupt, guestVars
<1>12. CASE Attach
  BY <1>12 DEF Attach
<1>13. CASE FormatKeeps
  BY <1>13 DEF FormatKeeps
<1>14. CASE FormatMakes
  BY <1>14 DEF FormatMakes
<1>15. CASE FormatFails
  BY <1>15 DEF FormatFails
<1>16. CASE Grow
  BY <1>16 DEF Grow
<1>17. CASE Write
  BY <1>17 DEF Write
<1>18. CASE Clobber
  BY <1>18 DEF Clobber
<1>19. CASE Off
  BY <1>19 DEF Off
<1>20. CASE UNCHANGED vars
  BY <1>20 DEF vars
<1>. QED
  BY <1>1, <1>2, <1>3, <1>4, <1>5, <1>6, <1>7, <1>8, <1>9, <1>10, <1>11,
     <1>12, <1>13, <1>14, <1>15, <1>16, <1>17, <1>18, <1>19, <1>20 DEF Next

(* Every step keeps the file at least as large as what relies on it.       *)
LEMMA CoverageStep ==
  ASSUME InRange, TypeOK, Commands, Coverage, [Next]_vars
  PROVE  Coverage'
<1> USE DiskAssumption DEF TypeOK, Commands, Coverage, Blank, Ext4
<1>1. ASSUME NEW c \in CLIs, NEW gb \in Sizes, Start(c, gb) PROVE Coverage'
  BY <1>1 DEF Start, Alone, Goto, guestVars
<1>2. ASSUME NEW c \in CLIs, NEW gb \in NewSizes, Resize(c, gb) PROVE Coverage'
  BY <1>2 DEF Resize, Alone, Goto, guestVars
<1>3. ASSUME NEW c \in CLIs, StartStat(c) PROVE Coverage'
  BY <1>3 DEF StartStat, Goto, guestVars
<1>4. ASSUME NEW c \in CLIs, StartCreate(c) PROVE Coverage'
  BY <1>4 DEF StartCreate, Goto, SetSize
<1>5. ASSUME NEW c \in CLIs, StartExtend(c) PROVE Coverage'
  BY <1>5 DEF StartExtend, Goto, SetSize, Truncatable
<1>6. ASSUME NEW c \in CLIs, StartDiskFails(c) PROVE Coverage'
  BY <1>6 DEF StartDiskFails, guestVars
<1>7. ASSUME NEW c \in CLIs, StartSpawn(c) PROVE Coverage'
  BY <1>7 DEF StartSpawn, Goto
<1>8. ASSUME NEW c \in CLIs, ResizeStat(c) PROVE Coverage'
  BY <1>8 DEF ResizeStat, Goto, guestVars
<1>9. ASSUME NEW c \in CLIs, ResizeTruncate(c) PROVE Coverage'
  <2>1. Bytes(arg[c]) = arg[c]
    BY <1>9, BytesExact DEF InRange, ResizeTruncate, Goto
  <2>. QED
    BY <1>9, <2>1 DEF ResizeTruncate, Goto, SetSize, Truncatable
<1>10. ASSUME NEW c \in CLIs, ResizeFails(c) PROVE Coverage'
  BY <1>10 DEF ResizeFails, Goto, guestVars
<1>11. ASSUME NEW c \in CLIs, Interrupt(c) PROVE Coverage'
  BY <1>11 DEF Interrupt, guestVars
<1>12. CASE Attach
  BY <1>12 DEF Attach
<1>13. CASE FormatKeeps
  BY <1>13 DEF FormatKeeps
<1>14. CASE FormatMakes
  BY <1>14 DEF FormatMakes
<1>15. CASE FormatFails
  BY <1>15 DEF FormatFails
<1>16. CASE Grow
  BY <1>16 DEF Grow
<1>17. CASE Write
  BY <1>17 DEF Write
<1>18. CASE Clobber
  BY <1>18 DEF Clobber
<1>19. CASE Off
  BY <1>19 DEF Off
<1>20. CASE UNCHANGED vars
  BY <1>20 DEF vars
<1>. QED
  BY <1>1, <1>2, <1>3, <1>4, <1>5, <1>6, <1>7, <1>8, <1>9, <1>10, <1>11,
     <1>12, <1>13, <1>14, <1>15, <1>16, <1>17, <1>18, <1>19, <1>20 DEF Next

(* The invariant holds in every state that lone commands can reach.        *)
THEOREM Invariance == ASSUME Serial, InRange PROVE Spec => []IInv
<1>1. Init => IInv
  <2> SUFFICES ASSUME Init PROVE IInv
    OBVIOUS
  <2> USE DiskAssumption DEF Init, Blank, Ext4
  <2>1. shared \in BOOLEAN
    OBVIOUS
  <2>2. /\ size \in (0..MaxFile) \cup {None}
        /\ fs \in [type: {"none", "ext4", "xfs"},
                   label: {"none", "other", "exasol-data"}, size: 0..MaxFile]
        /\ data \in {"none", "kept", "lost"}
    OBVIOUS
  <2>3. TypeOK
    BY <2>1, <2>2 DEF TypeOK
  <2>4. Commands /\ Coverage
    BY DEF Commands, Starting, Coverage
  <2>. QED
    BY <2>3, <2>4 DEF IInv
<1>2. IInv /\ [Next]_vars => IInv'
  BY TypeStep, CommandsStep, CoverageStep DEF IInv
<1>. QED
  BY <1>1, <1>2, PTL DEF Spec

(* No sequence of starts, resizes, crashes and boots loses the guest's     *)
(* files, unless a start has spawned a daemon beside a VM it overlooked.   *)
THEOREM Survival == ASSUME Serial, InRange PROVE Spec => []DataSurvives
<1>1. IInv => DataSurvives
  BY DEF IInv, Coverage, DataSurvives
<1>. QED
  BY <1>1, Invariance, PTL

(* Every variable keeps its type: no VM without a disk, no negative size.  *)
THEOREM TypeCorrect == ASSUME Serial, InRange PROVE Spec => []TypeOK
BY Invariance, PTL DEF IInv

(* The file system never claims more than the file has, whatever is grown, *)
(* formatted or interrupted, and whether or not resize2fs succeeds.        *)
THEOREM Fitting == ASSUME Serial, InRange PROVE Spec => []FsFits
<1>1. IInv => FsFits
  BY DiskAssumption DEF IInv, Coverage, Blank, FsFits
<1>. QED
  BY <1>1, Invariance, PTL

(* A start that reaches the daemon has a disk of the size asked for, if    *)
(* that one does not overflow.                                             *)
THEOREM RightSize == ASSUME Serial, InRange PROVE Spec => []SpawnsAtRequest
<1>1. IInv => SpawnsAtRequest
  <2> SUFFICES ASSUME IInv, NEW c \in CLIs, pc[c] = "spawn", arg[c] < Half
               PROVE  size = arg[c]
    BY DEF SpawnsAtRequest
  <2>1. arg[c] \in Nat \ {0} /\ size = Bytes(arg[c])
    BY DEF IInv, Commands, Starting
  <2>2. arg[c] \in (-Half)..(Half - 1)
    BY <2>1, DiskAssumption
  <2>. QED
    BY <2>1, <2>2, BytesExact
<1>. QED
  BY <1>1, Invariance, PTL

(* The data disk never gets smaller; start may be given any size.          *)
THEOREM Growth == ASSUME Serial, InRange PROVE Spec => GrowOnly
<1>1. IInv /\ [Next]_vars => [NoShrink]_vars
  <2> SUFFICES ASSUME IInv, Next PROVE NoShrink
    BY DEF vars, NoShrink, IInv, TypeOK
  <2> USE DiskAssumption DEF IInv, TypeOK, Commands, NoShrink
  <2>1. ASSUME NEW c \in CLIs, StartCreate(c) PROVE NoShrink
    BY <2>1 DEF StartCreate, Goto
  <2>2. ASSUME NEW c \in CLIs, StartExtend(c) PROVE NoShrink
    BY <2>2 DEF StartExtend, Goto, SetSize, Truncatable
  <2>3. ASSUME NEW c \in CLIs, ResizeTruncate(c) PROVE NoShrink
    <3>1. Bytes(arg[c]) = arg[c]
      BY <2>3, BytesExact DEF InRange, ResizeTruncate, Goto
    <3>. QED
      BY <2>3, <3>1 DEF ResizeTruncate, Goto, SetSize, Truncatable
  <2>4. \/ UNCHANGED size
        \/ \E c \in CLIs : StartCreate(c) \/ StartExtend(c) \/ ResizeTruncate(c)
    BY DEF Next, Start, StartStat, StartDiskFails, StartSpawn, Resize, ResizeStat,
           ResizeFails, Interrupt, Attach, FormatKeeps, FormatMakes, FormatFails,
           Grow, Write, Clobber, Off
  <2>. QED
    BY <2>1, <2>2, <2>3, <2>4
<1>. QED
  BY <1>1, Invariance, PTL DEF GrowOnly, Spec

=============================================================================
