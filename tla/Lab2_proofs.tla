------------------------------- MODULE Lab2_proofs -------------------------------
(***************************************************************************)
(* Proofs about three parts of lab 2 that share no state: the file         *)
(* descriptors of the HAL (FileTable), its interrupts with their alarms    *)
(* (Alarms), and the program that starts the DDA solver with the hardware  *)
(* that hears it (Springs).                                                *)
(***************************************************************************)
EXTENDS FileTable, Alarms, Springs, SequenceTheorems, WellFoundedInduction, TLAPS

(***************************************************************************)
(* FileTable, for every pool size, set of drivers, device names and flags: *)
(* an exclusive lock has one holder, and the pool implements the table of  *)
(* descriptors.                                                            *)
(*                                                                         *)
(* alt_fd_lock leaves the highest descriptor out of its search, so that    *)
(* two descriptors never lock one device is not inductive.  It is with     *)
(* these: a lock on the highest descriptor was taken when nobody shared    *)
(* its device (MarkAlone), a lock sits on a device and never on a file     *)
(* system (DeviceFlag, LockFlag), and no descriptor in use lies above the  *)
(* mark where alt_file_locked stops looking (BelowMark).                   *)
(***************************************************************************)

Stages ==
  [name : {"sys_init"}, k : Nat \ {0}] \union [name : {"redirect"}, k : 1 .. 3]
    \union [name : {"main", "exit", "stopped"}, k : {0}]

TypeOK ==
  /\ stage \in Stages
  /\ alt_dev_list \in Seq(Owners \ FileSystems)
  /\ alt_fs_list \in Seq(FileSystems)
  /\ dev \in [Fd -> Owners \union {NoDev}]
  /\ fd_flags \in [Fd -> SUBSET Flags]
  /\ alt_max_fd \in -1 .. ALT_MAX_FD - 1

StdBound    == \A f \in StdFd : dev[f] # NoDev
BelowMark   == \A f \in Fd \ StdFd : dev[f] # NoDev => f <= alt_max_fd
FreeIsClean == \A f \in Fd : dev[f] = NoDev => fd_flags[f] = {}
DeviceFlag  == \A f \in Fd : "dev" \in fd_flags[f] => dev[f] \notin FileSystems /\ alt_max_fd > 2
LockFlag    == \A f \in Fd : "excl" \in fd_flags[f] => "dev" \in fd_flags[f] /\ Started
MarkAlone   ==
  \A f \in Fd : f = alt_max_fd /\ "excl" \in fd_flags[f] =>
    \A g \in Fd \ {f} : dev[g] # dev[f]

TableInv ==
  /\ TypeOK /\ StdBound /\ BelowMark /\ FreeIsClean /\ DeviceFlag /\ LockFlag
  /\ MarkAlone /\ OneLockHolder

----------------------------------------------------------------------------
(* Facts about the operators.                                              *)

\* The bounds are integers and the standard streams are descriptors.
LEMMA Bounds ==
  /\ Fd \subseteq Nat /\ StdFd \subseteq Fd /\ ALT_MAX_FD \in Nat
  /\ FileSystems \subseteq Owners
BY FileTableAssumption DEF Fd, StdFd

\* A name resolves to a device that is not a file system, or to a file system
\* (alt_open.c, lines 110-120).
LEMMA FindKind ==
  ASSUME TypeOK, NEW path, NEW d \in Owners, Find(path, d)
  PROVE  IF IsDev(path) THEN d \notin FileSystems ELSE d \in FileSystems
<1>1. CASE IsDev(path)
  <2>1. PICK k \in DOMAIN alt_dev_list : alt_dev_list[k] = d
    BY <1>1 DEF Find, FindDev
  <2> QED BY <2>1, <1>1 DEF TypeOK
<1>2. CASE ~IsDev(path)
  <2>1. PICK k \in DOMAIN alt_fs_list : alt_fs_list[k] = d
    BY <1>2 DEF Find, FindFile
  <2> QED BY <2>1, <1>2 DEF TypeOK
<1> QED BY <1>1, <1>2

\* A free descriptor is not a standard stream.
LEMMA FreeAboveStd ==
  ASSUME TableInv, NEW i \in Fd, GetFd(i)
  PROVE  /\ dev[i] = NoDev /\ i \notin StdFd /\ i > 2 /\ fd_flags[i] = {}
         /\ HighWater(i) \in 3 .. ALT_MAX_FD - 1 /\ HighWater(i) >= i
         /\ HighWater(i) >= alt_max_fd
         /\ HighWater(i) \in {i, alt_max_fd}
BY Bounds DEF TableInv, TypeOK, GetFd, StdBound, FreeIsClean, HighWater, Fd, StdFd

\* Opening a name does not reach a locked device (alt_open.c, lines 57-92: the
\* search goes up to the mark, and no lock lies above it).
LEMMA OpenIsFree ==
  ASSUME TableInv, NEW path, NEW d \in Owners, NEW i \in Fd, CanOpen(path, d, i),
         NEW g \in Fd, "excl" \in fd_flags[g]
  PROVE  dev[g] # d
<1>1. /\ dev[g] # NoDev /\ g # i /\ "dev" \in fd_flags[g]
      /\ dev[g] \notin FileSystems /\ alt_max_fd > 2
  BY FreeAboveStd DEF CanOpen, TableInv, FreeIsClean, LockFlag, DeviceFlag
<1>2. g \in 0 .. HighWater(i)
  BY <1>1, FreeAboveStd, Bounds DEF CanOpen, TableInv, BelowMark, Fd, StdFd, TypeOK
<1>3. CASE IsDev(path)
  BY <1>1, <1>2, <1>3 DEF CanOpen, FileLocked
<1>4. CASE ~IsDev(path)
  BY <1>1, <1>4, FindKind DEF CanOpen, TableInv
<1> QED BY <1>3, <1>4

\* What a locking descriptor's search passes over: nobody who holds its device
\* has locked it (alt_fd_lock.c, lines 47-75).
LEMMA LockIsFree ==
  ASSUME TableInv, NEW f \in Fd, "dev" \in fd_flags[f],
         ~\E j \in 0 .. alt_max_fd - 1 : j # f /\ dev[j] = dev[f],
         NEW g \in Fd, g # f, dev[g] = dev[f]
  PROVE  g = alt_max_fd /\ "excl" \notin fd_flags[g]
<1>1. alt_max_fd > 2 /\ dev[g] # NoDev
  BY DEF TableInv, DeviceFlag, FreeIsClean
<1>2. g <= alt_max_fd /\ g \in Nat /\ alt_max_fd \in Nat
  BY <1>1, Bounds DEF TableInv, BelowMark, StdFd, TypeOK
<1>3. g = alt_max_fd
  BY <1>2
<1> QED BY <1>3 DEF TableInv, MarkAlone

----------------------------------------------------------------------------
(* The invariant.                                                          *)

\* Start-up begins with the three standard descriptors on the null device
\* (alt_fd_list, alt_dev.c).
LEMMA InitInv == Init => TableInv
<1> SUFFICES ASSUME Init PROVE TableInv
  OBVIOUS
<1>1. TypeOK
  BY FileTableAssumption DEF Init, TypeOK, Owners, Fd, StdFd, Flags, Stages
<1> QED BY <1>1, FileTableAssumption
     DEF Init, TableInv, StdBound, BelowMark, FreeIsClean, DeviceFlag, LockFlag,
         MarkAlone, OneLockHolder, Locked, Used, Owners, Fd, StdFd

\* Steps that leave the table alone (registering, SysInitDone, calls that only ask
\* the driver or fail).
LEMMA QuietStep ==
  ASSUME TableInv, UNCHANGED table, Started => Started', TypeOK'
  PROVE  TableInv'
BY DEF TableInv, StdBound, BelowMark, FreeIsClean, DeviceFlag, LockFlag, MarkAlone,
       OneLockHolder, Locked, Used, table

\* A free descriptor is taken; the descriptor itself is still free, or given back.
LEMMA MarkStep ==
  ASSUME TableInv, NEW i \in Fd, GetFd(i), alt_max_fd' = HighWater(i),
         UNCHANGED << dev, fd_flags >>, Started => Started', TypeOK'
  PROVE  TableInv'
<1>1. MarkAlone'
  BY FreeAboveStd, Bounds DEF TableInv, MarkAlone, TypeOK
<1>2. BelowMark' /\ DeviceFlag'
  BY FreeAboveStd, Bounds DEF TableInv, BelowMark, DeviceFlag, TypeOK
<1>3. StdBound' /\ FreeIsClean' /\ LockFlag'
  BY DEF TableInv, StdBound, FreeIsClean, LockFlag
<1>4. OneLockHolder'
  BY DEF TableInv, OneLockHolder, Locked, Used
<1> QED BY <1>1, <1>2, <1>3, <1>4 DEF TableInv

\* A descriptor is released.
LEMMA ReleaseStep ==
  ASSUME TableInv, NEW f \in Fd, Release(f), UNCHANGED alt_max_fd,
         Started => Started', TypeOK'
  PROVE  TableInv'
<1>1. CASE f > 2
  <2>1. /\ dev' = [dev EXCEPT ![f] = NoDev]
        /\ fd_flags' = [fd_flags EXCEPT ![f] = {}]
    BY <1>1 DEF Release
  <2>2. /\ \A g \in Fd : g # f => dev'[g] = dev[g] /\ fd_flags'[g] = fd_flags[g]
        /\ dev'[f] = NoDev /\ fd_flags'[f] = {}
    BY <2>1 DEF TableInv, TypeOK
  <2>3. f \notin StdFd
    BY <1>1 DEF StdFd
  <2>4. StdBound' /\ BelowMark' /\ FreeIsClean' /\ DeviceFlag' /\ LockFlag'
    BY <2>2, <2>3, Bounds DEF TableInv, StdBound, BelowMark, FreeIsClean, DeviceFlag, LockFlag
  <2>5. MarkAlone'
    <3> SUFFICES ASSUME NEW h \in Fd, h = alt_max_fd, "excl" \in fd_flags'[h],
                        NEW g \in Fd \ {h}
                 PROVE  dev'[g] # dev'[h]
      BY DEF MarkAlone
    <3>1. h # f /\ dev'[h] = dev[h] /\ "excl" \in fd_flags[h] /\ dev[h] # NoDev
      BY <2>2 DEF TableInv, FreeIsClean
    <3>2. dev[g] # dev[h]
      BY <3>1 DEF TableInv, MarkAlone
    <3> QED BY <3>1, <3>2, <2>2
  <2>6. OneLockHolder'
    BY <2>2 DEF TableInv, OneLockHolder, Locked, Used
  <2> QED BY <2>4, <2>5, <2>6 DEF TableInv
<1>2. CASE ~(f > 2)
  BY <1>2, QuietStep DEF Release, table
<1> QED BY <1>1, <1>2

\* A name is opened on a free descriptor.
LEMMA OpenStep ==
  ASSUME TableInv, NEW path, NEW flags \in SUBSET Flags, NEW d \in Owners, NEW i \in Fd,
         CanOpen(path, d, i),
         dev' = [dev EXCEPT ![i] = d],
         fd_flags' = [fd_flags EXCEPT ![i] = OpenedFlags(path, flags)],
         alt_max_fd' = HighWater(i), Started => Started', TypeOK'
  PROVE  TableInv'
<1>1. /\ \A g \in Fd : g # i => dev'[g] = dev[g] /\ fd_flags'[g] = fd_flags[g]
      /\ dev'[i] = d /\ fd_flags'[i] = OpenedFlags(path, flags)
  BY DEF TableInv, TypeOK
<1>2. /\ GetFd(i) /\ d # NoDev /\ "excl" \notin OpenedFlags(path, flags)
      /\ "dev" \in OpenedFlags(path, flags) => d \notin FileSystems
  BY FindKind, FileTableAssumption DEF TableInv, CanOpen, OpenedFlags, Mask
<1>3. StdBound'
  BY <1>1, <1>2, Bounds DEF TableInv, StdBound
<1>4. BelowMark' /\ DeviceFlag'
  <2>1. /\ alt_max_fd' \in Nat /\ alt_max_fd' > 2
        /\ i <= alt_max_fd' /\ alt_max_fd <= alt_max_fd'
    BY <1>2, FreeAboveStd, Bounds DEF TableInv, TypeOK
  <2>2. BelowMark'
    BY <1>1, <2>1, Bounds DEF TableInv, BelowMark, TypeOK
  <2>3. DeviceFlag'
    BY <1>1, <1>2, <2>1 DEF TableInv, DeviceFlag
  <2> QED BY <2>2, <2>3
<1>5. FreeIsClean' /\ LockFlag'
  BY <1>1, <1>2 DEF TableInv, FreeIsClean, LockFlag
<1>6. MarkAlone'
  <2> SUFFICES ASSUME NEW h \in Fd, h = alt_max_fd', "excl" \in fd_flags'[h],
                      NEW g \in Fd \ {h}
               PROVE  dev'[g] # dev'[h]
    BY DEF MarkAlone
  <2>1. h # i /\ h = alt_max_fd /\ dev'[h] = dev[h] /\ "excl" \in fd_flags[h]
    BY <1>1, <1>2, FreeAboveStd
  <2>2. CASE g = i
    BY <1>1, <2>1, <2>2, OpenIsFree
  <2>3. CASE g # i
    BY <1>1, <2>1, <2>3 DEF TableInv, MarkAlone
  <2> QED BY <2>2, <2>3
<1>7. OneLockHolder'
  BY <1>1, <1>2 DEF TableInv, OneLockHolder, Locked, Used
<1> QED BY <1>3, <1>4, <1>5, <1>6, <1>7 DEF TableInv

\* A standard stream is directed to the device it was opened on.
LEMMA RedirectStep ==
  ASSUME TableInv, NEW path, NEW flags \in SUBSET Flags, NEW d \in Owners, NEW i \in Fd,
         NEW stream \in StdFd, CanOpen(path, d, i), ~Started,
         dev' = [dev EXCEPT ![stream] = d],
         fd_flags' = [fd_flags EXCEPT ![stream] = OpenedFlags(path, flags)],
         alt_max_fd' = HighWater(i), TypeOK'
  PROVE  TableInv'
<1>1. /\ \A g \in Fd : g # stream => dev'[g] = dev[g] /\ fd_flags'[g] = fd_flags[g]
      /\ dev'[stream] = d /\ fd_flags'[stream] = OpenedFlags(path, flags)
  BY Bounds DEF TableInv, TypeOK
<1>2. /\ GetFd(i) /\ d # NoDev /\ "excl" \notin OpenedFlags(path, flags)
      /\ "dev" \in OpenedFlags(path, flags) => d \notin FileSystems
  BY FindKind, FileTableAssumption DEF TableInv, CanOpen, OpenedFlags, Mask
<1>3. \A g \in Fd : "excl" \notin fd_flags'[g]
  BY <1>1, <1>2 DEF TableInv, LockFlag
<1>4. StdBound' /\ FreeIsClean'
  BY <1>1, <1>2 DEF TableInv, StdBound, FreeIsClean
<1>5. BelowMark' /\ DeviceFlag'
  <2>1. /\ alt_max_fd \in Int /\ alt_max_fd' \in Int /\ Fd \subseteq Nat
        /\ alt_max_fd' >= alt_max_fd /\ alt_max_fd' > 2
    BY <1>2, FreeAboveStd, Bounds DEF TableInv, TypeOK
  <2>2. ASSUME NEW g \in Fd \ StdFd, dev'[g] # NoDev PROVE g <= alt_max_fd'
    <3>1. g <= alt_max_fd /\ g \in Nat
      BY <1>1, <2>1, <2>2 DEF TableInv, BelowMark
    <3> QED BY <2>1, <3>1
  <2>3. ASSUME NEW g \in Fd, "dev" \in fd_flags'[g] PROVE dev'[g] \notin FileSystems
    BY <1>1, <1>2, <2>3 DEF TableInv, DeviceFlag
  <2> QED BY <2>1, <2>2, <2>3 DEF BelowMark, DeviceFlag
<1> QED BY <1>3, <1>4, <1>5
     DEF TableInv, LockFlag, MarkAlone, OneLockHolder, Locked, Used

\* Only the flags of a descriptor in use change: a lock is taken or given back, or
\* fcntl sets others.
LEMMA FlagStep ==
  ASSUME TableInv, NEW f \in Used, NEW new \in SUBSET Flags,
         fd_flags' = [fd_flags EXCEPT ![f] = new],
         "dev" \in new => "dev" \in fd_flags[f],
         "excl" \in new => "dev" \in new,
         "excl" \in new => "excl" \in fd_flags[f] \/
            ~\E j \in 0 .. alt_max_fd - 1 : j # f /\ dev[j] = dev[f],
         UNCHANGED << dev, alt_max_fd >>, Started, Started', TypeOK'
  PROVE  TableInv'
<1>1. /\ f \in Fd /\ dev[f] # NoDev /\ fd_flags'[f] = new
      /\ \A g \in Fd : g # f => fd_flags'[g] = fd_flags[g]
  BY DEF Used, TableInv, TypeOK
<1>2. StdBound' /\ BelowMark' /\ FreeIsClean' /\ DeviceFlag' /\ LockFlag'
  BY <1>1 DEF TableInv, StdBound, BelowMark, FreeIsClean, DeviceFlag, LockFlag
<1>3. \A g \in Fd : "excl" \in new /\ g # f /\ dev[g] = dev[f] =>
        "excl" \notin fd_flags[g] /\ f # alt_max_fd
  <2> SUFFICES ASSUME NEW g \in Fd, "excl" \in new, g # f, dev[g] = dev[f]
               PROVE  "excl" \notin fd_flags[g] /\ f # alt_max_fd
    OBVIOUS
  <2>1. CASE "excl" \in fd_flags[f]
    BY <1>1, <2>1 DEF TableInv, OneLockHolder, MarkAlone, Locked, Used
  <2>2. CASE "excl" \notin fd_flags[f]
    BY <1>1, <2>2, LockIsFree
  <2> QED BY <2>1, <2>2
<1>4. MarkAlone'
  BY <1>1, <1>3 DEF TableInv, MarkAlone
<1>5. OneLockHolder'
  BY <1>1, <1>3 DEF TableInv, OneLockHolder, Locked, Used
<1> QED BY <1>2, <1>4, <1>5 DEF TableInv

----------------------------------------------------------------------------
(* Every step of the HAL keeps the invariant.                              *)

\* Types.
LEMMA TypeStep == TableInv /\ Next => TypeOK'
<1> SUFFICES ASSUME TableInv, Next PROVE TypeOK'
  OBVIOUS
<1> USE DEF TypeOK, TableInv
<1>1. \A i \in Fd : GetFd(i) => HighWater(i) \in -1 .. ALT_MAX_FD - 1
  BY Bounds DEF HighWater, Fd
<1>2. \A path, d, i : \A flags \in SUBSET Flags : OpenedFlags(path, flags) \in SUBSET Flags
  BY DEF OpenedFlags, Mask, Flags
<1>3. ASSUME NEW f \in Fd, Release(f)
      PROVE  dev' \in [Fd -> Owners \union {NoDev}] /\ fd_flags' \in [Fd -> SUBSET Flags]
  BY <1>3 DEF Release
<1>4. CASE RegisterDev \/ RegisterFs
  <2> DEFINE d == Registered[stage.k]
  <2>1. /\ stage.k \in Nat \ {0} /\ stage.k + 1 \in Nat \ {0}
        /\ stage.name = "sys_init" /\ stage.k <= Len(Registered)
    BY <1>4 DEF RegisterDev, RegisterFs, Registering, Stages
  <2>2. d \in Owners \ {DevNull}
    BY <2>1, FileTableAssumption
  <2>3. stage' \in Stages
    BY <1>4, <2>1 DEF RegisterDev, RegisterFs, Registering, Stages
  <2>4. UNCHANGED << dev, fd_flags, alt_max_fd >>
    BY <1>4 DEF RegisterDev, RegisterFs, Registering, table
  <2>5. CASE RegisterFs
    <3>1. /\ alt_fs_list' = << d >> \o alt_fs_list /\ UNCHANGED alt_dev_list
          /\ d \in FileSystems
      BY <2>5 DEF RegisterFs, AtHead
    <3>2. << d >> \in Seq(FileSystems)
      BY <3>1
    <3> HIDE DEF d
    <3>3. alt_fs_list' \in Seq(FileSystems)
      BY <3>1, <3>2
    <3> QED BY <2>3, <2>4, <3>1, <3>3
  <2>6. CASE RegisterDev
    <3>1. /\ alt_dev_list' = << d >> \o alt_dev_list /\ UNCHANGED alt_fs_list
          /\ d \notin FileSystems
      BY <2>6 DEF RegisterDev, AtHead
    <3>2. << d >> \in Seq(Owners \ FileSystems)
      BY <2>2, <3>1
    <3> HIDE DEF d
    <3>3. alt_dev_list' \in Seq(Owners \ FileSystems)
      BY <3>1, <3>2
    <3> QED BY <2>3, <2>4, <3>1, <3>3
  <2> QED BY <1>4, <2>5, <2>6
<1>5. CASE SysInitDone
  BY <1>5 DEF SysInitDone, lists, table, Stages
<1>6. CASE Redirect
  <2> DEFINE stream == << 1, 0, 2 >>[stage.k]
             flags  == IF stream = 0 THEN {"read"} ELSE {"write"}
             path   == Streams[stage.k]
  <2>1. stage.k \in 1 .. 3 /\ stage.name = "redirect"
    BY <1>6 DEF Redirect, Stages
  <2>2. stream \in Fd /\ flags \in SUBSET Flags
    BY <2>1, Bounds DEF StdFd, Flags
  <2>3. stage' \in Stages /\ UNCHANGED << alt_dev_list, alt_fs_list >>
    BY <1>6, <2>1 DEF Redirect, Stages, lists
  <2>4. CASE UNCHANGED table
    BY <2>3, <2>4 DEF table
  <2>5. ASSUME NEW i \in Fd, GetFd(i), alt_max_fd' = HighWater(i),
               UNCHANGED << dev, fd_flags >>
        PROVE  TypeOK'
    BY <1>1, <2>3, <2>5
  <2>6. ASSUME NEW d \in Owners, NEW i \in Fd, CanOpen(path, d, i),
               dev' = [dev EXCEPT ![stream] = d],
               fd_flags' = [fd_flags EXCEPT ![stream] = OpenedFlags(path, flags)],
               alt_max_fd' = HighWater(i)
        PROVE  TypeOK'
    <3> HIDE DEF stream, flags, path
    <3> QED BY <1>1, <1>2, <2>2, <2>3, <2>6 DEF CanOpen
  <2> QED BY <1>6, <2>4, <2>5, <2>6 DEF Redirect
<1>7. CASE MainReturns
  BY <1>7, <1>3, Bounds DEF MainReturns, lists, StdFd, Stages
<1>8. CASE BadFd
  BY <1>8 DEF BadFd, Syscall, lists, table
<1>9. ASSUME NEW path \in Paths, OpenNothing(path) PROVE TypeOK'
  BY <1>9 DEF OpenNothing, Syscall, lists, table
<1>10. ASSUME NEW path \in Paths, NEW flags \in OpenFlags, Open(path, flags)
       PROVE TypeOK'
  <2>1. UNCHANGED << stage, alt_dev_list, alt_fs_list >> /\ flags \in SUBSET Flags
    BY <1>10, FileTableAssumption DEF Open, Syscall, lists
  <2>2. PICK d \in Owners, i \in Fd :
          /\ GetFd(i)
          /\ dev' = [dev EXCEPT ![i] = d]
          /\ fd_flags' = [fd_flags EXCEPT ![i] = OpenedFlags(path, flags)]
          /\ alt_max_fd' = HighWater(i)
    BY <1>10 DEF Open, CanOpen
  <2> QED BY <1>1, <1>2, <2>1, <2>2
<1>11. ASSUME NEW path \in Paths, NEW flags, OpenRefused(path, flags)
       PROVE TypeOK'
  BY <1>11, <1>1, <1>3 DEF OpenRefused, Syscall, lists
<1>12. ASSUME NEW f \in Used, Close(f) PROVE TypeOK'
  BY <1>12, <1>3 DEF Close, Syscall, lists, Used
<1>13. ASSUME NEW f \in Used, FdLock(f) \/ FdUnlock(f) PROVE TypeOK'
  BY <1>13 DEF FdLock, FdUnlock, Syscall, lists, Used, Flags
<1>14. ASSUME NEW f \in Used, Fcntl(f) PROVE TypeOK'
  <2>1. UNCHANGED << stage, alt_dev_list, alt_fs_list, dev, alt_max_fd >> /\ f \in Fd
    BY <1>14 DEF Fcntl, Syscall, lists, Used
  <2>2. CASE UNCHANGED fd_flags
    BY <2>1, <2>2
  <2>3. ASSUME NEW flags \in SetFlags,
               fd_flags' = [fd_flags EXCEPT
                              ![f] = (@ \ FcntlMask) \union (flags \cap FcntlMask)]
        PROVE  TypeOK'
    <3>1. (fd_flags[f] \ FcntlMask) \union (flags \cap FcntlMask) \in SUBSET Flags
      BY <2>1 DEF FcntlMask, Flags
    <3> QED BY <2>1, <2>3, <3>1
  <2> QED BY <1>14, <2>2, <2>3 DEF Fcntl
<1>15. ASSUME NEW f \in Used, Ioctl(f) \/ Read(f) \/ Write(f) \/ Lseek(f) \/ Fstat(f) \/ Isatty(f)
       PROVE TypeOK'
  BY <1>15 DEF Ioctl, Read, Write, Lseek, Fstat, Isatty, Syscall, lists, table
<1>16. ASSUME NEW path \in Paths, Stat(path) PROVE TypeOK'
  <2>1. CASE StatOpened(path)
    BY <2>1, <1>1, <1>3 DEF StatOpened, CanOpen, Syscall, lists
  <2> QED BY <1>16, <1>9, <1>11, <2>1 DEF Stat
<1>17. CASE Exit \/ Kill
  BY <1>17 DEF Exit, Kill, Syscall, lists, table, Stages
<1> QED
  BY <1>4, <1>5, <1>6, <1>7, <1>8, <1>9, <1>10, <1>11, <1>12, <1>13, <1>14, <1>15, <1>16,
     <1>17 DEF Next

\* Every call keeps the invariant of the descriptor table.
LEMMA NextInv == TableInv /\ [Next]_vars => TableInv'
<1> SUFFICES ASSUME TableInv, [Next]_vars PROVE TableInv'
  OBVIOUS
<1>1. CASE UNCHANGED vars
  BY <1>1, QuietStep DEF vars, lists, table, Started, TableInv, TypeOK
<1>2. CASE Next
  <2> USE TypeStep
  <2>1. Started => Started'
    <3>1. RegisterDev \/ RegisterFs \/ SysInitDone \/ Redirect => ~Started
      BY DEF RegisterDev, RegisterFs, Registering, SysInitDone, Redirect, Started
    <3>2. BadFd \/ MainReturns \/ Exit \/ Kill => Started'
      BY DEF BadFd, MainReturns, Exit, Kill, Syscall, SystemUp, Started
    <3>3. ASSUME NEW path \in Paths, OpenNothing(path) \/ Stat(path) PROVE Started'
      BY <3>3 DEF OpenNothing, OpenRefused, Stat, StatOpened, Syscall, SystemUp, Started
    <3>4. ASSUME NEW path \in Paths, NEW flags \in OpenFlags,
                 Open(path, flags) \/ OpenRefused(path, flags)
          PROVE  Started'
      BY <3>4 DEF Open, OpenRefused, Syscall, SystemUp, Started
    <3>5. ASSUME NEW f \in Used, \/ Close(f) \/ FdLock(f) \/ FdUnlock(f) \/ Ioctl(f) \/ Fcntl(f)
                                 \/ Read(f) \/ Write(f) \/ Lseek(f) \/ Fstat(f) \/ Isatty(f)
          PROVE  Started'
      BY <3>5 DEF Close, FdLock, FdUnlock, Ioctl, Fcntl, Read, Write, Lseek, Fstat, Isatty,
                  Syscall, SystemUp, Started
    <3> QED BY <1>2, <3>1, <3>2, <3>3, <3>4, <3>5 DEF Next
  <2>2. CASE RegisterDev \/ RegisterFs \/ SysInitDone \/ BadFd \/ Exit \/ Kill
    <3>1. UNCHANGED table
      BY <2>2 DEF RegisterDev, RegisterFs, Registering, SysInitDone, BadFd, Exit, Kill
    <3> QED BY <1>2, <2>1, <3>1, QuietStep
  <2>3. CASE Redirect
    <3> DEFINE stream == << 1, 0, 2 >>[stage.k]
               flags  == IF stream = 0 THEN {"read"} ELSE {"write"}
               path   == Streams[stage.k]
    <3>1. CASE UNCHANGED table
      BY <1>2, <2>1, <3>1, QuietStep
    <3>2. ASSUME NEW d \in Owners, NEW i \in Fd, GetFd(i), alt_max_fd' = HighWater(i),
                 UNCHANGED << dev, fd_flags >>
          PROVE  TableInv'
      BY <1>2, <2>1, <3>2, MarkStep
    <3>3. ASSUME NEW d \in Owners, NEW i \in Fd, CanOpen(path, d, i),
                 dev' = [dev EXCEPT ![stream] = d],
                 fd_flags' = [fd_flags EXCEPT ![stream] = OpenedFlags(path, flags)],
                 alt_max_fd' = HighWater(i)
          PROVE  TableInv'
      <4>1. flags \in SUBSET Flags /\ ~Started
        BY <2>3 DEF Flags, Redirect, Started
      <4>2. stage.k \in 1 .. 3
        BY <2>3 DEF Redirect, TableInv, TypeOK, Stages
      <4>3. stream \in StdFd
        BY <4>2 DEF StdFd
      <4> HIDE DEF stream, flags, path
      <4> QED BY <1>2, <3>3, <4>1, <4>3, RedirectStep
    <3> QED BY <2>3, <3>1, <3>2, <3>3 DEF Redirect
  <2>4. CASE MainReturns
    BY <1>2, <2>1, <2>4, ReleaseStep, Bounds DEF MainReturns, StdFd
  <2>5. ASSUME NEW path \in Paths, OpenNothing(path) PROVE TableInv'
    BY <1>2, <2>1, <2>5, QuietStep DEF OpenNothing
  <2>6. ASSUME NEW path \in Paths, NEW flags \in OpenFlags, Open(path, flags)
        PROVE TableInv'
    BY <1>2, <2>1, <2>6, OpenStep, FileTableAssumption DEF Open
  <2>7. ASSUME NEW path \in Paths, NEW flags, OpenRefused(path, flags)
        PROVE TableInv'
    <3>1. PICK i \in Fd : GetFd(i) /\ Release(i) /\ alt_max_fd' = HighWater(i)
      BY <2>7 DEF OpenRefused
    <3>2. UNCHANGED << dev, fd_flags >>
      BY <3>1, FreeAboveStd DEF Release, TableInv, TypeOK
    <3> QED BY <1>2, <2>1, <3>1, <3>2, MarkStep
  <2>8. ASSUME NEW f \in Used, Close(f) PROVE TableInv'
    BY <1>2, <2>1, <2>8, ReleaseStep DEF Close, Used
  <2>9. ASSUME NEW f \in Used, FdLock(f) PROVE TableInv'
    <3>1. CASE UNCHANGED fd_flags
      BY <1>2, <2>1, <2>9, <3>1, QuietStep DEF FdLock, table
    <3>2. CASE /\ ~\E j \in 0 .. alt_max_fd - 1 : j # f /\ dev[j] = dev[f]
               /\ fd_flags' = [fd_flags EXCEPT ![f] = @ \union {"excl"}]
      <4>1. fd_flags[f] \union {"excl"} \in SUBSET Flags
        BY DEF TableInv, TypeOK, Used, Flags
      <4> QED BY <1>2, <2>1, <2>9, <3>2, <4>1, FlagStep DEF FdLock, Syscall, SystemUp, Started
    <3> QED BY <2>9, <3>1, <3>2 DEF FdLock
  <2>10. ASSUME NEW f \in Used, FdUnlock(f) PROVE TableInv'
    <3>1. fd_flags[f] \ {"excl"} \in SUBSET Flags
      BY DEF TableInv, TypeOK, Used
    <3> QED BY <1>2, <2>1, <2>10, <3>1, FlagStep DEF FdUnlock, Syscall, SystemUp, Started
  <2>11. ASSUME NEW f \in Used, Fcntl(f) PROVE TableInv'
    <3>1. CASE UNCHANGED fd_flags
      BY <1>2, <2>1, <2>11, <3>1, QuietStep DEF Fcntl, table
    <3>2. ASSUME NEW flags \in SetFlags,
                 fd_flags' = [fd_flags EXCEPT
                                ![f] = (@ \ FcntlMask) \union (flags \cap FcntlMask)]
          PROVE  TableInv'
      <4>1. /\ f \in Fd /\ fd_flags[f] \in SUBSET Flags
            /\ "excl" \in fd_flags[f] => "dev" \in fd_flags[f]
        BY DEF TableInv, TypeOK, Used, LockFlag
      <4> DEFINE new == (fd_flags[f] \ FcntlMask) \union (flags \cap FcntlMask)
      <4>2. /\ new \in SUBSET Flags
            /\ "dev" \in new <=> "dev" \in fd_flags[f]
            /\ "excl" \in new <=> "excl" \in fd_flags[f]
        BY <4>1 DEF FcntlMask, Flags
      <4>3. fd_flags' = [fd_flags EXCEPT ![f] = new]
        BY <3>2
      <4> HIDE DEF new
      <4> QED BY <1>2, <2>1, <2>11, <4>1, <4>2, <4>3, FlagStep DEF Fcntl, Syscall, SystemUp, Started
    <3> QED BY <2>11, <3>1, <3>2 DEF Fcntl
  <2>12. ASSUME NEW f \in Used,
                Ioctl(f) \/ Read(f) \/ Write(f) \/ Lseek(f) \/ Fstat(f) \/ Isatty(f)
         PROVE TableInv'
    <3>1. UNCHANGED table
      BY <2>12 DEF Ioctl, Read, Write, Lseek, Fstat, Isatty
    <3> QED BY <1>2, <2>1, <3>1, QuietStep
  <2>13. ASSUME NEW path \in Paths, Stat(path) PROVE TableInv'
    <3>1. ASSUME StatOpened(path) PROVE TableInv'
      <4>1. PICK i \in Fd : GetFd(i) /\ Release(i) /\ alt_max_fd' = HighWater(i)
        BY <3>1 DEF StatOpened, CanOpen
      <4>2. UNCHANGED << dev, fd_flags >>
        BY <4>1, FreeAboveStd DEF Release, TableInv, TypeOK
      <4> QED BY <1>2, <2>1, <4>1, <4>2, MarkStep
    <3> QED BY <2>5, <2>7, <2>13, <3>1 DEF Stat
  <2> QED
    BY <1>2, <2>2, <2>3, <2>4, <2>5, <2>6, <2>7, <2>8, <2>9, <2>10, <2>11, <2>12, <2>13 DEF Next
<1> QED BY <1>1, <1>2

\* The invariant of the descriptor table, throughout start-up and every call
\* (alt_main.c, alt_open.c, alt_close.c, alt_fd_lock.c, ...).
THEOREM TableInvariant == Spec => []TableInv
<1> QED BY InitInv, NextInv, PTL DEF Spec

\* Two descriptors never hold the same device exclusively, although alt_fd_lock
\* does not look at the highest descriptor (alt_fd_lock.c, line 61).
THEOREM OneLockHolderCorrect == Spec => []OneLockHolder
<1>1. TableInv => OneLockHolder
  BY DEF TableInv
<1> QED BY TableInvariant, <1>1, PTL

----------------------------------------------------------------------------
(* The pool implements the table of descriptors.                           *)

\* The program runs through a system call.
LEMMA SyscallRuns == Syscall => D!Running
BY DEF Syscall, SystemUp, Started, D!Running

\* A step that leaves the table alone is a stutter of the table of descriptors, the
\* start of the program, or one of its other calls.
LEMMA QuietRefines ==
  ASSUME UNCHANGED << dev, fd_flags >>,
         \/ UNCHANGED ret /\ (Started' = Started \/ (~Started /\ Started'))
         \/ D!Running /\ ret' \in -1 .. 1
  PROVE  [D!Next]_(D!vars)
<1>1. Locked' = Locked
  BY DEF Locked, Used
<1> QED BY <1>1 DEF D!Next, D!Other, D!Start, D!vars

\* Releasing a descriptor closes it in the abstract table, or does nothing for a
\* standard one (alt_release_fd.c).
LEMMA ReleaseRefines ==
  ASSUME TableInv, NEW f \in Used, Release(f), D!Running, ret' \in -1 .. 0
  PROVE  [D!Next]_(D!vars)
<1>1. CASE f > 2
  <2>1. /\ f \in Fd /\ dev[f] # NoDev /\ f \notin StdFd
        /\ dev' = [dev EXCEPT ![f] = NoDev]
        /\ fd_flags' = [fd_flags EXCEPT ![f] = {}]
    BY <1>1 DEF Used, Release, StdFd
  <2>2. Locked' = Locked \ {f}
    BY <2>1 DEF Locked, Used, TableInv, TypeOK
  <2>3. D!Close(f)
    BY <2>1, <2>2 DEF D!Close
  <2> QED BY <2>1, <2>3 DEF D!Next
<1>2. CASE ~(f > 2)
  BY <1>2, QuietRefines DEF Release
<1> QED BY <1>1, <1>2

\* An open that succeeds takes a free descriptor on a device nobody has locked
\* (alt_open.c).
LEMMA OpenRefines ==
  ASSUME TableInv, NEW path \in Paths, NEW flags \in OpenFlags, Open(path, flags)
  PROVE  [D!Next]_(D!vars)
<1>1. PICK d \in Owners, i \in Fd :
        /\ CanOpen(path, d, i)
        /\ dev' = [dev EXCEPT ![i] = d]
        /\ fd_flags' = [fd_flags EXCEPT ![i] = OpenedFlags(path, flags)]
        /\ ret' = i
  BY DEF Open, Returns
<1>2. dev[i] = NoDev /\ d # NoDev /\ dev'[i] = d
  BY <1>1, FileTableAssumption DEF CanOpen, GetFd, TableInv, TypeOK
<1>3. \A g \in Locked : dev[g] # d
  BY <1>1, OpenIsFree DEF Locked, Used
<1>4. Locked' = Locked
  <2>1. "excl" \notin fd_flags'[i] /\ "excl" \notin fd_flags[i]
    BY <1>1, <1>2 DEF OpenedFlags, Mask, TableInv, TypeOK, FreeIsClean
  <2> QED BY <1>1, <2>1 DEF Locked, Used, TableInv, TypeOK
<1>5. D!Open(i, d)
  BY <1>1, <1>2, <1>3, <1>4, SyscallRuns DEF D!Open, Open
<1> QED BY <1>2, <1>5 DEF D!Next

\* Start-up directs a standard stream (alt_io_redirect.c).
LEMMA RedirectRefines ==
  ASSUME TableInv, Redirect
  PROVE  [D!Next]_(D!vars)
<1> DEFINE stream == << 1, 0, 2 >>[stage.k]
           flags  == IF stream = 0 THEN {"read"} ELSE {"write"}
           path   == Streams[stage.k]
<1>1. CASE UNCHANGED << dev, fd_flags >>
  <2>1. UNCHANGED ret /\ ~Started
    BY DEF Redirect, Started
  <2> QED BY <1>1, <2>1, QuietRefines DEF Started
<1>2. ASSUME NEW d \in Owners, NEW i \in Fd, CanOpen(path, d, i),
             dev' = [dev EXCEPT ![stream] = d],
             fd_flags' = [fd_flags EXCEPT ![stream] = OpenedFlags(path, flags)]
      PROVE  [D!Next]_(D!vars)
  <2>1. stage.k \in 1 .. 3 /\ ~Started /\ ret' = ret
    BY DEF Redirect, TableInv, TypeOK, Stages, Started
  <2>2. stream \in StdFd /\ stream \in Fd
    BY <2>1, Bounds DEF StdFd
  <2> HIDE DEF stream, flags, path
  <2>3. Locked = {}
    BY <2>1 DEF Locked, Used, TableInv, LockFlag
  <2>4. "excl" \notin OpenedFlags(path, flags) /\ d # NoDev
    BY FileTableAssumption DEF OpenedFlags, Mask
  <2>5. Locked' = {}
    BY <1>2, <2>1, <2>2, <2>4 DEF Locked, Used, TableInv, TypeOK, LockFlag
  <2>6. dev'[stream] = d
    BY <1>2, <2>2 DEF TableInv, TypeOK
  <2>7. D!Redirect(stream, d)
    BY <1>2, <2>1, <2>2, <2>3, <2>4, <2>5 DEF D!Redirect, Started
  <2> QED BY <2>2, <2>6, <2>7 DEF D!Next
<1> QED BY <1>1, <1>2 DEF Redirect, table

\* A lock that is granted is on a device that no other descriptor has locked, nor
\* open, but for the one at the mark (alt_fd_lock.c).
LEMMA LockRefines ==
  ASSUME TableInv, NEW f \in Used, FdLock(f)
  PROVE  [D!Next]_(D!vars)
<1>1. CASE UNCHANGED fd_flags
  BY <1>1, QuietRefines, SyscallRuns DEF FdLock, Fails, Returns
<1>2. CASE /\ ~\E j \in 0 .. alt_max_fd - 1 : j # f /\ dev[j] = dev[f]
           /\ fd_flags' = [fd_flags EXCEPT ![f] = @ \union {"excl"}]
           /\ ret' = 0
  <2>1. f \in Fd /\ dev[f] # NoDev /\ "dev" \in fd_flags[f] /\ dev' = dev
    BY DEF Used, FdLock
  <2>2. ASSUME NEW g \in Fd \ {f}, dev[g] = dev[f] PROVE g \notin Locked /\ D!Highest(g)
    <3>1. g = alt_max_fd /\ "excl" \notin fd_flags[g] /\ alt_max_fd > 2
      BY <1>2, <2>1, <2>2, LockIsFree DEF TableInv, DeviceFlag
    <3>2. ASSUME NEW h \in Fd, dev[h] # NoDev PROVE h <= g
      BY <3>1, <3>2, Bounds DEF TableInv, BelowMark, StdFd, TypeOK
    <3> QED BY <3>1, <3>2 DEF Locked, D!Highest
  <2>3. Locked' = Locked \union {f}
    BY <1>2, <2>1 DEF Locked, Used, TableInv, TypeOK
  <2>4. D!Running
    BY SyscallRuns DEF FdLock
  <2>5. D!Lock(f)
    BY <1>2, <2>1, <2>2, <2>3, <2>4 DEF D!Lock, D!Others
  <2> QED BY <2>1, <2>5 DEF D!Next
<1> QED BY <1>1, <1>2 DEF FdLock, Fails, Returns

\* Unlocking ends a lock, and changing flags touches none (alt_fd_unlock.c,
\* alt_fcntl.c).
LEMMA FlagsRefine ==
  ASSUME TableInv, NEW f \in Used, FdUnlock(f) \/ Fcntl(f)
  PROVE  [D!Next]_(D!vars)
<1>1. CASE FdUnlock(f)
  <2>1. f \in Fd /\ dev' = dev /\ ret' = 0
    BY <1>1 DEF FdUnlock, Used, Returns
  <2>2. Locked' = Locked \ {f}
    BY <1>1, <2>1 DEF FdUnlock, Locked, Used, TableInv, TypeOK
  <2>3. D!Unlock(f)
    BY <1>1, <2>1, <2>2, SyscallRuns DEF D!Unlock, FdUnlock
  <2> QED BY <2>1, <2>3 DEF D!Next
<1>2. CASE Fcntl(f) /\ UNCHANGED fd_flags
  BY <1>2, QuietRefines, SyscallRuns DEF Fcntl, Returns, Fails
<1>3. ASSUME Fcntl(f), NEW flags \in SetFlags,
             fd_flags' = [fd_flags EXCEPT
                            ![f] = (@ \ FcntlMask) \union (flags \cap FcntlMask)]
      PROVE  [D!Next]_(D!vars)
  <2>1. dev' = dev
    BY <1>3 DEF Fcntl
  <2>2. ret' = 0 \/ ret' = -1
    BY <1>3 DEF Fcntl, Returns, Fails
  <2>3. Locked' = Locked
    BY <1>3, <2>1 DEF Locked, Used, TableInv, TypeOK, FcntlMask
  <2> QED BY <1>3, <2>1, <2>2, <2>3, SyscallRuns DEF D!Next, D!Other, Fcntl
<1> QED BY <1>1, <1>2, <1>3 DEF Fcntl

\* Every step of the file layer is a step of the abstract table or none.
LEMMA NextRefines ==
  ASSUME TableInv, [Next]_vars
  PROVE  [D!Next]_(D!vars)
<1>1. CASE UNCHANGED vars
  BY <1>1, QuietRefines DEF vars, table, Started
<1>2. CASE RegisterDev \/ RegisterFs \/ SysInitDone \/ BadFd \/ Exit \/ Kill
  <2>1. UNCHANGED << dev, fd_flags >>
    BY <1>2 DEF RegisterDev, RegisterFs, Registering, SysInitDone, BadFd, Exit, Kill, table
  <2>2. CASE RegisterDev \/ RegisterFs \/ SysInitDone \/ Exit
    <3>1. ASSUME Registering PROVE ~Started /\ ~Started'
      <4>1. stage'.name = "sys_init"
        BY <3>1 DEF Registering, TableInv, TypeOK, Stages
      <4> QED BY <3>1, <4>1 DEF Registering, Started
    <3>2. UNCHANGED ret
      BY <2>2 DEF RegisterDev, RegisterFs, Registering, SysInitDone, Exit
    <3> QED BY <2>1, <2>2, <3>1, <3>2, QuietRefines DEF RegisterDev, RegisterFs,
               SysInitDone, Exit, SystemUp, Started
  <2>3. CASE BadFd \/ (Kill /\ ~Exit)
    <3>1. D!Running /\ ret' \in -1 .. 1
      BY <2>3, SyscallRuns DEF BadFd, Kill, Returns, Fails
    <3> QED BY <2>1, <3>1, QuietRefines
  <2> QED BY <1>2, <2>2, <2>3 DEF Kill
<1>3. CASE MainReturns
  <2>1. D!Running
    BY <1>3 DEF MainReturns, Started, D!Running
  <2> QED BY <1>3, <2>1, QuietRefines DEF MainReturns, Release, Returns
<1>4. ASSUME NEW path \in Paths, OpenNothing(path) PROVE [D!Next]_(D!vars)
  BY <1>4, QuietRefines, SyscallRuns DEF OpenNothing, Fails, table
<1>5. ASSUME NEW path \in Paths, NEW flags, OpenRefused(path, flags)
      PROVE  [D!Next]_(D!vars)
  <2>1. PICK i \in Fd : GetFd(i) /\ Release(i)
    BY <1>5 DEF OpenRefused
  <2>2. UNCHANGED << dev, fd_flags >>
    BY <2>1, FreeAboveStd DEF Release, TableInv, TypeOK
  <2> QED BY <1>5, <2>2, QuietRefines, SyscallRuns DEF OpenRefused, Fails
<1>6. ASSUME NEW f \in Used, Close(f) PROVE [D!Next]_(D!vars)
  BY <1>6, ReleaseRefines, SyscallRuns DEF Close, Returns, Fails
<1>7. ASSUME NEW f \in Used,
             Ioctl(f) \/ Read(f) \/ Write(f) \/ Lseek(f) \/ Fstat(f) \/ Isatty(f)
      PROVE  [D!Next]_(D!vars)
  <2>1. UNCHANGED << dev, fd_flags >>
    BY <1>7 DEF Ioctl, Read, Write, Lseek, Fstat, Isatty, table
  <2>2. D!Running /\ ret' \in -1 .. 1
    BY <1>7, SyscallRuns
       DEF Ioctl, Read, Write, Lseek, Fstat, Isatty, AskDriver, Driven, Fails, Returns
  <2> QED BY <2>1, <2>2, QuietRefines
<1>8. ASSUME NEW path \in Paths, Stat(path) PROVE [D!Next]_(D!vars)
  <2>1. ASSUME StatOpened(path) PROVE [D!Next]_(D!vars)
    <3>1. PICK i \in Fd : GetFd(i) /\ Release(i)
      BY <2>1 DEF StatOpened, CanOpen
    <3>2. UNCHANGED << dev, fd_flags >>
      BY <3>1, FreeAboveStd DEF Release, TableInv, TypeOK
    <3>3. D!Running /\ ret' \in -1 .. 1
      BY <2>1, SyscallRuns DEF StatOpened, Driven, Returns
    <3> QED BY <3>2, <3>3, QuietRefines
  <2> QED BY <1>4, <1>5, <1>8, <2>1 DEF Stat
<1> QED
  BY <1>1, <1>2, <1>3, <1>4, <1>5, <1>6, <1>7, <1>8, OpenRefines, RedirectRefines, LockRefines,
     FlagsRefine DEF Next

\* At power-up the pool is the abstract table with nothing locked.
LEMMA InitRefines == Init => D!Init
<1> SUFFICES ASSUME Init PROVE D!Init
  OBVIOUS
<1>1. ~Started
  BY DEF Init, Started
<1>2. /\ \A f \in Fd : dev[f] # NoDev <=> f \in StdFd
      /\ Locked = {} /\ ret = 0
  BY FileTableAssumption DEF Init, Locked, Used, Owners, Fd, StdFd
<1> QED BY <1>1, <1>2 DEF D!Init

\* The descriptor pool with its high-water mark is a table of descriptors: calls
\* that fail leave nothing behind, opens get a free descriptor, the standard streams
\* stay, a locked device is opened by nobody, and a lock is refused to a device in
\* use, unless its other user is the highest descriptor (alt_open.c, alt_close.c,
\* alt_release_fd.c, alt_fd_lock.c).
THEOREM TableOfDescriptorsCorrect == Spec => TableOfDescriptors
<1>1. TableInv /\ [Next]_vars => [D!Next]_(D!vars)
  BY NextRefines
<1> QED BY <1>1, TableInvariant, InitRefines, PTL DEF Spec, TableOfDescriptors, D!Spec

(***************************************************************************)
(* Interrupts and Alarms, for every set of interrupts and alarms: a        *)
(* routine is interrupted only by more urgent ones, what the processor     *)
(* lets through is what the running routine leaves open, and no interrupt  *)
(* is served without its handler.                                          *)
(*                                                                         *)
(* The properties speak of moments with interrupts on; the invariant has   *)
(* to say of every label of a section what it will put back.  A frame is   *)
(* interrupted only where interrupts are on, so all frames but the running *)
(* one are the program at rest, the last, or routines that opened          *)
(* themselves (Below); each of these holds the mask of the frame under it, *)
(* so alt_priority_mask follows from the stack alone (Masks).  Handlers    *)
(* come and go only when nothing but the program is on the stack.          *)
(***************************************************************************)

Quiet    == {"ready", "open", "opened"}
Switches == {"activate", "deactivate", "write"}
Sections == Switches \union {"enter", "exit", "time", "join", "joinList", "unlink",
                             "unlinkSelf", "leave"}
Walking  == {"walk", "step", "call", "called"}
Callers  == DOMAIN After
Labels   == Quiet \union Sections \union Walking \union {"isr", "served", "poll", "remove"}
Element  == Alarm \union {List}

FrameSet ==
  [irq : Irqs \union {Main}, at : Labels, ret : Labels, ctx : Seq(BOOLEAN),
   id : Irqs \union Alarm \union {Main}, mask : SUBSET Irqs,
   alarm : Element \union {NoAlarm}, next : Element \union {NoAlarm}]

Words ==
  /\ pie \in BOOLEAN
  /\ ienable \subseteq Irqs /\ lines \subseteq Irqs
  /\ alt_irq_active \subseteq Irqs /\ alt_priority_mask \subseteq Irqs /\ alt_irq \subseteq Irqs

StackTypes == stack \in Seq(FrameSet) /\ Len(stack) >= 1

ListTypes ==
  /\ llist_next \in [Element -> Element \union {NoAlarm}]
  /\ llist_previous \in [Element -> Element \union {NoAlarm}]
  /\ alt_tick_rate \in BOOLEAN /\ alt_nticks \in 0 .. Wrap - 1
  /\ time \in [Alarm -> 0 .. Wrap - 1] /\ rollover \in [Alarm -> BOOLEAN]

AlarmTypes == Words /\ StackTypes /\ ListTypes

----------------------------------------------------------------------------
(* The running frame.                                                      *)

\* The program's frame; a routine that lets others interrupt it.
Own(f)    == f.at = "ready" \/ (f.at \in Sections /\ f.ret = "ready")
Opened(f) == f.at \in {"open", "opened"} \/ (f.at \in Sections /\ f.ret = "open")

\* The status a section puts back at its end.
PutsBack(f) == f.ret \in {"ready", "open"}

\* What a section has saved: one status, or two in the nested call of Register.
Saved(f) == f.at \in Sections =>
  /\ f.ret \in Callers
  /\ \/ f.ctx = << PutsBack(f) >>
     \/ /\ f.ctx = << FALSE, PutsBack(f) >>
        /\ f.ret = "ready" /\ f.at \in Switches \union {"leave"}
  /\ f.at \in {"enter", "exit"} => f.ret = "ready"

\* Interrupts are on exactly outside sections, routines and the handler.
PieKept == pie <=> Running.at \in Quiet

\* The one register is the intersection of the two words, but for the moment
\* between their writes; an interrupt is switched only under the full mask.
Enabled ==
  /\ Running.at # "write" => ienable = alt_irq_active \intersect alt_priority_mask
  /\ Running.at \in Switches => alt_priority_mask = Irqs
  /\ Running.at \in {"activate", "deactivate", "enter", "exit"} => Running.id \in Irqs

\* What is active has a handler, or is being switched off with it.
ActiveHaveHandlers ==
  /\ alt_irq_active \subseteq alt_irq \union
       (IF Running.at \in {"exit", "deactivate"} THEN {Running.id} ELSE {})
  /\ Running.at \in {"enter", "activate"} => Running.id \in alt_irq

\* So has every interrupt that is being served.
Handlers ==
  \A k \in 1 .. Len(stack) : stack[k].irq # Main => stack[k].irq \in alt_irq

----------------------------------------------------------------------------
(* The frames below it.                                                    *)

MoreUrgent(i) == {k \in Irqs : k < i}

\* The mask under frame k.
Under(k) == IF k + 1 < Len(stack) THEN MoreUrgent(stack[k + 1].irq) ELSE Irqs

Below ==
  /\ \A k \in 2 .. Len(stack) : stack[k].at \in Quiet
  /\ \A k \in 1 .. Len(stack) :
       /\ Own(stack[k]) <=> k = Len(stack)
       /\ Own(stack[k]) \/ stack[k].at = "poll" <=> stack[k].irq = Main

Masks ==
  /\ alt_priority_mask = IF Opened(Running) THEN MoreUrgent(Running.irq) ELSE Under(1)
  /\ \A k \in 1 .. Len(stack) : Opened(stack[k]) => stack[k].mask = Under(k)

Order == \A j, k \in 1 .. Len(stack) :
  j < k /\ k < Len(stack) => stack[j].irq = Main \/ stack[j].irq < stack[k].irq

----------------------------------------------------------------------------
(* The list.                                                               *)

\* The alarms that were ever started, and the head.
Linked == {e \in Element : llist_next[e] # NoAlarm}

\* Pointers lead from these to these, and so do a walk and the list's operations.
Links ==
  /\ List \in Linked
  /\ \A e \in Linked : llist_next[e] \in Linked /\ llist_previous[e] \in Linked
  /\ Running.at = "walk" => Running.alarm \in Linked
  /\ \/ Running.at \in {"step", "call", "called"}
     \/ Running.at \in Sections /\ Running.ret \in {"call", "remove"}
     => Running.alarm \in Alarm \intersect Linked /\ Running.next \in Linked
  /\ Running.at \in {"joinList", "unlink", "unlinkSelf"} => Running.id \in Alarm \intersect Linked
  /\ Running.at \in {"time", "join"} => Running.id \in Alarm

\* The inductive invariant.
Inv ==
  /\ AlarmTypes /\ Saved(Running) /\ PieKept /\ Enabled /\ ActiveHaveHandlers
  /\ Handlers /\ Below /\ Masks /\ Order /\ Links
-----------------------------------------------------------------------------
(* Lemmas.                                                                 *)

\* The most urgent of some interrupts is one of them.
LEMMA MinOf == ASSUME NEW S, S \subseteq Nat, S # {} PROVE Min(S) \in S /\ \A k \in S : Min(S) <= k
<1>1. PICK R : R = OpToRel(<, Nat)
  OBVIOUS
<1>2. \A a, b \in Nat : << a, b >> \in R <=> a < b
  BY <1>1 DEF OpToRel
<1>3. IsWellFoundedOn(R, Nat)
  BY <1>1, NatLessThanWellFounded
<1>4. PICK x \in S : \A y \in S : ~(<< y, x >> \in R)
  BY <1>3, WFMin
<1>5. ASSUME NEW y \in S PROVE x <= y
  <2>1. ~(y < x) /\ x \in Nat /\ y \in Nat
    BY <1>2, <1>4
  <2> QED BY <2>1
<1> QED BY <1>5 DEF Min

\* What a step that changes only the running frame leaves.
LEMMA TopStep ==
  ASSUME AlarmTypes, NEW f \in FrameSet, stack' = [stack EXCEPT ![1] = f]
  PROVE  /\ stack' \in Seq(FrameSet) /\ Len(stack') = Len(stack) /\ Running' = f
         /\ stack'[1] = f /\ \A k \in 2 .. Len(stack) : stack'[k] = stack[k]
BY DEF AlarmTypes, StackTypes, Running

\* Frames have all their fields.
LEMMA Fields ==
  ASSUME AlarmTypes
  PROVE  /\ Running \in FrameSet
         /\ \A k \in 1 .. Len(stack) : stack[k] \in FrameSet
         /\ stack \in Seq(FrameSet) /\ 1 \in 1 .. Len(stack) /\ Len(stack) \in Nat
BY DEF AlarmTypes, StackTypes, Running

\* The program alone is on the stack, or something above it.
LEMMA WhoRuns ==
  ASSUME Inv
  PROVE  /\ Own(Running) => /\ Len(stack) = 1 /\ Running.irq = Main
                            /\ alt_priority_mask = Irqs
         /\ ~Own(Running) => Len(stack) >= 2
         /\ ~Own(Running) /\ Running.at # "poll" => Running.irq \in Irqs
<1>1. /\ stack \in Seq(FrameSet) /\ 1 \in 1 .. Len(stack) /\ Running \in FrameSet
      /\ Running = stack[1]
  BY Fields DEF Inv, Running
<1>2. /\ Own(Running) <=> 1 = Len(stack)
      /\ Own(Running) \/ Running.at = "poll" <=> Running.irq = Main
  BY <1>1 DEF Inv, Below
<1>8. PICK n \in Nat : n = Len(stack) /\ n >= 1
  BY <1>1, LenProperties
<1>7. /\ Own(Running) => n = 1
      /\ ~Own(Running) => n # 1 /\ (Running.at # "poll" => Running.irq # Main)
      /\ Own(Running) => Running.irq = Main
  BY <1>2, <1>8 DEF Own
<1>3. Own(Running) => ~Opened(Running)
  BY DEF Own, Opened, Sections, Switches
<1>4. ASSUME Own(Running) PROVE alt_priority_mask = Irqs
  <2>3. ~(1 + 1 < n)
    BY <1>7, <1>4
  <2>2. ~(1 + 1 < Len(stack))
    BY <1>8, <2>3
  <2>1. Under(1) = Irqs
    BY <2>2 DEF Under
  <2> QED BY <2>1, <1>3, <1>4 DEF Inv, Masks
<1>5. Running.irq \in Irqs \union {Main}
  BY <1>1 DEF FrameSet
<1>6. ~Own(Running) => n >= 2
  BY <1>8, <1>7
<1> QED BY <1>8, <1>7, <1>4, <1>5, <1>6

\* A running frame that stays what it is keeps what lies below it.
LEMMA SameFrame ==
  ASSUME Inv, NEW f \in FrameSet, stack' = [stack EXCEPT ![1] = f],
         f.irq = Running.irq, f.mask = Running.mask,
         Own(f) <=> Own(Running), Opened(f) <=> Opened(Running),
         f.at = "poll" <=> Running.at = "poll", UNCHANGED alt_priority_mask
  PROVE  Below' /\ Masks' /\ Order'
<1>1. /\ Len(stack') = Len(stack) /\ Running' = f
      /\ stack'[1] = f /\ \A k \in 2 .. Len(stack) : stack'[k] = stack[k]
  BY TopStep DEF Inv
<1>2. /\ stack \in Seq(FrameSet) /\ 1 \in 1 .. Len(stack) /\ Running = stack[1]
  BY Fields DEF Inv, Running
<1>3. \A k \in 1 .. Len(stack) :
        /\ stack'[k].irq = stack[k].irq /\ stack'[k].mask = stack[k].mask
        /\ Own(stack'[k]) <=> Own(stack[k])
        /\ Opened(stack'[k]) <=> Opened(stack[k])
        /\ stack'[k].at = "poll" <=> stack[k].at = "poll"
  BY <1>1, <1>2
<1>4. Below'
  <2>2. \A k \in 2 .. Len(stack') : stack'[k].at \in Quiet
    BY <1>1, <1>2 DEF Inv, Below
  <2>3. ASSUME NEW k \in 1 .. Len(stack')
        PROVE  /\ Own(stack'[k]) <=> k = Len(stack')
               /\ Own(stack'[k]) \/ stack'[k].at = "poll" <=> stack'[k].irq = Main
    <3>1. /\ Own(stack[k]) <=> k = Len(stack)
          /\ Own(stack[k]) \/ stack[k].at = "poll" <=> stack[k].irq = Main
      BY <1>1 DEF Inv, Below
    <3> QED BY <3>1, <1>1, <1>3
  <2> QED BY <2>2, <2>3 DEF Below
<1>5. \A k \in 1 .. Len(stack) : Under(k)' = Under(k)
  BY <1>1, <1>2, <1>3 DEF Under
<1>6. Masks'
  BY <1>1, <1>2, <1>3, <1>5 DEF Inv, Masks
<1>7. Order'
  BY <1>1, <1>2, <1>3 DEF Inv, Order
<1> QED BY <1>4, <1>6, <1>7

\* Where the callers of operations are, and where they go on.
LEMMA CallersAre ==
  /\ Callers = {"ready", "isr", "open", "call", "remove"}
  /\ After["ready"] = "ready" /\ After["isr"] = "served" /\ After["open"] = "opened"
  /\ After["call"] = "called" /\ After["remove"] = "step"
BY DEF Callers, After

\* The nested section saves a status before the one that is saved.
LEMMA PairOf == ASSUME NEW S, NEW a \in S, NEW b \in S PROVE << a >> \o << b >> = << a, b >>
<1>1. << a >> \in Seq(S) /\ << b >> \in Seq(S) /\ << a, b >> \in Seq(S)
  OBVIOUS
<1>2. /\ << a >> \o << b >> \in Seq(S) /\ Len(<< a >> \o << b >>) = 2
      /\ (<< a >> \o << b >>)[1] = a /\ (<< a >> \o << b >>)[2] = b
  BY <1>1, ConcatProperties
<1> DEFINE s == << a >> \o << b >>
           t == << a, b >>
<1>3. t \in Seq(S) /\ Len(t) = 2 /\ t[1] = a /\ t[2] = b
  OBVIOUS
<1>4. s \in Seq(S) /\ Len(s) = 2 /\ s[1] = a /\ s[2] = b
  BY <1>2
<1> HIDE DEF s, t
<1>5. \A i \in 1 .. 2 : s[i] = t[i]
  BY <1>3, <1>4
<1>6. s = t
  BY <1>3, <1>4, <1>5, SeqEqual
<1> QED BY <1>6 DEF s, t

\* A stack of one frame has but the first.
LEMMA UpToOne == \A n : n = 1 => \A k \in 1 .. n : k = 1
OBVIOUS

\* A step of the running frame that leaves the words of the masks alone.
LEMMA RunStep ==
  ASSUME Inv, NEW f \in FrameSet, stack' = [stack EXCEPT ![1] = f],
         f.irq = Running.irq, f.mask = Running.mask,
         Own(f) <=> Own(Running), Opened(f) <=> Opened(Running),
         f.at = "poll" <=> Running.at = "poll", UNCHANGED alt_priority_mask,
         alt_irq' = alt_irq \/ Own(Running)
  PROVE  /\ StackTypes' /\ Below' /\ Masks' /\ Order' /\ Running' = f /\ Handlers'
<1>1. /\ stack' \in Seq(FrameSet) /\ Len(stack') = Len(stack) /\ Running' = f
      /\ stack'[1] = f /\ \A k \in 2 .. Len(stack) : stack'[k] = stack[k]
  BY TopStep DEF Inv
<1>2. /\ stack \in Seq(FrameSet) /\ 1 \in 1 .. Len(stack) /\ Running = stack[1]
  BY Fields DEF Inv, Running
<1>3. StackTypes'
  BY <1>1 DEF Inv, AlarmTypes, StackTypes
<1>4. \A k \in 1 .. Len(stack) : stack'[k].irq = stack[k].irq
  BY <1>1, <1>2
<1>5. ASSUME alt_irq' = alt_irq PROVE Handlers'
  <2>1. ASSUME NEW k \in 1 .. Len(stack'), stack'[k].irq # Main
        PROVE  stack'[k].irq \in alt_irq'
    <3>1. stack'[k].irq = stack[k].irq /\ k \in 1 .. Len(stack)
      BY <1>1, <1>4
    <3> QED BY <3>1, <2>1, <1>5 DEF Inv, Handlers
  <2> QED BY <2>1 DEF Handlers
<1>6. ASSUME Own(Running) PROVE Handlers'
  <2>1. Len(stack') = 1 /\ stack'[1].irq = Main
    BY <1>1, <1>6, WhoRuns
  <2>2. \A k \in 1 .. Len(stack') : k = 1
    BY <2>1, UpToOne
  <2> QED BY <2>1, <2>2 DEF Handlers
<1> QED BY <1>1, <1>3, <1>5, <1>6, SameFrame

----------------------------------------------------------------------------
(* The invariant.                                                          *)

\* It holds when the system starts.
LEMMA AlarmsInitInv == AlarmsInit => Inv
<1> SUFFICES ASSUME AlarmsInit PROVE Inv
  OBVIOUS
<1> USE DEF AlarmsInit, InterruptsInit
<1>1. /\ stack = << Frame(Main, "ready") >> /\ Len(stack) = 1 /\ Len(stack) >= 1
      /\ Running = Frame(Main, "ready") /\ stack[1] = Running
      /\ \A k \in 1 .. Len(stack) : k = 1
  BY DEF Running
<1>2. Frame(Main, "ready") \in FrameSet
  BY DEF Frame, FrameSet, Labels, Quiet
<1>3. /\ Running.at = "ready" /\ Running.irq = Main
      /\ Own(Running) /\ ~Opened(Running)
  BY <1>1 DEF Frame, Own, Opened, Sections, Switches
<1>4. AlarmTypes
  <2>1. stack \in Seq(FrameSet)
    BY <1>1, <1>2
  <2>2. 0 \in 0 .. Wrap - 1
    BY AlarmsAssumption
  <2>3. alt_nticks \in 0 .. Wrap - 1 /\ time \in [Alarm -> 0 .. Wrap - 1]
    BY <2>2
  <2>4. /\ llist_next \in [Element -> Element \union {NoAlarm}]
        /\ llist_previous \in [Element -> Element \union {NoAlarm}]
    BY DEF Element
  <2>5. alt_nticks \in 0 .. Wrap - 1 /\ rollover \in [Alarm -> BOOLEAN]
        /\ alt_tick_rate \in BOOLEAN
    BY <2>3
  <2>6. /\ pie \in BOOLEAN /\ ienable \subseteq Irqs /\ lines \subseteq Irqs
        /\ alt_irq_active \subseteq Irqs /\ alt_priority_mask \subseteq Irqs
        /\ alt_irq \subseteq Irqs
    OBVIOUS
  <2> HIDE DEF AlarmsInit, InterruptsInit
  <2> QED BY <1>1, <2>1, <2>3, <2>4, <2>5, <2>6 DEF AlarmTypes, Words, StackTypes, ListTypes
<1>5. Saved(Running) /\ PieKept /\ Enabled /\ ActiveHaveHandlers /\ Handlers
  BY <1>1, <1>3 DEF Saved, PieKept, Enabled, ActiveHaveHandlers, Handlers, Quiet, Sections, Switches
<1>6. Below /\ Masks /\ Order
  BY <1>1, <1>3 DEF Below, Masks, Order, Under
<1>7. Links
  BY <1>1, <1>3, AlarmsAssumption DEF Links, Linked, Element, Sections, Switches
<1> QED BY <1>4, <1>5, <1>6, <1>7 DEF Inv

----------------------------------------------------------------------------
(* Sections.                                                               *)

\* What the list's invariant says of the running frame.
LEMMA LinksStep ==
  ASSUME Inv, UNCHANGED << llist_next, llist_previous >>,
         Running'.alarm = Running.alarm, Running'.next = Running.next,
         Running'.at # "walk",
         \/ Running'.at \in {"step", "call", "called"}
         \/ Running'.at \in Sections /\ Running'.ret \in {"call", "remove"}
         => \/ Running.at \in {"step", "call", "called"}
            \/ Running.at \in Sections /\ Running.ret \in {"call", "remove"},
         Running'.at \in {"joinList", "unlink", "unlinkSelf"} =>
           Running'.id \in Alarm \intersect Linked,
         Running'.at \in {"time", "join"} => Running'.id \in Alarm
  PROVE  Links'
<1>1. Linked' = Linked
  BY DEF Linked
<1> QED BY <1>1 DEF Inv, Links

\* A call of an operation (alt_irq_enable, alt_alarm_start and their like).
LEMMA CallStep ==
  ASSUME Inv, NEW label, NEW id, CallAt(label, id), Running.at \in {"ready", "isr", "open", "call"},
         label \in {"activate", "deactivate", "time", "unlink"},
         UNCHANGED << lines, masks, alt_irq, alarms >>,
         label \in {"activate", "deactivate"} => id \in Irqs /\ alt_priority_mask = Irqs,
         label = "activate" => id \in alt_irq,
         label \in {"time", "unlink"} => id \in Alarm,
         label = "unlink" => id \in Linked
  PROVE  Inv'
<1> DEFINE f == [Running EXCEPT !.ret = Running.at, !.at = label, !.id = id, !.ctx = << pie >>]
<1>1. /\ Running \in FrameSet /\ AlarmTypes /\ stack = stack
  BY Fields DEF Inv
<1>2. stack' = [stack EXCEPT ![1] = f]
  BY <1>1 DEF CallAt, Running, AlarmTypes, StackTypes
<1>3. /\ f \in FrameSet
      /\ f.at = label /\ f.ret = Running.at /\ f.id = id /\ f.ctx = << pie >>
      /\ f.irq = Running.irq /\ f.mask = Running.mask
      /\ f.alarm = Running.alarm /\ f.next = Running.next
  <2>1. pie \in BOOLEAN
    BY <1>1 DEF AlarmTypes, Words
  <2>2. << pie >> \in Seq(BOOLEAN) /\ id \in Irqs \union Alarm \union {Main} /\ label \in Labels
    BY <2>1 DEF Labels, Sections, Switches
  <2> QED BY <1>1, <2>2 DEF FrameSet
<1> HIDE DEF f
<1>4. /\ Own(f) <=> Own(Running)
      /\ Opened(f) <=> Opened(Running)
      /\ f.at # "poll" /\ Running.at # "poll"
  BY <1>3 DEF Own, Opened, Sections, Switches
<1>5. /\ StackTypes' /\ Below' /\ Masks' /\ Order' /\ Running' = f /\ Handlers'
  BY <1>2, <1>3, <1>4, RunStep DEF masks
<1>6. pie' = FALSE /\ (pie <=> Running.at \in Quiet)
  BY DEF CallAt, Inv, PieKept
<1>7. AlarmTypes'
  BY <1>1, <1>5, <1>6 DEF AlarmTypes, Words, ListTypes, masks, alarms, ticker, links, times
<1>8. PieKept'
  BY <1>3, <1>5, <1>6 DEF PieKept, Quiet
<1>9. Saved(Running')
  <2>1. f.ret \in Callers /\ f.at \notin {"enter", "exit"}
    BY <1>3, CallersAre
  <2>2. pie = PutsBack(f)
    BY <1>1, <1>3, <1>6 DEF PutsBack, Quiet, AlarmTypes, Words
  <2> QED BY <1>3, <1>5, <2>1, <2>2 DEF Saved
<1>10. Enabled'
  BY <1>3, <1>5 DEF Inv, Enabled, Switches, masks
<1>11. ActiveHaveHandlers'
  BY <1>3, <1>5 DEF Inv, ActiveHaveHandlers, masks
<1>12. Links'
  BY <1>3, <1>5, LinksStep DEF alarms, links, Sections, Switches
<1> QED BY <1>5, <1>7, <1>8, <1>9, <1>10, <1>11, <1>12 DEF Inv

\* The end of a section, or of the nested one.
LEMMA LeaveStep == ASSUME Inv, Leave, UNCHANGED alarms PROVE Inv'
<1> DEFINE at == IF Len(Running.ctx) = 1 THEN After[Running.ret] ELSE "leave"
           f  == [Running EXCEPT !.at = at, !.ctx = Tail(Running.ctx), !.id = Main]
<1>1. Running \in FrameSet /\ AlarmTypes /\ Running.at = "leave"
  BY Fields DEF Inv, Leave, At
<1>2. stack' = [stack EXCEPT ![1] = f]
  BY <1>1 DEF Leave, Running, AlarmTypes, StackTypes
<1>3. /\ PutsBack(Running) \in BOOLEAN
      /\ Running.ret \in Callers
      /\ \/ Running.ctx = << PutsBack(Running) >>
         \/ Running.ctx = << FALSE, PutsBack(Running) >> /\ Running.ret = "ready"
  <2>1. Saved(Running) /\ Running.at \in Sections
    BY <1>1 DEF Inv, Sections
  <2>2. PutsBack(Running) \in BOOLEAN
    BY DEF PutsBack
  <2> QED BY <2>1, <2>2 DEF Saved
<1>4. \/ /\ at = After[Running.ret] /\ pie' = PutsBack(Running) /\ Tail(Running.ctx) = << >>
      \/ /\ at = "leave" /\ pie' = FALSE /\ Tail(Running.ctx) = << PutsBack(Running) >>
         /\ Running.ret = "ready"
  <2>1. CASE Running.ctx = << PutsBack(Running) >>
    BY <1>3, <2>1 DEF Leave
  <2>2. CASE Running.ctx = << FALSE, PutsBack(Running) >> /\ Running.ret = "ready"
    BY <1>3, <2>2 DEF Leave
  <2> QED BY <1>3, <2>1, <2>2
<1>5. /\ at \in Labels /\ Tail(Running.ctx) \in Seq(BOOLEAN)
      /\ at \in {"leave", "ready", "served", "opened", "called", "step"}
      /\ at = "ready" => Running.ret = "ready" /\ pie' = TRUE
      /\ at = "opened" => Running.ret = "open" /\ pie' = TRUE
      /\ at \in {"served", "called", "step", "leave"} => pie' = FALSE
      /\ at \in {"called", "step"} => Running.ret \in {"call", "remove"}
      /\ at = "leave" => Running.ret = "ready"
      /\ Running.ret = "ready" => at \in {"ready", "leave"}
      /\ Running.ret = "open" => at = "opened"
  <2>1. Tail(Running.ctx) \in Seq(BOOLEAN)
    <3>1. << >> \in Seq(BOOLEAN) /\ << PutsBack(Running) >> \in Seq(BOOLEAN)
      BY <1>3
    <3> QED BY <1>4, <3>1
  <2>2. CASE at = "leave" /\ pie' = FALSE /\ Running.ret = "ready"
    BY <2>1, <2>2 DEF Labels, Sections, Switches
  <2>3. CASE at = After[Running.ret] /\ pie' = PutsBack(Running)
    <3>1. \/ Running.ret = "ready" /\ at = "ready" /\ pie' = TRUE
          \/ Running.ret = "isr" /\ at = "served" /\ pie' = FALSE
          \/ Running.ret = "open" /\ at = "opened" /\ pie' = TRUE
          \/ Running.ret = "call" /\ at = "called" /\ pie' = FALSE
          \/ Running.ret = "remove" /\ at = "step" /\ pie' = FALSE
      <4>1. Running.ret \in {"ready", "isr", "open", "call", "remove"}
        BY <1>3, CallersAre
      <4> HIDE DEF at
      <4>2. /\ Running.ret \in {"ready", "open"} => PutsBack(Running) = TRUE
            /\ Running.ret \notin {"ready", "open"} => PutsBack(Running) = FALSE
        BY DEF PutsBack
      <4> QED BY <2>3, <4>1, <4>2, CallersAre
    <3> HIDE DEF at
    <3> QED BY <2>1, <3>1 DEF Labels, Quiet, Walking
  <2> QED BY <1>4, <2>2, <2>3
<1>6. /\ f \in FrameSet
      /\ f.at = at /\ f.ret = Running.ret /\ f.id = Main /\ f.ctx = Tail(Running.ctx)
      /\ f.irq = Running.irq /\ f.mask = Running.mask
      /\ f.alarm = Running.alarm /\ f.next = Running.next
  BY <1>1, <1>5 DEF FrameSet
<1> HIDE DEF f, at
<1>7. /\ Own(f) <=> Own(Running)
      /\ Opened(f) <=> Opened(Running)
      /\ f.at # "poll"
  BY <1>1, <1>5, <1>6 DEF Own, Opened, Sections, Switches
<1>8. /\ StackTypes' /\ Below' /\ Masks' /\ Order' /\ Running' = f /\ Handlers'
  BY <1>1, <1>2, <1>6, <1>7, RunStep DEF Leave, masks
<1>9. AlarmTypes'
  <2>1. pie' \in BOOLEAN
    BY <1>3, <1>4
  <2> QED BY <1>1, <1>8, <2>1 DEF AlarmTypes, Words, ListTypes, masks, alarms, ticker, links, times, Leave
<1>10. PieKept'
  BY <1>5, <1>6, <1>8 DEF PieKept, Quiet
<1>11. Saved(Running')
  <2>1. ASSUME at = "leave" PROVE Tail(Running.ctx) = << PutsBack(Running) >>
    <3>1. After[Running.ret] # "leave"
      BY <1>3, CallersAre DEF After
    <3> QED BY <1>4, <2>1, <3>1
  <2>2. at \in Sections => at = "leave"
    BY <1>5 DEF Sections, Switches
  <2>3. PutsBack(f) = PutsBack(Running)
    BY <1>6 DEF PutsBack
  <2> QED BY <1>3, <1>6, <1>8, <2>1, <2>2, <2>3 DEF Saved
<1>12. Enabled'
  BY <1>1, <1>5, <1>6, <1>8 DEF Inv, Enabled, Switches, masks, Leave
<1>13. ActiveHaveHandlers'
  BY <1>1, <1>5, <1>6, <1>8 DEF Inv, ActiveHaveHandlers, masks, Leave
<1>14. Links'
  BY <1>1, <1>5, <1>6, <1>8, LinksStep DEF alarms, links, Sections, Switches
<1> QED BY <1>8, <1>9, <1>10, <1>11, <1>12, <1>13, <1>14 DEF Inv

\* The two writes of alt_irq_enable and alt_irq_disable.
LEMMA WriteStep ==
  ASSUME Inv, SetActive \/ WriteEnable, UNCHANGED alarms
  PROVE  Inv'
<1> DEFINE at == IF Running.at = "write" THEN "leave" ELSE "write"
           f  == [Running EXCEPT !.at = at]
<1>1. Running \in FrameSet /\ AlarmTypes /\ Running.at \in Switches
  BY Fields DEF Inv, SetActive, WriteEnable, At, Switches
<1>2. stack' = [stack EXCEPT ![1] = f]
  BY <1>1 DEF SetActive, WriteEnable, At, Go, Running, AlarmTypes, StackTypes, Switches
<1>3. /\ f \in FrameSet /\ at \in {"write", "leave"}
      /\ f.at = at /\ f.ret = Running.ret /\ f.id = Running.id /\ f.ctx = Running.ctx
      /\ f.irq = Running.irq /\ f.mask = Running.mask
      /\ f.alarm = Running.alarm /\ f.next = Running.next
  BY <1>1 DEF FrameSet, Labels, Sections, Switches
<1> HIDE DEF f
<1>4. /\ Own(f) <=> Own(Running)
      /\ Opened(f) <=> Opened(Running)
      /\ f.at # "poll" /\ Running.at # "poll"
  BY <1>1, <1>3 DEF Own, Opened, Sections, Switches
<1>5. /\ StackTypes' /\ Below' /\ Masks' /\ Order' /\ Running' = f /\ Handlers'
  BY <1>2, <1>3, <1>4, RunStep DEF SetActive, WriteEnable
<1>6. /\ alt_priority_mask = Irqs /\ (Running.at \in {"activate", "deactivate"} => Running.id \in Irqs)
      /\ alt_irq_active \subseteq Irqs /\ ienable \subseteq Irqs
  BY <1>1 DEF Inv, Enabled, AlarmTypes, Words
<1>7. AlarmTypes'
  <2>1. alt_irq_active' \subseteq Irqs /\ ienable' \subseteq Irqs
    BY <1>1, <1>6 DEF SetActive, WriteEnable, At
  <2> QED BY <1>1, <1>5, <2>1 DEF AlarmTypes, Words, ListTypes, alarms, ticker, links, times, SetActive, WriteEnable
<1>8. PieKept'
  BY <1>1, <1>3, <1>5 DEF Inv, PieKept, Quiet, SetActive, WriteEnable, Switches
<1>9. Saved(Running')
  BY <1>1, <1>3, <1>5 DEF Inv, Saved, PutsBack, Sections, Switches
<1>10. Enabled'
  BY <1>1, <1>3, <1>5, <1>6 DEF Inv, Enabled, Switches, SetActive, WriteEnable, At
<1>11. ActiveHaveHandlers'
  BY <1>1, <1>3, <1>5, <1>6 DEF Inv, ActiveHaveHandlers, SetActive, WriteEnable, At, Switches
<1>12. Links'
  <2> HIDE DEF at
  <2> QED BY <1>1, <1>3, <1>5, LinksStep DEF alarms, links, Sections, Switches
<1> QED BY <1>5, <1>7, <1>8, <1>9, <1>10, <1>11, <1>12 DEF Inv

\* A handler is put in the table or taken out: only the program does that.
LEMMA RegisterStep ==
  ASSUME Inv, NEW id \in Irqs, NEW on \in BOOLEAN, Register(id, on), UNCHANGED alarms
  PROVE  Inv'
<1> DEFINE at == IF on THEN "enter" ELSE "exit"
           f  == [Running EXCEPT !.ret = "ready", !.id = id, !.ctx = << pie >>, !.at = at]
<1>1. Running \in FrameSet /\ AlarmTypes /\ Running.at = "ready"
  BY Fields DEF Inv, Register, At
<1>2. stack' = [stack EXCEPT ![1] = f]
  BY <1>1 DEF Register, Running, AlarmTypes, StackTypes
<1>6. pie' = FALSE /\ pie = TRUE
  BY <1>1 DEF Register, Inv, PieKept, Quiet
<1>3. /\ f \in FrameSet /\ at \in {"enter", "exit"}
      /\ f.at = at /\ f.ret = "ready" /\ f.id = id /\ f.ctx = << TRUE >>
      /\ f.irq = Running.irq /\ f.mask = Running.mask
      /\ f.alarm = Running.alarm /\ f.next = Running.next
  <2>1. << pie >> \in Seq(BOOLEAN) /\ << pie >> = << TRUE >>
    BY <1>6
  <2>2. at \in {"enter", "exit"} /\ at \in Labels /\ "ready" \in Labels
    BY DEF Labels, Sections, Quiet
  <2> HIDE DEF at
  <2> QED BY <1>1, <2>1, <2>2 DEF FrameSet
<1> HIDE DEF f
<1>4. /\ Own(f) /\ Own(Running)
      /\ Opened(f) <=> Opened(Running)
      /\ f.at # "poll" /\ Running.at # "poll"
  BY <1>1, <1>3 DEF Own, Opened, Sections, Switches
<1>5. /\ StackTypes' /\ Below' /\ Masks' /\ Order' /\ Running' = f /\ Handlers'
  BY <1>2, <1>3, <1>4, RunStep DEF Register, masks
<1>7. AlarmTypes'
  <2>1. alt_irq' \subseteq Irqs
    BY <1>1 DEF Register, AlarmTypes, Words
  <2> QED BY <1>1, <1>5, <1>6, <2>1 DEF AlarmTypes, Words, ListTypes, masks, alarms, ticker, links, times, Register
<1>8. PieKept'
  BY <1>3, <1>5, <1>6 DEF PieKept, Quiet
<1>9. Saved(Running')
  BY <1>3, <1>5, CallersAre DEF Saved, PutsBack
<1>10. Enabled'
  BY <1>1, <1>3, <1>5 DEF Inv, Enabled, Switches, Register, masks
<1>11. ActiveHaveHandlers'
  <2>1. alt_irq_active \subseteq alt_irq
    BY <1>1 DEF Inv, ActiveHaveHandlers
  <2> QED BY <1>3, <1>5, <2>1 DEF ActiveHaveHandlers, Register, masks
<1>12. Links'
  <2> HIDE DEF at
  <2> QED BY <1>1, <1>3, <1>5, LinksStep DEF alarms, links, Sections, Switches
<1> QED BY <1>5, <1>7, <1>8, <1>9, <1>10, <1>11, <1>12 DEF Inv

\* The nested section.
LEMMA NestStep == ASSUME Inv, RegisterSwitch, UNCHANGED alarms PROVE Inv'
<1> DEFINE at == IF Running.at = "enter" THEN "activate" ELSE "deactivate"
           f  == [Running EXCEPT !.at = at, !.ctx = << pie >> \o Running.ctx]
<1>1. Running \in FrameSet /\ AlarmTypes /\ Running.at \in {"enter", "exit"}
  BY Fields DEF Inv, RegisterSwitch, At
<1>2. stack' = [stack EXCEPT ![1] = f]
  BY <1>1 DEF RegisterSwitch, Running, AlarmTypes, StackTypes
<1>6. /\ pie = FALSE /\ pie \in BOOLEAN /\ pie' = FALSE /\ Running.ret = "ready" /\ Running.ctx = << TRUE >>
  BY <1>1 DEF RegisterSwitch, Inv, PieKept, Quiet, Saved, PutsBack, Sections, Switches, AlarmTypes, Words
<1>3. /\ f \in FrameSet /\ at \in {"activate", "deactivate"}
      /\ f.at = at /\ f.ret = "ready" /\ f.id = Running.id /\ f.ctx = << FALSE, TRUE >>
      /\ f.irq = Running.irq /\ f.mask = Running.mask
      /\ f.alarm = Running.alarm /\ f.next = Running.next
  <2>1. << pie >> \o Running.ctx \in Seq(BOOLEAN) /\ << pie >> \o Running.ctx = << FALSE, TRUE >>
    <3>1. << pie >> \o << TRUE >> = << pie, TRUE >>
      BY <1>6, PairOf
    <3>2. << FALSE, TRUE >> \in Seq(BOOLEAN)
      OBVIOUS
    <3>3. << pie >> \o Running.ctx = << pie, TRUE >> /\ pie = FALSE
      BY <1>6, <3>1, Zenon
    <3> QED BY <3>2, <3>3, Zenon
  <2>2. at \in {"activate", "deactivate"} /\ at \in Labels
    BY DEF Labels, Sections, Switches
  <2>3. << pie >> \o Running.ctx = << FALSE, TRUE >> /\ Running.ret = "ready"
    BY <1>6, <2>1
  <2> HIDE DEF at
  <2> QED BY <1>1, <2>1, <2>2, <2>3 DEF FrameSet
<1> HIDE DEF f
<1>4. /\ Own(f) /\ Own(Running)
      /\ Opened(f) <=> Opened(Running)
      /\ f.at # "poll" /\ Running.at # "poll"
  BY <1>1, <1>3, <1>6 DEF Own, Opened, Sections, Switches
<1>5. /\ StackTypes' /\ Below' /\ Masks' /\ Order' /\ Running' = f /\ Handlers'
  BY <1>2, <1>3, <1>4, RunStep DEF RegisterSwitch, masks
<1>7. AlarmTypes'
  BY <1>1, <1>5, <1>6 DEF AlarmTypes, Words, ListTypes, masks, alarms, ticker, links, times, RegisterSwitch
<1>8. PieKept'
  BY <1>3, <1>5, <1>6 DEF PieKept, Quiet
<1>9. Saved(Running')
  BY <1>3, <1>5, CallersAre DEF Saved, PutsBack, Switches
<1>10. Enabled'
  <2>1. alt_priority_mask = Irqs
    BY <1>4, WhoRuns
  <2> QED BY <1>1, <1>3, <1>5, <2>1 DEF Inv, Enabled, Switches, RegisterSwitch, masks
<1>11. ActiveHaveHandlers'
  BY <1>1, <1>3, <1>5 DEF Inv, ActiveHaveHandlers, RegisterSwitch, masks
<1>12. Links'
  BY <1>1, <1>3, <1>5, <1>6, LinksStep DEF alarms, links, Sections, Switches
<1> QED BY <1>5, <1>7, <1>8, <1>9, <1>10, <1>11, <1>12 DEF Inv

----------------------------------------------------------------------------
(* The interrupt.                                                          *)

\* A frame that takes the place of the running one, with the mask that belongs to it.
LEMMA ReplaceStep ==
  ASSUME Inv, NEW f \in FrameSet, stack' = [stack EXCEPT ![1] = f],
         ~Own(Running), ~Own(f), f.at = "poll" <=> f.irq = Main,
         alt_priority_mask' = IF Opened(f) THEN MoreUrgent(f.irq) ELSE Under(1),
         Opened(f) => f.mask = Under(1),
         \/ f.irq = Main
         \/ \A k \in 2 .. Len(stack) : k < Len(stack) => f.irq < stack[k].irq,
         f.irq = Main \/ f.irq \in alt_irq, UNCHANGED alt_irq
  PROVE  StackTypes' /\ Below' /\ Masks' /\ Order' /\ Running' = f /\ Handlers'
<1>1. /\ stack' \in Seq(FrameSet) /\ Len(stack') = Len(stack) /\ Running' = f
      /\ stack'[1] = f /\ \A k \in 2 .. Len(stack) : stack'[k] = stack[k]
  BY TopStep DEF Inv
<1>2. PICK n \in Nat : n = Len(stack) /\ n >= 1
  BY LenProperties DEF Inv, AlarmTypes, StackTypes
<1>3. n # 1
  BY <1>2, Fields DEF Inv, Below, Running
<1>4. \A k \in 1 .. n : k = 1 \/ k \in 2 .. n
  BY <1>2
<1>5. \A k \in 1 .. n : Under(k)' = Under(k)
  <2> SUFFICES ASSUME NEW k \in 1 .. n PROVE Under(k)' = Under(k)
    OBVIOUS
  <2>1. k + 1 < n => stack'[k + 1] = stack[k + 1]
    BY <1>1, <1>2
  <2> QED BY <1>1, <1>2, <2>1 DEF Under
<1>6. StackTypes'
  BY <1>1 DEF Inv, AlarmTypes, StackTypes
<1>7. Below'
  <2>1. \A k \in 2 .. Len(stack') : stack'[k].at \in Quiet
    BY <1>1 DEF Inv, Below
  <2>2. ASSUME NEW k \in 1 .. Len(stack')
        PROVE  /\ Own(stack'[k]) <=> k = Len(stack')
               /\ Own(stack'[k]) \/ stack'[k].at = "poll" <=> stack'[k].irq = Main
    <3>1. CASE k = 1
      BY <1>1, <1>2, <1>3, <3>1
    <3>2. CASE k \in 2 .. n
      <4>1. stack'[k] = stack[k] /\ k \in 1 .. Len(stack) /\ Len(stack') = Len(stack)
        BY <1>1, <1>2, <3>2
      <4>2. /\ Own(stack[k]) <=> k = Len(stack)
            /\ Own(stack[k]) \/ stack[k].at = "poll" <=> stack[k].irq = Main
        BY <4>1 DEF Inv, Below
      <4> QED BY <4>1, <4>2
    <3> QED BY <1>1, <1>2, <1>4, <3>1, <3>2
  <2> QED BY <2>1, <2>2 DEF Below
<1>8. Masks'
  <2>1. ASSUME NEW k \in 1 .. Len(stack'), Opened(stack'[k])
        PROVE  stack'[k].mask = Under(k)'
    <3>1. k \in 1 .. n /\ Under(k)' = Under(k)
      BY <1>1, <1>2, <1>5
    <3>2. CASE k = 1
      BY <1>1, <2>1, <3>1, <3>2
    <3>3. CASE k \in 2 .. n
      BY <1>1, <1>2, <2>1, <3>1, <3>3 DEF Inv, Masks
    <3> QED BY <1>4, <3>1, <3>2, <3>3
  <2>2. Under(1)' = Under(1)
    BY <1>2, <1>5
  <2> QED BY <1>1, <2>1, <2>2 DEF Masks
<1>9. Order'
  <2> SUFFICES ASSUME NEW j \in 1 .. Len(stack'), NEW k \in 1 .. Len(stack'),
                      j < k, k < Len(stack')
               PROVE  stack'[j].irq = Main \/ stack'[j].irq < stack'[k].irq
    BY DEF Order
  <2>1. /\ k \in 2 .. Len(stack) /\ stack'[k] = stack[k] /\ k < Len(stack)
        /\ j \in 1 .. n /\ j \in 1 .. Len(stack) /\ k \in 1 .. Len(stack)
    BY <1>1, <1>2
  <2>2. CASE j = 1
    BY <1>1, <2>1, <2>2
  <2>3. CASE j \in 2 .. n
    <3>1. stack'[j] = stack[j]
      BY <1>1, <1>2, <2>3
    <3> QED BY <2>1, <3>1 DEF Inv, Order
  <2> QED BY <1>4, <2>1, <2>2, <2>3
<1>10. Handlers'
  <2> SUFFICES ASSUME NEW k \in 1 .. Len(stack'), stack'[k].irq # Main
               PROVE  stack'[k].irq \in alt_irq'
    BY DEF Handlers
  <2>1. k \in 1 .. n /\ k \in 1 .. Len(stack)
    BY <1>1, <1>2
  <2>2. CASE k = 1
    BY <1>1, <2>2
  <2>3. CASE k \in 2 .. n
    BY <1>1, <1>2, <2>1, <2>3 DEF Inv, Handlers
  <2> QED BY <1>4, <2>1, <2>2, <2>3
<1> QED BY <1>1, <1>6, <1>7, <1>8, <1>9, <1>10

\* The handler serves the most urgent of the pending interrupts, which has a handler.
LEMMA ServeStep == ASSUME Inv, Serve, UNCHANGED alarms PROVE Inv'
<1> DEFINE i == Min(Pending)
           f == Frame(i, "isr")
<1>1. Running \in FrameSet /\ AlarmTypes /\ Running.at = "poll" /\ Pending # {}
  BY Fields DEF Inv, Serve, At
<1>2. i \in lines /\ i \in ienable
  <2>1. Pending \subseteq Nat /\ Pending \subseteq lines /\ Pending \subseteq ienable
    BY <1>1, InterruptsAssumption DEF Pending, AlarmTypes, Words
  <2> QED BY <1>1, <2>1, MinOf
<1>3. /\ ~Own(Running) /\ ~Opened(Running)
      /\ ienable = alt_irq_active \intersect alt_priority_mask
      /\ alt_irq_active \subseteq alt_irq /\ alt_priority_mask = Under(1)
  BY <1>1 DEF Inv, Own, Opened, Sections, Switches, Enabled, ActiveHaveHandlers, Masks
<1>4. i \in alt_irq /\ i \in Irqs /\ i # Main /\ i \in Under(1)
  <2>1. i \in alt_irq /\ i \in Under(1)
    BY <1>2, <1>3
  <2>2. i \in Irqs
    BY <1>1, <1>2 DEF AlarmTypes, Words
  <2>3. \A n \in Nat : n # -1
    OBVIOUS
  <2> HIDE DEF i
  <2> QED BY <2>1, <2>2, <2>3, InterruptsAssumption DEF Main
<1> HIDE DEF i
<1>5. stack' = [stack EXCEPT ![1] = f] /\ lines' = lines \ {i}
  BY <1>4 DEF Serve, i
<1>6. /\ f \in FrameSet /\ f.irq = i /\ f.at = "isr"
      /\ ~Own(f) /\ ~Opened(f)
  BY <1>4 DEF Frame, FrameSet, Labels, Own, Opened, Sections, Switches
<1>7. ASSUME NEW k \in 2 .. Len(stack), k < Len(stack) PROVE i < stack[k].irq
  <2>1. PICK n \in Nat : n = Len(stack)
    BY LenProperties, <1>1 DEF AlarmTypes, StackTypes
  <2>2. 2 < n /\ k \in 2 .. n /\ 2 \in 1 .. n /\ k \in 1 .. n /\ 1 + 1 < n /\ 1 + 1 = 2
    BY <1>7, <2>1
  <2>3. Under(1) = MoreUrgent(stack[2].irq)
    BY <2>1, <2>2 DEF Under
  <2>4. i < stack[2].irq
    BY <1>4, <2>3 DEF MoreUrgent
  <2>5. ASSUME NEW m \in 2 .. n, m < n PROVE stack[m].irq \in Nat
    <3>1. m \in 1 .. Len(stack) /\ m # Len(stack) /\ m \in 2 .. Len(stack)
      BY <2>1, <2>5
    <3>2. stack[m].at # "poll" /\ ~Own(stack[m]) /\ stack[m] \in FrameSet
      BY <1>1, <3>1, Fields DEF Inv, Below, Quiet
    <3>3. stack[m].irq # Main
      BY <3>1, <3>2 DEF Inv, Below
    <3> QED BY <3>2, <3>3, InterruptsAssumption DEF FrameSet
  <2>6. CASE k = 2
    BY <2>4, <2>6
  <2>7. CASE 2 < k
    <3>1. stack[2].irq = Main \/ stack[2].irq < stack[k].irq
      BY <1>7, <2>1, <2>2, <2>7 DEF Inv, Order
    <3>2. stack[2].irq \in Nat /\ stack[k].irq \in Nat /\ i \in Nat
      BY <1>4, <1>7, <2>1, <2>2, <2>5, InterruptsAssumption
    <3> QED BY <2>4, <3>1, <3>2 DEF Main
  <2> QED BY <2>2, <2>6, <2>7
<1> HIDE DEF f
<1>8. /\ StackTypes' /\ Below' /\ Masks' /\ Order' /\ Running' = f /\ Handlers'
  <2>1. alt_priority_mask' = Under(1) /\ UNCHANGED alt_irq
    BY <1>3 DEF Serve, masks
  <2> QED BY <1>3, <1>4, <1>5, <1>6, <1>7, <2>1, ReplaceStep
<1>9. AlarmTypes'
  BY <1>1, <1>5, <1>8 DEF AlarmTypes, Words, ListTypes, masks, alarms, ticker, links, times, Serve
<1>10. PieKept' /\ Saved(Running') /\ Enabled' /\ ActiveHaveHandlers'
  BY <1>1, <1>3, <1>6, <1>8
     DEF Inv, PieKept, Saved, Enabled, ActiveHaveHandlers, Quiet, Sections, Switches, masks, Serve
<1>11. Links'
  <2>1. UNCHANGED << llist_next, llist_previous >> /\ Linked' = Linked
    BY DEF alarms, links, Linked
  <2> QED BY <1>6, <1>8, <2>1 DEF Inv, Links, Sections, Switches
<1> QED BY <1>8, <1>9, <1>10, <1>11 DEF Inv

\* The links are as they were, and the running frame needs none of them.
LEMMA NoLinks ==
  ASSUME Inv, UNCHANGED << llist_next, llist_previous >>,
         Running'.at \notin Walking, Running'.at \notin Sections
  PROVE  Links'
<1>1. Linked' = Linked
  BY DEF Linked
<1> QED BY <1>1 DEF Inv, Links, Walking, Sections, Switches

\* The next interrupt is looked for, once a routine has returned.
LEMMA ServedStep == ASSUME Inv, Served, UNCHANGED alarms PROVE Inv'
<1> DEFINE f == Frame(Main, "poll")
<1>1. Running \in FrameSet /\ AlarmTypes /\ Running.at = "served"
  BY Fields DEF Inv, Served, At
<1>2. stack' = [stack EXCEPT ![1] = f]
  BY DEF Served
<1>3. /\ f \in FrameSet /\ f.irq = Main /\ f.at = "poll"
      /\ ~Own(f) /\ ~Opened(f) /\ ~Own(Running) /\ ~Opened(Running)
  BY <1>1 DEF Frame, FrameSet, Labels, Own, Opened, Sections, Switches
<1> HIDE DEF f
<1>4. alt_priority_mask' = Under(1) /\ UNCHANGED alt_irq
  BY <1>3 DEF Inv, Masks, Served, masks
<1>5. /\ StackTypes' /\ Below' /\ Masks' /\ Order' /\ Running' = f /\ Handlers'
  BY <1>2, <1>3, <1>4, ReplaceStep
<1>6. AlarmTypes'
  BY <1>1, <1>5 DEF AlarmTypes, Words, ListTypes, masks, alarms, ticker, links, times, Served
<1>7. PieKept' /\ Saved(Running') /\ Enabled' /\ ActiveHaveHandlers'
  BY <1>1, <1>3, <1>5
     DEF Inv, PieKept, Saved, Enabled, ActiveHaveHandlers, Quiet, Sections, Switches, masks, Served
<1>8. Links'
  BY <1>3, <1>5, NoLinks DEF alarms, links, Walking, Sections, Switches
<1> QED BY <1>5, <1>6, <1>7, <1>8 DEF Inv

\* A routine opens itself to more urgent ones, closes again, or does nothing.
LEMMA OpenedStep ==
  ASSUME Inv, Interruptible \/ NonInterruptible \/ QuietRoutine, UNCHANGED alarms
  PROVE  Inv'
<1> DEFINE at   == IF Interruptible THEN "open" ELSE "served"
           mask == IF Interruptible THEN alt_priority_mask
                   ELSE IF NonInterruptible THEN {} ELSE Running.mask
           f    == [Running EXCEPT !.at = at, !.mask = mask]
<1>1. /\ Running \in FrameSet /\ AlarmTypes /\ Running = stack[1]
      /\ Interruptible \/ QuietRoutine => Running.at = "isr"
      /\ NonInterruptible => Running.at \in {"open", "opened"}
  BY Fields DEF Inv, Interruptible, NonInterruptible, QuietRoutine, At, Running
<1>2. stack' = [stack EXCEPT ![1] = f]
  <2>1. CASE Interruptible
    BY <1>1, <2>1 DEF Interruptible, AlarmTypes, StackTypes
  <2>2. CASE NonInterruptible /\ ~Interruptible
    BY <1>1, <2>2 DEF NonInterruptible, AlarmTypes, StackTypes
  <2>3. CASE QuietRoutine /\ ~Interruptible /\ ~NonInterruptible
    <3>1. f = [Running EXCEPT !.at = "served"]
      BY <1>1, <2>3 DEF FrameSet
    <3>2. stack' = [stack EXCEPT ![1] = [Running EXCEPT !.at = "served"]]
      BY <1>1, <2>3 DEF QuietRoutine, Go, AlarmTypes, StackTypes
    <3> QED BY <3>1, <3>2
  <2> QED BY <2>1, <2>2, <2>3
<1>3. /\ f \in FrameSet /\ f.irq = Running.irq /\ f.at = at /\ f.mask = mask
      /\ at \in {"open", "served"}
  <2>1. mask \in SUBSET Irqs
    BY <1>1 DEF AlarmTypes, Words, FrameSet
  <2>2. at \in {"open", "served"} /\ at \in Labels
    BY DEF Labels, Quiet
  <2> HIDE DEF at, mask
  <2> QED BY <1>1, <2>1, <2>2 DEF FrameSet
<1>4. /\ Interruptible => at = "open" /\ mask = alt_priority_mask
      /\ ~Interruptible => at = "served"
  OBVIOUS
<1> HIDE DEF f, at, mask
<1>5. /\ ~Own(f) /\ ~Own(Running) /\ f.at # "poll" /\ Running.at # "poll"
      /\ Opened(f) <=> at = "open"
      /\ Opened(Running) <=> NonInterruptible
  <2>1. Interruptible \/ QuietRoutine => ~NonInterruptible
    BY <1>1
  <2> QED BY <1>1, <1>3, <2>1 DEF Own, Opened, Sections, Switches
<1>6. f.irq \in Irqs /\ f.irq # Main /\ f.irq \in alt_irq
  <2>1. f.irq \in Irqs /\ f.irq # Main
    BY <1>3, <1>5, WhoRuns, InterruptsAssumption DEF Main
  <2>2. 1 \in 1 .. Len(stack)
    BY Fields, <1>1
  <2> QED BY <1>1, <1>3, <2>1, <2>2 DEF Inv, Handlers
<1>7. \A k \in 2 .. Len(stack) : k < Len(stack) => f.irq < stack[k].irq
  <2> SUFFICES ASSUME NEW k \in 2 .. Len(stack), k < Len(stack)
               PROVE  f.irq < stack[k].irq
    OBVIOUS
  <2>1. PICK n \in Nat : n = Len(stack)
    BY LenProperties, <1>1 DEF AlarmTypes, StackTypes
  <2>2. k \in 1 .. n /\ 1 \in 1 .. n /\ 1 < k
    BY <2>1
  <2> QED BY <1>1, <1>3, <1>6, <2>1, <2>2 DEF Inv, Order
<1>8. /\ alt_priority_mask' = IF Opened(f) THEN MoreUrgent(f.irq) ELSE Under(1)
      /\ Opened(f) => f.mask = Under(1)
      /\ alt_irq' = alt_irq
  <2>1. CASE Interruptible
    <3>1. alt_priority_mask = Under(1)
      BY <1>1, <1>5, <2>1 DEF Inv, Masks
    <3> QED BY <1>3, <1>4, <1>5, <2>1, <3>1 DEF Interruptible, MoreUrgent
  <2>2. CASE NonInterruptible /\ ~Interruptible
    <3>1. Running.mask = Under(1)
      BY <1>1, <1>5, <2>2, Fields DEF Inv, Masks
    <3> QED BY <1>4, <1>5, <2>2, <3>1 DEF NonInterruptible
  <2>3. CASE QuietRoutine /\ ~Interruptible /\ ~NonInterruptible
    BY <1>4, <1>5, <2>3 DEF QuietRoutine, Inv, Masks, masks
  <2> QED BY <2>1, <2>2, <2>3
<1>9. /\ StackTypes' /\ Below' /\ Masks' /\ Order' /\ Running' = f /\ Handlers'
  BY <1>2, <1>3, <1>5, <1>6, <1>7, <1>8, ReplaceStep
<1>10. /\ UNCHANGED << lines, alt_irq_active, alt_irq >>
       /\ ienable' = alt_irq_active \intersect alt_priority_mask' /\ alt_priority_mask' \subseteq Irqs
       /\ alt_irq_active \subseteq alt_irq
  <2>1. /\ UNCHANGED << lines, alt_irq_active, alt_irq >>
        /\ ienable' = alt_irq_active \intersect alt_priority_mask'
    BY <1>1 DEF Interruptible, NonInterruptible, QuietRoutine, masks, Inv, Enabled
  <2>2. alt_irq_active \subseteq alt_irq
    BY <1>1 DEF Inv, ActiveHaveHandlers
  <2>3. alt_priority_mask' \subseteq Irqs
    BY <1>8 DEF MoreUrgent, Under
  <2> QED BY <2>1, <2>2, <2>3
<1>11. pie' = (at = "open")
  <2>1. CASE Interruptible
    BY <1>4, <2>1 DEF Interruptible
  <2>2. CASE NonInterruptible /\ ~Interruptible
    BY <1>4, <2>2 DEF NonInterruptible
  <2>3. CASE QuietRoutine /\ ~Interruptible /\ ~NonInterruptible
    BY <1>1, <1>4, <2>3 DEF QuietRoutine, Inv, PieKept, AlarmTypes, Words, Quiet
  <2> QED BY <2>1, <2>2, <2>3
<1>12. AlarmTypes'
  BY <1>1, <1>9, <1>10, <1>11 DEF AlarmTypes, Words, ListTypes, alarms, ticker, links, times
<1>13. PieKept' /\ Saved(Running') /\ Enabled' /\ ActiveHaveHandlers'
  BY <1>3, <1>9, <1>10, <1>11
     DEF PieKept, Saved, Enabled, ActiveHaveHandlers, Quiet, Sections, Switches
<1>14. Links'
  BY <1>3, <1>9, NoLinks DEF alarms, links, Walking, Sections, Switches
<1> QED BY <1>9, <1>12, <1>13, <1>14 DEF Inv

\* The processor takes an interrupt: what ran is interrupted with interrupts on.
LEMMA InterruptStep == ASSUME Inv, Interrupt, UNCHANGED alarms PROVE Inv'
<1> DEFINE f == Frame(Main, "poll")
<1>1. Running \in FrameSet /\ AlarmTypes /\ Running = stack[1] /\ pie /\ Running.at \in Quiet
  BY Fields DEF Inv, Interrupt, Taken, Running, PieKept
<1>2. PICK n \in Nat : n = Len(stack) /\ n >= 1
  BY LenProperties, <1>1 DEF AlarmTypes, StackTypes
<1>3. /\ f \in FrameSet /\ f.irq = Main /\ f.at = "poll" /\ ~Own(f) /\ ~Opened(f)
  BY DEF Frame, FrameSet, Labels, Own, Opened, Sections, Switches
<1> HIDE DEF f
<1>4. /\ stack' \in Seq(FrameSet) /\ Len(stack') = n + 1 /\ stack'[1] = f /\ Running' = f
      /\ \A k \in 2 .. n + 1 : stack'[k] = stack[k - 1]
  <2>1. stack' = << f >> \o stack /\ << f >> \in Seq(FrameSet) /\ stack \in Seq(FrameSet)
        /\ Len(<< f >>) = 1 /\ << f >>[1] = f
    BY <1>1, <1>3 DEF Interrupt, AlarmTypes, StackTypes, f
  <2>2. /\ stack' \in Seq(FrameSet) /\ Len(stack') = 1 + n
        /\ \A k \in 1 .. 1 + n : stack'[k] = IF k <= 1 THEN << f >>[k] ELSE stack[k - 1]
    BY <1>2, <2>1, ConcatProperties
  <2>3. stack'[1] = f
    BY <1>2, <2>1, <2>2
  <2>4. ASSUME NEW k \in 2 .. n + 1 PROVE stack'[k] = stack[k - 1]
    BY <1>2, <2>2
  <2> QED BY <1>2, <2>2, <2>3, <2>4 DEF Running
<1>5. /\ Own(Running) <=> n = 1
      /\ ~Own(Running) => Opened(Running)
  BY <1>1, <1>2, WhoRuns DEF Own, Opened, Quiet, Sections, Switches
<1>6. ASSUME NEW k \in 2 .. n + 1
      PROVE  /\ stack'[k] = stack[k - 1] /\ k - 1 \in 1 .. n /\ k - 1 \in 1 .. Len(stack)
             /\ stack'[k].at \in Quiet
             /\ Under(k)' = Under(k - 1)
  <2>1. stack'[k] = stack[k - 1] /\ k - 1 \in 1 .. n /\ k - 1 \in 1 .. Len(stack)
    BY <1>2, <1>4
  <2>2. stack'[k].at \in Quiet
    <3>1. CASE k - 1 = 1
      BY <1>1, <2>1, <3>1
    <3>2. CASE k - 1 \in 2 .. n
      BY <1>2, <2>1, <3>2 DEF Inv, Below
    <3> QED BY <2>1, <3>1, <3>2
  <2>3. Under(k)' = Under(k - 1)
    <3>1. k + 1 < n + 1 <=> (k - 1) + 1 < n
      BY <1>2
    <3>2. ASSUME k + 1 < n + 1 PROVE stack'[k + 1] = stack[(k - 1) + 1]
      BY <1>4, <3>2
    <3> QED BY <1>2, <1>4, <3>1, <3>2 DEF Under
  <2> QED BY <2>1, <2>2, <2>3
<1>7. \A k \in 1 .. n + 1 : k = 1 \/ k \in 2 .. n + 1
  OBVIOUS
<1>8. Below'
  <2>1. \A k \in 2 .. Len(stack') : stack'[k].at \in Quiet
    BY <1>4, <1>6
  <2>2. ASSUME NEW k \in 1 .. Len(stack')
        PROVE  /\ Own(stack'[k]) <=> k = Len(stack')
               /\ Own(stack'[k]) \/ stack'[k].at = "poll" <=> stack'[k].irq = Main
    <3>1. CASE k = 1
      BY <1>2, <1>3, <1>4, <3>1
    <3>2. CASE k \in 2 .. n + 1
      <4>1. /\ Own(stack[k - 1]) <=> k - 1 = n
            /\ Own(stack[k - 1]) \/ stack[k - 1].at = "poll" <=> stack[k - 1].irq = Main
        BY <1>2, <1>6, <3>2 DEF Inv, Below
      <4>2. k - 1 = n <=> k = n + 1
        BY <3>2
      <4> QED BY <1>4, <1>6, <3>2, <4>1, <4>2
    <3> QED BY <1>4, <1>7, <3>1, <3>2
  <2> QED BY <2>1, <2>2 DEF Below
<1>9. Masks'
  <2>1. ASSUME NEW k \in 1 .. Len(stack'), Opened(stack'[k])
        PROVE  stack'[k].mask = Under(k)'
    <3>1. k # 1 /\ k \in 2 .. n + 1
      BY <1>3, <1>4, <1>7, <2>1
    <3> QED BY <1>6, <2>1, <3>1 DEF Inv, Masks
  <2>2. alt_priority_mask = Under(1)'
    <3>1. 2 \in 2 .. n + 1 /\ stack'[2] = stack[1] /\ 1 + 1 = 2
      BY <1>2, <1>4
    <3>2. CASE n = 1
      <4>1. ~(2 < n + 1)
        BY <3>2
      <4>2. Under(1)' = Irqs
        BY <1>4, <3>1, <4>1 DEF Under
      <4> QED BY <1>5, <3>2, <4>2, WhoRuns
    <3>3. CASE n # 1
      <4>1. 2 < n + 1
        BY <1>2, <3>3
      <4>2. Under(1)' = MoreUrgent(Running.irq)
        BY <1>1, <1>4, <3>1, <4>1 DEF Under
      <4> QED BY <1>5, <3>3, <4>2 DEF Inv, Masks
    <3> QED BY <3>2, <3>3
  <2>3. alt_priority_mask' = alt_priority_mask
    BY DEF Interrupt, masks
  <2> QED BY <1>3, <1>4, <2>1, <2>2, <2>3 DEF Masks
<1>10. Order'
  <2> SUFFICES ASSUME NEW j \in 1 .. Len(stack'), NEW k \in 1 .. Len(stack'),
                      j < k, k < Len(stack')
               PROVE  stack'[j].irq = Main \/ stack'[j].irq < stack'[k].irq
    BY DEF Order
  <2>1. CASE j = 1
    BY <1>3, <1>4, <2>1
  <2>2. CASE j \in 2 .. n + 1
    <3>1. k \in 2 .. n + 1 /\ j - 1 < k - 1 /\ k - 1 < n
      BY <1>4, <2>2
    <3>2. stack'[j] = stack[j - 1] /\ j - 1 \in 1 .. Len(stack)
      BY <1>6, <2>2
    <3>3. stack'[k] = stack[k - 1] /\ k - 1 \in 1 .. Len(stack)
      BY <1>6, <3>1
    <3> QED BY <1>2, <3>1, <3>2, <3>3 DEF Inv, Order
  <2> QED BY <1>4, <1>7, <2>1, <2>2
<1>11. Handlers'
  <2>1. ASSUME NEW k \in 1 .. Len(stack'), stack'[k].irq # Main
        PROVE  stack'[k].irq \in alt_irq'
    <3>1. k # 1 /\ k \in 2 .. n + 1
      BY <1>3, <1>4, <1>7, <2>1
    <3>2. alt_irq' = alt_irq
      BY DEF Interrupt
    <3> QED BY <1>6, <2>1, <3>1, <3>2 DEF Inv, Handlers
  <2> QED BY <2>1 DEF Handlers
<1>12. AlarmTypes'
  <2>1. StackTypes'
    <3>1. n + 1 >= 1
      BY <1>2
    <3> QED BY <1>4, <3>1 DEF StackTypes
  <2> QED BY <1>1, <2>1 DEF AlarmTypes, Words, ListTypes, masks, alarms, ticker, links, times, Interrupt
<1>13. PieKept' /\ Saved(Running') /\ Enabled' /\ ActiveHaveHandlers'
  BY <1>1, <1>3, <1>4
     DEF Inv, PieKept, Saved, Enabled, ActiveHaveHandlers, Quiet, Sections, Switches, masks, Interrupt
<1>14. Links'
  BY <1>3, <1>4, NoLinks DEF alarms, links, Walking, Sections, Switches
<1> QED BY <1>8, <1>9, <1>10, <1>11, <1>12, <1>13, <1>14 DEF Inv

\* Nothing is pending any more: what was interrupted goes on, interrupts on.
LEMMA EndStep == ASSUME Inv, EndInterrupt, UNCHANGED alarms PROVE Inv'
<1>1. Running \in FrameSet /\ AlarmTypes /\ Running = stack[1] /\ Running.at = "poll"
  BY Fields DEF Inv, EndInterrupt, At, Running
<1>2. ~Own(Running) /\ ~Opened(Running)
  BY <1>1 DEF Own, Opened, Sections, Switches
<1>3. PICK n \in Nat : n + 1 = Len(stack) /\ n >= 1
  <2>1. PICK m \in Nat : m = Len(stack)
    BY LenProperties, <1>1 DEF AlarmTypes, StackTypes
  <2>2. m >= 2
    BY <1>2, <2>1, WhoRuns
  <2>3. m - 1 \in Nat /\ (m - 1) + 1 = m /\ m - 1 >= 1
    BY <2>2
  <2> QED BY <2>1, <2>3
<1>4. /\ stack' \in Seq(FrameSet) /\ Len(stack') = n /\ Running' = stack[2]
      /\ \A k \in 1 .. n : stack'[k] = stack[k + 1]
  <2>1. stack' = Tail(stack) /\ stack \in Seq(FrameSet) /\ stack # << >>
    BY <1>1, <1>3 DEF EndInterrupt, AlarmTypes, StackTypes
  <2>2. /\ stack' \in Seq(FrameSet) /\ Len(stack') = Len(stack) - 1
        /\ \A k \in 1 .. Len(stack') : stack'[k] = stack[k + 1]
    BY <2>1, HeadTailProperties
  <2>3. Len(stack') = n
    BY <1>3, <2>2
  <2>4. 1 \in 1 .. n /\ 1 + 1 = 2
    BY <1>3
  <2>5. \A k \in 1 .. n : stack'[k] = stack[k + 1]
    BY <2>2, <2>3
  <2>6. stack'[1] = stack[2]
    BY <2>4, <2>5
  <2> QED BY <2>2, <2>3, <2>5, <2>6 DEF Running
<1>5. ASSUME NEW k \in 1 .. n
      PROVE  /\ k + 1 \in 2 .. Len(stack) /\ k + 1 \in 1 .. Len(stack)
             /\ stack'[k] = stack[k + 1] /\ Under(k)' = Under(k + 1)
  <2>1. /\ k + 1 \in 2 .. Len(stack) /\ k + 1 \in 1 .. Len(stack)
        /\ stack'[k] = stack[k + 1]
    BY <1>3, <1>4
  <2>2. k + 1 < n <=> (k + 1) + 1 < n + 1
    BY <1>3
  <2>3. ASSUME k + 1 < n PROVE stack'[k + 1] = stack[(k + 1) + 1]
    BY <1>4, <2>3
  <2>4. Under(k)' = Under(k + 1)
    BY <1>3, <1>4, <2>2, <2>3 DEF Under
  <2> QED BY <2>1, <2>4
<1>6. /\ 1 \in 1 .. n /\ Running'.at \in Quiet /\ Running' = stack'[1]
      /\ Own(stack[2]) <=> n = 1
      /\ ~Own(stack[2]) => Opened(stack[2])
      /\ Own(stack[2]) => ~Opened(stack[2])
  <2>1. 2 \in 2 .. Len(stack) /\ 2 \in 1 .. Len(stack) /\ 1 \in 1 .. n /\ 1 + 1 = 2
    BY <1>3
  <2>2. stack[2].at \in Quiet /\ (Own(stack[2]) <=> 2 = n + 1)
    BY <1>3, <2>1 DEF Inv, Below
  <2>3. 2 = n + 1 <=> n = 1
    BY <1>3
  <2>4. /\ ~Own(stack[2]) => Opened(stack[2])
        /\ Own(stack[2]) => ~Opened(stack[2])
    BY <2>2 DEF Own, Opened, Quiet, Sections, Switches
  <2> QED BY <1>4, <2>1, <2>2, <2>3, <2>4
<1>7. Below'
  <2>1. ASSUME NEW k \in 1 .. n
        PROVE  /\ stack'[k].at \in Quiet
               /\ Own(stack'[k]) <=> k = n
               /\ Own(stack'[k]) \/ stack'[k].at = "poll" <=> stack'[k].irq = Main
    <3>1. /\ stack[k + 1].at \in Quiet
          /\ Own(stack[k + 1]) <=> k + 1 = n + 1
          /\ Own(stack[k + 1]) \/ stack[k + 1].at = "poll" <=> stack[k + 1].irq = Main
      BY <1>3, <1>5 DEF Inv, Below
    <3>2. k + 1 = n + 1 <=> k = n
      OBVIOUS
    <3> QED BY <1>5, <3>1, <3>2
  <2> QED BY <1>4, <2>1 DEF Below
<1>8. Masks'
  <2>1. \A k \in 1 .. Len(stack') : Opened(stack'[k]) => stack'[k].mask = Under(k)'
    BY <1>4, <1>5 DEF Inv, Masks
  <2>2. alt_priority_mask = Under(1) /\ alt_priority_mask' = alt_priority_mask
    BY <1>2 DEF Inv, Masks, EndInterrupt, masks
  <2>3. CASE n = 1
    <3>1. ~(1 + 1 < n) /\ ~(1 + 1 < n + 1)
      BY <2>3
    <3>2. Under(1) = Irqs /\ Under(1)' = Irqs
      BY <1>3, <1>4, <3>1 DEF Under
    <3> QED BY <1>4, <1>6, <2>1, <2>2, <2>3, <3>2 DEF Masks
  <2>4. CASE n # 1
    <3>1. 1 + 1 < n + 1 /\ 1 + 1 = 2
      BY <1>3, <2>4
    <3>2. Under(1) = MoreUrgent(stack[2].irq)
      BY <1>3, <3>1 DEF Under
    <3> QED BY <1>4, <1>6, <2>1, <2>2, <2>4, <3>2 DEF Masks
  <2> QED BY <2>3, <2>4
<1>9. Order'
  <2> SUFFICES ASSUME NEW j \in 1 .. n, NEW k \in 1 .. n, j < k, k < n
               PROVE  stack'[j].irq = Main \/ stack'[j].irq < stack'[k].irq
    BY <1>4 DEF Order
  <2>1. j + 1 < k + 1 /\ k + 1 < n + 1
    OBVIOUS
  <2> QED BY <1>3, <1>5, <2>1 DEF Inv, Order
<1>10. Handlers'
  BY <1>4, <1>5 DEF Inv, Handlers, EndInterrupt
<1>11. AlarmTypes'
  <2>1. StackTypes'
    BY <1>3, <1>4 DEF StackTypes
  <2> QED BY <1>1, <2>1 DEF AlarmTypes, Words, ListTypes, masks, alarms, ticker, links, times, EndInterrupt
<1>12. PieKept' /\ Saved(Running') /\ Enabled' /\ ActiveHaveHandlers'
  BY <1>1, <1>6
     DEF Inv, PieKept, Saved, Enabled, ActiveHaveHandlers, Quiet, Sections, Switches, masks, EndInterrupt
<1>13. Links'
  BY <1>6, NoLinks DEF alarms, links, Quiet, Walking, Sections, Switches
<1> QED BY <1>7, <1>8, <1>9, <1>10, <1>11, <1>12, <1>13 DEF Inv

\* A device asks; the system clock is found.
LEMMA AskStep ==
  ASSUME Inv, (\E i \in Irqs : Ask(i) /\ UNCHANGED alarms) \/ SysclkInit
  PROVE  Inv'
<1>1. /\ UNCHANGED << pie, masks, alt_irq, stack, links, times, alt_nticks >>
      /\ lines' \subseteq Irqs /\ alt_tick_rate' \in BOOLEAN
  BY DEF Ask, SysclkInit, Inv, AlarmTypes, Words, ListTypes, irqVars, alarms, ticker
<1>2. Running' = Running /\ Linked' = Linked /\ \A k : Under(k)' = Under(k)
  BY <1>1 DEF Running, Linked, links, Under
<1>3. AlarmTypes'
  BY <1>1 DEF Inv, AlarmTypes, Words, StackTypes, ListTypes, masks, links, times
<1>4. Saved(Running') /\ PieKept' /\ Enabled' /\ ActiveHaveHandlers' /\ Handlers'
  BY <1>1, <1>2 DEF Inv, PieKept, Enabled, ActiveHaveHandlers, Handlers, masks
<1>5. Below' /\ Masks' /\ Order'
  BY <1>1, <1>2 DEF Inv, Below, Masks, Order, masks
<1>6. Links'
  BY <1>1, <1>2 DEF Inv, Links, links
<1> QED BY <1>3, <1>4, <1>5, <1>6 DEF Inv

\* The program, a routine or a callback calls alt_irq_enable, alt_irq_disable,
\* alt_alarm_start or alt_alarm_stop.
LEMMA CallsStep ==
  ASSUME Inv,
         \/ \E i \in Irqs, on \in BOOLEAN : SwitchIrq(i, on) /\ UNCHANGED alarms
         \/ \E a \in Alarm : Start(a) \/ Stop(a)
  PROVE  Inv'
<1>1. ASSUME NEW i \in Irqs, NEW on \in BOOLEAN, SwitchIrq(i, on), UNCHANGED alarms
      PROVE  Inv'
  <2> DEFINE label == IF on THEN "activate" ELSE "deactivate"
  <2>1. Running.at \in {"ready", "isr"} /\ label \in {"activate", "deactivate"}
    BY <1>1 DEF SwitchIrq, MaySwitch
  <2>2. alt_priority_mask = Irqs
    <3>1. CASE Running.at = "ready"
      BY <3>1, WhoRuns DEF Own
    <3>2. CASE Running.at # "ready"
      BY <1>1, <3>2 DEF SwitchIrq, MaySwitch
    <3> QED BY <3>1, <3>2
  <2>3. label = "activate" => i \in alt_irq
    <3>1. CASE Running.at = "ready"
      BY <1>1, <3>1 DEF SwitchIrq, MaySwitch
    <3>2. CASE Running.at # "ready"
      <4>1. Running.irq = i /\ 1 \in 1 .. Len(stack) /\ Running = stack[1] /\ i # Main
        BY <1>1, <3>2, Fields, InterruptsAssumption DEF SwitchIrq, MaySwitch, Inv, Running, Main
      <4> QED BY <4>1 DEF Inv, Handlers
    <3> QED BY <3>1, <3>2
  <2>4. CallAt(label, i) /\ UNCHANGED << lines, masks, alt_irq >>
    BY <1>1 DEF SwitchIrq
  <2> HIDE DEF label
  <2> QED BY <1>1, <2>1, <2>2, <2>3, <2>4, CallStep
<1>2. ASSUME NEW a \in Alarm, Start(a) PROVE Inv'
  BY <1>2, CallStep DEF Start, CanCall
<1>3. ASSUME NEW a \in Alarm, Stop(a) PROVE Inv'
  <2>1. a \in Linked
    BY <1>3 DEF Stop, Linked, Element
  <2> QED BY <1>3, <2>1, CallStep DEF Stop, CanCall
<1> QED BY <1>1, <1>2, <1>3

----------------------------------------------------------------------------
(* The alarms.                                                             *)

Listing == {"time", "join", "joinList", "unlink", "unlinkSelf"}

\* A step of the clock's routine or of an operation on the list: interrupts stay
\* off and the masks as they are.
LEMMA WalkStep ==
  ASSUME Inv, NEW f \in FrameSet, stack' = [stack EXCEPT ![1] = f],
         f.irq = Running.irq, f.mask = Running.mask,
         \/ /\ Running.at \in Walking \union {"isr"}
            /\ f.at \in Walking \union {"served"}
         \/ /\ Running.at \in Listing /\ f.at \in Listing \union {"leave"}
            /\ f.ret = Running.ret /\ f.ctx = Running.ctx,
         UNCHANGED << pie, lines, masks, alt_irq >>, ListTypes', Running' = f => Links'
  PROVE  Inv'
<1>1. Running \in FrameSet /\ AlarmTypes
  BY Fields DEF Inv
<1>2. /\ Own(f) <=> Own(Running)
      /\ Opened(f) <=> Opened(Running)
      /\ f.at # "poll" /\ Running.at # "poll"
  BY DEF Own, Opened, Walking, Listing, Sections, Switches
<1>3. /\ StackTypes' /\ Below' /\ Masks' /\ Order' /\ Running' = f /\ Handlers'
  BY <1>2, RunStep DEF masks
<1>4. AlarmTypes'
  BY <1>1, <1>3 DEF AlarmTypes, Words, masks
<1>5. PieKept'
  BY <1>3 DEF Inv, PieKept, Quiet, Walking, Listing
<1>6. Saved(Running')
  <2>1. CASE Running.at \in Walking \union {"isr"}
    BY <1>3, <2>1 DEF Saved, Walking, Listing, Sections, Switches
  <2>2. CASE Running.at \in Listing
    <3>1. Saved(Running) /\ Running.at \in Sections /\ Running.at \notin Switches \union {"leave"}
      BY <2>2 DEF Inv, Listing, Sections, Switches
    <3>2. f.ret = Running.ret /\ f.ctx = Running.ctx /\ f.at \notin {"enter", "exit"}
      BY <2>2 DEF Listing, Walking
    <3> QED BY <1>3, <3>1, <3>2 DEF Saved, PutsBack
  <2> QED BY <2>1, <2>2
<1>7. Enabled' /\ ActiveHaveHandlers'
  BY <1>3 DEF Inv, Enabled, ActiveHaveHandlers, masks, Walking, Listing, Switches
<1> QED BY <1>3, <1>4, <1>5, <1>6, <1>7 DEF Inv

\* The tick counter counts within its width.
LEMMA Wraps == \A n \in Int : n % Wrap \in 0 .. Wrap - 1
BY AlarmsAssumption

\* An alarm joins the list.
LEMMA JoinStep == ASSUME Inv, JoinSelf \/ JoinList PROVE Inv'
<1> DEFINE at == IF Running.at = "join" THEN "joinList" ELSE "leave"
           f  == [Running EXCEPT !.at = at]
<1>1. /\ Running \in FrameSet /\ AlarmTypes /\ Running.at \in {"join", "joinList"}
      /\ JoinSelf => Running.at = "join"
      /\ JoinList => Running.at = "joinList"
  BY Fields DEF Inv, JoinSelf, JoinList, At
<1>2. stack' = [stack EXCEPT ![1] = f]
  BY <1>1 DEF JoinSelf, JoinList, Go, Running, AlarmTypes, StackTypes
<1>3. /\ f \in FrameSet /\ at \in {"joinList", "leave"}
      /\ f.at = at /\ f.ret = Running.ret /\ f.id = Running.id /\ f.ctx = Running.ctx
      /\ f.irq = Running.irq /\ f.mask = Running.mask
      /\ f.alarm = Running.alarm /\ f.next = Running.next
  BY <1>1 DEF FrameSet, Labels, Sections, Switches
<1> HIDE DEF f
<1>4. /\ Running.id \in Alarm /\ Running.id \in Element /\ List \in Linked /\ List \in Element
      /\ llist_next[List] \in Linked /\ Linked \subseteq Element
      /\ JoinList => Running.id \in Linked
  BY <1>1 DEF Inv, Links, Linked, Element
<1>5. CASE JoinSelf
  <2>1. /\ llist_next' = [llist_next EXCEPT ![Running.id] = llist_next[List]]
        /\ llist_previous' = [llist_previous EXCEPT ![Running.id] = List]
    BY <1>5 DEF JoinSelf
  <2>2. ListTypes' /\ Linked' = Linked \union {Running.id}
    <3>1. ListTypes'
      BY <1>1, <1>4, <1>5, <2>1 DEF AlarmTypes, ListTypes, JoinSelf, ticker, times
    <3>2. llist_next[List] # NoAlarm
      BY <1>4 DEF Linked
    <3> QED BY <1>1, <1>4, <2>1, <3>1, <3>2 DEF Linked, AlarmTypes, ListTypes
  <2>3. \A e \in Linked' : llist_next'[e] \in Linked' /\ llist_previous'[e] \in Linked'
    BY <1>1, <1>4, <2>1, <2>2 DEF Inv, Links, Linked, AlarmTypes, ListTypes
  <2>4. Running' = f => Links'
    BY <1>1, <1>3, <1>4, <1>5, <2>2, <2>3 DEF Inv, Links, Sections, Switches
  <2> QED BY <1>1, <1>2, <1>3, <1>5, <2>2, <2>4, WalkStep DEF JoinSelf, Listing
<1>6. CASE JoinList
  <2>1. /\ llist_next' = [llist_next EXCEPT ![List] = Running.id]
        /\ llist_previous' = [llist_previous EXCEPT ![llist_next[List]] = Running.id]
        /\ Running.id # NoAlarm
    BY <1>4, <1>6, AlarmsAssumption DEF JoinList
  <2>2. ListTypes' /\ Linked' = Linked
    <3>1. ListTypes'
      BY <1>1, <1>4, <1>6, <2>1 DEF AlarmTypes, ListTypes, JoinList, ticker, times
    <3> QED BY <1>1, <1>4, <2>1, <3>1 DEF Linked, AlarmTypes, ListTypes
  <2>3. \A e \in Linked' : llist_next'[e] \in Linked' /\ llist_previous'[e] \in Linked'
    BY <1>1, <1>4, <1>6, <2>1, <2>2 DEF Inv, Links, Linked, AlarmTypes, ListTypes
  <2>4. Running' = f => Links'
    BY <1>1, <1>3, <1>4, <1>6, <2>2, <2>3 DEF Inv, Links, Sections, Switches
  <2> QED BY <1>1, <1>2, <1>3, <1>6, <2>2, <2>4, WalkStep DEF JoinList, Listing
<1> QED BY <1>5, <1>6

\* An alarm leaves the list.
LEMMA UnlinkStep == ASSUME Inv, Unlink \/ UnlinkSelf PROVE Inv'
<1> DEFINE at == IF Running.at = "unlink" THEN "unlinkSelf" ELSE "leave"
           f  == [Running EXCEPT !.at = at]
<1>1. /\ Running \in FrameSet /\ AlarmTypes /\ Running.at \in {"unlink", "unlinkSelf"}
      /\ Unlink => Running.at = "unlink"
      /\ UnlinkSelf => Running.at = "unlinkSelf"
  BY Fields DEF Inv, Unlink, UnlinkSelf, At
<1>2. stack' = [stack EXCEPT ![1] = f]
  BY <1>1 DEF Unlink, UnlinkSelf, Go, Running, AlarmTypes, StackTypes
<1>3. /\ f \in FrameSet /\ at \in {"unlinkSelf", "leave"}
      /\ f.at = at /\ f.ret = Running.ret /\ f.id = Running.id /\ f.ctx = Running.ctx
      /\ f.irq = Running.irq /\ f.mask = Running.mask
      /\ f.alarm = Running.alarm /\ f.next = Running.next
  BY <1>1 DEF FrameSet, Labels, Sections, Switches
<1> HIDE DEF f
<1>4. /\ Running.id \in Alarm /\ Running.id \in Linked /\ Linked \subseteq Element
      /\ llist_next[Running.id] \in Linked /\ llist_previous[Running.id] \in Linked
      /\ NoAlarm \notin Linked
  BY <1>1, AlarmsAssumption DEF Inv, Links, Linked, Element
<1>5. PICK a \in Linked, b \in Linked, c \in Linked, d \in Linked :
        /\ llist_next' = [llist_next EXCEPT ![a] = b]
        /\ llist_previous' = [llist_previous EXCEPT ![c] = d]
  BY <1>4 DEF Unlink, UnlinkSelf
<1>6. ListTypes'
  BY <1>1, <1>4, <1>5 DEF AlarmTypes, ListTypes, Unlink, UnlinkSelf, ticker, times
<1>7. Linked' = Linked
  BY <1>1, <1>4, <1>5 DEF Linked, AlarmTypes, ListTypes
<1>8. \A e \in Linked' : llist_next'[e] \in Linked' /\ llist_previous'[e] \in Linked'
  BY <1>1, <1>4, <1>5, <1>7 DEF Inv, Links, AlarmTypes, ListTypes
<1>9. Running' = f => Links'
  BY <1>1, <1>3, <1>4, <1>7, <1>8 DEF Inv, Links, Sections, Switches
<1> QED BY <1>1, <1>2, <1>3, <1>6, <1>9, WalkStep DEF Unlink, UnlinkSelf, Listing

\* What a walk holds is in the list.
LEMMA Walked ==
  ASSUME Inv
  PROVE  /\ List \in Linked /\ llist_next[List] \in Linked /\ Linked \subseteq Element
         /\ Running.at = "walk" => Running.alarm \in Linked
         /\ Running.at \in {"step", "call", "called"} =>
              Running.alarm \in Alarm \intersect Linked /\ Running.next \in Linked
         /\ \A e \in Linked : llist_next[e] \in Linked
BY DEF Inv, Links, Linked

\* Times are set and the list is walked: the pointers stay as they are.
LEMMA TimesStep ==
  ASSUME Inv, \/ \E n \in Delays : SetTime(n)
              \/ \E n \in Periods : Again(n)
              \/ Tick \/ Visit \/ Step \/ EndTick
  PROVE  Inv'
<1>1. /\ Running \in FrameSet /\ AlarmTypes
      /\ Delays \subseteq Nat /\ Periods \subseteq Nat /\ alt_nticks \in Nat
      /\ \A a \in Alarm : time[a] \in Nat
      /\ Linked \subseteq Element
  BY Fields, AlarmsAssumption, Walked DEF Inv, AlarmTypes, ListTypes
<1>2. ASSUME UNCHANGED links PROVE Linked' = Linked
  BY <1>2 DEF Linked, links
<1>3. ASSUME NEW n \in Delays, SetTime(n) PROVE Inv'
  <2> DEFINE f == [Running EXCEPT !.at = "join"]
  <2>1. Running.at = "time" /\ stack' = [stack EXCEPT ![1] = f]
    BY <1>1, <1>3 DEF SetTime, At, Go, Running, AlarmTypes, StackTypes
  <2>2. /\ f \in FrameSet /\ f.at = "join" /\ f.ret = Running.ret /\ f.id = Running.id
        /\ f.ctx = Running.ctx /\ f.irq = Running.irq /\ f.mask = Running.mask
        /\ f.alarm = Running.alarm /\ f.next = Running.next
    BY <1>1 DEF FrameSet, Labels, Sections
  <2> HIDE DEF f
  <2>3. Running.id \in Alarm
    BY <2>1 DEF Inv, Links
  <2>4. ListTypes'
    <3>1. (n + alt_nticks + 1) % Wrap \in 0 .. Wrap - 1
      BY <1>1, Wraps
    <3>2. time' = [time EXCEPT ![Running.id] = (n + alt_nticks + 1) % Wrap]
      BY <1>3 DEF SetTime
    <3>3. time' \in [Alarm -> 0 .. Wrap - 1]
      BY <1>1, <3>1, <3>2 DEF AlarmTypes, ListTypes
    <3> DEFINE past == time'[Running.id] < alt_nticks
    <3>4. rollover' = [rollover EXCEPT ![Running.id] = past]
      BY <1>3, Zenon DEF SetTime
    <3>6. past \in BOOLEAN
      OBVIOUS
    <3> HIDE DEF past
    <3>5. rollover' \in [Alarm -> BOOLEAN]
      BY <1>1, <3>4, <3>6 DEF AlarmTypes, ListTypes
    <3> QED BY <1>1, <1>3, <3>3, <3>5 DEF AlarmTypes, ListTypes, SetTime, ticker, links
  <2>5. Running' = f => Links'
    BY <1>2, <1>3, <2>1, <2>2, <2>3 DEF Inv, Links, SetTime, links, Sections, Switches
  <2> QED BY <1>3, <2>1, <2>2, <2>4, <2>5, WalkStep DEF SetTime, Listing
<1>4. ASSUME NEW n \in Periods, Again(n) PROVE Inv'
  <2> DEFINE f == [Running EXCEPT !.at = "step"]
  <2>1. Running.at \in {"call", "called"} /\ stack' = [stack EXCEPT ![1] = f]
    BY <1>1, <1>4 DEF Again, At, Go, Running, AlarmTypes, StackTypes
  <2>2. /\ f \in FrameSet /\ f.at = "step" /\ f.ret = Running.ret /\ f.id = Running.id
        /\ f.ctx = Running.ctx /\ f.irq = Running.irq /\ f.mask = Running.mask
        /\ f.alarm = Running.alarm /\ f.next = Running.next
    BY <1>1 DEF FrameSet, Labels, Walking
  <2> HIDE DEF f
  <2>3. Running.alarm \in Alarm
    BY <2>1, Walked
  <2>4. ListTypes'
    <3>1. (time[Running.alarm] + n) % Wrap \in 0 .. Wrap - 1
      BY <1>1, <2>3, Wraps
    <3>2. time' = [time EXCEPT ![Running.alarm] = (time[Running.alarm] + n) % Wrap]
      BY <1>4 DEF Again
    <3>3. time' \in [Alarm -> 0 .. Wrap - 1]
      BY <1>1, <3>1, <3>2 DEF AlarmTypes, ListTypes
    <3>4. rollover' \in [Alarm -> BOOLEAN]
      BY <1>1, <1>4, <2>3 DEF AlarmTypes, ListTypes, Again
    <3> QED BY <1>1, <1>4, <3>3, <3>4 DEF AlarmTypes, ListTypes, Again, ticker, links
  <2>5. Running' = f => Links'
    BY <1>2, <1>4, <2>1, <2>2 DEF Inv, Links, Again, links, Sections, Switches
  <2> QED BY <1>4, <2>1, <2>2, <2>4, <2>5, WalkStep DEF Again, Walking
<1>5. ASSUME Tick PROVE Inv'
  <2> DEFINE f == [Running EXCEPT !.at = "walk", !.alarm = llist_next[List]]
  <2>1. Running.at = "isr" /\ stack' = [stack EXCEPT ![1] = f]
    BY <1>1, <1>5 DEF Tick, At, Running, AlarmTypes, StackTypes
  <2>2. llist_next[List] \in Linked /\ llist_next[List] \in Element
    BY Walked
  <2>3. /\ f \in FrameSet /\ f.at = "walk" /\ f.alarm = llist_next[List]
        /\ f.irq = Running.irq /\ f.mask = Running.mask
    BY <1>1, <2>2 DEF FrameSet, Labels, Walking
  <2> HIDE DEF f
  <2>4. ListTypes'
    <3>1. alt_nticks' \in 0 .. Wrap - 1
      BY <1>1, <1>5, Wraps DEF Tick
    <3> QED BY <1>1, <1>5, <3>1 DEF AlarmTypes, ListTypes, Tick, ticker, links, times
  <2>5. Running' = f => Links'
    BY <1>2, <1>5, <2>1, <2>2, <2>3 DEF Inv, Links, Tick, links, Sections, Switches
  <2> QED BY <1>5, <2>1, <2>3, <2>4, <2>5, WalkStep DEF Tick, Walking
<1>6. ASSUME Visit PROVE Inv'
  <2> DEFINE a  == Running.alarm
             at == IF time[a] <= alt_nticks /\ ~StillRolled(a) THEN "call" ELSE "step"
             f  == [Running EXCEPT !.next = llist_next[a], !.at = at]
  <2>1. Running.at = "walk" /\ a # List /\ stack' = [stack EXCEPT ![1] = f]
    BY <1>1, <1>6 DEF Visit, At, Running, AlarmTypes, StackTypes
  <2>2. /\ a \in Linked /\ a \in Alarm /\ llist_next[a] \in Linked /\ llist_next[a] \in Element
        /\ at \in {"call", "step"}
    BY <2>1, Walked DEF Element
  <2>3. /\ f \in FrameSet /\ f.at = at /\ f.alarm = a /\ f.next = llist_next[a]
        /\ f.irq = Running.irq /\ f.mask = Running.mask
    <3> HIDE DEF at, a
    <3>1. at \in Labels
      BY <2>2 DEF Labels, Walking
    <3> QED BY <1>1, <2>2, <3>1 DEF FrameSet, a
  <2> HIDE DEF f, at
  <2>4. ListTypes'
    <3>1. StillRolled(a) \in BOOLEAN
      BY <1>1, <2>2 DEF StillRolled, AlarmTypes, ListTypes
    <3> QED BY <1>1, <1>6, <2>2, <3>1 DEF AlarmTypes, ListTypes, Visit, ticker, links
  <2>5. Running' = f => Links'
    BY <1>2, <1>6, <2>1, <2>2, <2>3 DEF Inv, Links, Visit, links, Sections, Switches
  <2> QED BY <1>6, <2>1, <2>2, <2>3, <2>4, <2>5, WalkStep DEF Visit, Walking
<1>7. ASSUME Step PROVE Inv'
  <2> DEFINE f == [Running EXCEPT !.at = "walk", !.alarm = Running.next, !.next = NoAlarm]
  <2>1. Running.at = "step" /\ stack' = [stack EXCEPT ![1] = f]
    BY <1>1, <1>7 DEF Step, At, Running, AlarmTypes, StackTypes
  <2>2. Running.next \in Linked
    BY <2>1, Walked
  <2>3. /\ f \in FrameSet /\ f.at = "walk" /\ f.alarm = Running.next
        /\ f.irq = Running.irq /\ f.mask = Running.mask
    BY <1>1 DEF FrameSet, Labels, Walking
  <2> HIDE DEF f
  <2>4. ListTypes' /\ UNCHANGED links
    BY <1>1, <1>7 DEF AlarmTypes, ListTypes, Step, alarms, ticker, links, times
  <2>5. Running' = f => Links'
    BY <1>2, <2>1, <2>2, <2>3, <2>4 DEF Inv, Links, links, Sections, Switches
  <2> QED BY <1>7, <2>1, <2>3, <2>4, <2>5, WalkStep DEF Step, Walking
<1>8. ASSUME EndTick PROVE Inv'
  <2> DEFINE f == [Running EXCEPT !.at = "served", !.alarm = NoAlarm]
  <2>1. Running.at = "walk" /\ stack' = [stack EXCEPT ![1] = f]
    BY <1>1, <1>8 DEF EndTick, At, Running, AlarmTypes, StackTypes
  <2>3. /\ f \in FrameSet /\ f.at = "served"
        /\ f.irq = Running.irq /\ f.mask = Running.mask
    BY <1>1 DEF FrameSet, Labels
  <2> HIDE DEF f
  <2>4. ListTypes' /\ UNCHANGED links
    BY <1>1, <1>8 DEF AlarmTypes, ListTypes, EndTick, alarms, ticker, links, times
  <2>5. Running' = f => Links'
    BY <1>2, <2>1, <2>3, <2>4 DEF Inv, Links, links, Sections, Switches
  <2> QED BY <1>8, <2>1, <2>3, <2>4, <2>5, WalkStep DEF EndTick, Walking
<1> QED BY <1>3, <1>4, <1>5, <1>6, <1>7, <1>8

\* An alarm whose callback returned 0 is stopped by the walk itself.
LEMMA ExpireStep == ASSUME Inv, Expire PROVE Inv'
<1> DEFINE f == [Running EXCEPT !.ret = "remove", !.at = "unlink", !.id = Running.alarm,
                                !.ctx = << pie >>]
<1>1. Running \in FrameSet /\ AlarmTypes /\ Running.at \in {"call", "called"}
  BY Fields DEF Inv, Expire, At
<1>2. stack' = [stack EXCEPT ![1] = f]
  BY <1>1 DEF Expire, Running, AlarmTypes, StackTypes
<1>3. pie = FALSE /\ pie' = FALSE /\ << pie >> \in Seq(BOOLEAN)
  <2>1. pie = FALSE
    BY <1>1 DEF Inv, PieKept, Quiet, AlarmTypes, Words
  <2>2. << FALSE >> \in Seq(BOOLEAN)
    OBVIOUS
  <2> QED BY <2>1, <2>2 DEF Expire
<1>4. /\ Running.alarm \in Alarm \intersect Linked /\ Running.next \in Linked
  BY <1>1, Walked
<1>5. /\ f \in FrameSet /\ f.at = "unlink" /\ f.ret = "remove" /\ f.id = Running.alarm
      /\ f.ctx = << FALSE >> /\ f.irq = Running.irq /\ f.mask = Running.mask
      /\ f.alarm = Running.alarm /\ f.next = Running.next
  <2>1. /\ "remove" \in Labels /\ "unlink" \in Labels
        /\ Running.alarm \in Irqs \union Alarm \union {Main}
    BY <1>4 DEF Labels, Sections
  <2>2. << pie >> \in Seq(BOOLEAN) /\ << pie >> = << FALSE >>
    BY <1>3
  <2> QED BY <1>1, <2>1, <2>2 DEF FrameSet
<1> HIDE DEF f
<1>6. /\ Own(f) <=> Own(Running)
      /\ Opened(f) <=> Opened(Running)
      /\ f.at # "poll" /\ Running.at # "poll"
  BY <1>1, <1>5 DEF Own, Opened, Sections, Switches
<1>7. /\ StackTypes' /\ Below' /\ Masks' /\ Order' /\ Running' = f /\ Handlers'
  BY <1>2, <1>5, <1>6, RunStep DEF Expire, masks
<1>8. AlarmTypes'
  BY <1>1, <1>3, <1>7 DEF AlarmTypes, Words, ListTypes, masks, alarms, ticker, links, times, Expire
<1>9. PieKept' /\ Enabled' /\ ActiveHaveHandlers'
  BY <1>1, <1>3, <1>5, <1>7
     DEF Inv, PieKept, Enabled, ActiveHaveHandlers, Quiet, Sections, Switches, masks, Expire
<1>10. Saved(Running')
  <2>1. PutsBack(f) = FALSE
    BY <1>5 DEF PutsBack
  <2> QED BY <1>5, <1>7, <2>1, CallersAre DEF Saved
<1>11. Links'
  <2>1. Linked' = Linked /\ UNCHANGED links
    BY DEF Linked, links, alarms, Expire
  <2> QED BY <1>4, <1>5, <1>7, <2>1 DEF Inv, Links, links, Sections, Switches
<1> QED BY <1>7, <1>8, <1>9, <1>10, <1>11 DEF Inv

\* Every step keeps the invariant.
LEMMA InvStep == Inv /\ [AlarmsNext]_alarmVars => Inv'
<1> SUFFICES ASSUME Inv, [AlarmsNext]_alarmVars PROVE Inv'
  OBVIOUS
<1>1. CASE Choose
  BY <1>1, CallsStep, RegisterStep, OpenedStep, AskStep DEF Choose
<1>2. CASE Proceed
  <2>1. CASE UNCHANGED alarms /\ (Leave \/ SetActive \/ WriteEnable \/ RegisterSwitch)
    BY <2>1, LeaveStep, WriteStep, NestStep
  <2>2. CASE UNCHANGED alarms /\ (Interrupt \/ Serve \/ Served \/ EndInterrupt \/ NonInterruptible)
    BY <2>2, InterruptStep, ServeStep, ServedStep, EndStep, OpenedStep
  <2>3. CASE JoinSelf \/ JoinList \/ Unlink \/ UnlinkSelf
    BY <2>3, JoinStep, UnlinkStep
  <2>4. CASE (\E n \in Delays : SetTime(n)) \/ (\E n \in Periods : Again(n))
    BY <2>4, TimesStep
  <2>5. CASE Tick \/ Visit \/ Expire \/ Step \/ EndTick
    BY <2>5, TimesStep, ExpireStep
  <2> QED BY <1>2, <2>1, <2>2, <2>3, <2>4, <2>5 DEF Proceed
<1>3. CASE Device
  BY <1>3, AskStep DEF Device
<1>4. CASE UNCHANGED alarmVars
  <2>1. /\ UNCHANGED << pie, lines, masks, alt_irq, stack, alarms >>
    BY <1>4 DEF alarmVars, irqVars
  <2>2. Running' = Running /\ Linked' = Linked /\ \A k : Under(k)' = Under(k)
    BY <2>1 DEF Running, Linked, alarms, links, Under
  <2>3. AlarmTypes'
    BY <2>1 DEF Inv, AlarmTypes, Words, StackTypes, ListTypes, masks, alarms, links, times, ticker
  <2>4. Saved(Running') /\ PieKept' /\ Enabled' /\ ActiveHaveHandlers' /\ Handlers'
    BY <2>1, <2>2 DEF Inv, PieKept, Enabled, ActiveHaveHandlers, Handlers, masks
  <2>5. Below' /\ Masks' /\ Order' /\ Links'
    BY <2>1, <2>2 DEF Inv, Below, Masks, Order, Links, masks, alarms, links
  <2> QED BY <2>2, <2>3, <2>4, <2>5 DEF Inv
<1> QED BY <1>1, <1>2, <1>3, <1>4 DEF AlarmsNext

\* The invariant of the interrupts and the alarms' list.
THEOREM AlarmsInvariant == AlarmsSpec => []Inv
<1>1. AlarmsSpec => AlarmsInit /\ [][AlarmsNext]_alarmVars
  BY DEF AlarmsSpec
<1> QED BY <1>1, AlarmsInitInv, InvStep, PTL

\* A routine is interrupted only by more urgent ones, and outside the sections
\* the processor lets through what the running routine leaves open.
THEOREM OnlyMoreUrgentCorrect == AlarmsSpec => []OnlyMoreUrgent
<1>1. ASSUME Inv PROVE OnlyMoreUrgent
  <2>1. ASSUME NEW j \in 1 .. Len(stack), NEW k \in 1 .. Len(stack), j < k, stack[k].irq # Main
        PROVE  stack[j].irq = Main \/ stack[j].irq < stack[k].irq
    <3>1. k # Len(stack)
      BY <1>1, <2>1 DEF Inv, Below
    <3>2. PICK n \in Nat : n = Len(stack)
      BY <1>1, LenProperties DEF Inv, AlarmTypes, StackTypes
    <3>3. k < Len(stack)
      BY <3>1, <3>2
    <3> QED BY <1>1, <2>1, <3>3 DEF Inv, Order
  <2>2. pie => ienable = alt_irq_active \intersect alt_priority_mask
    BY <1>1 DEF Inv, PieKept, Enabled, Quiet
  <2> QED BY <2>1, <2>2 DEF OnlyMoreUrgent
<1> QED BY <1>1, AlarmsInvariant, PTL

\* No interrupt is served without its handler.
THEOREM HandlerThereCorrect == AlarmsSpec => []HandlerThere
<1>1. ASSUME Inv PROVE HandlerThere
  <2>1. Running \in FrameSet
    BY <1>1, Fields DEF Inv
  <2> QED BY <2>1 DEF HandlerThere, FrameSet, Labels, Quiet, Sections, Switches, Walking
<1> QED BY <1>1, AlarmsInvariant, PTL

(***************************************************************************)
(* Springs, for every list of parameters, versions of the program and      *)
(* number of runs: the solver computes with one version's parameters.      *)
(*                                                                         *)
(* The start stands from the third-last word to the last, and the program  *)
(* that is loaded next may find it so.  What holds throughout is that      *)
(* parameters are on the port only where the start is down (Quietly), and  *)
(* that they are all of one version whenever it is up (StartWhole): also   *)
(* while it is only on its way, and while an earlier program's lasts.      *)
(***************************************************************************)

\* Parameters of one version, all of them.
OfOneVersion(x) == \E v \in Versions : x = [p \in Param |-> v]

SpringsTypes ==
  /\ version \in Versions /\ sent \in Nat
  /\ start_nios \in BOOLEAN /\ held \in BOOLEAN /\ restart_dda \in BOOLEAN
  /\ init \in [Param -> Versions \union {0}]
  /\ \/ pio \in {Word("none", 0), StartWord(TRUE), StartWord(FALSE)}
     \/ \E p \in Param, v \in Versions : pio = Word(p, v)

\* What the running program has put on the port, and got across.
Sent == pc = "init_dda" =>
  /\ sent <= Len(InitWords(version))
  /\ sent >= 1 => pio = InitWords(version)[sent]
  /\ \A j \in DOMAIN Params :
       j + 1 < sent \/ (j + 1 = sent /\ held) => init[Params[j]] = version

Quietly ==
  /\ pio.to \in Param => ~start_nios
  /\ held /\ pio = StartWord(FALSE) => ~start_nios

StartWhole == start_nios \/ pio = StartWord(TRUE) => OfOneVersion(init)

LoadedWhole ==
  /\ restart_dda \/ state \in {"ST_WAIT_RESTART_LOW", "ST_LOOP"} => OfOneVersion(loaded)
  /\ state = "ST_RESET" => ~restart_dda

RunWhole == dda \in {"ST_wait_start_low", "ST_compute"} => OfOneVersion(run)

\* The inductive invariant.
SpringsInv == SpringsTypes /\ Sent /\ Quietly /\ StartWhole /\ LoadedWhole /\ RunWhole

----------------------------------------------------------------------------
(* Lemmas.                                                                 *)

\* No parameter goes by the name of the start.
LEMMA ParamsAre ==
  /\ Len(Params) \in Nat /\ DOMAIN Params = 1 .. Len(Params)
  /\ \A k \in DOMAIN Params : Params[k] \in Param
  /\ "start" \notin Param /\ "none" \notin Param
<1>1. PICK S : S = STRING \ {"start", "none"}
  OBVIOUS
<1>2. Params \in Seq(S)
  BY <1>1, SpringsAssumption
<1>3. /\ Len(Params) \in Nat /\ DOMAIN Params = 1 .. Len(Params)
      /\ \A k \in DOMAIN Params : Params[k] \in S
  BY <1>2, LenProperties, ElementOfSeq
<1> QED BY <1>1, <1>3 DEF Param

\* A word is known by where it goes and what it says.
LEMMA WordIs == \A to, value : Word(to, value).to = to /\ Word(to, value).value = value
BY DEF Word

\* The start, a parameter and what is on the port at power-up are different words.
LEMMA StartIs ==
  /\ StartWord(TRUE).to = "start" /\ StartWord(TRUE).value = TRUE
  /\ StartWord(FALSE).to = "start" /\ StartWord(FALSE).value = FALSE
  /\ StartWord(TRUE) # StartWord(FALSE)
  /\ \A p \in Param : \A v :
       /\ Word(p, v).to = p /\ Word(p, v).value = v
       /\ Word(p, v) # StartWord(TRUE) /\ Word(p, v) # StartWord(FALSE)
  /\ Word("none", 0).to = "none"
  /\ Word("none", 0) # StartWord(TRUE) /\ Word("none", 0) # StartWord(FALSE)
<1>1. /\ StartWord(TRUE).to = "start" /\ StartWord(TRUE).value = TRUE
      /\ StartWord(FALSE).to = "start" /\ StartWord(FALSE).value = FALSE
  BY DEF StartWord, Word
<1>2. StartWord(TRUE) # StartWord(FALSE)
  <2>1. TRUE # FALSE
    OBVIOUS
  <2> QED BY <1>1, <2>1, Zenon
<1>3. ASSUME NEW p \in Param, NEW v
      PROVE  /\ Word(p, v).to = p /\ Word(p, v).value = v
             /\ Word(p, v) # StartWord(TRUE) /\ Word(p, v) # StartWord(FALSE)
  <2>1. Word(p, v).to = p /\ Word(p, v).value = v
    BY DEF Word
  <2>2. p # "start"
    BY ParamsAre
  <2> QED BY <1>1, <2>1, <2>2, Zenon
<1>4. /\ Word("none", 0).to = "none"
      /\ Word("none", 0) # StartWord(TRUE) /\ Word("none", 0) # StartWord(FALSE)
  <2>1. Word("none", 0).to = "none" /\ "none" # "start"
    BY WordIs
  <2> QED BY <1>1, <2>1
<1> QED BY <1>1, <1>2, <1>3, <1>4

\* What is sent: the start down, the parameters, the start up twice and down again
\* (init_dda, lines 158-171).
LEMMA InitWordsAre ==
  ASSUME NEW v, NEW n \in Nat, n = Len(Params)
  PROVE  /\ Len(InitWords(v)) = n + 4
         /\ InitWords(v)[1] = StartWord(FALSE) /\ InitWords(v)[n + 4] = StartWord(FALSE)
         /\ \A k \in 1 .. n : InitWords(v)[k + 1] = Word(Params[k], v)
         /\ InitWords(v)[n + 2] = StartWord(TRUE) /\ InitWords(v)[n + 3] = StartWord(TRUE)
<1> DEFINE head == << StartWord(FALSE) >>
           body == [k \in 1 .. n |-> Word(Params[k], v)]
           tail == << StartWord(TRUE), StartWord(TRUE), StartWord(FALSE) >>
           W    == {StartWord(TRUE), StartWord(FALSE)} \union {Word(Params[k], v) : k \in 1 .. n}
<1>1. InitWords(v) = head \o body \o tail
  BY ParamsAre DEF InitWords
<1>2. /\ head \in Seq(W) /\ Len(head) = 1 /\ head[1] = StartWord(FALSE)
      /\ tail \in Seq(W) /\ Len(tail) = 3
      /\ tail[1] = StartWord(TRUE) /\ tail[2] = StartWord(TRUE) /\ tail[3] = StartWord(FALSE)
  <2> DEFINE up == StartWord(TRUE)  down == StartWord(FALSE)
  <2>1. up \in W /\ down \in W
    OBVIOUS
  <2> HIDE DEF up, down, W
  <2>2. << down >> \in Seq(W) /\ Len(<< down >>) = 1 /\ << down >>[1] = down
    BY <2>1
  <2>3. /\ << up, up, down >> \in Seq(W) /\ Len(<< up, up, down >>) = 3
        /\ << up, up, down >>[1] = up /\ << up, up, down >>[2] = up
        /\ << up, up, down >>[3] = down
    BY <2>1
  <2> QED BY <2>2, <2>3 DEF up, down
<1>3. body \in [1 .. n -> W]
  OBVIOUS
<1>4. body \in Seq(W) /\ Len(body) = n /\ \A k \in 1 .. n : body[k] = Word(Params[k], v)
  <2>1. \A k \in 1 .. n : body[k] = Word(Params[k], v)
    OBVIOUS
  <2> HIDE DEF body, W
  <2>2. body \in Seq(W)
    BY <1>3, IsASeq
  <2> QED BY <1>3, <2>1, <2>2, LenProperties
<1> HIDE DEF head, body, tail, W
<1> DEFINE front == head \o body
<1>5. /\ front \in Seq(W) /\ Len(front) = n + 1
      /\ \A k \in 1 .. n + 1 : front[k] = IF k <= 1 THEN head[k] ELSE body[k - 1]
  <2>1. /\ front \in Seq(W) /\ Len(front) = Len(head) + Len(body)
        /\ \A k \in 1 .. Len(head) + Len(body) :
             front[k] = IF k <= Len(head) THEN head[k] ELSE body[k - Len(head)]
    BY <1>2, <1>4, ConcatProperties
  <2>2. Len(head) = 1 /\ Len(body) = n
    BY <1>2, <1>4
  <2> HIDE DEF front
  <2>3. 1 + n = n + 1
    OBVIOUS
  <2>4. /\ Len(front) = 1 + n
        /\ \A k \in 1 .. 1 + n : front[k] = IF k <= 1 THEN head[k] ELSE body[k - 1]
    BY <2>1, <2>2, Zenon
  <2> QED BY <2>1, <2>3, <2>4, Zenon
<1> HIDE DEF front
<1>6. /\ Len(InitWords(v)) = n + 4
      /\ \A k \in 1 .. n + 4 : InitWords(v)[k] =
           IF k <= n + 1 THEN front[k] ELSE tail[k - (n + 1)]
  <2>1. InitWords(v) = front \o tail
    BY <1>1 DEF front
  <2>2. /\ Len(front \o tail) = Len(front) + Len(tail)
        /\ \A k \in 1 .. Len(front) + Len(tail) :
             (front \o tail)[k] = IF k <= Len(front) THEN front[k] ELSE tail[k - Len(front)]
    BY <1>2, <1>5, ConcatProperties
  <2>3. Len(front) = n + 1 /\ Len(tail) = 3 /\ (n + 1) + 3 = n + 4
    BY <1>2, <1>5
  <2>4. Len(front) + Len(tail) = n + 4
    BY <2>3
  <2> QED BY <2>1, <2>2, <2>3, <2>4, Zenon
<1>7. InitWords(v)[1] = StartWord(FALSE)
  <2>1. 1 \in 1 .. n + 1 /\ 1 \in 1 .. n + 4 /\ 1 <= n + 1
    OBVIOUS
  <2>2. front[1] = head[1]
    BY <1>5, <2>1
  <2> QED BY <1>2, <1>6, <2>1, <2>2
<1>8. ASSUME NEW k \in 1 .. n PROVE InitWords(v)[k + 1] = Word(Params[k], v)
  <2>1. k + 1 \in 1 .. n + 1 /\ k + 1 \in 1 .. n + 4 /\ k + 1 <= n + 1 /\ ~(k + 1 <= 1)
        /\ (k + 1) - 1 = k
    OBVIOUS
  <2>2. front[k + 1] = body[k]
    BY <1>5, <2>1
  <2>3. InitWords(v)[k + 1] = front[k + 1]
    BY <1>6, <2>1
  <2> QED BY <1>4, <2>2, <2>3
<1>9. /\ InitWords(v)[n + 2] = tail[1] /\ InitWords(v)[n + 3] = tail[2]
      /\ InitWords(v)[n + 4] = tail[3]
  <2>1. /\ n + 2 \in 1 .. n + 4 /\ n + 3 \in 1 .. n + 4 /\ n + 4 \in 1 .. n + 4
        /\ n + 2 - (n + 1) = 1 /\ n + 3 - (n + 1) = 2 /\ n + 4 - (n + 1) = 3
    OBVIOUS
  <2> QED BY <1>6, <2>1
<1> QED BY <1>2, <1>6, <1>7, <1>8, <1>9

----------------------------------------------------------------------------
(* The invariant.                                                          *)

\* At power-up the port holds no word and the solver none of the parameters.
LEMMA SpringsInitInv == SpringsInit => SpringsInv
<1> SUFFICES ASSUME SpringsInit PROVE SpringsInv
  OBVIOUS
<1>1. pio.to = "none" /\ pio # StartWord(TRUE) /\ pio # StartWord(FALSE)
  BY StartIs DEF SpringsInit
<1>2. SpringsTypes
  BY DEF SpringsTypes, SpringsInit, None
<1>3. Sent
  <2>1. PICK n \in Nat : n = Len(Params)
    BY ParamsAre
  <2>2. 0 <= Len(InitWords(version))
    BY <2>1, InitWordsAre
  <2> QED BY <2>2, ParamsAre DEF Sent, SpringsInit
<1> QED BY <1>1, <1>2, <1>3, ParamsAre
        DEF SpringsInv, Quietly, StartWhole, LoadedWhole, RunWhole, SpringsInit

\* The next word: a parameter only goes out when the start is down, the start only
\* when all parameters have been taken.
LEMMA SendStep == ASSUME SpringsInv, Send PROVE SpringsInv'
<1>1. PICK n \in Nat : n = Len(Params)
  BY ParamsAre
<1> DEFINE W == InitWords(version)
<1>2. /\ Len(W) = n + 4 /\ W[1] = StartWord(FALSE) /\ W[n + 4] = StartWord(FALSE)
      /\ \A k \in 1 .. n : W[k + 1] = Word(Params[k], version)
      /\ W[n + 2] = StartWord(TRUE) /\ W[n + 3] = StartWord(TRUE)
  BY <1>1, InitWordsAre
<1> HIDE DEF W
<1>3. /\ version \in Versions /\ sent \in Nat /\ held = TRUE /\ pc = "init_dda"
      /\ DOMAIN Params = 1 .. n
  BY <1>1, ParamsAre DEF SpringsInv, SpringsTypes, Send
<1>4. /\ version' = version /\ UNCHANGED << start_nios, init, state, restart_dda, loaded >>
      /\ UNCHANGED << dda, run >>
  BY DEF Send, starter, solver
<1>5. LoadedWhole' /\ RunWhole'
  BY <1>4 DEF SpringsInv, LoadedWhole, RunWhole, OfOneVersion
<1>6. CASE sent < n + 4
  <2>1. pio' = W[sent + 1] /\ held' = FALSE /\ sent' = sent + 1 /\ pc' = pc
    BY <1>2, <1>6 DEF Send, W
  <2>2. sent + 1 = 1 \/ sent + 1 \in {n + 2, n + 3, n + 4} \/ \E k \in 1 .. n : sent + 1 = k + 1
    <3>1. sent \in 1 .. n => \E k \in 1 .. n : sent + 1 = k + 1
      OBVIOUS
    <3> QED BY <1>3, <1>6, <3>1
  <2>3. \/ pio' = StartWord(FALSE)
        \/ pio' = StartWord(TRUE) /\ sent \in {n + 1, n + 2}
        \/ \E k \in 1 .. n : pio' = Word(Params[k], version) /\ sent = k
    <3>1. CASE sent + 1 = 1
      BY <1>2, <2>1, <3>1
    <3>2. CASE \E k \in 1 .. n : sent + 1 = k + 1
      <4>1. PICK k \in 1 .. n : sent + 1 = k + 1
        BY <3>2
      <4>2. sent = k /\ W[k + 1] = Word(Params[k], version)
        BY <1>2, <1>3, <4>1
      <4> QED BY <2>1, <4>1, <4>2
    <3>3. CASE sent + 1 \in {n + 2, n + 3}
      <4>1. sent \in {n + 1, n + 2}
        BY <1>3, <3>3
      <4>2. W[sent + 1] = StartWord(TRUE)
        BY <1>2, <3>3
      <4> QED BY <2>1, <4>1, <4>2
    <3>4. CASE sent + 1 = n + 4
      BY <1>2, <2>1, <3>4
    <3> QED BY <2>2, <3>1, <3>2, <3>3, <3>4
  <2>4. SpringsTypes'
    <3>1. \/ pio' \in {StartWord(TRUE), StartWord(FALSE)}
          \/ \E p \in Param, v \in Versions : pio' = Word(p, v)
      <4>1. \A k \in 1 .. n : Params[k] \in Param
        BY <1>3, ParamsAre
      <4> QED BY <1>3, <2>3, <4>1
    <3>2. version' \in Versions /\ sent' \in Nat
      BY <1>3, <1>4, <2>1
    <3>3. /\ held' = FALSE /\ start_nios' = start_nios /\ restart_dda' = restart_dda
          /\ init' = init
      BY <1>4, <2>1
    <3>4. held' \in BOOLEAN /\ start_nios' \in BOOLEAN /\ restart_dda' \in BOOLEAN
      BY <3>3, Zenon DEF SpringsInv, SpringsTypes
    <3>5. init' \in [Param -> Versions \union {0}]
      BY <3>3 DEF SpringsInv, SpringsTypes
    <3> QED BY <3>1, <3>2, <3>4, <3>5 DEF SpringsTypes
  <2>5. Sent'
    <3>1. \A j \in 1 .. n : j + 1 < sent + 1 => init[Params[j]] = version
      BY <1>3 DEF SpringsInv, Sent
    <3> QED BY <1>2, <1>3, <1>4, <1>6, <2>1, <3>1 DEF Sent, W
  <2>6. Quietly'
    <3>1. ASSUME NEW k \in 1 .. n, sent = k PROVE ~start_nios
      <4>1. pio = W[k]
        BY <1>3, <3>1 DEF SpringsInv, Sent, W
      <4>2. CASE k = 1
        BY <1>2, <1>3, <4>1, <4>2 DEF SpringsInv, Quietly
      <4>3. CASE k > 1
        <5>1. k - 1 \in 1 .. n /\ (k - 1) + 1 = k
          BY <4>3
        <5>2. W[k] = Word(Params[k - 1], version) /\ Params[k - 1] \in Param
          BY <1>2, <1>3, <5>1, ParamsAre
        <5> QED BY <4>1, <5>2, WordIs DEF SpringsInv, Quietly
      <4> QED BY <4>2, <4>3
    <3>2. pio'.to \in Param => ~start_nios
      BY <2>3, <3>1, WordIs, ParamsAre DEF StartWord
    <3> QED BY <1>4, <2>1, <3>2 DEF Quietly
  <2>7. StartWhole'
    <3>1. ASSUME sent \in {n + 1, n + 2} PROVE OfOneVersion(init)
      <4>1. \A j \in 1 .. n : init[Params[j]] = version
        BY <1>3, <3>1 DEF SpringsInv, Sent
      <4>2. \A p \in Param : init[p] = version
        BY <1>3, <4>1 DEF Param
      <4>3. init = [p \in Param |-> version]
        BY <4>2 DEF SpringsInv, SpringsTypes
      <4> QED BY <1>3, <4>3 DEF OfOneVersion
    <3>2. ASSUME pio' = StartWord(TRUE) PROVE sent \in {n + 1, n + 2}
      <4>1. \A k \in 1 .. n : Word(Params[k], version) # StartWord(TRUE)
        <5>1. \A k \in 1 .. n : Params[k] \in Param
          BY <1>3, ParamsAre
        <5> QED BY <5>1, StartIs
      <4> QED BY <2>3, <3>2, <4>1, StartIs
    <3>3. OfOneVersion(init)' <=> OfOneVersion(init)
      BY <1>4 DEF OfOneVersion
    <3> QED BY <1>4, <3>1, <3>2, <3>3 DEF SpringsInv, StartWhole
  <2> QED BY <1>5, <2>4, <2>5, <2>6, <2>7 DEF SpringsInv
<1>7. CASE ~(sent < n + 4)
  <2>1. pc' = "scene" /\ sent' = 0 /\ UNCHANGED << pio, held >>
    BY <1>2, <1>7 DEF Send, W, port
  <2> QED BY <1>3, <1>4, <1>5, <2>1
          DEF SpringsInv, SpringsTypes, Sent, Quietly, StartWhole, OfOneVersion
<1> QED BY <1>6, <1>7

\* A program loaded anew finds port and hardware as they are.
LEMMA ProgramStep ==
  ASSUME SpringsInv, DrawProgram \/ \E v \in Versions : Rerun(v) PROVE SpringsInv'
<1>1. /\ UNCHANGED << pio, held, start_nios, init, state, restart_dda, loaded, dda, run >>
      /\ version' \in Versions /\ sent' \in Nat
      /\ pc' = "init_dda" => sent' = 0
  BY DEF SpringsInv, SpringsTypes, DrawProgram, DrawScene, Draw, FirstPositions, ReadPositions,
         Rerun, port, starter, solver
<1>2. Sent'
  <2>1. PICK n \in Nat : n = Len(Params)
    BY ParamsAre
  <2>2. 0 <= Len(InitWords(version'))
    BY <2>1, InitWordsAre
  <2> QED BY <1>1, <2>2, ParamsAre DEF Sent
<1> QED BY <1>1, <1>2 DEF SpringsInv, SpringsTypes, Quietly, StartWhole, LoadedWhole, RunWhole,
                         OfOneVersion

\* A clock takes the word on the port, and the machines step.
LEMMA ClockStep == ASSUME SpringsInv, HardwareClock PROVE SpringsInv'
<1>1. /\ held' = TRUE /\ pio' = pio /\ version' = version /\ sent' = sent /\ pc' = pc
      /\ start_nios' = IF pio.to = "start" THEN pio.value ELSE start_nios
      /\ init' = [p \in Param |-> IF pio.to = p THEN pio.value ELSE init[p]]
  BY DEF HardwareClock, TakeWord
<1>2. \/ pio = StartWord(TRUE) /\ pio.to = "start" /\ pio.value = TRUE
      \/ pio = StartWord(FALSE) /\ pio.to = "start" /\ pio.value = FALSE
      \/ /\ pio.to \notin Param /\ pio.to # "start"
         /\ pio # StartWord(TRUE) /\ pio # StartWord(FALSE)
      \/ /\ pio.to \in Param /\ pio.to # "start" /\ ~start_nios /\ pio.value \in Versions
         /\ pio # StartWord(TRUE) /\ pio # StartWord(FALSE)
  <2>1. CASE pio = Word("none", 0)
    BY <2>1, StartIs, ParamsAre
  <2>2. CASE pio = StartWord(TRUE) \/ pio = StartWord(FALSE)
    BY <2>2, StartIs
  <2>3. CASE \E p \in Param, v \in Versions : pio = Word(p, v)
    <3>1. PICK p \in Param, v \in Versions : pio = Word(p, v)
      BY <2>3
    <3>2. pio.to = p /\ pio.value = v /\ pio # StartWord(TRUE) /\ pio # StartWord(FALSE)
      BY <3>1, StartIs
    <3> QED BY <3>2, ParamsAre DEF SpringsInv, Quietly
  <2> QED BY <2>1, <2>2, <2>3 DEF SpringsInv, SpringsTypes
<1>3. pio.to \notin Param => init' = init
  BY <1>1 DEF SpringsInv, SpringsTypes
<1>4. SpringsTypes'
  <2>1. start_nios' \in BOOLEAN /\ init' \in [Param -> Versions \union {0}]
    <3>1. start_nios' \in BOOLEAN
      BY <1>1, <1>2 DEF SpringsInv, SpringsTypes
    <3>2. init \in [Param -> Versions \union {0}]
      BY DEF SpringsInv, SpringsTypes
    <3>3. pio.to \in Param => pio.value \in Versions
      BY <1>2, ParamsAre
    <3> QED BY <1>1, <3>1, <3>2, <3>3
  <2>2. restart_dda' \in BOOLEAN
    BY DEF SpringsInv, SpringsTypes, HardwareClock, StartUp
  <2> QED BY <1>1, <2>1, <2>2 DEF SpringsInv, SpringsTypes
<1>5. Sent'
  <2> SUFFICES ASSUME pc = "init_dda" PROVE Sent'
    BY <1>1 DEF Sent
  <2>1. sent >= 1 => pio = InitWords(version)[sent]
    BY DEF SpringsInv, Sent
  <2>2. sent <= Len(InitWords(version))
    BY DEF SpringsInv, Sent
  <2>3. ASSUME NEW j \in DOMAIN Params, j + 1 <= sent PROVE init'[Params[j]] = version
    <3>1. PICK n \in Nat : n = Len(Params)
      BY ParamsAre
    <3>2. j \in 1 .. n /\ Params[j] \in Param /\ sent \in Nat
      BY <3>1, ParamsAre DEF SpringsInv, SpringsTypes
    <3>3. \A k \in 1 .. n : InitWords(version)[k + 1] = Word(Params[k], version)
      BY <3>1, InitWordsAre
    <3>4. pio.to \in Param => pio.value = version
      <4>1. PICK k \in Nat : k = sent /\ k >= 2
        BY <2>3, <3>2
      <4>2. CASE k - 1 \in 1 .. n
        <5>1. InitWords(version)[(k - 1) + 1] = Word(Params[k - 1], version)
          BY <3>3, <4>2
        <5> QED BY <2>1, <4>1, <5>1, WordIs
      <4>3. CASE k - 1 \notin 1 .. n
        <5>1. CASE k \in {n + 2, n + 3, n + 4}
          <6>1. pio \in {StartWord(TRUE), StartWord(FALSE)}
            <7>1. /\ InitWords(version)[n + 2] = StartWord(TRUE)
                  /\ InitWords(version)[n + 3] = StartWord(TRUE)
                  /\ InitWords(version)[n + 4] = StartWord(FALSE)
              BY <3>1, InitWordsAre
            <7>2. pio = InitWords(version)[k]
              BY <2>1, <3>2, <4>1
            <7> QED BY <5>1, <7>1, <7>2
          <6>2. pio.to = "start"
            BY <6>1, StartIs
          <6> QED BY <6>2, ParamsAre
        <5>2. k <= n + 4
          BY <2>2, <3>1, <4>1, InitWordsAre
        <5> QED BY <4>1, <4>3, <5>1, <5>2
      <4> QED BY <4>2, <4>3
    <3>5. CASE pio.to = Params[j]
      BY <1>1, <3>2, <3>4, <3>5
    <3>6. CASE pio.to # Params[j]
      <4>1. init'[Params[j]] = init[Params[j]]
        BY <1>1, <3>2, <3>6
      <4>2. CASE j + 1 < sent
        BY <4>1, <4>2 DEF SpringsInv, Sent
      <4>3. CASE j + 1 = sent
        BY <2>1, <3>2, <3>3, <3>6, <4>3, WordIs
      <4> QED BY <2>3, <3>2, <4>2, <4>3
    <3> QED BY <3>5, <3>6
  <2> QED BY <1>1, <2>1, <2>3, <2>2 DEF Sent, SpringsInv, SpringsTypes
<1>6. Quietly'
  <2>1. pio.to \in Param => start_nios' = start_nios /\ ~start_nios
    BY <1>1, <1>2, ParamsAre
  <2>2. pio = StartWord(FALSE) => start_nios' = FALSE
    BY <1>1, StartIs
  <2> QED BY <1>1, <2>1, <2>2 DEF Quietly
<1>7. StartWhole'
  <2>1. CASE pio.to \in Param
    BY <1>1, <1>2, <2>1, WordIs, ParamsAre DEF StartWhole, StartWord
  <2>2. CASE pio.to \notin Param
    BY <1>1, <1>2, <1>3, <2>2 DEF SpringsInv, StartWhole, OfOneVersion
  <2> QED BY <2>1, <2>2
<1>8. LoadedWhole'
  <2>1. start_nios => OfOneVersion(init)
    BY DEF SpringsInv, StartWhole
  <2> QED BY <2>1 DEF SpringsInv, LoadedWhole, HardwareClock, StartUp, OfOneVersion
<1>9. RunWhole'
  BY DEF SpringsInv, LoadedWhole, RunWhole, HardwareClock, Solve, solver, OfOneVersion
<1> QED BY <1>4, <1>5, <1>6, <1>7, <1>8, <1>9 DEF SpringsInv

\* Every step keeps the invariant.
THEOREM SpringsInvariant == SpringsSpec => []SpringsInv
<1>1. SpringsInv /\ [SpringsNext]_springsVars => SpringsInv'
  <2> SUFFICES ASSUME SpringsInv, [SpringsNext]_springsVars PROVE SpringsInv'
    OBVIOUS
  <2>1. CASE SpringsNext
    BY <2>1, SendStep, ProgramStep, ClockStep DEF SpringsNext
  <2>2. CASE UNCHANGED springsVars
    BY <2>2 DEF springsVars, program, port, starter, solver, SpringsInv, SpringsTypes, Sent,
                Quietly, StartWhole, LoadedWhole, RunWhole, OfOneVersion
  <2> QED BY <2>1, <2>2
<1> QED BY <1>1, SpringsInitInv, PTL DEF SpringsSpec

\* The solver never computes with parameters of two versions, whenever programs are
\* loaded and stopped and however slow they are (init_dda, count_binary.c lines
\* 158-171; top_dda.v).
THEOREM RunsOneVersionCorrect == SpringsSpec => []RunsOneVersion
<1>1. SpringsInv => RunsOneVersion
  BY DEF SpringsInv, RunWhole, RunsOneVersion, OfOneVersion
<1> QED BY <1>1, SpringsInvariant, PTL
=============================================================================
