-------------------------------- MODULE FileTable --------------------------------
(***************************************************************************)
(* The file descriptors of the HAL under the lab 2 NIOS program: the lists *)
(* of devices and file systems, the descriptor pool, exclusive locks, the  *)
(* start-up that directs the standard streams, and the system calls        *)
(* (alt_dev.c, alt_open.c, alt_close.c, alt_ioctl.c, ... in HAL/src).      *)
(*                                                                         *)
(* The build has one thread and no interrupt routine uses a descriptor, so *)
(* a call is one step; the semaphore alt_fd_list_lock is empty code here.  *)
(* A driver is known by which of the functions it provides and by whether  *)
(* a call of one succeeds.  The application uses descriptors it was given, *)
(* or the -1 a failed open returned.                                       *)
(***************************************************************************)
EXTENDS Integers, Sequences

CONSTANTS
  ALT_MAX_FD,      \* size of the pool                              (32)
  Registered,      \* what alt_sys_init registers, in this order
  FileSystems,     \* those of them registered as file systems
  DevNull, NoDev,
  Name,            \* name or mount point of each: a sequence of path components
  Driver,          \* the functions each provides
  Streams,         \* what stdout, stdin and stderr are to be, in this order
  Paths,           \* names the application opens
  OpenFlags,       \* flags it opens them with
  SetFlags         \* flags it sets afterwards

Functions == {"open", "close", "read", "write", "lseek", "fstat", "ioctl"}
Flags     == {"read", "write", "append", "nonblock", "excl", "dev"}
Mask      == {"excl", "dev"}            \* ALT_FD_FLAGS_MASK
FcntlMask == {"append", "nonblock"}     \* ALT_FCNTL_FLAGS_MASK

Fd    == 0 .. ALT_MAX_FD - 1
StdFd == 0 .. 2
Owners == {DevNull} \union {Registered[k] : k \in DOMAIN Registered}

ASSUME FileTableAssumption ==
  /\ ALT_MAX_FD \in Nat /\ ALT_MAX_FD > 3
  /\ NoDev \notin Owners
  /\ Registered \in Seq(Owners \ {DevNull}) /\ FileSystems \subseteq Owners \ {DevNull}
  /\ Driver \in [Owners -> SUBSET Functions]
  /\ OpenFlags \subseteq SUBSET Flags /\ SetFlags \subseteq SUBSET Flags
  /\ Len(Streams) = 3

VARIABLES
  stage,               \* how far alt_main has come
  alt_dev_list, alt_fs_list,
  dev, fd_flags,       \* the fields of alt_fd_list
  alt_max_fd,
  ret                  \* what the last system call returned

table == << dev, fd_flags, alt_max_fd >>
lists == << alt_dev_list, alt_fs_list >>
vars  == << stage, lists, table, ret >>

----------------------------------------------------------------------------
(* Looking a name up: devices by their whole name, file systems by their   *)
(* mount point, the newest first.                                          *)

FindDev(path, d) ==
  \E k \in DOMAIN alt_dev_list :
    /\ alt_dev_list[k] = d /\ Name[d] = path
    /\ \A j \in 1 .. k - 1 : Name[alt_dev_list[j]] # path

Holds(fs, path) ==
  Len(Name[fs]) <= Len(path) /\ SubSeq(path, 1, Len(Name[fs])) = Name[fs]

FindFile(path, d) ==
  \E k \in DOMAIN alt_fs_list :
    /\ alt_fs_list[k] = d /\ Holds(d, path)
    /\ \A j \in 1 .. k - 1 : ~Holds(alt_fs_list[j], path)

\* open() asks the file systems only about a name that is no device's.
IsDev(path) == \E d \in Owners : FindDev(path, d)
Find(path, d) == IF IsDev(path) THEN FindDev(path, d) ELSE FindFile(path, d)

----------------------------------------------------------------------------
(* The pool.                                                               *)

Returns(value) == ret' = value
Fails == ret' = -1               \* which error it is goes to errno

\* The driver's function decides; some number of bytes, a position or an error.
Driven == ret' \in -1 .. 1

\* Only drivers that provide the function are asked; the others' answer is fixed.
AskDriver(name, f, otherwise) ==
  IF name \in Driver[dev[f]] THEN Driven ELSE otherwise

\* alt_get_fd takes the first free descriptor and moves the high-water mark.
GetFd(i) == dev[i] = NoDev /\ \A j \in 0 .. i - 1 : dev[j] # NoDev
HighWater(i) == IF i > alt_max_fd THEN i ELSE alt_max_fd

\* alt_release_fd: the standard streams are never given back.
Release(f) ==
  /\ dev'      = IF f > 2 THEN [dev EXCEPT ![f] = NoDev] ELSE dev
  /\ fd_flags' = IF f > 2 THEN [fd_flags EXCEPT ![f] = {}] ELSE fd_flags

\* Faulty form: the search stops one short of the high-water mark, as in
\* alt_fd_lock.
FileLockedShort(d, i) ==
  \E j \in 0 .. HighWater(i) - 1 : j # i /\ dev[j] = d /\ "excl" \in fd_flags[j]

\* alt_file_locked, after descriptor i was taken for device d.
FileLocked(d, i) ==
  \E j \in 0 .. HighWater(i) : j # i /\ dev[j] = d /\ "excl" \in fd_flags[j]

\* The flags of a descriptor opened on d: the caller cannot set the HAL's own.
OpenedFlags(path, flags) ==
  (flags \ Mask) \union (IF IsDev(path) THEN {"dev"} ELSE {})

\* Path resolves to d, i is taken for it, and neither a lock nor the driver refuses.
CanOpen(path, d, i) ==
  /\ Find(path, d) /\ GetFd(i)
  /\ IsDev(path) => ~FileLocked(d, i)

----------------------------------------------------------------------------
(* Start-up: alt_main, alt_sys_init, alt_io_redirect.                      *)

Init ==
  /\ stage = [name |-> "sys_init", k |-> 1]
  /\ alt_dev_list = << DevNull >> /\ alt_fs_list = << >>
  /\ dev = [f \in Fd |-> IF f \in StdFd THEN DevNull ELSE NoDev]
  /\ fd_flags = [f \in Fd |-> {}]
  /\ alt_max_fd = -1
  /\ ret = 0

\* A new entry goes to the head of its list.
AtHead(d, list) == << d >> \o list

Registering ==
  /\ stage.name = "sys_init" /\ stage.k <= Len(Registered)
  /\ stage' = [stage EXCEPT !.k = @ + 1]
  /\ UNCHANGED << table, ret >>

RegisterDev ==
  /\ Registering /\ Registered[stage.k] \notin FileSystems
  /\ alt_dev_list' = AtHead(Registered[stage.k], alt_dev_list)
  /\ UNCHANGED alt_fs_list

RegisterFs ==
  /\ Registering /\ Registered[stage.k] \in FileSystems
  /\ alt_fs_list' = AtHead(Registered[stage.k], alt_fs_list)
  /\ UNCHANGED alt_dev_list

SysInitDone ==
  /\ stage.name = "sys_init" /\ stage.k > Len(Registered)
  /\ stage' = [name |-> "redirect", k |-> 1]
  /\ UNCHANGED << lists, table, ret >>

\* alt_open_fd: open, move the new descriptor's fields into the stream's, release
\* the new descriptor.  A failed open leaves the stream as it was.
Redirect ==
  LET stream == << 1, 0, 2 >>[stage.k]
      flags  == IF stream = 0 THEN {"read"} ELSE {"write"}
      path   == Streams[stage.k]
  IN
  /\ stage.name = "redirect"
  /\ \/ \E d \in Owners, i \in Fd :
          /\ CanOpen(path, d, i)
          /\ dev' = [dev EXCEPT ![stream] = d]
          /\ fd_flags' = [fd_flags EXCEPT ![stream] = OpenedFlags(path, flags)]
          /\ alt_max_fd' = HighWater(i)
     \/ \E d \in Owners, i \in Fd :
          /\ Find(path, d) /\ GetFd(i) /\ "open" \in Driver[d]
          /\ alt_max_fd' = HighWater(i) /\ UNCHANGED << dev, fd_flags >>
     \/ (~\E d \in Owners : Find(path, d)) /\ UNCHANGED table
  /\ stage' = IF stage.k = 3 THEN [name |-> "main", k |-> 0]
                             ELSE [stage EXCEPT !.k = @ + 1]
  /\ UNCHANGED << lists, ret >>

----------------------------------------------------------------------------
(* The system calls, from main or from the exit handlers of the library.   *)

SystemUp == stage.name \in {"main", "exit"}
Used    == {f \in Fd : dev[f] # NoDev}

Syscall == SystemUp /\ UNCHANGED << stage, lists >>

Open(path, flags) ==
  /\ Syscall
  /\ \E d \in Owners, i \in Fd :
       /\ CanOpen(path, d, i)
       /\ dev' = [dev EXCEPT ![i] = d]
       /\ fd_flags' = [fd_flags EXCEPT ![i] = OpenedFlags(path, flags)]
       /\ alt_max_fd' = HighWater(i)
       /\ Returns(i)

Refuses(path, d, i) == (IsDev(path) /\ FileLocked(d, i)) \/ "open" \in Driver[d]

\* Faulty form: a refused open keeps the descriptor it took.
OpenRefusedKeep(path, flags) ==
  /\ Syscall
  /\ \E d \in Owners, i \in Fd :
       /\ Find(path, d) /\ GetFd(i) /\ Refuses(path, d, i)
       /\ dev' = [dev EXCEPT ![i] = d]
       /\ fd_flags' = [fd_flags EXCEPT ![i] = OpenedFlags(path, flags)]
       /\ alt_max_fd' = HighWater(i)
  /\ Fails

\* The device is locked (EACCES), or its driver's open fails: the descriptor
\* taken is released, the mark stays where it went.
OpenRefused(path, flags) ==
  /\ Syscall
  /\ \E d \in Owners, i \in Fd :
       /\ Find(path, d) /\ GetFd(i) /\ Refuses(path, d, i)
       /\ Release(i)
       /\ alt_max_fd' = HighWater(i)
  /\ Fails

\* No such device (ENODEV), or no free descriptor (EMFILE).
OpenNothing(path) ==
  /\ Syscall /\ Fails /\ UNCHANGED table
  /\ (\E d \in Owners : Find(path, d)) => Used = Fd

\* Whatever the driver's close returns, the descriptor is released.
Close(f) ==
  /\ Syscall
  /\ Returns(0) \/ ("close" \in Driver[dev[f]] /\ Fails)
  /\ Release(f)
  /\ UNCHANGED alt_max_fd

\* TIOCEXCL, alt_fd_lock: the search stops one short of the high-water mark.
FdLock(f) ==
  /\ Syscall /\ "dev" \in fd_flags[f]
  /\ IF \E j \in 0 .. alt_max_fd - 1 : j # f /\ dev[j] = dev[f]
       THEN Fails /\ UNCHANGED fd_flags
       ELSE /\ fd_flags' = [fd_flags EXCEPT ![f] = @ \union {"excl"}]
            /\ Returns(0)
  /\ UNCHANGED << dev, alt_max_fd >>

\* TIOCNXCL, alt_fd_unlock.
FdUnlock(f) ==
  /\ Syscall /\ "dev" \in fd_flags[f]
  /\ fd_flags' = [fd_flags EXCEPT ![f] = @ \ {"excl"}]
  /\ Returns(0)
  /\ UNCHANGED << dev, alt_max_fd >>

\* F_GETFL and unknown commands change nothing.
Fcntl(f) ==
  /\ Syscall
  /\ \/ UNCHANGED fd_flags /\ (Returns(0) \/ Fails)
     \/ \E flags \in SetFlags :
          /\ fd_flags' = [fd_flags EXCEPT
                            ![f] = (@ \ FcntlMask) \union (flags \cap FcntlMask)]
          /\ Returns(0)
  /\ UNCHANGED << dev, alt_max_fd >>

\* Any other request, and any request to a file system, is the driver's.
Ioctl(f) == Syscall /\ AskDriver("ioctl", f, Fails) /\ UNCHANGED table

\* The access mode decides before the driver is asked.
Read(f) ==
  /\ Syscall /\ UNCHANGED table
  /\ IF "read" \in fd_flags[f] THEN AskDriver("read", f, Fails) ELSE Fails

Write(f) ==
  /\ Syscall /\ UNCHANGED table
  /\ IF "write" \in fd_flags[f] THEN AskDriver("write", f, Fails) ELSE Fails

Lseek(f) == Syscall /\ AskDriver("lseek", f, Fails) /\ UNCHANGED table
Fstat(f) == Syscall /\ AskDriver("fstat", f, Returns(0)) /\ UNCHANGED table

\* A terminal unless the driver's fstat says otherwise.
Isatty(f) ==
  /\ Syscall /\ UNCHANGED table
  /\ IF "fstat" \in Driver[dev[f]] THEN ret' \in 0 .. 1 ELSE Returns(1)

\* stat() opens the name, asks the driver and closes it again: what is opened is
\* released, the mark stays where it went.
StatOpened(path) ==
  /\ Syscall
  /\ \E d \in Owners, i \in Fd :
       /\ CanOpen(path, d, i)
       /\ IF "fstat" \in Driver[d] THEN Driven ELSE Returns(0)
       /\ Release(i)
       /\ alt_max_fd' = HighWater(i)

Stat(path) == OpenNothing(path) \/ OpenRefused(path, {"read"}) \/ StatOpened(path)

\* Every call with the descriptor -1 (EBADFD), and those the HAL does not have
\* (ENOSYS); isatty answers 0.
BadFd == Syscall /\ ret' \in {-1, 0} /\ UNCHANGED table

\* main has returned: standard output is closed, and the exit handlers run.
MainReturns ==
  /\ stage.name = "main"
  /\ stage' = [name |-> "exit", k |-> 0]
  /\ Release(1) /\ Returns(0)
  /\ UNCHANGED << lists, alt_max_fd >>

\* _exit: nothing is closed, and the processor spins.
Exit ==
  /\ SystemUp
  /\ stage' = [name |-> "stopped", k |-> 0]
  /\ UNCHANGED << lists, table, ret >>

\* Most signals to the process end it; another is ignored or an error, as is any
\* to another process.
Kill == Exit \/ (Syscall /\ (Returns(0) \/ Fails) /\ UNCHANGED table)

Next ==
  \/ RegisterDev \/ RegisterFs \/ SysInitDone \/ Redirect
  \/ BadFd \/ MainReturns \/ Exit \/ Kill
  \/ \E path \in Paths :
       \/ OpenNothing(path) \/ Stat(path)
       \/ \E flags \in OpenFlags : Open(path, flags) \/ OpenRefused(path, flags)
  \/ \E f \in Used :
       \/ Close(f) \/ FdLock(f) \/ FdUnlock(f) \/ Ioctl(f) \/ Fcntl(f)
       \/ Read(f) \/ Write(f) \/ Lseek(f) \/ Fstat(f) \/ Isatty(f)

Spec == Init /\ [][Next]_vars

----------------------------------------------------------------------------
(* Properties                                                              *)

Locked  == {f \in Used : "excl" \in fd_flags[f]}
Started == stage.name \in {"main", "exit", "stopped"}

\* Exclusive access has one holder: two descriptors never lock the same device,
\* although alt_fd_lock does not look at the highest descriptor.
OneLockHolder == \A f, g \in Locked : dev[f] = dev[g] => f = g

\* The lock as alt_fd_lock describes it: granted when no other open descriptor
\* references the device, after which every open of it fails, so the holder stays
\* alone.  The code does not do this: the search stops one short of the mark.
LockedAlone == \A f \in Locked, g \in Used : dev[f] = dev[g] => f = g

D == INSTANCE Descriptors
       WITH Std <- StdFd, started <- Started, bound <- dev, locked <- Locked

\* The pool, its high-water mark and its flag words are a table of descriptors: a
\* call that fails leaves no descriptor behind, an open gets a free one, whatever
\* is closed the standard streams stay on the devices they were given, nobody opens
\* a device that is locked, and a lock is refused to a device in use, unless its
\* other user is the highest descriptor.
TableOfDescriptors == D!Spec
=============================================================================
