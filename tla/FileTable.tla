------------------------------- MODULE FileTable -------------------------------
(***************************************************************************)
(* The file descriptors of the HAL: the pool alt_fd_list with its high-    *)
(* water mark alt_max_fd, open, close, fcntl, ioctl and the calls that are *)
(* passed to a driver, the redirection of the standard descriptors at      *)
(* startup, and the close of standard output after main.                   *)
(*                                                                         *)
(* One thread: a call is one step.  A driver's open, close or other        *)
(* function may report an error at any time.  A program calls only with    *)
(* descriptors that are open: the code does not check that.                *)
(***************************************************************************)
EXTENDS Integers, Sequences, SequencesExt

CONSTANTS
    Devices,     \* alt_dev_list: registered devices
    NullDevice,  \* /dev/null, registered from the start
    FsList,      \* alt_fs_list: the file systems in the order of the list
    NoFile,      \* no device
    NameOf,      \* names: sequences of path components
    Names,       \* bound: the names given to open
    StdName,     \* the names ALT_STDIN, ALT_STDOUT, ALT_STDERR
    Tuned,       \* bound: the descriptors fcntl is called with
    MaxFd,       \* ALT_MAX_FD
    Drivers      \* Drivers[d]: the functions the device or file system has

FileSystems == Range(FsList)
Owners == Devices \union FileSystems

ASSUME FileAssumption ==
    /\ NullDevice \in Devices /\ Devices \intersect FileSystems = {} /\ NoFile \notin Owners
    /\ MaxFd \in Nat /\ MaxFd >= 3 /\ DOMAIN StdName = 0..2
    /\ Drivers \in [Owners -> SUBSET {"open", "close", "read", "write", "lseek", "fstat", "ioctl"}]
    /\ DOMAIN NameOf = Owners

Fds == 0..(MaxFd - 1)
Standard == {0, 1, 2}
Modes == {"RDONLY", "WRONLY", "RDWR"}

(* alt_fd: the device, the access mode, the flags fcntl may change (as     *)
(* one), ALT_FD_EXCL and ALT_FD_DEV.                                       *)
Fd(d, mode, soft, isDevice) ==
    [dev |-> d, mode |-> mode, soft |-> soft, excl |-> FALSE, isDevice |-> isDevice]
FreeFd == Fd(NoFile, "RDONLY", FALSE, FALSE)

VARIABLES
    table,      \* alt_fd_list
    maxFd,      \* alt_max_fd
    filePhase,  \* the stream to redirect next, then "main", then "exit"
    mine,       \* history: descriptors open has returned and close was not called with
    fileAsked,  \* history: the access mode that was asked for, by descriptor
    passed      \* the call passed to a driver in the last step: [fd, op], or op "none"

fileVars == <<table, maxFd, filePhase, mine, fileAsked, passed>>

NotPassed == [fd |-> 0, op |-> "none"]
FileInit ==
    /\ table = [fd \in Fds |-> IF fd \in Standard THEN Fd(NullDevice, "RDONLY", FALSE, FALSE)
                               ELSE FreeFd]
    /\ maxFd = -1 /\ filePhase = "stdout"
    /\ mine = {} /\ fileAsked = [fd \in Fds |-> "RDONLY"] /\ passed = NotPassed
-----------------------------------------------------------------------------
(* alt_find_dev: the whole name; then alt_find_file: the first file system *)
(* of the list whose mount point is a prefix.                              *)
FindDev(name) == {d \in Devices : NameOf[d] = name}
FindFile(name) == LET fits == {i \in DOMAIN FsList : IsPrefix(NameOf[FsList[i]], name)}
                  IN {FsList[i] : i \in {i \in fits : \A j \in fits : i <= j}}
Find(name) == IF FindDev(name) # {} THEN FindDev(name) ELSE FindFile(name)

(* alt_release_fd.  The first is a mutant: a failing open or close keeps   *)
(* the descriptor when the flags were marked already.                      *)
Released_marked(t, fd) == IF t[fd].isDevice THEN t ELSE [t EXCEPT ![fd] = FreeFd]
Released(t, fd) == IF fd \in Standard THEN t ELSE [t EXCEPT ![fd] = FreeFd]

(* alt_file_locked: another descriptor of the device, at or below the      *)
(* high-water mark, has it for itself.  The first is a mutant: below it.   *)
FileLocked_below(t, top, fd) ==
    \E i \in Fds : i < top /\ i # fd /\ t[i].dev = t[fd].dev /\ t[i].excl
FileLocked(t, top, fd) ==
    \E i \in Fds : i <= top /\ i # fd /\ t[i].dev = t[fd].dev /\ t[i].excl

(* alt_get_fd: the first free descriptor, if there is one.                 *)
GetFd == {fd \in Fds : table[fd].dev = NoFile /\ \A i \in 0..(fd - 1) : table[i].dev # NoFile}

(* The end of open: the table and the mark after a success or a failure.   *)
(* Of the flags open may set as fcntl does, none is set.  The first of the *)
(* marks is a mutant: it counts descriptors.                               *)
Opening(fd, d, mode) == [table EXCEPT ![fd] = Fd(d, mode, FALSE, d \in Devices)]
Marked_count(fd) == IF fd >= maxFd THEN fd + 1 ELSE maxFd
Marked(fd) == IF fd > maxFd THEN fd ELSE maxFd
Refused(fd, d, mode) ==
    d \in Devices /\ FileLocked(Opening(fd, d, mode), Marked(fd), fd)

OpenSucceeds(name, mode) ==
    \E d \in Find(name), fd \in GetFd :
      /\ filePhase = "main" /\ ~Refused(fd, d, mode)
      /\ table' = Opening(fd, d, mode) /\ maxFd' = Marked(fd)
      /\ mine' = mine \union {fd} /\ fileAsked' = [fileAsked EXCEPT ![fd] = mode]
      /\ passed' = NotPassed /\ UNCHANGED filePhase

(* The device is held, or its own open reports an error: the descriptor is *)
(* given back.  With no descriptor or no device nothing changes.           *)
FileOpenFails(name, mode) ==
    /\ filePhase = "main"
    /\ \E d \in Find(name), fd \in GetFd :
         /\ Refused(fd, d, mode) \/ "open" \in Drivers[d]
         /\ table' = Released(Opening(fd, d, mode), fd) /\ maxFd' = Marked(fd)
    /\ passed' = NotPassed /\ UNCHANGED <<filePhase, mine, fileAsked>>

(* alt_open_fd at startup, for one of the standard descriptors: an open    *)
(* whose descriptor is copied and released.                                *)
Streams == [stdout |-> 1, stdin |-> 0, stderr |-> 2]
NextPhase == [stdout |-> "stdin", stdin |-> "stderr", stderr |-> "main"]
RedirectMode(s) == IF s = 0 THEN "RDONLY" ELSE "WRONLY"
Redirected(s, d, fd) ==
    LET new == Opening(fd, d, RedirectMode(s))
    IN /\ table' = Released([new EXCEPT ![s] = new[fd]], fd)
       /\ maxFd' = Marked(fd) /\ fileAsked' = [fileAsked EXCEPT ![s] = RedirectMode(s)]
Redirect ==
    /\ filePhase \in DOMAIN Streams /\ filePhase' = NextPhase[filePhase]
    /\ LET s == Streams[filePhase] IN
         \/ \E d \in Find(StdName[s]), fd \in GetFd :
              \/ Redirected(s, d, fd)
              \/ "open" \in Drivers[d] /\ maxFd' = Marked(fd) /\ UNCHANGED <<table, fileAsked>>
         \/ /\ Find(StdName[s]) = {} \/ GetFd = {}
            /\ UNCHANGED <<table, maxFd, fileAsked>>
    /\ passed' = NotPassed /\ UNCHANGED mine

(* close frees the descriptor whatever the driver's close returned, and is *)
(* only told of the error.                                                 *)
Closed(fd) == /\ table' = Released(table, fd) /\ mine' = mine \ {fd}
              /\ passed' = [fd |-> fd, op |-> "close"] /\ UNCHANGED <<maxFd, fileAsked>>
Close(fd) == /\ filePhase = "main" /\ table[fd].dev # NoFile
             /\ Closed(fd) /\ UNCHANGED filePhase

(* main returns, alt_main closes standard output.                          *)
Exit == filePhase = "main" /\ filePhase' = "exit" /\ Closed(1)
-----------------------------------------------------------------------------
(* fcntl F_SETFL.  The first is a mutant: every flag but the two of        *)
(* alt_file.h is set, the access mode with them.                           *)
SetFlags_all(entry, mode, soft) == [entry EXCEPT !.soft = soft, !.mode = mode]
SetFlags(entry, mode, soft) == [entry EXCEPT !.soft = soft]
Fcntl(fd, mode, soft) ==
    /\ filePhase = "main" /\ table[fd].dev # NoFile
    /\ table' = [table EXCEPT ![fd] = SetFlags(table[fd], mode, soft)]
    /\ passed' = NotPassed /\ UNCHANGED <<maxFd, filePhase, mine, fileAsked>>

(* alt_fd_lock looks for another descriptor of the device below the mark.  *)
Others(fd) == {i \in Fds : i < maxFd /\ i # fd /\ table[i].dev = table[fd].dev}
IoctlLock(fd) ==
    /\ filePhase = "main" /\ table[fd].isDevice /\ Others(fd) = {}
    /\ table' = [table EXCEPT ![fd].excl = TRUE]
    /\ passed' = NotPassed /\ UNCHANGED <<maxFd, filePhase, mine, fileAsked>>
IoctlUnlock(fd) ==
    /\ filePhase = "main" /\ table[fd].isDevice
    /\ table' = [table EXCEPT ![fd].excl = FALSE]
    /\ passed' = NotPassed /\ UNCHANGED <<maxFd, filePhase, mine, fileAsked>>

(* The calls that reach the driver's function.  The others return an error *)
(* and change nothing.                                                     *)
Passes(fd, op) ==
    /\ op \in Drivers[table[fd].dev]
    /\ op = "read" => table[fd].mode # "WRONLY"
    /\ op = "write" => table[fd].mode # "RDONLY"
DriverCall(fd, op) ==
    /\ filePhase = "main" /\ table[fd].dev # NoFile /\ Passes(fd, op)
    /\ passed' = [fd |-> fd, op |-> op]
    /\ UNCHANGED <<table, maxFd, filePhase, mine, fileAsked>>

(* After exit the program loops for ever.                                  *)
Stopped == filePhase = "exit" /\ UNCHANGED fileVars

FileNext == \/ Redirect \/ Exit \/ Stopped
            \/ \E name \in Names, mode \in Modes :
                 OpenSucceeds(name, mode) \/ FileOpenFails(name, mode)
            \/ \E fd \in Fds : \/ Close(fd) \/ IoctlLock(fd) \/ IoctlUnlock(fd)
                               \/ fd \in Tuned /\ \E mode \in Modes, soft \in BOOLEAN :
                                     Fcntl(fd, mode, soft)
                               \/ \E op \in {"read", "write", "lseek", "fstat", "ioctl"} :
                                     DriverCall(fd, op)

FileSpec == FileInit /\ [][FileNext]_fileVars
-----------------------------------------------------------------------------
FdTypeOK ==
    /\ table \in [Fds -> [dev : Owners \union {NoFile}, mode : Modes, soft : BOOLEAN,
                          excl : BOOLEAN, isDevice : BOOLEAN]]
    /\ maxFd \in -1..(MaxFd - 1) /\ mine \subseteq Fds
    /\ fileAsked \in [Fds -> Modes] /\ passed.fd \in Fds

(* No descriptor leaks and none is handed out twice: the entries in use    *)
(* are the standard ones and those open returned and close was not called  *)
(* with, whatever the drivers' open and close reported.                    *)
NoLeak == {fd \in Fds : table[fd].dev # NoFile} = mine \union Standard

(* A driver's read or write is reached only through a descriptor that was  *)
(* opened for it, whatever fcntl has set in between.                       *)
AccessRespected ==
    /\ passed.op = "read" => fileAsked[passed.fd] # "WRONLY"
    /\ passed.op = "write" => fileAsked[passed.fd] # "RDONLY"

(* The pool as the descriptors that are documented.                        *)
D == INSTANCE Descriptors WITH
       entry <- [fd \in Fds |-> IF table[fd].dev = NoFile THEN {}
                                ELSE {[owner |-> table[fd].dev, mode |-> table[fd].mode]}],
       holders <- {fd \in Fds : table[fd].excl},
       closed <- IF passed.op = "close" THEN {passed.fd} ELSE {}

(* Two steps the documentation does not have.  The search for another      *)
(* descriptor of the device ends below the high-water mark, so that a      *)
(* device the highest descriptor shares is granted all the same; and a     *)
(* standard descriptor, which is not released, keeps the device after its  *)
(* close.                                                                  *)
LockPastTop ==
    /\ \E fd \in Fds : /\ table[fd].isDevice /\ D!Sharing(fd) = {maxFd}
                       /\ table' = [table EXCEPT ![fd].excl = TRUE]
    /\ passed' = NotPassed
CloseKeepsLock ==
    /\ passed'.op = "close" /\ passed'.fd \in Standard
    /\ table[passed'.fd].excl /\ UNCHANGED table

(* But for these two steps the pool does what is documented of open, close *)
(* and ioctl: in particular a device that is held is not opened again,     *)
(* wherever in the pool its holder and the new descriptor are, and a lock  *)
(* is granted only if no descriptor but the highest shares the device.     *)
TableImplements == D!Init /\ [][D!Next \/ LockPastTop \/ CloseKeepsLock]_(D!vars)

(* The descriptors as a program sees them: as documented but for the two   *)
(* steps above, without leaks, and with the access mode that was asked     *)
(* for.                                                                    *)
FilesKept == TableImplements /\ [](NoLeak /\ AccessRespected)

(* Exclusive access is exclusive: it is granted "if there are no other     *)
(* open file descriptors which reference the same device", and "further    *)
(* calls to open() for this device will fail".  Not the code, see          *)
(* LockPastTop.                                                            *)
HeldAlone == \A fd \in Fds : table[fd].excl => D!Sharing(fd) = {}

(* "Until the lock is released.  This is done by calling close() for this  *)
(* file descriptor".  Not the code, see CloseKeepsLock.                    *)
ReleasedByClose == passed.op = "close" => ~table[passed.fd].excl
=============================================================================
