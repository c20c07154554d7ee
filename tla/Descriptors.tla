------------------------------ MODULE Descriptors ------------------------------
(***************************************************************************)
(* What is documented of open, close and ioctl: a descriptor belongs to    *)
(* one device or file system, with one access mode, from open to close.    *)
(* Exclusive access to a device is granted if no other open descriptor     *)
(* references it; from then on the device is not opened again, until the   *)
(* descriptor is closed or gives the access back (alt_fd_lock.c).  The     *)
(* three standard descriptors exist from the start and are never free      *)
(* again (alt_release_fd.c).                                               *)
(***************************************************************************)
EXTENDS Naturals

CONSTANTS
    Fds,        \* the descriptors
    Standard,   \* those of standard input, output and error
    Owners,     \* devices and file systems
    Devices,    \* those of the owners that can be held
    Modes       \* access modes

VARIABLES
    entry,      \* entry[fd]: the owner and mode of an open descriptor, in a set of one
    holders,    \* the descriptors with exclusive access
    closed      \* the descriptor close was called with in the last step, in a set

vars == <<entry, holders, closed>>

Entries == [owner : Owners, mode : Modes]
Held(d) == \E fd \in holders, e \in Entries : e \in entry[fd] /\ e.owner = d

(* The other open descriptors that reference the owner of fd.              *)
Sharing(fd) == {i \in Fds \ {fd} : \E e \in entry[fd], f \in entry[i] : e.owner = f.owner}

Init == /\ entry \in [Fds -> {{}} \union {{e} : e \in Entries}]
        /\ holders = {} /\ \A fd \in Fds : entry[fd] # {} <=> fd \in Standard
        /\ closed = {}

Open(fd, e) == /\ entry[fd] = {} /\ e.owner \in Devices => ~Held(e.owner)
               /\ entry' = [entry EXCEPT ![fd] = {e}]
               /\ closed' = {} /\ UNCHANGED holders

Close(fd) == /\ entry[fd] # {}
             /\ entry' = IF fd \in Standard THEN entry ELSE [entry EXCEPT ![fd] = {}]
             /\ holders' = holders \ {fd} /\ closed' = {fd}

Hold(fd) == /\ \E e \in entry[fd] : e.owner \in Devices
            /\ Sharing(fd) = {}
            /\ holders' = holders \union {fd}
            /\ closed' = {} /\ UNCHANGED entry

GiveBack(fd) == holders' = holders \ {fd} /\ closed' = {} /\ UNCHANGED entry

(* Startup only: a standard descriptor is given its device.                *)
Redirect(fd, e) == /\ fd \in Standard /\ holders = {}
                   /\ entry' = [entry EXCEPT ![fd] = {e}]
                   /\ closed' = {} /\ UNCHANGED holders

(* A call that changes no descriptor, or is refused.                       *)
Other == closed' = {} /\ UNCHANGED <<entry, holders>>

Next == Other \/ \E fd \in Fds : \/ Close(fd) \/ Hold(fd) \/ GiveBack(fd)
                                 \/ \E e \in Entries : Open(fd, e) \/ Redirect(fd, e)

Spec == Init /\ [][Next]_vars
=============================================================================
