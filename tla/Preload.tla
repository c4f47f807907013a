------------------------------ MODULE Preload ------------------------------
(***************************************************************************)
(* What a preloading mount promises its users: a file is on the local disk *)
(* whole, one version of the remote file from end to end, or it is not     *)
(* there at all; it is opened only when it is there; and what an open file *)
(* reads does not change.  Nothing leaves the local disk until the mount   *)
(* is taken down.  Xload implements this.                                  *)
(***************************************************************************)
CONSTANTS
    Files,
    Users,
    Whole(_),        \* the contents a file may have
    None             \* not a content

VARIABLES
    data,            \* what the local disk has of each file
    handle,          \* the file each user has open, and what it reads
    mounted

vars == <<data, handle, mounted>>

Init ==
    /\ data = [f \in Files |-> None]
    /\ handle = [u \in Users |-> None]
    /\ mounted = TRUE

Get(f) ==
    /\ data[f] = None
    /\ \E c \in Whole(f) : data' = [data EXCEPT ![f] = c]
    /\ UNCHANGED <<handle, mounted>>

Open(u, f) ==
    /\ handle[u] = None
    /\ data[f] # None
    /\ handle' = [handle EXCEPT ![u] = [file |-> f, data |-> data[f]]]
    /\ UNCHANGED <<data, mounted>>

Close(u) ==
    /\ handle[u] # None
    /\ handle' = [handle EXCEPT ![u] = None]
    /\ UNCHANGED <<data, mounted>>

Unmount ==
    /\ mounted
    /\ mounted' = FALSE
    /\ data' = [f \in Files |-> None]
    /\ handle' = [u \in Users |-> None]

Next ==
    \/ \E f \in Files : Get(f)
    \/ \E u \in Users, f \in Files : Open(u, f)
    \/ \E u \in Users : Close(u)
    \/ Unmount

Spec == Init /\ [][Next]_vars
=============================================================================
