------------------------------- MODULE Xload -------------------------------
(***************************************************************************)
(* Preloading a bucket to the local disk (component/xload).  Three thread  *)
(* pools are chained by channels: listers walk the directories and pass    *)
(* files on (lister.go), splitters create the local file and cut it into   *)
(* blocks of a shared pool (splitter.go), data workers read the blocks     *)
(* (data_manager.go), and a goroutine of the splitter writes the answers   *)
(* and gives the blocks back.  A user who opens a file that is not there   *)
(* runs the splitter's code itself, with priority (xload.go).  A file lock *)
(* keeps the two apart.                                                    *)
(*                                                                         *)
(* A schedule checks the context and then sends: the check belongs to the  *)
(* step before the send, which may block.  Files are sequences of blocks,  *)
(* a block holds the version it was read from, 0 the zeros of Truncate.    *)
(***************************************************************************)
EXTENDS Naturals, Sequences, FiniteSets

CONSTANTS
    Dirs,            \* directories below the root
    Files,
    Root,
    Above,           \* the directory that holds each directory and file
    Blocks,          \* the length of each file in blocks
    Listers, Splitters, Workers, Users,
    MaxVersion,      \* bound on the versions of a remote file
    Mounts,
    None

Faults == {"list", "mkdir", "attr", "create", "truncate", "read", "write", "open"}

Mount == [
    files : SUBSET Files, dirs : SUBSET Dirs,     \* what the bucket holds
    splitters : SUBSET Splitters, users : SUBSET Users,
    workers : SUBSET Workers,
    urgent : SUBSET Workers, \* the data workers that serve users only, a tenth
    pool : Nat \ {0},        \* blocks in the pool
    reserved : Nat,          \* the part of it for users, a tenth
    room : Nat \ {0},        \* capacity of each channel
    versions : 1 .. MaxVersion,
    md5 : BOOLEAN,           \* validateMD5
    fails : SUBSET Faults, faults : Nat,          \* what may fail, how often
    stops : BOOLEAN]         \* the mount is taken down

ASSUME XloadAssumption ==
    /\ Above \in [Dirs \cup Files -> Dirs \cup {Root}]
    /\ Blocks \in [Files -> Nat]
    /\ Splitters \cap Users = {} /\ MaxVersion \in Nat
    \* None is none of the values that take its place.
    /\ None \notin Files \cup Splitters \cup Users /\ \A f \in Files : None \notin [1 .. Blocks[f] -> Nat]
    /\ None \notin [job : Splitters \cup Users \cup {None}, file : Files, index : Nat]
    /\ Mounts \subseteq Mount
    /\ \A m \in Mounts : m.reserved < m.pool /\ (m.versions > 1 => m.md5)
                         /\ m.urgent \subseteq m.workers /\ m.urgent # m.workers

VARIABLES
    mount,
    remote,          \* the version of each file in the cloud
    local, dirs,     \* files and directories on the local disk
    locks,           \* fileLocks: who holds the lock of each file
    listCh, splitCh, \* workItems of the lister and of the splitter
    dataCh, urgentCh,            \* workItems and priorityItems of the data manager
    listers,         \* the directory and the entries each lister is at
    making,          \* the goroutines that make local directories
    jobs,            \* the runs of splitter.Process
    answers,         \* their response channels
    busy,            \* the item of each data worker
    pool,            \* blocks in blocksCh and in priorityCh
    handle,          \* the file each user has open
    faults,          \* failures so far
    stop, cleaned, panicked

store == <<local, dirs, locks>>
channels == <<listCh, splitCh, dataCh, urgentCh>>
threads == <<listers, making, jobs, answers, busy>>
ending == <<stop, cleaned, panicked>>
vars == <<mount, remote, store, channels, threads, pool, handle, faults, ending>>

Procs == Splitters \cup Users
Urgent(p) == p \in Users

Stopped == stop # "no"           \* poolctx is done
Gone == [dir |-> None, left |-> {}, send |-> None, gone |-> TRUE]
NoDir == [Gone EXCEPT !.gone = FALSE]
NoJob == [pc |-> "idle", file |-> None, version |-> 0, next |-> 1, got |-> 0, ok |-> TRUE, live |-> TRUE]

Init ==
    /\ mount \in Mounts
    /\ remote = [f \in Files |-> 1]
    /\ local = [f \in Files |-> None] /\ dirs = {Root}
    /\ locks = [f \in Files |-> None]
    /\ listCh = <<Root>> /\ splitCh = <<>> /\ dataCh = <<>> /\ urgentCh = <<>>
    /\ listers = [l \in Listers |-> NoDir]
    /\ making = [d \in Dirs |-> "no"]
    /\ jobs = [p \in Procs |-> NoJob]
    /\ answers = [p \in Procs |-> {}]
    /\ busy = [w \in Workers |-> None]
    /\ pool = [normal |-> mount.pool - mount.reserved, reserved |-> mount.reserved]
    /\ handle = [u \in Users |-> None]
    /\ faults = 0
    /\ stop = "no" /\ cleaned = FALSE /\ panicked = FALSE

Fault(kind) ==
    /\ kind \in mount.fails /\ faults < mount.faults
    /\ faults' = faults + 1

(***************************************************************************)
(* The lister                                                              *)
(***************************************************************************)

Entries(d) == {e \in mount.dirs \cup mount.files : Above[e] = d}

\* A worker of the pool takes a directory and lists it.
ListDir(l) ==
    /\ listers[l] = NoDir /\ listCh # <<>>
    /\ listers' = [listers EXCEPT ![l] = [NoDir EXCEPT !.dir = Head(listCh), !.left = Entries(Head(listCh))]]
    /\ listCh' = Tail(listCh)
    /\ UNCHANGED <<mount, remote, store, splitCh, dataCh, urgentCh, making, jobs, answers, busy,
                   pool, handle, faults, ending>>

Listing(l) == listers[l].dir # None /\ listers[l].send = None

\* The storage fails to give the first or a later page: the rest is skipped.
ListFails(l) ==
    /\ Listing(l) /\ listers[l].left # {}
    /\ Fault("list")
    /\ listers' = [listers EXCEPT ![l] = NoDir]
    /\ UNCHANGED <<mount, remote, store, channels, making, jobs, answers, busy, pool, handle, ending>>

\* A subdirectory gets a goroutine, a file is passed on unless the pool is closed.
ListEntry(l, e) ==
    /\ Listing(l) /\ e \in listers[l].left
    /\ listers' = [listers EXCEPT ![l] =
            IF e \in Dirs THEN [listers[l] EXCEPT !.left = @ \ {e}]
            ELSE IF Stopped THEN NoDir
            ELSE [listers[l] EXCEPT !.left = @ \ {e}, !.send = [file |-> e, version |-> remote[e]]]]
    /\ making' = IF e \in Dirs THEN [making EXCEPT ![e] = "mkdir"] ELSE making
    /\ UNCHANGED <<mount, remote, store, channels, jobs, answers, busy, pool, handle, faults, ending>>

SendFile(l) ==
    /\ listers[l].send # None /\ Len(splitCh) < mount.room
    /\ splitCh' = Append(splitCh, listers[l].send)
    /\ listers' = [listers EXCEPT ![l].send = None]
    /\ UNCHANGED <<mount, remote, store, listCh, dataCh, urgentCh, making, jobs, answers, busy,
                   pool, handle, faults, ending>>

Listed(l) ==
    /\ Listing(l) /\ listers[l].left = {}
    /\ listers' = [listers EXCEPT ![l] = NoDir]
    /\ UNCHANGED <<mount, remote, store, channels, making, jobs, answers, busy, pool, handle, faults, ending>>

\* The goroutine makes the local directory and then asks for its listing.
Mkdir(d) ==
    /\ making[d] = "mkdir"
    /\ \/ /\ dirs' = dirs \cup {d, Root}
          /\ making' = [making EXCEPT ![d] = IF Stopped THEN "no" ELSE "send"]
          /\ UNCHANGED faults
       \/ /\ Fault("mkdir")
          /\ making' = [making EXCEPT ![d] = "no"]
          /\ UNCHANGED dirs
    /\ UNCHANGED <<mount, remote, local, locks, channels, listers, jobs, answers, busy, pool, handle, ending>>

\* Its send panics when Stop has closed the channel by then.
SendDir(d) ==
    /\ making[d] = "send"
    /\ IF stop \in {"no", "cancelled"}
       THEN /\ Len(listCh) < mount.room
            /\ listCh' = Append(listCh, d)
            /\ making' = [making EXCEPT ![d] = "no"]
            /\ UNCHANGED panicked
       ELSE panicked' = TRUE /\ UNCHANGED <<listCh, making>>
    /\ UNCHANGED <<mount, remote, store, splitCh, dataCh, urgentCh, listers, jobs, answers, busy, pool,
                   handle, faults, stop, cleaned>>

(***************************************************************************)
(* The splitter's Process                                                  *)
(***************************************************************************)

\* A worker of the pool takes a file.
TakeFile(s) ==
    /\ s \in mount.splitters /\ jobs[s] = NoJob /\ splitCh # <<>>
    /\ jobs' = [jobs EXCEPT ![s] = [NoJob EXCEPT !.pc = "lock", !.file = Head(splitCh).file,
                                                 !.version = Head(splitCh).version]]
    /\ splitCh' = Tail(splitCh)
    /\ UNCHANGED <<mount, remote, store, listCh, dataCh, urgentCh, listers, making, answers, busy,
                   pool, handle, faults, ending>>

File(p) == jobs[p].file
Size(p) == Blocks[File(p)]
Hole(f) == [i \in 1 .. Blocks[f] |-> 0]

\* flock.Lock: a splitter goes on with isFilePresent, a user with his own.
Lock(p) ==
    /\ jobs[p].pc = "lock" /\ locks[File(p)] = None
    /\ locks' = [locks EXCEPT ![File(p)] = p]
    /\ jobs' = [jobs EXCEPT ![p].pc =
            IF ~Urgent(p) THEN "create" ELSE IF local[File(p)] # None THEN "open" ELSE "attr"]
    /\ UNCHANGED <<mount, remote, local, dirs, channels, listers, making, answers, busy, pool, handle,
                   faults, ending>>

Busy(w) == busy[w] # None /\ busy[w] # Gone

\* Items whose run of Process is over answer to nobody.
Orphaned(q, p) == [i \in DOMAIN q |-> IF q[i].job = p THEN [q[i] EXCEPT !.job = None] ELSE q[i]]

\* Process returns: a user goes on to open the file when all is well, a
\* splitter unlocks it.
Return(p, ok) ==
    /\ IF Urgent(p) /\ ok
       THEN /\ jobs' = [jobs EXCEPT ![p] = [NoJob EXCEPT !.pc = "open", !.file = File(p)]]
            /\ UNCHANGED locks
       ELSE /\ jobs' = [jobs EXCEPT ![p] = NoJob]
            /\ locks' = [locks EXCEPT ![File(p)] = None]
    /\ answers' = [answers EXCEPT ![p] = {}]
    /\ dataCh' = Orphaned(dataCh, p) /\ urgentCh' = Orphaned(urgentCh, p)
    /\ busy' = [w \in Workers |-> IF Busy(w) /\ busy[w].job = p THEN [busy[w] EXCEPT !.job = None]
                                  ELSE busy[w]]

\* A file that is there with the right size is left alone; otherwise it is
\* created and given its size.
Create(p) ==
    /\ jobs[p].pc = "create"
    /\ IF local[File(p)] # None /\ Len(local[File(p)]) = Size(p)
       THEN Return(p, TRUE) /\ UNCHANGED <<local, faults>>
       ELSE \/ /\ Above[File(p)] \in dirs
               /\ local' = [local EXCEPT ![File(p)] = Hole(File(p))]
               /\ IF Size(p) = 0 THEN Return(p, TRUE)
                  ELSE /\ jobs' = [jobs EXCEPT ![p].pc = "get"]
                       /\ UNCHANGED <<locks, answers, dataCh, urgentCh, busy>>
               /\ UNCHANGED faults
            \/ /\ Above[File(p)] \notin dirs
               /\ Return(p, FALSE) /\ UNCHANGED <<local, faults>>
            \/ /\ Fault("create")
               /\ Return(p, FALSE) /\ UNCHANGED local
            \/ /\ Size(p) > 0 /\ Above[File(p)] \in dirs /\ Fault("truncate")
               /\ local' = [local EXCEPT ![File(p)] = None]
               /\ Return(p, FALSE)
    /\ UNCHANGED <<mount, remote, dirs, listCh, splitCh, listers, making, pool, handle, ending>>

Answer(i, ok, block, version) == [index |-> i, ok |-> ok, block |-> block, version |-> version]

\* The main loop moves on to the next block, and waits for the writer after the last.
Advance(j, i) == [j EXCEPT !.next = i + 1, !.pc = IF i = Blocks[j.file] THEN "wait" ELSE "get"]

\* tryGet and mustGet: a user may take a reserved block.
Sources(p) ==
    {c \in {"normal", "reserved"} :
        /\ pool[c] > 0
        /\ c = "reserved" => Urgent(p)
        /\ c = "normal" /\ Urgent(p) => pool.reserved <= mount.reserved}

\* GetBlock and the check of Schedule.  With the context done, select may still
\* choose the block, which is then lost.
GetBlock(p) ==
    /\ jobs[p].pc = "get"
    /\ LET i == jobs[p].next
       IN  \/ \E c \in Sources(p) :
                /\ pool' = [pool EXCEPT ![c] = @ - 1]
                /\ IF Stopped
                   THEN /\ answers' = [answers EXCEPT ![p] = @ \cup {Answer(i, FALSE, FALSE, 0)}]
                        /\ jobs' = [jobs EXCEPT ![p] = Advance(@, i)]
                   ELSE /\ jobs' = [jobs EXCEPT ![p].pc = "send"]
                        /\ UNCHANGED answers
           \/ /\ Stopped
              /\ answers' = [answers EXCEPT ![p] = @ \cup {Answer(i, FALSE, FALSE, 0)}]
              /\ jobs' = [jobs EXCEPT ![p] = Advance(@, i)]
              /\ UNCHANGED pool
    /\ UNCHANGED <<mount, remote, store, channels, listers, making, busy, handle, faults, ending>>

SendBlock(p) ==
    /\ jobs[p].pc = "send"
    /\ LET item == [job |-> p, file |-> File(p), index |-> jobs[p].next]
       IN  IF Urgent(p)
           THEN Len(urgentCh) < mount.room /\ urgentCh' = Append(urgentCh, item) /\ UNCHANGED dataCh
           ELSE Len(dataCh) < mount.room /\ dataCh' = Append(dataCh, item) /\ UNCHANGED urgentCh
    /\ jobs' = [jobs EXCEPT ![p] = Advance(@, jobs[p].next)]
    /\ UNCHANGED <<mount, remote, store, listCh, splitCh, listers, making, answers, busy, pool, handle,
                   faults, ending>>

\* Release: to a user, to the reserve or to the others.
Waiting == {u \in Users : jobs[u].pc = "get"}
\* Mutant: priorityCh has room for every block.
GivenToUsers(q) == [q EXCEPT !.reserved = @ + 1]

Given(q) ==
    IF q.reserved < mount.reserved \/ (mount.reserved = 0 /\ q.reserved < Cardinality(Waiting))
    THEN [q EXCEPT !.reserved = @ + 1] ELSE [q EXCEPT !.normal = @ + 1]

Writing(p) == jobs[p].pc \in {"get", "send", "wait"} /\ jobs[p].got < Size(p)

\* Mutant: the block of a failed read is not released.
WriteAnswerLeaks(p, a) ==
    /\ Writing(p) /\ a \in answers[p]
    /\ answers' = [answers EXCEPT ![p] = @ \ {a}]
    /\ pool' = IF a.block /\ a.ok THEN Given(pool) ELSE pool
    /\ \/ /\ a.ok
          /\ local' = IF local[File(p)] = None THEN local
                      ELSE [local EXCEPT ![File(p)][a.index] = a.version]
          /\ jobs' = [jobs EXCEPT ![p].got = @ + 1]
          /\ UNCHANGED faults
       \/ /\ \/ ~a.ok /\ UNCHANGED faults
             \/ a.ok /\ Fault("write")
          /\ jobs' = [jobs EXCEPT ![p].got = @ + 1, ![p].ok = FALSE, ![p].live = FALSE]
          /\ UNCHANGED local
    /\ UNCHANGED <<mount, remote, dirs, locks, channels, listers, making, busy, handle, ending>>

\* The writer takes an answer, writes it or cancels the context of the file,
\* and releases the block.
WriteAnswer(p, a) ==
    /\ Writing(p) /\ a \in answers[p]
    /\ answers' = [answers EXCEPT ![p] = @ \ {a}]
    /\ pool' = IF a.block THEN Given(pool) ELSE pool
    /\ \/ /\ a.ok
          /\ local' = IF local[File(p)] = None THEN local
                      ELSE [local EXCEPT ![File(p)][a.index] = a.version]
          /\ jobs' = [jobs EXCEPT ![p].got = @ + 1]
          /\ UNCHANGED faults
       \/ /\ \/ ~a.ok /\ UNCHANGED faults
             \/ a.ok /\ Fault("write")
          /\ jobs' = [jobs EXCEPT ![p].got = @ + 1, ![p].ok = FALSE, ![p].live = FALSE]
          /\ UNCHANGED local
    /\ UNCHANGED <<mount, remote, dirs, locks, channels, listers, making, busy, handle, ending>>

\* The writer sees that the pool is closed, and leaves.
WriterLeaves(p) ==
    /\ Writing(p) /\ Stopped
    /\ jobs' = [jobs EXCEPT ![p].got = Size(p), ![p].ok = FALSE, ![p].live = FALSE]
    /\ UNCHANGED <<mount, remote, store, channels, listers, making, answers, busy, pool, handle, faults, ending>>

\* checkConsistency: all blocks are of the version whose checksum is known.
Consistent(p) ==
    mount.md5 /\ local[File(p)] # None => \A i \in 1 .. Size(p) : local[File(p)][i] = jobs[p].version

\* Mutant: the file stays when the download fails.
FinishKeeps(p) ==
    /\ jobs[p].pc = "wait" /\ ~Writing(p)
    /\ LET ok == jobs[p].ok /\ Consistent(p)
       IN  /\ Return(p, ok)
           /\ UNCHANGED local
    /\ UNCHANGED <<mount, remote, dirs, listCh, splitCh, listers, making, pool, handle, faults, ending>>

\* The writer is done: a file that failed is removed.
Finish(p) ==
    /\ jobs[p].pc = "wait" /\ ~Writing(p)
    /\ LET ok == jobs[p].ok /\ Consistent(p)
       IN  /\ Return(p, ok)
           /\ local' = IF ok THEN local ELSE [local EXCEPT ![File(p)] = None]
    /\ UNCHANGED <<mount, remote, dirs, listCh, splitCh, listers, making, pool, handle, faults, ending>>

(***************************************************************************)
(* The data manager                                                        *)
(***************************************************************************)

\* Do: the urgent workers serve users only.
TakeBlock(w) ==
    /\ w \in mount.workers /\ busy[w] = None
    /\ \/ /\ urgentCh # <<>>
          /\ busy' = [busy EXCEPT ![w] = Head(urgentCh)]
          /\ urgentCh' = Tail(urgentCh) /\ UNCHANGED dataCh
       \/ /\ dataCh # <<>> /\ w \notin mount.urgent
          /\ busy' = [busy EXCEPT ![w] = Head(dataCh)]
          /\ dataCh' = Tail(dataCh) /\ UNCHANGED urgentCh
    /\ UNCHANGED <<mount, remote, store, listCh, splitCh, listers, making, jobs, answers, pool, handle,
                   faults, ending>>

\* Process, ReadData and the answer: nothing is read once the context of the
\* file is cancelled.
ReadBlock(w) ==
    /\ Busy(w)
    /\ LET p == busy[w].job
           live == p # None /\ jobs[p].live
           Reply(ok) == answers' = IF p = None THEN answers
                                   ELSE [answers EXCEPT ![p] = @ \cup
                                       {Answer(busy[w].index, ok, TRUE, IF ok THEN remote[busy[w].file] ELSE 0)}]
       IN  \/ Reply(live) /\ UNCHANGED faults
           \/ live /\ Fault("read") /\ Reply(FALSE)
    /\ busy' = [busy EXCEPT ![w] = None]
    /\ UNCHANGED <<mount, remote, store, channels, listers, making, jobs, pool, handle, ending>>

(***************************************************************************)
(* Users                                                                   *)
(***************************************************************************)

\* OpenFile asks for the lock; no calls come after the file system is unmounted.
OpenFile(u, f) ==
    /\ u \in mount.users /\ f \in mount.files
    /\ ~Stopped /\ jobs[u] = NoJob /\ handle[u] = None
    /\ jobs' = [jobs EXCEPT ![u] = [NoJob EXCEPT !.pc = "lock", !.file = f]]
    /\ UNCHANGED <<mount, remote, store, channels, listers, making, answers, busy, pool, handle, faults, ending>>

\* downloadFile gets the attributes, with the checksum, and makes the directory.
DownloadFile(u) ==
    /\ jobs[u].pc = "attr"
    /\ \/ /\ jobs' = [jobs EXCEPT ![u].pc = "create", ![u].version = remote[File(u)]]
          /\ dirs' = dirs \cup {Root, Above[File(u)]}
          /\ UNCHANGED <<locks, faults>>
       \/ /\ Fault("attr")
          /\ jobs' = [jobs EXCEPT ![u] = NoJob]
          /\ locks' = [locks EXCEPT ![File(u)] = None]
          /\ UNCHANGED dirs
    /\ UNCHANGED <<mount, remote, local, channels, listers, making, answers, busy, pool, handle, ending>>

\* The local file is opened and the lock released.
OpenLocal(u) ==
    /\ jobs[u].pc = "open"
    /\ \/ /\ local[File(u)] # None
          /\ handle' = [handle EXCEPT ![u] = File(u)]
          /\ UNCHANGED faults
       \/ /\ Fault("open") /\ UNCHANGED handle
    /\ jobs' = [jobs EXCEPT ![u] = NoJob]
    /\ locks' = [locks EXCEPT ![File(u)] = None]
    /\ UNCHANGED <<mount, remote, local, dirs, channels, listers, making, answers, busy, pool, ending>>

ReleaseFile(u) ==
    /\ handle[u] # None /\ ~Stopped /\ locks[handle[u]] = None
    /\ handle' = [handle EXCEPT ![u] = None]
    /\ UNCHANGED <<mount, remote, store, channels, threads, pool, faults, ending>>

\* Another client writes the file, with the same size.
RemoteChange(f) ==
    /\ f \in mount.files /\ remote[f] < mount.versions
    /\ remote' = [remote EXCEPT ![f] = @ + 1]
    /\ UNCHANGED <<mount, store, channels, threads, pool, handle, faults, ending>>

(***************************************************************************)
(* Stop                                                                    *)
(***************************************************************************)

\* The FUSE loop has ended, and with it the calls of the users: poolCancelFunc.
Cancel ==
    /\ mount.stops /\ stop = "no"
    /\ \A u \in Users : jobs[u] = NoJob
    /\ stop' = "cancelled"
    /\ UNCHANGED <<mount, remote, store, channels, threads, pool, handle, faults, cleaned, panicked>>

\* The workers of a pool leave when they are done with their item.
ListerLeaves(l) ==
    /\ Stopped /\ listers[l] = NoDir
    /\ listers' = [listers EXCEPT ![l] = Gone]
    /\ UNCHANGED <<mount, remote, store, channels, making, jobs, answers, busy, pool, handle, faults, ending>>

SplitterLeaves(s) ==
    /\ Stopped /\ s \in mount.splitters /\ jobs[s] = NoJob
    /\ jobs' = [jobs EXCEPT ![s].pc = "gone"]
    /\ UNCHANGED <<mount, remote, store, channels, listers, making, answers, busy, pool, handle, faults, ending>>

WorkerLeaves(w) ==
    /\ Stopped /\ w \in mount.workers /\ busy[w] = None
    /\ busy' = [busy EXCEPT ![w] = Gone]
    /\ UNCHANGED <<mount, remote, store, channels, listers, making, jobs, answers, pool, handle, faults, ending>>

\* One pool after the other has its channels closed and is waited for; the
\* blocks are freed last.
CloseNext ==
    /\ \/ stop = "cancelled" /\ stop' = "lister"
       \/ stop = "lister" /\ (\A l \in Listers : listers[l] = Gone) /\ stop' = "splitter"
       \/ stop = "splitter" /\ (\A s \in mount.splitters : jobs[s].pc = "gone") /\ stop' = "data"
       \/ stop = "data" /\ (\A w \in mount.workers : busy[w] = Gone) /\ stop' = "ended"
    /\ pool' = IF stop = "data" THEN [normal |-> 0, reserved |-> 0] ELSE pool
    /\ UNCHANGED <<mount, remote, store, channels, threads, handle, faults, cleaned, panicked>>

\* TempCacheCleanup, when all pools have ended or two seconds have passed.
Cleanup ==
    /\ Stopped /\ ~cleaned
    /\ cleaned' = TRUE
    /\ local' = [f \in Files |-> None] /\ dirs' = {Root}
    /\ handle' = [u \in Users |-> None]
    /\ UNCHANGED <<mount, remote, locks, channels, threads, pool, faults, stop, panicked>>

SplitterStep(p) ==
    \/ Create(p) \/ GetBlock(p) \/ SendBlock(p) \/ Finish(p)
    \/ \E a \in answers[p] : WriteAnswer(p, a)
    \/ WriterLeaves(p)

ListerStep(l) ==
    \/ ListDir(l) \/ SendFile(l) \/ Listed(l) \/ ListerLeaves(l)
    \/ \E e \in listers[l].left : ListEntry(l, e)

WorkerStep(w) == TakeBlock(w) \/ ReadBlock(w) \/ WorkerLeaves(w)

Next ==
    /\ ~panicked
    /\ \/ \E l \in Listers : ListerStep(l) \/ ListFails(l)
       \/ \E d \in Dirs : Mkdir(d) \/ SendDir(d)
       \/ \E s \in Splitters : TakeFile(s) \/ SplitterLeaves(s)
       \/ \E p \in Procs : Lock(p) \/ SplitterStep(p)
       \/ \E w \in Workers : WorkerStep(w)
       \/ \E u \in Users : DownloadFile(u) \/ OpenLocal(u) \/ ReleaseFile(u)
       \/ \E u \in Users, f \in Files : OpenFile(u, f)
       \/ \E f \in Files : RemoteChange(f)
       \/ Cancel \/ CloseNext \/ Cleanup

Spec == Init /\ [][Next]_vars

\* Goroutines run; those that wait for a lock or for a channel are served in
\* the order they came.
Fairness ==
    /\ \A l \in Listers : WF_vars(ListerStep(l))
    /\ \A d \in Dirs : WF_vars(Mkdir(d)) /\ WF_vars(SendDir(d))
    /\ \A s \in Splitters : WF_vars(TakeFile(s))
    /\ \A p \in Procs : SF_vars(Lock(p)) /\ WF_vars(SplitterStep(p))
    /\ \A w \in Workers : WF_vars(WorkerStep(w))
    /\ \A u \in Users : WF_vars(DownloadFile(u)) /\ WF_vars(OpenLocal(u))

FairSpec == Spec /\ Fairness

(***************************************************************************)
(* Properties                                                              *)
(***************************************************************************)

\* A run of Process has the file in its hands.
Loading(f) == \E p \in Procs : jobs[p].file = f /\ jobs[p].pc \in {"get", "send", "wait"}

Data(f) == IF Loading(f) THEN None ELSE local[f]

Versions(f) == {[i \in 1 .. Blocks[f] |-> v] : v \in 1 .. MaxVersion}

Promise == INSTANCE Preload WITH
    Whole <- Versions,
    data <- [f \in Files |-> Data(f)],
    handle <- [u \in Users |-> IF handle[u] = None THEN None
                               ELSE [file |-> handle[u], data |-> local[handle[u]]]],
    mounted <- ~cleaned

\* A file under its name is whole or absent, an open file is whole and stays
\* as it is, whatever fails in between and in whatever order the answers come
\* (the lock and the removal in splitter.Process: until then the file has its
\* full size and holes).  Blocks of two versions of a file may meet under its name
\* when it changes in the cloud meanwhile, unless validate-md5 is on and the object
\* has a sum (splitter.go:367; it is off by default): MountsAssumption leaves the
\* other mounts with changing files out.
FilesWhole == Promise!Spec

\* Every open ends: nobody waits for ever for a lock, a block, a channel or an
\* answer, whatever fails.
OpensEnd == \A u \in Users : jobs[u].pc # "idle" ~> jobs[u].pc = "idle"

\* The bucket ends up on the local disk, unless something fails on the way,
\* a file changes while it is read, or the mount is taken down.
Preloaded ==
    \A f \in Files : <>(f \in mount.files => Data(f) # None \/ faults > 0 \/ remote[f] > 1 \/ Stopped)
=============================================================================
