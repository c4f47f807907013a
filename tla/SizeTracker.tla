---------------------------- MODULE SizeTracker ----------------------------
(***************************************************************************)
(* The size_tracker component (component/size_tracker) and the command     *)
(* sync-size-tracker (cmd/sync-size-tracker.go).  Each mount counts the    *)
(* bytes its handlers add and remove in pendingDelta; sync moves the delta *)
(* into a journal file that all mounts of a bucket share and that only one *)
(* of them has locked at a time.  The command sets the journal to the size *)
(* it found by listing the bucket, under a higher epoch.                   *)
(*                                                                         *)
(* A sync is two steps, between which handlers go on counting: lock, read  *)
(* and adopt; write, update and unlock.  An operation reads attributes and *)
(* GetSize first, calls the next component then, and counts at last.       *)
(***************************************************************************)
EXTENDS Integers, FiniteSets, FiniteSetsExt, Functions

CONSTANTS
    Mounts,     \* mounts that share the journal
    Tool,       \* the process of sync-size-tracker
    Files,      \* objects of the bucket
    Handlers,   \* threads that call the component
    MountOf,    \* the mount of each handler
    MaxSize,    \* bound on the size of a file
    MaxOps,     \* bound on the number of operations
    MaxErrors,  \* bound on the number of failed syncs
    Settings    \* the configurations and workloads considered

Procs == Mounts \cup {Tool}
NoFile == -1
Growing == {"write", "truncate", "copy"}         \* checkCapacityDelta is called
Replacing == {"create", "delete", "rename"}      \* the old size is taken off
Ops == Growing \cup Replacing \cup {"link", "commit"}

Setting == [
    owns : [Mounts -> SUBSET Files],  \* the files each mount works on
    ops : SUBSET Ops,                 \* the operations that are called
    capacity : Nat,                   \* totalBucketCapacity, 0 without hard limit
    drift : SUBSET Nat,               \* sizes the journal may wrongly start with
    attrErrors : BOOLEAN,             \* GetAttr may fail on an existing file
    syncErrors : BOOLEAN,             \* sync may fail, before or after its write
    tool : BOOLEAN]                   \* sync-size-tracker is run

ASSUME SizeAssumption ==
    /\ Tool \notin Mounts /\ MountOf \in [Handlers -> Mounts]
    /\ MaxSize \in Nat \ {0} /\ MaxOps \in Nat /\ MaxErrors \in Nat
    /\ IsFiniteSet(Files) /\ IsFiniteSet(Handlers) /\ IsFiniteSet(Mounts)
    /\ Settings \subseteq Setting

VARIABLES
    setting,       \* the setting at hand, fixed by Init
    sizes,         \* the size of each object, or NoFile
    journal,       \* epoch and size_bytes of the journal file
    size,          \* MountSize.size
    pendingDelta,  \* MountSize.pendingDelta
    epoch,         \* MountSize.epoch
    life,          \* each process: "off", "starting", "up", "stopping"
    sync,          \* the sync a process has begun: its base and delta
    call,          \* the operation of each handler
    tool,          \* sync-size-tracker: total, newSize, attempts, and where it is
    quiet,         \* history: nothing was pending or changed since the tool listed
    ops, errors    \* operations and failed syncs so far

mountSize == <<size, pendingDelta, epoch>>
bounds == <<setting, ops, errors>>
vars == <<sizes, journal, mountSize, life, sync, call, tool, quiet, bounds>>

NoSync == [on |-> FALSE, base |-> 0, delta |-> 0]
NoCall == [pc |-> "idle", op |-> "none", file |-> "none", to |-> "none",
           arg |-> 0, seen |-> 0, delta |-> 0]
NoTool == [pc |-> "idle", total |-> 0, newSize |-> 0, attempt |-> 0]

\* The size of a file that is not there is taken for 0.
Known(s) == IF s = NoFile THEN 0 ELSE s

\* The bytes in the bucket.
Total == SumFunction([f \in Files |-> Known(sizes[f])])

Call == [pc : {"idle", "delta", "size", "do", "reread", "add"}, op : Ops \cup {"none"},
         file : Files \cup {"none"}, to : Files \cup {"none"},
         arg : 0 .. MaxSize, seen : NoFile .. MaxSize, delta : Int]

TypeOK ==
    /\ setting \in Settings
    /\ sizes \in [Files -> NoFile .. MaxSize]
    /\ journal \in [epoch : Nat, size : Nat]
    /\ size \in [Procs -> Nat] /\ pendingDelta \in [Procs -> Int] /\ epoch \in [Procs -> Nat]
    /\ life \in [Procs -> {"off", "starting", "up", "stopping"}]
    /\ sync \in [Procs -> [on : BOOLEAN, base : Nat, delta : Int]]
    /\ call \in [Handlers -> Call]
    /\ tool \in [pc : {"idle", "listed", "open", "read", "stop", "failed", "done"},
                 total : Nat, newSize : Nat, attempt : 0 .. 3]
    /\ quiet \in BOOLEAN /\ ops \in 0 .. MaxOps /\ errors \in 0 .. MaxErrors

Init ==
    /\ setting \in Settings
    /\ sizes \in [Files -> {NoFile, 1}]
    /\ \E n \in {Total} \cup setting.drift : journal = [epoch |-> 0, size |-> n]
    /\ size = [p \in Procs |-> 0] /\ pendingDelta = [p \in Procs |-> 0]
    /\ epoch = [p \in Procs |-> 0] /\ life = [p \in Procs |-> "off"]
    /\ sync = [p \in Procs |-> NoSync] /\ call = [h \in Handlers |-> NoCall]
    /\ tool = NoTool /\ quiet = FALSE /\ ops = 0 /\ errors = 0

-----------------------------------------------------------------------------
(* MountSize (journal.go)                                                  *)

\* The base with the delta applied; it bottoms out at zero.
Applied(base, d) == IF base + d < 0 THEN 0 ELSE base + d

\* Mutant: no ticker, a process syncs at its start and at its end only.
SyncsAtEnds(p) == life[p] \in {"starting", "stopping"} /\ ~sync[p].on

\* A process syncs when it is configured, when its ticker fires and at the end.
Syncs(p) == life[p] # "off" /\ ~sync[p].on

\* Mutant: the journal is not locked.
FreeUnlocked == TRUE

\* exclusiveLock: nobody else is between reading and writing the journal.
Free == \A p \in Procs : ~sync[p].on

\* Lock and read the journal; adopt its size, and its epoch if that is higher,
\* which discards the delta.  A process with a higher epoch keeps its own size.
SyncBegin(p) ==
    LET behind == epoch[p] < journal.epoch
        ahead == epoch[p] > journal.epoch
        base == IF ahead THEN size[p] ELSE journal.size
    IN /\ Syncs(p) /\ Free
       /\ size' = [size EXCEPT ![p] = base]
       /\ epoch' = [epoch EXCEPT ![p] =
                      IF behind THEN journal.epoch ELSE IF @ = 0 THEN 1 ELSE @]
       /\ pendingDelta' = IF behind THEN [pendingDelta EXCEPT ![p] = 0] ELSE pendingDelta
       /\ sync' = [sync EXCEPT ![p] = [on |-> TRUE, base |-> base,
                                       delta |-> IF behind THEN 0 ELSE pendingDelta[p]]]
       /\ UNCHANGED <<sizes, journal, life, call, tool, quiet, bounds>>

\* What the end of a sync means for its process.  CreateSizeJournal fails with
\* its sync; the journal writer ends with its last one, whatever comes of it.
Lives(p, ok) ==
    CASE life[p] = "starting" -> IF ok THEN "up" ELSE "off"
      [] life[p] = "stopping" -> "off"
      [] OTHER -> life[p]

\* The journal is written and the delta that went into it is taken off.
SyncEnd(p) ==
    LET updated == Applied(sync[p].base, sync[p].delta)
    IN /\ sync[p].on
       /\ journal' = [epoch |-> epoch[p], size |-> updated]
       /\ size' = [size EXCEPT ![p] = updated]
       /\ pendingDelta' = [pendingDelta EXCEPT ![p] = @ - sync[p].delta]
       /\ sync' = [sync EXCEPT ![p] = NoSync]
       /\ life' = [life EXCEPT ![p] = Lives(p, TRUE)]
       /\ UNCHANGED <<sizes, epoch, call, tool, quiet, bounds>>

\* Seek or Write fail, or Truncate or Sync fail after the write.
SyncFail(p) ==
    /\ sync[p].on /\ setting.syncErrors /\ errors < MaxErrors
    /\ errors' = errors + 1
    /\ journal' \in {journal, [epoch |-> epoch[p],
                               size |-> Applied(sync[p].base, sync[p].delta)]}
    /\ sync' = [sync EXCEPT ![p] = NoSync]
    /\ life' = [life EXCEPT ![p] = Lives(p, FALSE)]
    /\ UNCHANGED <<sizes, mountSize, call, tool, quiet, setting, ops>>

\* CreateSizeJournal makes a fresh MountSize, whose first sync is to come.
CreateSizeJournal(p) ==
    /\ life[p] = "off"
    /\ life' = [life EXCEPT ![p] = "starting"]
    /\ size' = [size EXCEPT ![p] = 0] /\ epoch' = [epoch EXCEPT ![p] = 0]
    /\ pendingDelta' = [pendingDelta EXCEPT ![p] = 0]

Busy(m) == \E h \in Handlers : MountOf[h] = m /\ call[h].pc # "idle"

Start(m) ==
    /\ setting.owns[m] # {} /\ CreateSizeJournal(m)
    /\ UNCHANGED <<sizes, journal, sync, call, tool, quiet, bounds>>

\* The file system is unmounted: the journal writer syncs once more.
Stop(m) ==
    /\ life[m] = "up" /\ ~Busy(m) /\ ~sync[m].on
    /\ life' = [life EXCEPT ![m] = "stopping"]
    /\ UNCHANGED <<sizes, journal, mountSize, sync, call, tool, quiet, bounds>>

-----------------------------------------------------------------------------
(* The operations (size_tracker.go)                                        *)

\* What GetAttr answers: the size, or an error, which counts as NoFile.
Answers(f) == {sizes[f]} \cup (IF setting.attrErrors THEN {NoFile} ELSE {})

\* The size op leaves a file of size old with: write extends it to arg, the
\* others set it.
Resized(op, old, arg) ==
    CASE op = "create" -> 0
      [] op = "delete" -> NoFile
      [] op = "write" -> Max({Known(old), arg})
      [] OTHER -> arg

\* What op adds to the tracked size when GetAttr answered seen.
Difference(op, seen, arg) ==
    IF op \in Replacing THEN -Known(seen) ELSE Resized(op, seen, arg) - Known(seen)

\* The components above serialise the operations on a file: the file cache by
\* its lock, the kernel by that of the inode.
Used(m) == UNION {{call[h].file, call[h].to} :
                    h \in {k \in Handlers : MountOf[k] = m /\ call[k].pc # "idle"}}

\* A call begins with GetAttr, of the destination for a rename.
Begin(h, op, f, to, arg) ==
    LET m == MountOf[h]
    IN /\ ops < MaxOps /\ op \in setting.ops
       /\ call[h].pc = "idle" /\ life[m] = "up"
       /\ {f, to} \subseteq setting.owns[m] \ Used(m)
       /\ (op = "rename" <=> f # to) /\ (op \in Replacing => arg = 0)
       /\ \E seen \in Answers(to) :
            call' = [call EXCEPT ![h] =
              [pc |-> IF op \in Growing /\ setting.capacity > 0 THEN "delta" ELSE "do",
               op |-> op, file |-> f, to |-> to, arg |-> arg, seen |-> seen,
               delta |-> 0]]
       /\ ops' = ops + 1 /\ quiet' = FALSE
       /\ UNCHANGED <<sizes, journal, mountSize, life, sync, tool, setting, errors>>

\* GetSize loads pendingDelta first.
GetSizeDelta(h) ==
    /\ call[h].pc = "delta"
    /\ call' = [call EXCEPT ![h] = [@ EXCEPT !.pc = "size",
                                             !.delta = pendingDelta[MountOf[h]]]]
    /\ UNCHANGED <<sizes, journal, mountSize, life, sync, tool, quiet, bounds>>

\* Mutant: only a bucket that is full already is refused.
FitsOnce(current, grow) == grow <= 0 \/ current < setting.capacity

\* checkCapacityDelta.
Fits(current, grow) == grow <= 0 \/ current + grow <= setting.capacity

\* It then loads the size, and the call goes on or fails with ENOSPC.
GetSizeBase(h) ==
    LET c == call[h]
        current == Applied(size[MountOf[h]], c.delta)
    IN /\ c.pc = "size"
       /\ call' = [call EXCEPT ![h] =
             IF Fits(current, Difference(c.op, c.seen, c.arg))
             THEN [c EXCEPT !.pc = "do"] ELSE NoCall]
       /\ UNCHANGED <<sizes, journal, mountSize, life, sync, tool, quiet, bounds>>

\* The next component does the operation.
Do(h) ==
    LET c == call[h]
        result == IF c.op = "rename"
                  THEN [sizes EXCEPT ![c.to] = sizes[c.file], ![c.file] = NoFile]
                  ELSE [sizes EXCEPT ![c.file] = Resized(c.op, @, c.arg)]
    IN /\ c.pc = "do"
       /\ c.op \in {"delete", "rename"} => sizes[c.file] # NoFile
       /\ sizes' = result
       /\ call' = [call EXCEPT ![h] =
             IF c.op = "commit" THEN [c EXCEPT !.pc = "reread"]
             ELSE [c EXCEPT !.pc = "add", !.delta = Difference(c.op, c.seen, c.arg)]]
       /\ UNCHANGED <<journal, mountSize, life, sync, tool, quiet, bounds>>

DoFailed(h) ==
    /\ call[h].pc = "do"
    /\ call' = [call EXCEPT ![h] = NoCall]
    /\ UNCHANGED <<sizes, journal, mountSize, life, sync, tool, quiet, bounds>>

\* CommitData asks for the attributes again, and takes an error for size 0.
Reread(h) ==
    /\ call[h].pc = "reread"
    /\ \E now \in Answers(call[h].file) :
          call' = [call EXCEPT ![h] = [@ EXCEPT !.pc = "add",
                                         !.delta = Known(now) - Known(call[h].seen)]]
    /\ UNCHANGED <<sizes, journal, mountSize, life, sync, tool, quiet, bounds>>

\* mountSize.Add.
Add(h) ==
    /\ call[h].pc = "add"
    /\ pendingDelta' = [pendingDelta EXCEPT ![MountOf[h]] = @ + call[h].delta]
    /\ call' = [call EXCEPT ![h] = NoCall]
    /\ UNCHANGED <<sizes, journal, size, epoch, life, sync, tool, quiet, bounds>>

-----------------------------------------------------------------------------
(* The command sync-size-tracker                                           *)

\* It lists the bucket.  An empty one equals the zero that newSize starts with,
\* and the loop is never entered.
ToolList ==
    /\ setting.tool /\ tool.pc = "idle"
    /\ tool' = [tool EXCEPT !.total = Total, !.pc = IF Total = 0 THEN "done" ELSE "listed"]
    /\ quiet' = /\ \A p \in Procs : pendingDelta[p] = 0 /\ ~sync[p].on
                /\ \A h \in Handlers : call[h].pc = "idle"
    /\ UNCHANGED <<sizes, journal, mountSize, life, sync, call, bounds>>

ToolOpen ==
    /\ tool.pc = "listed" /\ CreateSizeJournal(Tool)
    /\ tool' = [tool EXCEPT !.pc = "open"]
    /\ UNCHANGED <<sizes, journal, sync, call, quiet, bounds>>

\* CreateSizeJournal failed.
ToolAborts ==
    /\ tool.pc = "open" /\ life[Tool] = "off"
    /\ tool' = [tool EXCEPT !.pc = "failed"]
    /\ UNCHANGED <<sizes, journal, mountSize, life, sync, call, quiet, bounds>>

\* Mutant: the size is not read back but taken from what was added.
ToolReadUnverified ==
    LET current == Applied(size[Tool], pendingDelta[Tool])
    IN /\ tool.pc = "open" /\ life[Tool] = "up"
       /\ tool' = [tool EXCEPT !.pc = "read", !.newSize = tool.total, !.attempt = @ + 1]
       /\ pendingDelta' = [pendingDelta EXCEPT ![Tool] = @ + tool.total - current]
       /\ epoch' = [epoch EXCEPT ![Tool] = IF current = tool.total THEN @ ELSE @ + 1]
       /\ UNCHANGED <<sizes, journal, size, life, sync, call, quiet, bounds>>

\* GetSize; Add(total - newSize) and IncrementEpoch when they differ.
ToolRead ==
    LET current == Applied(size[Tool], pendingDelta[Tool])
    IN /\ tool.pc = "open" /\ life[Tool] = "up"
       /\ tool' = [tool EXCEPT !.pc = "read", !.newSize = current, !.attempt = @ + 1]
       /\ pendingDelta' = [pendingDelta EXCEPT ![Tool] = @ + tool.total - current]
       /\ epoch' = [epoch EXCEPT ![Tool] = IF current = tool.total THEN @ ELSE @ + 1]
       /\ UNCHANGED <<sizes, journal, size, life, sync, call, quiet, bounds>>

ToolStop ==
    /\ tool.pc = "read" /\ life[Tool] = "up" /\ ~sync[Tool].on
    /\ life' = [life EXCEPT ![Tool] = "stopping"]
    /\ tool' = [tool EXCEPT !.pc = "stop"]
    /\ UNCHANGED <<sizes, journal, mountSize, sync, call, quiet, bounds>>

\* The loop ends when the size that was read is the total, or after three attempts.
ToolLoop ==
    /\ tool.pc = "stop" /\ life[Tool] = "off"
    /\ tool' = [tool EXCEPT !.pc = IF tool.newSize = tool.total \/ tool.attempt = 3
                                   THEN "done" ELSE "listed"]
    /\ UNCHANGED <<sizes, journal, mountSize, life, sync, call, quiet, bounds>>

Next ==
    \/ \E p \in Procs : SyncBegin(p) \/ SyncEnd(p) \/ SyncFail(p)
    \/ \E m \in Mounts : Start(m) \/ Stop(m)
    \/ \E h \in Handlers, op \in Ops, f, to \in Files, arg \in 0 .. MaxSize :
          Begin(h, op, f, to, arg)
    \/ \E h \in Handlers :
          \/ GetSizeDelta(h) \/ GetSizeBase(h) \/ Do(h) \/ DoFailed(h)
          \/ Reread(h) \/ Add(h)
    \/ ToolList \/ ToolOpen \/ ToolAborts \/ ToolRead \/ ToolStop \/ ToolLoop

Spec == Init /\ [][Next]_vars

\* The ticker fires and stopping waits for the last sync; a lock that is asked for
\* again and again is obtained; a call that has begun returns.
Fairness ==
    /\ \A p \in Procs : SF_vars(SyncBegin(p)) /\ WF_vars(SyncEnd(p))
    /\ \A h \in Handlers :
          /\ WF_vars(GetSizeDelta(h)) /\ WF_vars(GetSizeBase(h))
          /\ WF_vars(Do(h) \/ DoFailed(h)) /\ WF_vars(Reread(h)) /\ WF_vars(Add(h))

FairSpec == Spec /\ Fairness

-----------------------------------------------------------------------------
(* Properties                                                              *)

\* The journal started right, each file belongs to one mount, attributes and
\* syncs do not fail and nobody runs the command.
Accountable ==
    /\ setting.drift = {} /\ ~setting.attrErrors /\ ~setting.syncErrors /\ ~setting.tool
    /\ \A m, n \in Mounts : m # n => setting.owns[m] \cap setting.owns[n] = {}

\* Bytes that an operation has added to the bucket and not yet to pendingDelta.
Owed(h) ==
    LET c == call[h]
    IN CASE c.pc = "add" -> c.delta
         [] c.pc = "reread" -> Known(sizes[c.file]) - Known(c.seen)
         [] OTHER -> 0

\* No byte is lost or counted twice, however the syncs of several mounts, their
\* starts and stops and their operations interleave: the journal, the pending
\* deltas and the calls under way add up to the bucket.
Accounted ==
    /\ TypeOK
    /\ Accountable =>
       Total = journal.size + SumFunction([m \in Mounts |-> pendingDelta[m]])
                            + SumFunction([h \in Handlers |-> Owed(h)])

\* With one mount, one thread and files that only grow, checkCapacityDelta keeps
\* the bucket within its capacity, even when GetSize reads the delta and the size
\* on both sides of a sync.
LimitKept ==
    (/\ Accountable /\ setting.capacity > 0 /\ setting.ops = {"write"}
     /\ Cardinality({h \in Handlers : setting.owns[MountOf[h]] # {}}) = 1)
       => Total <= setting.capacity

\* When sync-size-tracker reports success for a bucket that is not empty, and
\* nothing was pending or changed since it listed the bucket, the journal holds
\* the size of the bucket, whatever it held before and whatever mounts sync, start
\* or stop meanwhile.
ToolRepairs ==
    quiet /\ tool.pc = "done" /\ tool.newSize = tool.total /\ tool.total > 0
       => journal.size = Total

\* The journal catches up with the bucket once its users are done.
CatchesUp == <>[](Accountable => journal.size = Total)
=============================================================================
