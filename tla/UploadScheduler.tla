-------------------------- MODULE UploadScheduler --------------------------
(***************************************************************************)
(* The upload windows and the thread that works off the pending operations *)
(* (component/file_cache/async.go, Start and Stop of file_cache.go).  The  *)
(* cron jobs of the windows count activeWindows up and down and close or   *)
(* replace the channel startScheduledUploads; servicePendingOps waits on   *)
(* that channel, and on pendingOpAdded when it has nothing to do.          *)
(***************************************************************************)
EXTENDS Integers, FiniteSets

CONSTANTS
    Jobs,       \* goroutines of cron jobs that may run at the same time
    Ops,        \* names of pending operations
    Channels,   \* channel objects
    MaxDrops    \* bound: how often the connection is lost

ASSUME SchedulerAssumption ==
    /\ MaxDrops \in Nat /\ IsFiniteSet(Jobs)
    /\ Channels # {} /\ \A c, d \in Channels : Channels \ {c, d} # {}

VARIABLES
    activeWindows,     \* fc.activeWindows
    uploads,           \* the channel object in fc.startScheduledUploads
    closed,            \* the channel objects that are closed
    job,               \* each cron job: "idle", "opening", "open", "closing"
    panicked,          \* a closed channel was closed
    pendingOps,        \* fc.pendingOps
    adding,            \* operations stored, pendingOpAdded not signalled yet
    pendingOpAdded,    \* the buffer of that channel (capacity 1) is full
    svc,               \* servicePendingOps: where it is
    waitsOn,           \* the channel object its select has evaluated
    todo,              \* the keys Range has still to visit
    numFilesProcessed, \* whether Range visited a key
    connected,         \* CloudConnected
    drops,             \* how often the connection was lost
    stopping           \* fc.componentStopping is closed

windows == <<activeWindows, uploads, closed, job, panicked>>
queue == <<pendingOps, adding, pendingOpAdded>>
service == <<svc, waitsOn, todo, numFilesProcessed>>
connection == <<connected, drops>>
vars == <<windows, queue, service, connection, stopping>>

TypeOK ==
    /\ activeWindows \in 0 .. Cardinality(Jobs)
    /\ uploads \in Channels /\ closed \subseteq Channels
    /\ job \in [Jobs -> {"idle", "opening", "open", "closing"}]
    /\ panicked \in BOOLEAN
    /\ pendingOps \subseteq Ops /\ adding \subseteq Ops /\ pendingOpAdded \in BOOLEAN
    /\ svc \in {"select", "ready", "sleep", "range", "wait", "stopped"}
    /\ waitsOn \in Channels /\ todo \subseteq Ops /\ numFilesProcessed \in BOOLEAN
    /\ connected \in BOOLEAN /\ drops \in 0 .. MaxDrops /\ stopping \in BOOLEAN

\* make(chan struct{}): an object nobody refers to.
Fresh(used) == CHOOSE c \in Channels \ used : TRUE

\* Start: a schedule is configured and no window is active yet.
Init ==
    /\ uploads = Fresh({}) /\ waitsOn = uploads
    /\ activeWindows = 0 /\ closed = {} /\ job = [j \in Jobs |-> "idle"]
    /\ panicked = FALSE
    /\ pendingOps = {} /\ adding = {} /\ pendingOpAdded = FALSE
    /\ svc = "select" /\ todo = {} /\ numFilesProcessed = FALSE
    /\ connected = TRUE /\ drops = 0 /\ stopping = FALSE

-----------------------------------------------------------------------------
(* The cron jobs (configureScheduler)                                      *)

\* Mutant: every window that starts closes the channel.
WindowStartAlways(j) ==
    /\ ~panicked /\ ~stopping /\ job[j] = "idle"
    /\ activeWindows' = activeWindows + 1 /\ job' = [job EXCEPT ![j] = "opening"]
    /\ UNCHANGED <<uploads, closed, panicked, queue, service, connection, stopping>>

\* A window starts: activeWindows.Add(1), which tells whether it is the first.
WindowStart(j) ==
    /\ ~panicked /\ ~stopping /\ job[j] = "idle"
    /\ activeWindows' = activeWindows + 1
    /\ job' = [job EXCEPT ![j] = IF activeWindows = 0 THEN "opening" ELSE "open"]
    /\ UNCHANGED <<uploads, closed, panicked, queue, service, connection, stopping>>

\* close(fc.startScheduledUploads).
WindowOpen(j) ==
    /\ ~panicked /\ job[j] = "opening"
    /\ job' = [job EXCEPT ![j] = "open"]
    /\ closed' = closed \cup {uploads} /\ panicked' = (uploads \in closed)
    /\ UNCHANGED <<activeWindows, uploads, queue, service, connection, stopping>>

\* Mutant: every window that ends replaces the channel, the last one or not.
WindowEndAlways(j) ==
    /\ ~panicked /\ job[j] = "open"
    /\ activeWindows' = activeWindows - 1 /\ job' = [job EXCEPT ![j] = "closing"]
    /\ UNCHANGED <<uploads, closed, panicked, queue, service, connection, stopping>>

\* The window's context is done: activeWindows.Add(-1).
WindowEnd(j) ==
    /\ ~panicked /\ job[j] = "open"
    /\ activeWindows' = activeWindows - 1
    /\ job' = [job EXCEPT ![j] = IF activeWindows = 1 THEN "closing" ELSE "idle"]
    /\ UNCHANGED <<uploads, closed, panicked, queue, service, connection, stopping>>

\* fc.startScheduledUploads = make(chan struct{}).
WindowClosed(j) ==
    /\ ~panicked /\ job[j] = "closing"
    /\ job' = [job EXCEPT ![j] = "idle"]
    /\ uploads' = Fresh({uploads, waitsOn}) /\ closed' = closed \cap {waitsOn}
    /\ UNCHANGED <<activeWindows, panicked, queue, service, connection, stopping>>

\* The job returns when the component stops, with its window still counted.
JobStops(j) ==
    /\ ~panicked /\ stopping /\ job[j] = "open"
    /\ job' = [job EXCEPT ![j] = "idle"]
    /\ UNCHANGED <<activeWindows, uploads, closed, panicked, queue, service,
                   connection, stopping>>

-----------------------------------------------------------------------------
(* addPendingOp                                                            *)

addPendingOp(f) ==
    /\ ~panicked /\ ~stopping /\ f \notin adding
    /\ pendingOps' = pendingOps \cup {f} /\ adding' = adding \cup {f}
    /\ UNCHANGED <<windows, pendingOpAdded, service, connection, stopping>>

\* Mutant: a channel without a buffer, which takes the signal only from a waiting thread.
SignalAddedUnbuffered(f) ==
    /\ ~panicked /\ f \in adding
    /\ adding' = adding \ {f} /\ pendingOpAdded' = (pendingOpAdded \/ svc = "wait")
    /\ UNCHANGED <<windows, pendingOps, service, connection, stopping>>

\* The send that does not block: lost when the buffer is full.
SignalAdded(f) ==
    /\ ~panicked /\ f \in adding
    /\ adding' = adding \ {f} /\ pendingOpAdded' = TRUE
    /\ UNCHANGED <<windows, pendingOps, service, connection, stopping>>

-----------------------------------------------------------------------------
(* servicePendingOps                                                       *)

\* The select at the top of the loop takes componentStopping.
SvcStop ==
    /\ ~panicked /\ stopping /\ svc = "select"
    /\ svc' = "stopped"
    /\ UNCHANGED <<windows, queue, waitsOn, todo, numFilesProcessed, connection, stopping>>

\* The loop comes round: its select evaluates the channel, once.
Loop == svc' = "select" /\ waitsOn' = uploads

\* The channel that was evaluated is closed.
SvcReady ==
    /\ ~panicked /\ svc = "select" /\ waitsOn \in closed
    /\ svc' = IF connected THEN "ready" ELSE "sleep"
    /\ UNCHANGED <<windows, queue, waitsOn, todo, numFilesProcessed, connection, stopping>>

\* Offline: a second passes, or the component stops.
SvcSleep ==
    /\ ~panicked /\ svc = "sleep" /\ Loop
    /\ UNCHANGED <<windows, queue, todo, numFilesProcessed, connection, stopping>>

SvcRange ==
    /\ ~panicked /\ svc = "ready"
    /\ svc' = "range" /\ todo' = pendingOps /\ numFilesProcessed' = FALSE
    /\ UNCHANGED <<windows, queue, waitsOn, connection, stopping>>

\* One key: the component stops, the window has ended, or updateObject succeeds,
\* finds the cloud unreachable, or fails otherwise.  Range skips a key that is gone.
SvcVisit(f) ==
    /\ ~panicked /\ svc = "range" /\ f \in todo /\ f \in pendingOps
    /\ numFilesProcessed' = TRUE
    /\ \/ (stopping \/ uploads \notin closed) /\ todo' = {} /\ UNCHANGED pendingOps
       \/ /\ uploads \in closed /\ connected
          /\ pendingOps' = pendingOps \ {f} /\ todo' = todo \ {f}
       \/ uploads \in closed /\ ~connected /\ todo' = {} /\ UNCHANGED pendingOps
       \/ uploads \in closed /\ todo' = todo \ {f} /\ UNCHANGED pendingOps
    /\ UNCHANGED <<windows, adding, pendingOpAdded, svc, waitsOn, connection, stopping>>

\* The pass is over: with nothing to do it waits for an operation to be added.
SvcPassed ==
    /\ ~panicked /\ svc = "range" /\ todo \cap pendingOps = {}
    /\ todo' = {}
    /\ IF numFilesProcessed THEN Loop ELSE svc' = "wait" /\ UNCHANGED waitsOn
    /\ UNCHANGED <<windows, queue, numFilesProcessed, connection, stopping>>

\* Mutant: the thread with nothing to do waits for operations only.
SvcWakeDeaf ==
    /\ ~panicked /\ svc = "wait" /\ Loop
    /\ pendingOpAdded /\ pendingOpAdded' = FALSE
    /\ UNCHANGED <<windows, pendingOps, adding, todo, numFilesProcessed, connection,
                   stopping>>

\* An operation was added, or the component stops.
SvcWake ==
    /\ ~panicked /\ svc = "wait" /\ Loop
    /\ \/ pendingOpAdded /\ pendingOpAdded' = FALSE
       \/ stopping /\ UNCHANGED pendingOpAdded
    /\ UNCHANGED <<windows, pendingOps, adding, todo, numFilesProcessed, connection,
                   stopping>>

-----------------------------------------------------------------------------
(* The connection, and Stop                                                *)

Disconnect ==
    /\ ~panicked /\ connected /\ drops < MaxDrops
    /\ connected' = FALSE /\ drops' = drops + 1
    /\ UNCHANGED <<windows, queue, service, stopping>>

Reconnect ==
    /\ ~panicked /\ ~connected /\ connected' = TRUE
    /\ UNCHANGED <<windows, queue, service, drops, stopping>>

Stop ==
    /\ ~panicked /\ ~stopping /\ stopping' = TRUE
    /\ UNCHANGED <<windows, queue, service, connection>>

Next ==
    \/ \E j \in Jobs :
          \/ WindowStart(j) \/ WindowOpen(j) \/ WindowEnd(j) \/ WindowClosed(j)
          \/ JobStops(j)
    \/ \E f \in Ops : addPendingOp(f) \/ SignalAdded(f) \/ SvcVisit(f)
    \/ SvcStop \/ SvcReady \/ SvcSleep \/ SvcRange \/ SvcPassed \/ SvcWake
    \/ Disconnect \/ Reconnect \/ Stop

Spec == Init /\ [][Next]_vars

\* A visit in which updateObject succeeds.
SvcUpdate(f) == SvcVisit(f) /\ f \notin pendingOps'

\* Goroutines run, windows keep coming and are long enough for the thread to
\* begin a pass inside one now and then, the connection comes back, and an
\* operation that is tried again and again succeeds at last.  A select whose
\* channels are all ready takes each of them now and then: SF for the stop.
Fairness ==
    /\ \A j \in Jobs :
         /\ WF_vars(WindowOpen(j)) /\ WF_vars(WindowClosed(j)) /\ WF_vars(JobStops(j))
         /\ SF_vars(WindowStart(j))
    /\ \A f \in Ops : WF_vars(SignalAdded(f)) /\ SF_vars(SvcUpdate(f))
    /\ WF_vars(SvcReady) /\ WF_vars(SvcSleep) /\ WF_vars(SvcRange)
    /\ SF_vars(SvcReady /\ uploads \in closed) /\ SF_vars(SvcRange /\ uploads \in closed)
    /\ WF_vars(SvcPassed) /\ WF_vars(SvcWake) /\ WF_vars(\E f \in Ops : SvcVisit(f))
    /\ SF_vars(SvcStop) /\ WF_vars(Reconnect)

FairSpec == Spec /\ Fairness

-----------------------------------------------------------------------------
(* Properties                                                              *)

\* Uploads are enabled exactly while a window is active: when no job is between
\* its two steps, the channel is closed if and only if activeWindows is positive,
\* however windows overlap (configureScheduler).
WindowsAgree ==
    /\ TypeOK
    /\ (~panicked /\ ~stopping /\ \A j \in Jobs : job[j] \in {"idle", "open"}) =>
         (uploads \in closed <=> \E j \in Jobs : job[j] = "open")

\* The job that counts the first window closes the channel; it finds it closed
\* already, which ends the process, only when it has overtaken the job that ended
\* the last window and has still to replace the channel.  However many windows
\* overlap, nothing else closes a closed channel.
PanicsOvertaking == panicked => \E j \in Jobs : job[j] = "closing"

\* The same without that exception: a job closes the channel on a transition from
\* inactive, and resources are closed when the last window has ended.
NeverPanics == ~panicked

\* No wake-up is lost: every operation stored in pendingOps is eventually done,
\* unless the component stops or the process ends.
OpsDrain == \A f \in Ops : (f \in pendingOps) ~> (f \notin pendingOps \/ stopping \/ panicked)

\* Stop ends the thread and all window jobs, which it waits for, unless the
\* process has ended.
StopEnds == stopping ~> (panicked \/ (svc = "stopped" /\ \A j \in Jobs : job[j] = "idle"))
=============================================================================
