----------------------- MODULE UploadSchedulerProofs -----------------------
(* Theorems about UploadScheduler, for every number of upload windows,     *)
(* operations and channel objects.                                         *)
EXTENDS UploadScheduler, FiniteSetTheorems, TLAPS

\* The cron jobs whose window is counted in activeWindows.
Counted == {j \in Jobs : job[j] \in {"opening", "open"}}

\* activeWindows counts the windows that are open or opening, and those whose jobs
\* left when the component stopped.
WindowsCounted ==
    /\ Cardinality(Counted) <= activeWindows
    /\ ~stopping => activeWindows = Cardinality(Counted)

\* At most one job has counted the first window and one has ended the last, and
\* the channel is in the state that each expects.  A job that opens beside one
\* that closes has overtaken it.
OneSwitches ==
    /\ \A j, k \in Jobs : job[j] = "opening" /\ job[k] = "opening" => j = k
    /\ \A j, k \in Jobs : job[j] = "closing" /\ job[k] = "closing" => j = k
    /\ \A j \in Jobs : job[j] = "closing" =>
          uploads \in closed /\ (Counted # {} => \E k \in Jobs : job[k] = "opening")
    /\ \A j \in Jobs : job[j] = "opening" =>
          uploads \notin closed \/ \E k \in Jobs : job[k] = "closing"
    /\ (\A j \in Jobs : job[j] # "opening") /\ (\E j \in Jobs : job[j] = "open")
          => uploads \in closed
    /\ ~stopping /\ (\A j \in Jobs : job[j] = "idle") => uploads \notin closed

SchedulerInv == TypeOK /\ PanicsOvertaking /\ (panicked \/ (WindowsCounted /\ OneSwitches))

\* The counted windows are finitely many.
LEMMA CountedFinite ==
    /\ IsFiniteSet(Counted) /\ Cardinality(Counted) \in Nat
    /\ Cardinality(Counted) <= Cardinality(Jobs) /\ Cardinality(Jobs) \in Nat
    /\ Cardinality(Counted) = 0 <=> Counted = {}
<1>1. Counted \in SUBSET Jobs
  BY DEF Counted
<1>2. IsFiniteSet(Counted) /\ Cardinality(Counted) <= Cardinality(Jobs)
  BY <1>1, FS_Subset, SchedulerAssumption
<1> QED
  BY <1>2, FS_CardinalityType, FS_EmptySet, SchedulerAssumption

\* make(chan) returns an object that is neither in use nor waited for.
LEMMA FreshChannel ==
    /\ Fresh({}) \in Channels
    /\ \A c, d \in Channels : Fresh({c, d}) \in Channels \ {c, d}
  BY SchedulerAssumption DEF Fresh

\* The initial states satisfy the invariant.
LEMMA InitSchedulerInv == Init => SchedulerInv
<1> SUFFICES ASSUME Init PROVE SchedulerInv
  OBVIOUS
<1>1. TypeOK
  <2>1. /\ panicked \in BOOLEAN /\ pendingOpAdded \in BOOLEAN /\ numFilesProcessed \in BOOLEAN
        /\ connected \in BOOLEAN /\ stopping \in BOOLEAN
    BY Zenon DEF Init
  <2>2. activeWindows \in 0 .. Cardinality(Jobs) /\ drops \in 0 .. MaxDrops
    BY CountedFinite, SchedulerAssumption DEF Init
  <2>3. uploads \in Channels /\ waitsOn \in Channels
    BY FreshChannel DEF Init
  <2> QED
    BY <2>1, <2>2, <2>3 DEF Init, TypeOK
<1>2. Counted = {}
  BY DEF Init, Counted
<1> QED
  BY <1>1, <1>2, CountedFinite DEF Init, SchedulerInv, WindowsCounted, OneSwitches, PanicsOvertaking

-----------------------------------------------------------------------------
(* The cron jobs                                                           *)

\* What a job relies on.
LEMMA JobRuns ==
    ASSUME SchedulerInv, ~panicked
    PROVE  TypeOK /\ WindowsCounted /\ OneSwitches
  BY DEF SchedulerInv

\* A window that starts is counted, and is to close the channel if it is the first.
LEMMA WindowStartInv ==
    ASSUME SchedulerInv, NEW j \in Jobs, WindowStart(j)
    PROVE  SchedulerInv'
<1>0. TypeOK /\ WindowsCounted /\ OneSwitches
  BY JobRuns DEF WindowStart
<1>1. /\ job[j] = "idle" /\ ~stopping /\ stopping' = stopping /\ activeWindows' = activeWindows + 1
      /\ job' = [job EXCEPT ![j] = IF activeWindows = 0 THEN "opening" ELSE "open"]
      /\ ~panicked' /\ UNCHANGED <<uploads, closed, panicked, queue, service, connection>>
  BY DEF WindowStart
<1>2. Counted' = Counted \cup {j} /\ j \notin Counted
  BY <1>0, <1>1 DEF Counted, TypeOK
<1>3. Cardinality(Counted') = Cardinality(Counted) + 1
  BY <1>2, CountedFinite, FS_AddElement
<1>4. Counted' \in SUBSET Jobs
  BY DEF Counted
<1>5. Cardinality(Counted') <= Cardinality(Jobs)
  BY <1>4, FS_Subset, SchedulerAssumption
<1>6. activeWindows = Cardinality(Counted)
  BY <1>0, <1>1 DEF WindowsCounted
<1>7. TypeOK' /\ WindowsCounted'
  BY <1>0, <1>1, <1>3, <1>5, <1>6, CountedFinite
     DEF TypeOK, WindowsCounted, queue, service, connection
<1>8. OneSwitches'
  <2>1. CASE activeWindows = 0
    <3>1. Counted = {}
      BY <1>6, <2>1, CountedFinite
    <3>2. \A k \in Jobs : job[k] \in {"idle", "closing"}
      BY <1>0, <3>1 DEF Counted, TypeOK
    <3>3. \A k \in Jobs : job'[k] = IF k = j THEN "opening" ELSE job[k]
      BY <1>0, <1>1, <2>1 DEF TypeOK
    <3> QED
      BY <1>0, <1>1, <3>2, <3>3 DEF OneSwitches
  <2>2. CASE activeWindows # 0
    <3>1. Counted # {}
      BY <1>6, <2>2, CountedFinite
    <3>2. \E k \in Jobs : job[k] \in {"opening", "open"}
      BY <3>1 DEF Counted
    <3>3. \A k \in Jobs : job'[k] = IF k = j THEN "open" ELSE job[k]
      BY <1>0, <1>1, <2>2 DEF TypeOK
    <3> QED
      BY <1>0, <1>1, <3>1, <3>2, <3>3 DEF OneSwitches
  <2> QED
    BY <2>1, <2>2
<1> QED
  BY <1>1, <1>7, <1>8 DEF SchedulerInv, PanicsOvertaking

\* The job that counted the first window closes a channel that is open, or
\* panics beside the job that has still to replace it.
LEMMA WindowOpenInv ==
    ASSUME SchedulerInv, NEW j \in Jobs, WindowOpen(j)
    PROVE  SchedulerInv'
<1>0. TypeOK /\ WindowsCounted /\ OneSwitches
  BY JobRuns DEF WindowOpen
<1>1. \A k \in Jobs : job'[k] = IF k = j THEN "open" ELSE job[k]
  BY <1>0 DEF WindowOpen, TypeOK
<1>2. Counted' = Counted
  BY <1>1 DEF Counted, WindowOpen
<1>3. panicked' \in BOOLEAN /\ (panicked' <=> uploads \in closed)
  <2>1. panicked' = (uploads \in closed)
    BY Zenon DEF WindowOpen
  <2>2. (uploads \in closed) \in BOOLEAN
    OBVIOUS
  <2> QED
    BY <2>1, <2>2
<1>4. TypeOK' /\ WindowsCounted'
  BY <1>0, <1>2, <1>3 DEF WindowOpen, TypeOK, WindowsCounted, queue, service, connection
<1>5. CASE panicked'
  <2>1. PICK k \in Jobs : job[k] = "closing"
    BY <1>0, <1>3, <1>5 DEF WindowOpen, OneSwitches
  <2>2. job'[k] = "closing"
    BY <1>1, <2>1 DEF WindowOpen
  <2> QED
    BY <1>4, <1>5, <2>2 DEF SchedulerInv, PanicsOvertaking
<1>6. CASE ~panicked'
  <2>1. \A k \in Jobs : job[k] # "closing"
    BY <1>0, <1>3, <1>6 DEF OneSwitches
  <2>2. OneSwitches'
    BY <1>0, <1>1, <1>2, <2>1 DEF WindowOpen, OneSwitches
  <2> QED
    BY <1>4, <1>6, <2>2 DEF SchedulerInv, PanicsOvertaking
<1> QED
  BY <1>5, <1>6

\* A window that ends is counted down, and the last one replaces the channel.
LEMMA WindowEndInv ==
    ASSUME SchedulerInv, NEW j \in Jobs, WindowEnd(j)
    PROVE  SchedulerInv'
<1>0. TypeOK /\ WindowsCounted /\ OneSwitches
  BY JobRuns DEF WindowEnd
<1>1. /\ job[j] = "open" /\ activeWindows' = activeWindows - 1
      /\ job' = [job EXCEPT ![j] = IF activeWindows = 1 THEN "closing" ELSE "idle"]
      /\ ~panicked' /\ UNCHANGED <<uploads, closed, panicked, queue, service, connection, stopping>>
  BY DEF WindowEnd
<1>2. Counted' = Counted \ {j} /\ j \in Counted
  BY <1>0, <1>1 DEF Counted, TypeOK
<1>3. Cardinality(Counted') = Cardinality(Counted) - 1 /\ Cardinality(Counted) >= 1
  BY <1>2, CountedFinite, FS_RemoveElement
<1>4. TypeOK' /\ WindowsCounted'
  BY <1>0, <1>1, <1>3, CountedFinite DEF TypeOK, WindowsCounted, queue, service, connection
<1>5. OneSwitches'
  <2>1. CASE activeWindows = 1
    <3>1. Cardinality(Counted') = 0
      BY <1>0, <1>3, <2>1, CountedFinite DEF WindowsCounted
    <3>2. Counted' = {}
      BY <1>2, <3>1, CountedFinite, FS_RemoveElement, FS_EmptySet
    <3>3. \A k \in Jobs : job'[k] = IF k = j THEN "closing" ELSE job[k]
      BY <1>0, <1>1, <2>1 DEF TypeOK
    <3>4. \A k \in Jobs : k # j => job[k] \notin {"opening", "open"}
      BY <1>1, <3>2, <3>3 DEF Counted
    <3>5. \A k \in Jobs : job[k] # "closing"
      BY <1>0, <1>1, <1>2, <3>4 DEF OneSwitches
    <3>6. uploads \in closed
      BY <1>0, <1>1, <3>4 DEF OneSwitches
    <3> QED
      BY <1>1, <3>2, <3>3, <3>4, <3>5, <3>6 DEF OneSwitches
  <2>2. CASE activeWindows # 1
    <3>1. \A k \in Jobs : job'[k] = IF k = j THEN "idle" ELSE job[k]
      BY <1>0, <1>1, <2>2 DEF TypeOK
    <3>2. ~stopping => \E k \in Jobs : k # j /\ job[k] \in {"opening", "open"}
      <4> SUFFICES ASSUME ~stopping PROVE \E k \in Jobs : k # j /\ job[k] \in {"opening", "open"}
        OBVIOUS
      <4>1. Cardinality(Counted') # 0
        BY <1>0, <1>3, <2>2, CountedFinite DEF WindowsCounted
      <4>2. Counted' # {}
        BY <4>1, FS_EmptySet
      <4> QED
        BY <1>2, <4>2 DEF Counted
    <3> QED
      BY <1>0, <1>1, <1>2, <3>1, <3>2 DEF OneSwitches
  <2> QED
    BY <2>1, <2>2
<1> QED
  BY <1>1, <1>4, <1>5 DEF SchedulerInv, PanicsOvertaking

\* The job that ended the last window replaces the closed channel by an open one.
LEMMA WindowClosedInv ==
    ASSUME SchedulerInv, NEW j \in Jobs, WindowClosed(j)
    PROVE  SchedulerInv'
<1>0. TypeOK /\ WindowsCounted /\ OneSwitches /\ ~panicked'
  BY JobRuns DEF WindowClosed
<1>1. job[j] = "closing" /\ \A k \in Jobs : job'[k] = IF k = j THEN "idle" ELSE job[k]
  BY <1>0 DEF WindowClosed, TypeOK
<1>2. Counted' = Counted /\ \A k \in Jobs : job'[k] # "closing"
  BY <1>0, <1>1 DEF Counted, OneSwitches
<1>3. uploads' \in Channels /\ uploads' \notin closed' /\ closed' \subseteq closed
  BY <1>0, FreshChannel DEF WindowClosed, TypeOK
<1>4. TypeOK' /\ WindowsCounted'
  BY <1>0, <1>2, <1>3 DEF WindowClosed, TypeOK, WindowsCounted, queue, service, connection
<1>5. \A k \in Jobs : job[k] = "open" => \E i \in Jobs : job[i] = "opening"
  BY <1>0, <1>1 DEF OneSwitches, Counted
<1>6. OneSwitches'
  BY <1>0, <1>1, <1>2, <1>3, <1>5 DEF OneSwitches
<1> QED
  BY <1>0, <1>4, <1>6 DEF SchedulerInv, PanicsOvertaking

\* A job that leaves because the component stops keeps its window counted.
LEMMA JobStopsInv ==
    ASSUME SchedulerInv, NEW j \in Jobs, JobStops(j)
    PROVE  SchedulerInv'
<1>0. TypeOK /\ WindowsCounted /\ OneSwitches /\ ~panicked'
  BY JobRuns DEF JobStops
<1>1. job[j] = "open" /\ \A k \in Jobs : job'[k] = IF k = j THEN "idle" ELSE job[k]
  BY <1>0 DEF JobStops, TypeOK
<1>2. Counted' = Counted \ {j} /\ j \in Counted
  BY <1>1 DEF Counted, JobStops
<1>3. Cardinality(Counted') = Cardinality(Counted) - 1
  BY <1>2, CountedFinite, FS_RemoveElement
<1>4. TypeOK' /\ WindowsCounted'
  BY <1>0, <1>3, CountedFinite DEF JobStops, TypeOK, WindowsCounted, queue, service, connection
<1>5. OneSwitches'
  BY <1>0, <1>1, <1>2 DEF JobStops, OneSwitches, Counted
<1> QED
  BY <1>0, <1>4, <1>5 DEF SchedulerInv, PanicsOvertaking

-----------------------------------------------------------------------------
(* The thread, the queue and the connection                                *)

\* Steps that leave the windows alone keep the invariant if they keep the types.
LEMMA WindowsFrame ==
    ASSUME SchedulerInv, TypeOK', UNCHANGED windows, stopping => stopping'
    PROVE  SchedulerInv'
<1>1. Counted' = Counted
  BY DEF Counted, windows
<1> QED
  BY <1>1 DEF SchedulerInv, WindowsCounted, OneSwitches, PanicsOvertaking, windows

\* The steps of addPendingOp, servicePendingOps and the connection, and Stop.
LEMMA OtherStepInv ==
    ASSUME SchedulerInv,
           \/ \E f \in Ops : addPendingOp(f) \/ SignalAdded(f) \/ SvcVisit(f)
           \/ SvcStop \/ SvcReady \/ SvcSleep \/ SvcRange \/ SvcPassed \/ SvcWake
           \/ Disconnect \/ Reconnect \/ Stop \/ UNCHANGED vars
    PROVE  SchedulerInv'
<1> USE DEF SchedulerInv, TypeOK, windows, queue, service, connection
<1>1. ASSUME NEW f \in Ops, addPendingOp(f) \/ SignalAdded(f) PROVE SchedulerInv'
  BY <1>1, WindowsFrame DEF addPendingOp, SignalAdded
<1>2. ASSUME NEW f \in Ops, SvcVisit(f) PROVE SchedulerInv'
  BY <1>2, WindowsFrame DEF SvcVisit
<1>3. CASE SvcStop \/ SvcReady \/ SvcSleep \/ SvcRange
  BY <1>3, WindowsFrame DEF SvcStop, SvcReady, SvcSleep, SvcRange, Loop
<1>4. CASE SvcPassed \/ SvcWake
  BY <1>4, WindowsFrame DEF SvcPassed, SvcWake, Loop
<1>5. CASE Disconnect \/ Reconnect \/ Stop
  <2>1. connected' \in BOOLEAN /\ stopping' \in BOOLEAN
    BY <1>5, Zenon DEF Disconnect, Reconnect, Stop
  <2>2. drops' \in 0 .. MaxDrops
    <3>1. drops' = drops \/ (drops < MaxDrops /\ drops' = drops + 1)
      BY <1>5, Zenon DEF Disconnect, Reconnect, Stop
    <3>2. drops \in 0 .. MaxDrops
      OBVIOUS
    <3>3. MaxDrops \in Nat
      BY SchedulerAssumption, Zenon
    <3> HIDE DEF SchedulerInv, TypeOK
    <3> QED
      BY <3>1, <3>2, <3>3
  <2>3. UNCHANGED <<windows, queue, service>> /\ (stopping => stopping')
    BY <1>5 DEF Disconnect, Reconnect, Stop
  <2>4. TypeOK'
    BY <2>1, <2>2, <2>3
  <2> QED
    BY <2>3, <2>4, WindowsFrame
<1>6. CASE UNCHANGED vars
  BY <1>6, WindowsFrame DEF vars
<1> QED
  BY <1>1, <1>2, <1>3, <1>4, <1>5, <1>6

\* Every step keeps the invariant.
LEMMA NextSchedulerInv ==
    ASSUME SchedulerInv, [Next]_vars
    PROVE  SchedulerInv'
  BY WindowStartInv, WindowOpenInv, WindowEndInv, WindowClosedInv, JobStopsInv, OtherStepInv
     DEF Next

-----------------------------------------------------------------------------

\* For any number of windows, operations and channel objects, whenever windows
\* start and end: a job closes a closed channel (configureScheduler) only when it
\* has overtaken the job that ended the last window and has still to replace it.
THEOREM SchedulerSafe == Spec => []PanicsOvertaking
<1>1. SchedulerInv /\ [Next]_vars => SchedulerInv'
  BY NextSchedulerInv
<1>2. SchedulerInv => PanicsOvertaking
  BY DEF SchedulerInv
<1> QED
  BY <1>1, <1>2, InitSchedulerInv, PTL DEF Spec

\* As long as that has not ended the process, uploads are enabled exactly while a
\* window is open, however many windows overlap and however they nest:
\* activeWindows and the channel startScheduledUploads never disagree for longer
\* than a job's two steps.
THEOREM UploadsFollowWindows == Spec => []WindowsAgree
<1>1. SchedulerInv /\ [Next]_vars => SchedulerInv'
  BY NextSchedulerInv
<1>2. SchedulerInv => WindowsAgree
  BY DEF SchedulerInv, WindowsAgree, OneSwitches, TypeOK
<1> QED
  BY <1>1, <1>2, InitSchedulerInv, PTL DEF Spec
=============================================================================
