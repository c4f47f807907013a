-------------------------- MODULE FileCacheProofs --------------------------
(* Theorems about FileCache, for every set of files, handles and mounts.   *)
EXTENDS FileCache, FiniteSetTheorems, TLAPS

\* What the types of the updates rest on: a handle in use has a path, and a call
\* under way was made for a live handle and knows the lock it looked up.
HandlesLinked ==
    \A h \in Handles :
       /\ hst[h] # "free" => hpath[h] \in Files
       /\ hop[h] # "none" => hst[h] = "live" /\ hlk[h] \in Files
       /\ upload[h] # NoUpload => hop[h] # "none"

TypeInv == TypeOK /\ HandlesLinked

\* The number of connection losses of a mount is a number.
LEMMA LossesType == \A m \in Mounts : m.losses \in Nat
  BY ConstantsAssumption, Zenon DEF Mount

\* The initial states have their types.
LEMMA InitTypeInv == Init => TypeInv
<1> SUFFICES ASSUME Init PROVE TypeInv
  OBVIOUS
<1> USE ConstantsAssumption
<1>1. DiskType /\ want \in [Files -> Content]
  BY DEF Init, DiskType, Content, NoFile
<1>2. LruType
  BY DEF Init, LruType
<1>3. lazyOpen \in [Files -> BOOLEAN]
  BY Zenon DEF Init
<1>4. upload \in [Uploaders -> [lock : Files \cup {None},
                                name : Files \cup {None}, data : Content]]
  BY DEF Init, Content, NoFile, NoUpload
<1>5. LocksType
  BY <1>3, <1>4 DEF Init, LocksType
<1>6. OpsType
  BY DEF Init, OpsType, Idle
<1>7. hlazy \in [Handles -> BOOLEAN] /\ hdirty \in [Handles -> BOOLEAN]
  BY Zenon DEF Init
<1>8. HandleType
  BY <1>7 DEF Init, HandleType
<1>9. EnvType
  <2>1. mount \in Mounts /\ drops \in 0 .. mount.losses
    BY LossesType DEF Init
  <2>2. connected \in BOOLEAN /\ window \in BOOLEAN
    BY Zenon DEF Init
  <2> QED
    BY <2>1, <2>2 DEF EnvType
<1>10. GhostType
  BY <1>1 DEF Init, GhostType
<1>11. HandlesLinked
  BY DEF Init, HandlesLinked, Uploaders
<1> QED
  BY <1>1, <1>2, <1>5, <1>6, <1>8, <1>9, <1>10, <1>11 DEF TypeInv, TypeOK

-----------------------------------------------------------------------------
(* Every step keeps the types                                              *)

\* Types survive the steps that leave their variables alone.
LEMMA UnchangedTypes ==
    /\ DiskType /\ UNCHANGED disk => DiskType'
    /\ LruType /\ UNCHANGED lru => LruType'
    /\ LocksType /\ UNCHANGED locks => LocksType'
    /\ OpsType /\ UNCHANGED ops => OpsType'
    /\ HandleType /\ UNCHANGED handle => HandleType'
    /\ EnvType /\ UNCHANGED env => EnvType'
    /\ GhostType /\ UNCHANGED ghost => GhostType'
    /\ HandlesLinked /\ UNCHANGED <<hst, hpath, hop, hlk, upload>> => HandlesLinked'
  BY DEF DiskType, LruType, LocksType, OpsType, HandleType, EnvType, GhostType,
         disk, lru, locks, ops, handle, env, ghost, HandlesLinked

\* CacheValid sends the names of files only.
LEMMA CacheValidType ==
    ASSUME LruType, NEW f \in Files, CacheValid(f)
    PROVE  LruType'
  BY DEF LruType, CacheValid

\* The arithmetic of the counters stays in range.
LEMMA CounterType ==
    /\ \A c \in 0 .. CountMod - 1 : Inc(c) \in 0 .. CountMod - 1
    /\ \A c \in 0 .. CountMod - 1 : Dec(c) \in 0 .. CountMod - 1
    /\ \A c \in 0 .. MaxDirty : IncDirty(c) \in 0 .. MaxDirty
    /\ \A c \in 0 .. MaxDirty : DecDirty(c) \in 0 .. MaxDirty
  BY ConstantsAssumption DEF Inc, Dec, IncDirty, DecDirty

\* CreateFile.
LEMMA CreateFileType ==
    ASSUME TypeInv, NEW h \in Handles, NEW f \in Files, CreateFile(h, f)
    PROVE  TypeInv'
<1> USE ConstantsAssumption DEF CreateFile, TypeInv, TypeOK
<1>1. DiskType'
  BY DEF DiskType, Content, NoFile, Empty
<1>2. LruType'
  BY CacheValidType
<1>3. LocksType'
  <2>1. count' \in [Files -> 0 .. CountMod - 1]
    BY CounterType DEF LocksType
  <2>2. dirtyCount' \in [Files -> 0 .. MaxDirty]
    BY CounterType DEF LocksType
  <2> QED
    BY <2>1, <2>2 DEF LocksType
<1>4. OpsType'
  BY DEF OpsType
<1>5. HandleType'
  BY DEF HandleType
<1>6. EnvType'
  BY UnchangedTypes
<1>7. GhostType'
  BY DEF GhostType, Content, NoFile, Empty
<1>8. HandlesLinked'
  BY DEF HandlesLinked, HandleType
<1> QED
  BY <1>1, <1>2, <1>3, <1>4, <1>5, <1>6, <1>7, <1>8

\* An open that completes keeps the types of what it assigns.
LEMMA OpenCompletedType ==
    ASSUME TypeOK, NEW h \in Handles, NEW f \in Files, NEW trunc \in BOOLEAN,
           NEW noAttr, NEW refresh,
           OpenCompleted(h, f, trunc, noAttr, refresh)
    PROVE  /\ LruType' /\ local' \in [Files -> Content]
           /\ hfd' \in [Handles -> Files \cup {None}]
           /\ hlazy' \in [Handles -> BOOLEAN] /\ hdirty' \in [Handles -> BOOLEAN]
           /\ dirtyCount' \in [Files -> 0 .. MaxDirty]
           /\ lazyOpen' \in [Files -> BOOLEAN]
<1> USE DEF TypeOK, OpenCompleted
<1>1. LruType'
  BY CacheValidType
<1>2. local' \in [Files -> Content]
  BY ConstantsAssumption DEF DiskType, Content, NoFile, Empty
<1>3. hfd' \in [Handles -> Files \cup {None}] /\ hlazy' \in [Handles -> BOOLEAN]
  BY DEF HandleType
<1>4. hdirty' \in [Handles -> BOOLEAN]
  BY DEF HandleType
<1>5. dirtyCount' \in [Files -> 0 .. MaxDirty]
  BY CounterType DEF LocksType
<1>6. lazyOpen' \in [Files -> BOOLEAN]
  BY DEF LocksType
<1> QED
  BY <1>1, <1>2, <1>3, <1>4, <1>5, <1>6

\* So does an open that fails.
LEMMA OpenFailedType ==
    ASSUME TypeOK, NEW f \in Files, NEW trunc, NEW noAttr, NEW refresh,
           OpenFailed(f, trunc, noAttr, refresh)
    PROVE  /\ LruType' /\ local' \in [Files -> Content]
           /\ hfd' \in [Handles -> Files \cup {None}]
<1> USE DEF TypeOK, OpenFailed
<1>1. LruType'
  BY CacheValidType
<1>2. local' \in [Files -> Content]
  BY ConstantsAssumption DEF DiskType, Content, NoFile
<1>3. hfd' \in [Handles -> Files \cup {None}]
  BY DEF HandleType, Unlinked
<1> QED
  BY <1>1, <1>2, <1>3

\* OpenFile.
LEMMA OpenFileType ==
    ASSUME TypeInv, NEW h \in Handles, NEW f \in Files, NEW trunc \in BOOLEAN,
           OpenFile(h, f, trunc)
    PROVE  TypeInv'
<1> USE ConstantsAssumption DEF TypeInv, TypeOK
<1>1. PICK noAttr, refresh :
         \/ /\ OpenCompleted(h, f, trunc, noAttr, refresh)
            /\ want' = IF trunc THEN [want EXCEPT ![f] = Empty] ELSE want
            /\ NewHandle(h, f)
            /\ UNCHANGED <<cloud, upload, ops, hop, hlk, env, ver>>
         \/ /\ OpenFailed(f, trunc, noAttr, refresh)
            /\ UNCHANGED <<cloud, locks, ops, hst, hpath, hlazy, hdirty, hop,
                           hlk, env, ghost>>
         \/ /\ lazyOpen' = [lazyOpen EXCEPT ![f] = TRUE]
            /\ hlazy' = [hlazy EXCEPT ![h] = TRUE]
            /\ NewHandle(h, f)
            /\ UNCHANGED <<disk, lru, dirtyCount, upload, ops, hfd, hdirty,
                           hop, hlk, env, want, ver>>
  BY Zenon DEF OpenFile
<1>2. ASSUME NewHandle(h, f), UNCHANGED <<upload, hop, hlk>>
      PROVE  /\ hst' \in [Handles -> {"free", "opened", "live", "stuck"}]
             /\ hpath' \in [Handles -> Files \cup {None}]
             /\ count' \in [Files -> 0 .. CountMod - 1]
             /\ target' \in [Handles -> Files \cup {None}]
             /\ hop[h] = "none" => HandlesLinked'
  <2>1. count' \in [Files -> 0 .. CountMod - 1]
    BY <1>2, CounterType DEF NewHandle, LocksType
  <2>2. /\ hst' \in [Handles -> {"free", "opened", "live", "stuck"}]
        /\ hpath' \in [Handles -> Files \cup {None}]
        /\ target' \in [Handles -> Files \cup {None}]
    BY <1>2 DEF NewHandle, HandleType, GhostType
  <2>3. hop[h] = "none" => HandlesLinked'
    BY <1>2 DEF NewHandle, HandlesLinked, HandleType
  <2> QED
    BY <2>1, <2>2, <2>3
<1>3. hop[h] = "none"
  BY DEF OpenFile, HandlesLinked, HandleType
<1>4. CASE /\ OpenCompleted(h, f, trunc, noAttr, refresh)
           /\ want' = IF trunc THEN [want EXCEPT ![f] = Empty] ELSE want
           /\ NewHandle(h, f)
           /\ UNCHANGED <<cloud, upload, ops, hop, hlk, env, ver>>
  <2>1. want' \in [Files -> Content]
    BY <1>4 DEF GhostType, Content, NoFile, Empty
  <2>2. OpsType' /\ EnvType'
    BY <1>4, UnchangedTypes
  <2>3. DiskType' /\ LruType' /\ LocksType' /\ HandleType' /\ GhostType'
    BY <1>2, <1>4, <2>1, OpenCompletedType
       DEF DiskType, LocksType, HandleType, GhostType
  <2> QED
    BY <1>2, <1>3, <1>4, <2>2, <2>3
<1>5. CASE /\ OpenFailed(f, trunc, noAttr, refresh)
           /\ UNCHANGED <<cloud, locks, ops, hst, hpath, hlazy, hdirty, hop,
                          hlk, env, ghost>>
  <2>1. LocksType' /\ OpsType' /\ EnvType' /\ GhostType' /\ HandlesLinked'
    BY <1>5, UnchangedTypes DEF locks
  <2>2. DiskType' /\ LruType' /\ HandleType'
    BY <1>5, OpenFailedType DEF DiskType, HandleType
  <2> QED
    BY <2>1, <2>2
<1>6. CASE /\ lazyOpen' = [lazyOpen EXCEPT ![f] = TRUE]
           /\ hlazy' = [hlazy EXCEPT ![h] = TRUE]
           /\ NewHandle(h, f)
           /\ UNCHANGED <<disk, lru, dirtyCount, upload, ops, hfd, hdirty,
                          hop, hlk, env, want, ver>>
  <2>1. DiskType' /\ LruType' /\ OpsType' /\ EnvType'
    BY <1>6, UnchangedTypes
  <2>2. LocksType' /\ HandleType' /\ GhostType'
    BY <1>2, <1>6 DEF LocksType, HandleType, GhostType
  <2> QED
    BY <1>2, <1>3, <1>6, <2>1, <2>2
<1> QED
  BY <1>1, <1>4, <1>5, <1>6

\* EnsureOpen.
LEMMA EnsureOpenType ==
    ASSUME TypeInv, NEW h \in Handles, EnsureOpen(h)
    PROVE  TypeInv'
<1> USE DEF TypeInv, TypeOK
<1>1. hpath[h] \in Files
  BY DEF EnsureOpen, HandlesLinked
<1>2. PICK noAttr, refresh :
         \/ /\ OpenCompleted(h, hpath[h], FALSE, noAttr, refresh)
            /\ target' = [target EXCEPT ![h] = hpath[h]]
            /\ UNCHANGED <<cloud, count, upload, ops, hst, hpath, hop, hlk,
                           env, want, ver>>
         \/ /\ OpenFailed(hpath[h], FALSE, noAttr, refresh)
            /\ UNCHANGED <<cloud, locks, ops, hst, hpath, hlazy, hdirty,
                           hop, hlk, env, ghost>>
  BY Zenon DEF EnsureOpen
<1>3. CASE /\ OpenCompleted(h, hpath[h], FALSE, noAttr, refresh)
           /\ target' = [target EXCEPT ![h] = hpath[h]]
           /\ UNCHANGED <<cloud, count, upload, ops, hst, hpath, hop, hlk,
                          env, want, ver>>
  <2>1. OpsType' /\ EnvType' /\ HandlesLinked'
    BY <1>3, UnchangedTypes
  <2>2. DiskType' /\ LruType' /\ LocksType' /\ HandleType' /\ GhostType'
    BY <1>1, <1>3, OpenCompletedType DEF DiskType, LocksType, HandleType, GhostType
  <2> QED
    BY <2>1, <2>2
<1>4. CASE /\ OpenFailed(hpath[h], FALSE, noAttr, refresh)
           /\ UNCHANGED <<cloud, locks, ops, hst, hpath, hlazy, hdirty, hop,
                          hlk, env, ghost>>
  <2>1. LocksType' /\ OpsType' /\ EnvType' /\ GhostType' /\ HandlesLinked'
    BY <1>4, UnchangedTypes DEF locks
  <2>2. DiskType' /\ LruType' /\ HandleType'
    BY <1>1, <1>4, OpenFailedType DEF DiskType, HandleType
  <2> QED
    BY <2>1, <2>2
<1> QED
  BY <1>2, <1>3, <1>4

\* WriteFile.
LEMMA WriteFileType ==
    ASSUME TypeInv, NEW h \in Handles, WriteFile(h)
    PROVE  TypeInv'
<1> USE ConstantsAssumption DEF WriteFile, TypeInv, TypeOK
<1>1. hpath[h] \in Files
  BY DEF HandlesLinked
<1>2. ver' \in 0 .. MaxVer /\ ver' \in Content
  BY DEF GhostType, Content, NoFile
<1>3. DiskType' /\ GhostType'
  BY <1>2 DEF DiskType, GhostType
<1>4. LruType'
  BY <1>1, CacheValidType, UnchangedTypes
<1>5. dirtyCount' \in [Files -> 0 .. MaxDirty]
  BY CounterType DEF LocksType
<1>6. LocksType' /\ HandleType'
  BY <1>5 DEF LocksType, HandleType
<1>7. OpsType' /\ EnvType' /\ HandlesLinked'
  BY UnchangedTypes
<1> QED
  BY <1>3, <1>4, <1>6, <1>7

\* FlushFile and SyncFile.
LEMMA FlushFileType ==
    ASSUME TypeInv, NEW h \in Handles, NEW sync, FlushFile(h, sync)
    PROVE  TypeInv'
<1> USE DEF FlushFile, TypeInv, TypeOK
<1>1. hpath[h] \in Files
  BY DEF HandlesLinked
<1>2. LruType'
  BY <1>1, CacheValidType
<1>3. DiskType' /\ LocksType' /\ OpsType' /\ EnvType' /\ GhostType'
  BY UnchangedTypes
<1>4. HandleType' /\ HandlesLinked'
  BY <1>1 DEF HandleType, HandlesLinked, locks
<1> QED
  BY <1>2, <1>3, <1>4

\* ReleaseFile.
LEMMA ReleaseFileType ==
    ASSUME TypeInv, NEW h \in Handles, ReleaseFile(h)
    PROVE  TypeInv'
<1> USE DEF ReleaseFile, TypeInv, TypeOK
<1>1. DiskType' /\ LruType' /\ LocksType' /\ OpsType' /\ EnvType' /\ GhostType'
  BY UnchangedTypes
<1>2. HandleType' /\ HandlesLinked'
  BY DEF HandleType, HandlesLinked, locks
<1> QED
  BY <1>1, <1>2

\* A call that returns keeps the types of the handle and of the lock it closes,
\* and the links, when it gives up its upload.
LEMMA ReturnsType ==
    ASSUME TypeInv, NEW h \in Handles, hop[h] # "none",
           Returns(h) \/ ReturnsError(h),
           hdirty' \in [Handles -> BOOLEAN],
           dirtyCount' \in [Files -> 0 .. MaxDirty],
           upload' = [upload EXCEPT ![h] = NoUpload]
    PROVE  LocksType' /\ HandleType' /\ target' \in [Handles -> Files \cup {None}]
           /\ HandlesLinked'
<1> USE DEF TypeInv, TypeOK
<1>1. h \in Uploaders /\ NoUpload \in [lock : Files \cup {None},
                                 name : Files \cup {None}, data : Content]
  BY ConstantsAssumption DEF Uploaders, NoUpload, Content, NoFile
<1>2. count' \in [Files -> 0 .. CountMod - 1]
  BY CounterType DEF LocksType, Returns, ReturnsError, CloseHandle
<1>3. lazyOpen' \in [Files -> BOOLEAN]
  BY DEF LocksType, Returns, ReturnsError, CloseHandle
<1>4. LocksType'
  BY <1>1, <1>2, <1>3 DEF LocksType
<1>5. HandleType' /\ target' \in [Handles -> Files \cup {None}]
  <2> USE DEF HandleType, Returns, ReturnsError, CloseHandle
  <2>1. /\ hop' \in [Handles -> {"none", "flush", "close"}]
        /\ hlk' \in [Handles -> Files \cup {None}]
    OBVIOUS
  <2>2. hst' \in [Handles -> {"free", "opened", "live", "stuck"}]
    OBVIOUS
  <2>3. /\ hpath' \in [Handles -> Files \cup {None}]
        /\ hfd' \in [Handles -> Files \cup {None}]
    OBVIOUS
  <2>4. hlazy' \in [Handles -> BOOLEAN]
    OBVIOUS
  <2>5. target' \in [Handles -> Files \cup {None}]
    BY DEF GhostType
  <2> QED
    BY <2>1, <2>2, <2>3, <2>4, <2>5
<1>6. HandlesLinked'
  BY <1>1 DEF HandlesLinked, HandleType, LocksType, Returns, ReturnsError, CloseHandle
<1> QED
  BY <1>4, <1>5, <1>6

\* A call that has the lock still has a path, and using it keeps the LRU types.
LEMMA AcquiresType ==
    ASSUME TypeInv, NEW h \in Handles, hop[h] # "none"
    PROVE  /\ hpath[h] \in Files /\ hlk[h] \in Files
           /\ UsedOnClose(h) => LruType'
<1>1. hpath[h] \in Files /\ hlk[h] \in Files
  BY DEF TypeInv, HandlesLinked
<1> QED
  BY <1>1, CacheValidType, UnchangedTypes DEF TypeInv, TypeOK, UsedOnClose

\* clearHandleDirty.
LEMMA ClearHandleDirtyType ==
    ASSUME TypeInv, NEW h \in Handles, clearHandleDirty(h)
    PROVE  /\ hdirty' \in [Handles -> BOOLEAN]
           /\ dirtyCount' \in [Files -> 0 .. MaxDirty]
<1>1. dirtyCount' \in [Files -> 0 .. MaxDirty]
  BY CounterType DEF clearHandleDirty, TypeInv, TypeOK, LocksType
<1> QED
  BY <1>1 DEF clearHandleDirty, TypeInv, TypeOK, HandleType

\* The steps of a flush or a release under the flock.
LEMMA FlushStepType ==
    ASSUME TypeInv, NEW h \in Handles,
           \/ FlushClean(h) \/ FlushDeferred(h) \/ FlushNoFile(h) \/ FlushUpload(h)
           \/ FlushUploaded(h) \/ FlushOffline(h) \/ FlushFailed(h)
    PROVE  TypeInv'
<1> USE DEF TypeInv, TypeOK
<1>1. hop[h] # "none" /\ hpath[h] \in Files /\ hlk[h] \in Files
  BY DEF HandlesLinked, Acquires, FlushClean, FlushDeferred, FlushNoFile,
         FlushUpload, FlushUploaded, FlushOffline, FlushFailed
<1>2. h \in Uploaders
  BY DEF Uploaders
<1>3. CASE FlushClean(h) \/ FlushNoFile(h)
  <2> USE <1>3 DEF FlushClean, FlushNoFile
  <2>1. upload' = [upload EXCEPT ![h] = NoUpload]
    BY <1>2 DEF Acquires, LocksType
  <2>2. LocksType' /\ HandleType' /\ HandlesLinked'
        /\ target' \in [Handles -> Files \cup {None}]
    BY <1>1, <2>1, ReturnsType DEF LocksType, HandleType
  <2>3. DiskType' /\ LruType' /\ OpsType' /\ EnvType'
    BY <1>1, AcquiresType, UnchangedTypes
  <2> QED
    BY <2>2, <2>3 DEF GhostType
<1>4. CASE FlushDeferred(h)
  <2> USE <1>4 DEF FlushDeferred
  <2>1. upload' = [upload EXCEPT ![h] = NoUpload]
    BY <1>2 DEF Acquires, LocksType
  <2>2. LocksType' /\ HandleType' /\ HandlesLinked'
        /\ target' \in [Handles -> Files \cup {None}]
    BY <1>1, <2>1, ReturnsType, ClearHandleDirtyType
  <2>3. DiskType' /\ LruType' /\ EnvType'
    BY <1>1, AcquiresType, UnchangedTypes
  <2>4. OpsType' /\ GhostType'
    BY <2>2 DEF OpsType, GhostType
  <2> QED
    BY <2>2, <2>3, <2>4
<1>5. CASE FlushUpload(h)
  <2> USE <1>5 DEF FlushUpload
  <2>1. LocksType'
    BY <1>1, <1>2 DEF LocksType, DiskType
  <2>2. HandlesLinked'
    BY <1>1, <1>2 DEF HandlesLinked, LocksType, handle, Uploaders
  <2>3. DiskType' /\ LruType' /\ OpsType' /\ HandleType' /\ EnvType' /\ GhostType'
    BY <1>1, AcquiresType, UnchangedTypes
  <2> QED
    BY <2>1, <2>2, <2>3
<1>6. CASE FlushUploaded(h)
  <2> USE <1>6 DEF FlushUploaded
  <2>1. LocksType' /\ HandleType' /\ HandlesLinked'
        /\ target' \in [Handles -> Files \cup {None}]
    BY <1>1, ReturnsType, ClearHandleDirtyType
  <2>2. upload[h].data \in Content
    BY <1>2 DEF LocksType
  <2>3. DiskType' /\ OpsType' /\ GhostType'
    BY <2>1, <2>2 DEF DiskType, OpsType, GhostType
  <2>4. LruType' /\ EnvType'
    BY UnchangedTypes
  <2> QED
    BY <2>1, <2>3, <2>4
<1>7. CASE FlushOffline(h) \/ FlushFailed(h)
  <2> USE <1>7 DEF FlushOffline, FlushFailed
  <2>1. /\ hdirty' \in [Handles -> BOOLEAN]
        /\ dirtyCount' \in [Files -> 0 .. MaxDirty]
    BY DEF HandleType, LocksType
  <2>2. LocksType' /\ HandleType' /\ HandlesLinked'
        /\ target' \in [Handles -> Files \cup {None}]
    BY <1>1, <2>1, ReturnsType
  <2>3. OpsType' /\ GhostType'
    BY <2>2 DEF OpsType, GhostType, ops
  <2>4. DiskType' /\ LruType' /\ EnvType'
    BY UnchangedTypes
  <2> QED
    BY <2>2, <2>3, <2>4
<1> QED
  BY <1>3, <1>4, <1>5, <1>6, <1>7

\* DeleteFile, its locked part and its failure.
LEMMA DeleteType ==
    ASSUME TypeInv, NEW f \in Files,
           DeleteFile(f) \/ DeleteFileLocked(f) \/ DeleteFileFailed(f)
    PROVE  TypeInv'
<1> USE DEF TypeInv, TypeOK
<1>1. CASE DeleteFile(f) \/ DeleteFileFailed(f)
  <2>1. OpsType'
    BY <1>1 DEF OpsType, DeleteFile, DeleteFileFailed
  <2>2. DiskType' /\ LruType' /\ LocksType' /\ HandleType' /\ EnvType' /\ GhostType'
    BY <1>1, UnchangedTypes DEF DeleteFile, DeleteFileFailed
  <2>3. HandlesLinked'
    BY <1>1, UnchangedTypes DEF DeleteFile, DeleteFileFailed, handle, locks
  <2> QED
    BY <2>1, <2>2, <2>3
<1>2. CASE DeleteFileLocked(f)
  <2> USE <1>2 DEF DeleteFileLocked
  <2>1. DiskType'
    BY ConstantsAssumption DEF DiskType, Content, NoFile
  <2>2. LruType'
    BY DEF LruType, Stale
  <2>3. LocksType'
    BY DEF LocksType
  <2>4. OpsType'
    BY DEF OpsType
  <2>5. HandleType'
    BY DEF HandleType, Unlinked
  <2>6. EnvType' /\ HandlesLinked'
    BY UnchangedTypes
  <2>7. GhostType'
    BY ConstantsAssumption DEF GhostType, Content, NoFile
  <2> QED
    BY <2>1, <2>2, <2>3, <2>4, <2>5, <2>6, <2>7
<1> QED
  BY <1>1, <1>2

\* The sum of two counts, taken modulo the width of handleCount.
LEMMA ModType == \A a, b \in Nat : (a + b) % CountMod \in 0 .. CountMod - 1
  BY ConstantsAssumption

\* A count within its width is its own remainder.
LEMMA ModSmall == \A a \in Nat : a < CountMod => a % CountMod = a
  BY ConstantsAssumption

\* RenameFile.
LEMMA RenameFileType ==
    ASSUME TypeInv, NEW s \in Files, NEW d \in Files, RenameFile(s, d)
    PROVE  TypeInv'
<1> USE DEF TypeInv, TypeOK, RenameFile
<1>1. DiskType'
  BY ConstantsAssumption DEF DiskType, Content, NoFile
<1>2. LruType'
  <2>1. policy' \in [Files -> {"absent", "cached", "marked"}]
    BY DEF LruType
  <2>2. validateChan' \subseteq Files /\ deleting' \in Files \cup {None}
    BY DEF LruType
  <2>3. delItems' \in [Files -> {"no", "item", "stale"}]
    BY DEF LruType, Stale
  <2> QED
    BY <2>1, <2>2, <2>3 DEF LruType
<1>3. LocksType'
  <2>1. count' \in [Files -> 0 .. CountMod - 1]
    BY ModType, ConstantsAssumption DEF LocksType
  <2>2. lazyOpen' \in [Files -> BOOLEAN]
    BY DEF LocksType
  <2> QED
    BY <2>1, <2>2 DEF LocksType
<1>4. OpsType'
  BY DEF OpsType, RenamedPending
<1>5. hpath' \in [Handles -> Files \cup {None}]
  BY DEF HandleType, RenamedHandle
<1>6. hfd' \in [Handles -> Files \cup {None}]
  BY DEF HandleType
<1>7. HandleType'
  BY <1>5, <1>6 DEF HandleType
<1>8. EnvType'
  BY UnchangedTypes
<1>9. GhostType'
  BY ConstantsAssumption DEF GhostType, Content, NoFile
<1>10. HandlesLinked'
  BY DEF HandlesLinked, RenamedHandle
<1> QED
  BY <1>1, <1>2, <1>3, <1>4, <1>7, <1>8, <1>9, <1>10

\* TruncateFile by path.
LEMMA TruncateFileType ==
    ASSUME TypeInv, NEW f \in Files, NEW size \in {"zero", "nonzero"},
           TruncateFile(f, size)
    PROVE  TypeInv'
<1> USE DEF TypeInv, TypeOK, TruncateFile
<1>1. \A c \in Content : Resized(f, size, c) \in Content
  BY ConstantsAssumption DEF Resized, Content, NoFile, Empty, GhostType
<1>2. Empty \in Content
  BY ConstantsAssumption DEF Content, NoFile, Empty
<1>3. DiskType'
  BY <1>1, <1>2 DEF DiskType
<1>4. LruType'
  BY CacheValidType, UnchangedTypes
<1>5. OpsType'
  BY DEF OpsType
<1>6. GhostType'
  BY <1>1, ConstantsAssumption DEF GhostType
<1>7. LocksType' /\ HandleType' /\ EnvType' /\ HandlesLinked'
  BY UnchangedTypes DEF locks, handle
<1> QED
  BY <1>3, <1>4, <1>5, <1>6, <1>7

\* The background service.
LEMMA SvcType ==
    ASSUME TypeInv, NEW f \in Files,
           \/ SvcPick(f) \/ SvcSkip(f) \/ SvcDelete(f) \/ SvcUpload(f)
           \/ SvcUploaded(f) \/ SvcFailed(f)
    PROVE  TypeInv'
<1> USE DEF TypeInv, TypeOK
<1>1. Service \in Uploaders /\ \A h \in Handles : h # Service
  BY ConstantsAssumption DEF Uploaders
<1>2. NoUpload \in [lock : Files \cup {None}, name : Files \cup {None}, data : Content]
  BY ConstantsAssumption DEF NoUpload, Content, NoFile
<1>3. CASE SvcPick(f) \/ SvcSkip(f)
  <2>1. OpsType'
    BY <1>3 DEF OpsType, SvcPick, SvcSkip, Idle
  <2>2. DiskType' /\ LruType' /\ LocksType' /\ HandleType' /\ EnvType' /\ GhostType'
    BY <1>3, UnchangedTypes DEF SvcPick, SvcSkip
  <2>3. HandlesLinked'
    BY <1>3, UnchangedTypes DEF SvcPick, SvcSkip, handle, locks
  <2> QED
    BY <2>1, <2>2, <2>3
<1>4. CASE SvcDelete(f)
  <2> USE <1>4 DEF SvcDelete
  <2>1. OpsType'
    BY DEF OpsType, Idle
  <2>2. DiskType'
    BY ConstantsAssumption DEF DiskType, Content, NoFile
  <2>3. LruType' /\ LocksType' /\ HandleType' /\ EnvType' /\ GhostType' /\ HandlesLinked'
    BY UnchangedTypes DEF handle, locks
  <2> QED
    BY <2>1, <2>2, <2>3
<1>5. CASE SvcUpload(f)
  <2> USE <1>5 DEF SvcUpload
  <2>1. LocksType'
    BY <1>1 DEF LocksType, DiskType
  <2>2. HandlesLinked'
    BY <1>1 DEF HandlesLinked, LocksType, handle, Uploaders
  <2>3. DiskType' /\ LruType' /\ OpsType' /\ HandleType' /\ EnvType' /\ GhostType'
    BY UnchangedTypes
  <2> QED
    BY <2>1, <2>2, <2>3
<1>6. CASE SvcUploaded(f)
  <2> USE <1>6 DEF SvcUploaded
  <2>1. LocksType'
    BY <1>1, <1>2 DEF LocksType
  <2>2. DiskType'
    BY <1>1 DEF LocksType, DiskType
  <2>3. OpsType'
    BY DEF OpsType, Idle
  <2>4. HandlesLinked'
    BY <1>1 DEF HandlesLinked, LocksType, handle, Uploaders
  <2>5. LruType' /\ HandleType' /\ EnvType' /\ GhostType'
    BY UnchangedTypes
  <2> QED
    BY <2>1, <2>2, <2>3, <2>4, <2>5
<1>7. CASE SvcFailed(f)
  <2> USE <1>7 DEF SvcFailed
  <2>1. LocksType'
    BY <1>1, <1>2 DEF LocksType
  <2>2. OpsType'
    BY DEF OpsType, Idle
  <2>3. HandlesLinked'
    BY <1>1 DEF HandlesLinked, LocksType, handle, Uploaders
  <2>4. DiskType' /\ LruType' /\ HandleType' /\ EnvType' /\ GhostType'
    BY UnchangedTypes
  <2> QED
    BY <2>1, <2>2, <2>3, <2>4
<1> QED
  BY <1>3, <1>4, <1>5, <1>6, <1>7

\* Eviction and asyncCacheValid.
LEMMA EvictType ==
    ASSUME TypeInv,
           \/ \E S \in SUBSET mount.evictable : EvictMark(S)
           \/ \E f \in Files : EvictItem(f) \/ deleteItem(f) \/ asyncCacheValid(f)
    PROVE  TypeInv'
<1> USE DEF TypeInv, TypeOK
<1>1. ASSUME NEW S, EvictMark(S) PROVE TypeInv'
  <2> USE <1>1 DEF EvictMark
  <2>1. LruType'
    BY DEF LruType
  <2>2. DiskType' /\ LocksType' /\ OpsType' /\ HandleType' /\ EnvType' /\ GhostType'
        /\ HandlesLinked'
    BY UnchangedTypes DEF handle, locks
  <2> QED
    BY <2>1, <2>2
<1>2. ASSUME NEW f \in Files, EvictItem(f) \/ asyncCacheValid(f) PROVE TypeInv'
  <2> USE <1>2 DEF EvictItem, asyncCacheValid
  <2>1. LruType'
    BY DEF LruType
  <2>2. DiskType' /\ LocksType' /\ OpsType' /\ HandleType' /\ EnvType' /\ GhostType'
        /\ HandlesLinked'
    BY UnchangedTypes DEF handle, locks
  <2> QED
    BY <2>1, <2>2
<1>3. ASSUME NEW f \in Files, deleteItem(f) PROVE TypeInv'
  <2> USE <1>3 DEF deleteItem
  <2>1. LruType'
    BY DEF LruType
  <2>2. DiskType'
    BY ConstantsAssumption DEF DiskType, Content, NoFile
  <2>3. HandleType'
    BY DEF HandleType, Unlinked
  <2>4. LocksType' /\ OpsType' /\ EnvType' /\ GhostType' /\ HandlesLinked'
    BY UnchangedTypes DEF locks
  <2> QED
    BY <2>1, <2>2, <2>3, <2>4
<1> QED
  BY <1>1, <1>2, <1>3

\* AddHandle and the steps of the environment.
LEMMA EnvStepType ==
    ASSUME TypeInv,
           (\E h \in Handles : AddHandle(h)) \/ Disconnect \/ Reconnect \/ WindowToggle
    PROVE  TypeInv'
<1> USE DEF TypeInv, TypeOK
<1>1. ASSUME NEW h \in Handles, AddHandle(h) PROVE TypeInv'
  <2> USE <1>1 DEF AddHandle
  <2>1. HandleType' /\ HandlesLinked'
    BY DEF HandleType, HandlesLinked, locks
  <2>2. DiskType' /\ LruType' /\ LocksType' /\ OpsType' /\ EnvType' /\ GhostType'
    BY UnchangedTypes
  <2> QED
    BY <2>1, <2>2
<1>2. CASE Disconnect \/ Reconnect \/ WindowToggle
  <2> USE <1>2 DEF Disconnect, Reconnect, WindowToggle
  <2>1. mount' \in Mounts /\ drops' \in 0 .. mount'.losses
    BY LossesType DEF EnvType
  <2>2. connected' \in BOOLEAN /\ window' \in BOOLEAN
    BY Zenon DEF EnvType
  <2>3. DiskType' /\ LruType' /\ LocksType' /\ OpsType' /\ HandleType' /\ GhostType'
        /\ HandlesLinked'
    BY UnchangedTypes DEF handle, locks
  <2> QED
    BY <2>1, <2>2, <2>3 DEF EnvType
<1> QED
  BY <1>1, <1>2

\* The type invariant is inductive.
LEMMA NextTypeInv == TypeInv /\ [Next]_vars => TypeInv'
<1> SUFFICES ASSUME TypeInv, [Next]_vars PROVE TypeInv'
  OBVIOUS
<1>1. CASE UNCHANGED vars
  BY <1>1, UnchangedTypes DEF vars, handle, locks, TypeInv, TypeOK
<1>2. CASE \E h \in Handles, f \in Files :
              CreateFile(h, f) \/ OpenFile(h, f, FALSE) \/ OpenFile(h, f, TRUE)
  BY <1>2, CreateFileType, OpenFileType
<1>3. CASE \E h \in Handles :
              \/ AddHandle(h) \/ EnsureOpen(h) \/ WriteFile(h)
              \/ FlushFile(h, FALSE) \/ FlushFile(h, TRUE) \/ ReleaseFile(h)
              \/ FlushClean(h) \/ FlushDeferred(h) \/ FlushNoFile(h) \/ FlushUpload(h)
              \/ FlushUploaded(h) \/ FlushOffline(h) \/ FlushFailed(h)
  BY <1>3, EnvStepType, EnsureOpenType, WriteFileType, FlushFileType,
     ReleaseFileType, FlushStepType
<1>4. CASE \E f \in Files :
              \/ DeleteFile(f) \/ DeleteFileLocked(f) \/ DeleteFileFailed(f)
              \/ TruncateFile(f, "zero") \/ TruncateFile(f, "nonzero")
              \/ SvcPick(f) \/ SvcSkip(f) \/ SvcDelete(f) \/ SvcUpload(f)
              \/ SvcUploaded(f) \/ SvcFailed(f)
              \/ EvictItem(f) \/ deleteItem(f) \/ asyncCacheValid(f)
  BY <1>4, DeleteType, TruncateFileType, SvcType, EvictType
<1>5. CASE \E s, d \in Files : RenameFile(s, d)
  BY <1>5, RenameFileType
<1>6. CASE \E S \in SUBSET mount.evictable : EvictMark(S)
  BY <1>6, EvictType
<1>7. CASE Disconnect \/ Reconnect \/ WindowToggle
  BY <1>7, EnvStepType
<1> QED
  BY <1>1, <1>2, <1>3, <1>4, <1>5, <1>6, <1>7 DEF Next

\* Type correctness: whatever the files, handles and mounts, in particular
\* handleCount stays within its width and dirtyCount never underflows
\* (LockMapItem.Inc, Dec, IncDirty, DecDirty of common/lock_map.go).
THEOREM TypeCorrect == Spec => []TypeOK
<1>1. TypeInv => TypeOK
  BY DEF TypeInv
<1> QED
  BY <1>1, InitTypeInv, NextTypeInv, PTL DEF Spec

-----------------------------------------------------------------------------
(* handleCount counts the open handles                                     *)

\* A call under way holds, or waits for, the lock of its handle's present path.
CallLocks == \A h \in Handles : hop[h] # "none" => hlk[h] = hpath[h]

CountInv == TypeInv /\ HandleCountExact /\ CallLocks

\* Files are renamed only between the calls on them, and never over an open file,
\* unless nothing is renamed at all.
NoRenameRaces == \A m \in Mounts : m.races => m.renames = {}

\* The open handles of a file are finitely many, fewer than handleCount can count.
LEMMA OpenOnFinite ==
    ASSUME NEW f
    PROVE  /\ IsFiniteSet(OpenOn(f)) /\ Cardinality(OpenOn(f)) \in Nat
           /\ Cardinality(OpenOn(f)) < CountMod
<1>1. OpenOn(f) \subseteq Handles
  BY DEF OpenOn
<1>2. IsFiniteSet(OpenOn(f)) /\ Cardinality(OpenOn(f)) <= Cardinality(Handles)
  BY <1>1, ConstantsAssumption, FS_Subset
<1>3. Cardinality(OpenOn(f)) \in Nat /\ Cardinality(Handles) \in Nat
  BY <1>2, ConstantsAssumption, FS_CardinalityType
<1> QED
  BY <1>2, <1>3, ConstantsAssumption

\* A step that opens, closes and renames nothing keeps the counts exact.
LEMMA CountFrame ==
    ASSUME CountInv, TypeInv', UNCHANGED <<count, hpath>>,
           \A h \in Handles : hst[h] = "free" <=> hst'[h] = "free"
    PROVE  HandleCountExact'
<1>1. \A f \in Files : OpenOn(f)' = OpenOn(f)
  BY DEF OpenOn
<1> QED
  BY <1>1 DEF CountInv, HandleCountExact

\* A step that opens one handle and counts it.
LEMMA CountOpen ==
    ASSUME CountInv, NEW h \in Handles, NEW f \in Files, NEW st,
           hst[h] = "free", st # "free", hst' = [hst EXCEPT ![h] = st],
           hpath' = [hpath EXCEPT ![h] = f],
           count' = [count EXCEPT ![f] = Inc(@)]
    PROVE  HandleCountExact'
<1> USE DEF CountInv, TypeInv, TypeOK, LocksType, HandleType
<1>1. \A g \in Files \ {f} : OpenOn(g)' = OpenOn(g) /\ count'[g] = count[g]
  BY DEF OpenOn
<1>2. OpenOn(f)' = OpenOn(f) \cup {h} /\ h \notin OpenOn(f)
  BY DEF OpenOn
<1>3. Cardinality(OpenOn(f)') = Cardinality(OpenOn(f)) + 1
  BY <1>2, OpenOnFinite, FS_AddElement
<1>4. Cardinality(OpenOn(f)') < CountMod
  <2>1. OpenOn(f)' \subseteq Handles
    BY DEF OpenOn
  <2>2. Cardinality(OpenOn(f)') <= Cardinality(Handles)
    BY <2>1, ConstantsAssumption, FS_Subset
  <2>3. Cardinality(OpenOn(f)) \in Nat /\ Cardinality(Handles) \in Nat
    BY OpenOnFinite, ConstantsAssumption, FS_CardinalityType
  <2> QED
    BY <1>3, <2>2, <2>3, ConstantsAssumption
<1>5. count[f] = Cardinality(OpenOn(f)) /\ Cardinality(OpenOn(f)) \in Nat
  BY OpenOnFinite DEF HandleCountExact
<1>6. count'[f] = Cardinality(OpenOn(f)')
  <2>1. Inc(count[f]) = count[f] + 1
    BY <1>3, <1>4, <1>5, ConstantsAssumption DEF Inc
  <2> QED
    BY <1>3, <1>5, <2>1
<1> QED
  BY <1>1, <1>6 DEF HandleCountExact

\* A step that closes one handle and counts down the lock of its path.
LEMMA CountClose ==
    ASSUME CountInv, NEW h \in Handles, hst[h] # "free",
           hst' = [hst EXCEPT ![h] = "free"],
           hpath' = [hpath EXCEPT ![h] = None],
           count' = [count EXCEPT ![hpath[h]] = Dec(@)]
    PROVE  HandleCountExact'
<1> USE DEF CountInv, TypeInv, TypeOK, LocksType, HandleType
<1>1. PICK f \in Files : f = hpath[h]
  BY DEF HandlesLinked
<1>2. \A g \in Files \ {f} : OpenOn(g)' = OpenOn(g) /\ count'[g] = count[g]
  BY <1>1 DEF OpenOn
<1>3. OpenOn(f)' = OpenOn(f) \ {h} /\ h \in OpenOn(f)
  BY <1>1 DEF OpenOn
<1>4. Cardinality(OpenOn(f)') = Cardinality(OpenOn(f)) - 1
  BY <1>3, OpenOnFinite, FS_RemoveElement
<1>5. count[f] = Cardinality(OpenOn(f)) /\ Cardinality(OpenOn(f)) \in Nat
  BY <1>1, OpenOnFinite DEF HandleCountExact
<1>6. Cardinality(OpenOn(f)) # 0
  BY <1>3, OpenOnFinite, FS_EmptySet
<1>7. count'[f] = Cardinality(OpenOn(f)')
  <2>1. Dec(count[f]) = count[f] - 1
    BY <1>5, <1>6 DEF Dec
  <2> QED
    BY <1>1, <1>4, <1>5, <2>1
<1> QED
  BY <1>2, <1>7 DEF HandleCountExact

\* A rename moves all open handles of src, and their count, to dst.
LEMMA CountRename ==
    ASSUME NoRenameRaces, CountInv, NEW s \in Files, NEW d \in Files, RenameFile(s, d)
    PROVE  HandleCountExact' /\ CallLocks'
<1> USE DEF CountInv, TypeInv, TypeOK, LocksType, HandleType
<1>1. NoCallOn(s) /\ OpenOn(d) = {}
  BY DEF NoRenameRaces, RenameFile, EnvType
<1>2. \A h \in Handles : hpath'[h] = RenamedHandle(h, s, d) /\ hst'[h] = hst[h]
  BY DEF RenameFile
<1>3. \A f \in Files : count[f] = Cardinality(OpenOn(f)) /\ count[f] \in Nat
                       /\ count[f] < CountMod
  BY OpenOnFinite DEF HandleCountExact
<1>4. count[d] = 0
  BY <1>1, <1>3, FS_EmptySet
<1>5. /\ \A f \in Files \ {s, d} : count'[f] = count[f]
      /\ count'[d] = count[s] % CountMod
      /\ s # d => count'[s] = 0
  BY <1>4, <1>3 DEF RenameFile
<1>6. count'[d] = count[s]
  BY <1>3, <1>5, ModSmall
<1>7. count[s] = 0 => OpenOn(s) = {}
  BY <1>3, OpenOnFinite, FS_EmptySet
<1>8. \A h \in OpenOn(s) : count[s] > 0 /\ hst[h] \in {"live", "stuck"}
  BY <1>1, <1>3, <1>7 DEF OpenOn, NoCallOn
<1>9. OpenOn(d)' = OpenOn(s) /\ (s # d => OpenOn(s)' = {})
  BY <1>1, <1>2, <1>8 DEF OpenOn, RenamedHandle
<1>10. \A f \in Files \ {s, d} : OpenOn(f)' = OpenOn(f)
  BY <1>2 DEF OpenOn, RenamedHandle
<1>11. HandleCountExact'
  <2>1. \A f \in Files \ {s, d} : count'[f] = Cardinality(OpenOn(f)')
    BY <1>3, <1>5, <1>10
  <2>2. count'[d] = Cardinality(OpenOn(d)')
    BY <1>3, <1>6, <1>9
  <2>3. s # d => count'[s] = Cardinality(OpenOn(s)')
    BY <1>5, <1>9, FS_EmptySet
  <2> QED
    BY <2>1, <2>2, <2>3 DEF HandleCountExact
<1>12. CallLocks'
  BY <1>1, <1>2 DEF CallLocks, NoCallOn, RenamedHandle, RenameFile
<1> QED
  BY <1>11, <1>12

\* A call that returns: a successful release closes its handle, nothing else does.
LEMMA CountReturns ==
    ASSUME CountInv, TypeInv', NEW h \in Handles, hop[h] # "none",
           Returns(h) \/ ReturnsError(h)
    PROVE  HandleCountExact' /\ CallLocks'
<1> USE DEF CountInv
<1>1. hst[h] = "live" /\ hlk[h] = hpath[h]
  BY DEF TypeInv, HandlesLinked, CallLocks
<1>2. CASE Returns(h) /\ hop[h] = "close"
  <2>1. HandleCountExact'
    BY <1>1, <1>2, CountClose DEF Returns, CloseHandle
  <2>2. CallLocks'
    BY <1>2 DEF CallLocks, Returns, CloseHandle, TypeInv, TypeOK, HandleType
  <2> QED
    BY <2>1, <2>2
<1>3. CASE ReturnsError(h) \/ (Returns(h) /\ hop[h] # "close")
  <2>1. UNCHANGED <<count, hpath>>
    BY <1>3 DEF Returns, ReturnsError
  <2>2. \A g \in Handles : hst[g] = "free" <=> hst'[g] = "free"
    BY <1>1, <1>3 DEF Returns, ReturnsError, TypeInv, TypeOK, HandleType
  <2>3. HandleCountExact'
    BY <2>1, <2>2, CountFrame
  <2>4. CallLocks'
    BY <1>3, <2>1 DEF CallLocks, Returns, ReturnsError, TypeInv, TypeOK, HandleType
  <2> QED
    BY <2>3, <2>4
<1> QED
  BY <1>2, <1>3

\* Steps that touch no handle's status, path, call or lock, and no count.
LEMMA CountUnchanged ==
    ASSUME CountInv, TypeInv', UNCHANGED <<count, hst, hpath, hop, hlk>>
    PROVE  HandleCountExact' /\ CallLocks'
<1>1. HandleCountExact'
  BY CountFrame
<1> QED
  BY <1>1 DEF CountInv, CallLocks

\* Opening and creating.
LEMMA CountOpenFile ==
    ASSUME CountInv, TypeInv', NEW h \in Handles, NEW f \in Files,
           CreateFile(h, f) \/ (\E trunc \in BOOLEAN : OpenFile(h, f, trunc))
    PROVE  HandleCountExact' /\ CallLocks'
<1> USE DEF CountInv
<1>1. hst[h] = "free" /\ hop[h] = "none"
  BY DEF CreateFile, OpenFile, TypeInv, HandlesLinked, TypeOK, HandleType
<1>2. CASE CreateFile(h, f)
  <2>1. HandleCountExact'
    <3>1. /\ hst' = [hst EXCEPT ![h] = "live"] /\ hpath' = [hpath EXCEPT ![h] = f]
          /\ count' = [count EXCEPT ![f] = Inc(@)]
      BY <1>2, Zenon DEF CreateFile
    <3> QED
      BY <1>1, <3>1, CountOpen
  <2>2. CallLocks'
    BY <1>1, <1>2 DEF CreateFile, CallLocks, TypeInv, TypeOK, HandleType
  <2> QED
    BY <2>1, <2>2
<1>3. CASE \E trunc \in BOOLEAN : OpenFile(h, f, trunc)
  <2>1. \/ NewHandle(h, f) /\ UNCHANGED <<hop, hlk>>
        \/ UNCHANGED <<locks, hst, hpath, hop, hlk>>
    BY <1>3, Zenon DEF OpenFile
  <2>2. CASE NewHandle(h, f) /\ UNCHANGED <<hop, hlk>>
    <3>1. HandleCountExact'
      <4>1. /\ hst' = [hst EXCEPT ![h] = "opened"] /\ hpath' = [hpath EXCEPT ![h] = f]
            /\ count' = [count EXCEPT ![f] = Inc(@)]
        BY <2>2, Zenon DEF NewHandle
      <4> QED
        BY <1>1, <4>1, CountOpen
    <3>2. CallLocks'
      BY <1>1, <2>2 DEF NewHandle, CallLocks, TypeInv, TypeOK, HandleType
    <3> QED
      BY <3>1, <3>2
  <2>3. CASE UNCHANGED <<locks, hst, hpath, hop, hlk>>
    BY <2>3, CountUnchanged DEF locks
  <2> QED
    BY <2>1, <2>2, <2>3
<1> QED
  BY <1>2, <1>3

\* A flush or a release up to its lock.
LEMMA CountCall ==
    ASSUME CountInv, TypeInv', NEW h \in Handles,
           (\E sync \in BOOLEAN : FlushFile(h, sync)) \/ ReleaseFile(h)
    PROVE  HandleCountExact' /\ CallLocks'
<1>1. UNCHANGED <<count, hst, hpath>>
  BY DEF FlushFile, ReleaseFile, locks
<1>2. HandleCountExact'
  BY <1>1, CountFrame
<1>3. CallLocks'
  BY <1>1 DEF FlushFile, ReleaseFile, CountInv, CallLocks, TypeInv, TypeOK, HandleType
<1> QED
  BY <1>2, <1>3

\* The steps of a flush or a release under the flock.
LEMMA CountFlushStep ==
    ASSUME CountInv, TypeInv', NEW h \in Handles,
           \/ FlushClean(h) \/ FlushDeferred(h) \/ FlushNoFile(h) \/ FlushUpload(h)
           \/ FlushUploaded(h) \/ FlushOffline(h) \/ FlushFailed(h)
    PROVE  HandleCountExact' /\ CallLocks'
<1>1. CASE FlushUpload(h)
  BY <1>1, CountUnchanged DEF FlushUpload, handle
<1>2. CASE ~FlushUpload(h)
  <2>1. hop[h] # "none"
    BY <1>2 DEF CountInv, TypeInv, HandlesLinked, Acquires, FlushClean, FlushDeferred,
                FlushNoFile, FlushUploaded, FlushOffline, FlushFailed
  <2>2. Returns(h) \/ ReturnsError(h)
    BY <1>2, Zenon DEF FlushClean, FlushDeferred, FlushNoFile, FlushUploaded,
                       FlushOffline, FlushFailed
  <2> QED
    BY <2>1, <2>2, CountReturns
<1> QED
  BY <1>1, <1>2

\* The steps that are about a file or the environment and leave counts and paths.
LEMMA CountFileStep ==
    ASSUME CountInv, TypeInv', NEW f \in Files,
           \/ DeleteFile(f) \/ DeleteFileLocked(f) \/ DeleteFileFailed(f)
           \/ TruncateFile(f, "zero") \/ TruncateFile(f, "nonzero")
           \/ SvcPick(f) \/ SvcSkip(f) \/ SvcDelete(f) \/ SvcUpload(f)
           \/ SvcUploaded(f) \/ SvcFailed(f)
           \/ EvictItem(f) \/ deleteItem(f) \/ asyncCacheValid(f)
    PROVE  HandleCountExact' /\ CallLocks'
<1>1. UNCHANGED <<count, hst, hpath, hop, hlk>>
  BY DEF DeleteFile, DeleteFileLocked, DeleteFileFailed, TruncateFile, SvcPick,
         SvcSkip, SvcDelete, SvcUpload, SvcUploaded, SvcFailed, EvictItem,
         deleteItem, asyncCacheValid, locks, handle
<1> QED
  BY <1>1, CountUnchanged

\* The invariant of the counts is inductive.
LEMMA NextCountInv ==
    ASSUME NoRenameRaces, CountInv, [Next]_vars
    PROVE  CountInv'
<1>0. TypeInv'
  BY NextTypeInv DEF CountInv
<1>1. CASE UNCHANGED vars
  BY <1>0, <1>1, CountUnchanged DEF vars, locks, handle, CountInv
<1>2. CASE \E h \in Handles, f \in Files :
              CreateFile(h, f) \/ OpenFile(h, f, FALSE) \/ OpenFile(h, f, TRUE)
  BY <1>0, <1>2, CountOpenFile DEF CountInv
<1>3. CASE \E h \in Handles : AddHandle(h)
  <2>1. PICK h \in Handles : AddHandle(h)
    BY <1>3
  <2>2. HandleCountExact'
    BY <1>0, <2>1, CountFrame
       DEF AddHandle, locks, CountInv, TypeInv, TypeOK, HandleType
  <2>3. CallLocks'
    BY <2>1 DEF AddHandle, CountInv, CallLocks
  <2> QED
    BY <1>0, <2>2, <2>3 DEF CountInv
<1>4. CASE \E h \in Handles : EnsureOpen(h)
  <2>1. UNCHANGED <<count, hst, hpath, hop, hlk>>
    BY <1>4 DEF EnsureOpen, locks
  <2> QED
    BY <1>0, <2>1, CountUnchanged DEF CountInv
<1>5. CASE \E h \in Handles : WriteFile(h)
  <2>1. UNCHANGED <<count, hst, hpath, hop, hlk>>
    BY <1>5 DEF WriteFile
  <2> QED
    BY <1>0, <2>1, CountUnchanged DEF CountInv
<1>6. CASE \E h \in Handles :
              FlushFile(h, FALSE) \/ FlushFile(h, TRUE) \/ ReleaseFile(h)
  BY <1>0, <1>6, CountCall DEF CountInv
<1>7. CASE \E h \in Handles :
              \/ FlushClean(h) \/ FlushDeferred(h) \/ FlushNoFile(h) \/ FlushUpload(h)
              \/ FlushUploaded(h) \/ FlushOffline(h) \/ FlushFailed(h)
  BY <1>0, <1>7, CountFlushStep DEF CountInv
<1>8. CASE \E f \in Files :
              \/ DeleteFile(f) \/ DeleteFileLocked(f) \/ DeleteFileFailed(f)
              \/ TruncateFile(f, "zero") \/ TruncateFile(f, "nonzero")
              \/ SvcPick(f) \/ SvcSkip(f) \/ SvcDelete(f) \/ SvcUpload(f)
              \/ SvcUploaded(f) \/ SvcFailed(f)
              \/ EvictItem(f) \/ deleteItem(f) \/ asyncCacheValid(f)
  BY <1>0, <1>8, CountFileStep DEF CountInv
<1>9. CASE \E s, d \in Files : RenameFile(s, d)
  BY <1>0, <1>9, CountRename DEF CountInv
<1>10. CASE \/ \E S \in SUBSET mount.evictable : EvictMark(S)
            \/ Disconnect \/ Reconnect \/ WindowToggle
  <2>1. UNCHANGED <<count, hst, hpath, hop, hlk>>
    BY <1>10 DEF EvictMark, Disconnect, Reconnect, WindowToggle, locks, handle
  <2> QED
    BY <1>0, <2>1, CountUnchanged DEF CountInv
<1> QED
  BY <1>1, <1>2, <1>3, <1>4, <1>5, <1>6, <1>7, <1>8, <1>9, <1>10 DEF Next

\* LockMapItem.handleCount is the number of open handles, for any number of files
\* and handles and every configuration, as long as no rename races with an open or
\* a release: that race (renameOpenHandles against handlemap.Add and against the
\* stale lock of ReleaseFile) is the only way to a wrong count.
THEOREM CountExact == ASSUME NoRenameRaces PROVE Spec => []HandleCountExact
<1>1. Init => CountInv
  <2>1. Init => HandleCountExact /\ CallLocks
    <3> SUFFICES ASSUME Init PROVE HandleCountExact /\ CallLocks
      OBVIOUS
    <3>1. \A f \in Files : OpenOn(f) = {} /\ count[f] = 0
      BY DEF Init, OpenOn
    <3> QED
      BY <3>1, FS_EmptySet DEF Init, HandleCountExact, CallLocks
  <2> QED
    BY <2>1, InitTypeInv DEF CountInv
<1>2. CountInv /\ [Next]_vars => CountInv'
  BY NextCountInv
<1>3. CountInv => HandleCountExact
  BY DEF CountInv
<1> QED
  BY <1>1, <1>2, <1>3, PTL DEF Spec
=============================================================================
