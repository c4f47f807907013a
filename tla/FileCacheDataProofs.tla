------------------------ MODULE FileCacheDataProofs ------------------------
(***************************************************************************)
(* Theorems about the contents that FileCache keeps: dirtyCount counts the *)
(* dirty handles, no step loses, brings back or hides what was written in  *)
(* a calm mount, and no queued deletion hits a file that was made again,   *)
(* for every set of files and handles.                                     *)
(***************************************************************************)
EXTENDS FileCacheProofs

-----------------------------------------------------------------------------
(* dirtyCount counts the dirty handles                                     *)

\* There is room in the model's bound on dirtyCount for every handle.
DirtyFits == Cardinality(Handles) <= MaxDirty

DirtyOn(f) == {h \in OpenOn(f) : hdirty[h]}

\* What the count rests on: a free handle is clean, and only a mount that may lose
\* its connection is ever offline.
DirtyInv ==
    /\ TypeInv
    /\ \A h \in Handles : hst[h] = "free" => ~hdirty[h]
    /\ ~connected => mount.losses > 0
    /\ DirtyCountExact

\* The dirty handles of a file are finitely many, no more than there are handles.
LEMMA DirtyOnFinite ==
    ASSUME NEW f
    PROVE  /\ IsFiniteSet(DirtyOn(f)) /\ Cardinality(DirtyOn(f)) \in Nat
           /\ Cardinality(DirtyOn(f)) <= Cardinality(Handles)
           /\ Cardinality(Handles) \in Nat
<1>1. DirtyOn(f) \subseteq Handles
  BY DEF DirtyOn, OpenOn
<1>2. IsFiniteSet(DirtyOn(f)) /\ Cardinality(DirtyOn(f)) <= Cardinality(Handles)
  BY <1>1, ConstantsAssumption, FS_Subset
<1> QED
  BY <1>2, ConstantsAssumption, FS_CardinalityType

\* A step after which the same handles are dirty on the same files.
LEMMA DirtyFrame ==
    ASSUME DirtyInv, TypeInv', UNCHANGED <<mount, dirtyCount>>,
           ~connected' => mount.losses > 0,
           \A h \in Handles : hst'[h] = "free" => ~hdirty'[h],
           \A h \in Handles : hdirty[h] \/ hdirty'[h] =>
              hdirty'[h] = hdirty[h] /\ hpath'[h] = hpath[h]
                /\ (hst'[h] = "free" <=> hst[h] = "free")
    PROVE  DirtyInv'
<1>1. \A f \in Files : DirtyOn(f)' = DirtyOn(f)
  BY DEF DirtyOn, OpenOn
<1> QED
  BY <1>1 DEF DirtyInv, DirtyCountExact, DirtyOn

\* A step that makes one handle dirty and counts it.
LEMMA DirtyMore ==
    ASSUME DirtyFits, DirtyInv, TypeInv', NEW h \in Handles, NEW f \in Files,
           UNCHANGED <<mount, connected>>,
           dirtyCount' = [dirtyCount EXCEPT ![f] = IncDirty(@)],
           ~hdirty[h], hdirty'[h], hpath'[h] = f, hst'[h] # "free",
           \A k \in Handles \ {h} :
              hdirty'[k] = hdirty[k] /\ hpath'[k] = hpath[k] /\ hst'[k] = hst[k]
    PROVE  DirtyInv'
<1> USE DEF DirtyInv
<1>1. \A k \in Handles : hst'[k] = "free" => ~hdirty'[k]
  OBVIOUS
<1>2. \A g \in Files \ {f} : DirtyOn(g)' = DirtyOn(g) /\ dirtyCount'[g] = dirtyCount[g]
  BY DEF DirtyOn, OpenOn, TypeInv, TypeOK, LocksType
<1>3. DirtyOn(f)' = DirtyOn(f) \cup {h} /\ h \notin DirtyOn(f)
  BY DEF DirtyOn, OpenOn
<1>4. Cardinality(DirtyOn(f)') = Cardinality(DirtyOn(f)) + 1
  BY <1>3, DirtyOnFinite, FS_AddElement
<1>5. Cardinality(DirtyOn(f)') <= Cardinality(Handles)
  <2>1. DirtyOn(f)' \subseteq Handles
    BY DEF DirtyOn, OpenOn
  <2> QED
    BY <2>1, ConstantsAssumption, FS_Subset
<1>6. dirtyCount[f] = Cardinality(DirtyOn(f)) => dirtyCount'[f] = Cardinality(DirtyOn(f)')
  <2>1. dirtyCount'[f] = IncDirty(dirtyCount[f])
    BY DEF TypeInv, TypeOK, LocksType
  <2> QED
    BY <1>4, <1>5, <2>1, DirtyOnFinite, ConstantsAssumption DEF IncDirty, DirtyFits
<1> QED
  BY <1>1, <1>2, <1>6 DEF DirtyCountExact, DirtyOn

\* A step that makes one handle clean and counts it down, whatever else becomes
\* of the handle.
LEMMA DirtyLess ==
    ASSUME DirtyInv, TypeInv', NEW h \in Handles,
           UNCHANGED <<mount, connected>>,
           dirtyCount' = [dirtyCount EXCEPT ![hpath[h]] = DecDirty(@)],
           hdirty[h], ~hdirty'[h],
           \A k \in Handles \ {h} :
              hdirty'[k] = hdirty[k] /\ hpath'[k] = hpath[k] /\ hst'[k] = hst[k]
    PROVE  DirtyInv'
<1> USE DEF DirtyInv
<1>1. \A k \in Handles : hst'[k] = "free" => ~hdirty'[k]
  OBVIOUS
<1>2. PICK f \in Files : f = hpath[h]
  BY DEF TypeInv, HandlesLinked
<1>3. \A g \in Files \ {f} : DirtyOn(g)' = DirtyOn(g) /\ dirtyCount'[g] = dirtyCount[g]
  BY <1>2 DEF DirtyOn, OpenOn, TypeInv, TypeOK, LocksType
<1>4. DirtyOn(f)' = DirtyOn(f) \ {h} /\ h \in DirtyOn(f)
  BY <1>2 DEF DirtyOn, OpenOn
<1>5. Cardinality(DirtyOn(f)') = Cardinality(DirtyOn(f)) - 1
  BY <1>4, DirtyOnFinite, FS_RemoveElement
<1>6. Cardinality(DirtyOn(f)) # 0
  BY <1>4, DirtyOnFinite, FS_EmptySet
<1>7. dirtyCount[f] = Cardinality(DirtyOn(f)) => dirtyCount'[f] = Cardinality(DirtyOn(f)')
  <2>1. dirtyCount'[f] = DecDirty(dirtyCount[f])
    BY <1>2 DEF TypeInv, TypeOK, LocksType
  <2> QED
    BY <1>5, <1>6, <2>1, DirtyOnFinite DEF DecDirty
<1>8. DirtyCountExact'
  BY <1>3, <1>7 DEF DirtyCountExact, DirtyOn
<1> QED
  BY <1>1, <1>8

\* A step that leaves dirtyCount and the dirty handles alone.
LEMMA DirtyUnchanged ==
    ASSUME DirtyInv, TypeInv', UNCHANGED <<mount, dirtyCount, hdirty, hst, hpath>>,
           ~connected' => mount.losses > 0
    PROVE  DirtyInv'
  BY DirtyFrame DEF DirtyInv

\* CreateFile: the handle is dirty unless the empty object was made.
LEMMA DirtyCreate ==
    ASSUME DirtyFits, DirtyInv, TypeInv', NEW h \in Handles, NEW f \in Files, CreateFile(h, f)
    PROVE  DirtyInv'
<1> USE DEF CreateFile, env
<1>1. hst[h] = "free" /\ ~hdirty[h]
  BY DEF DirtyInv
<1>2. /\ hst'[h] = "live" /\ hpath'[h] = f /\ hdirty'[h] = ~mount.createEmptyFile
      /\ \A k \in Handles \ {h} : hdirty'[k] = hdirty[k] /\ hpath'[k] = hpath[k] /\ hst'[k] = hst[k]
  BY DEF DirtyInv, TypeInv, TypeOK, HandleType
<1>3. CASE mount.createEmptyFile
  BY <1>1, <1>2, <1>3, DirtyFrame DEF DirtyInv
<1>4. CASE ~mount.createEmptyFile
  <2>1. hdirty'[h] /\ dirtyCount' = [dirtyCount EXCEPT ![f] = IncDirty(@)]
    BY <1>2, <1>4
  <2> QED
    BY <1>1, <1>2, <2>1, DirtyMore
<1> QED
  BY <1>3, <1>4

\* OpenFile: the handle is dirty if the file was truncated.
LEMMA DirtyOpen ==
    ASSUME DirtyFits, DirtyInv, TypeInv', NEW h \in Handles, NEW f \in Files,
           NEW trunc \in BOOLEAN, OpenFile(h, f, trunc)
    PROVE  DirtyInv'
<1>1. hst[h] = "free" /\ ~hdirty[h] /\ UNCHANGED <<mount, connected>>
  BY DEF DirtyInv, OpenFile, env
<1>2. \/ /\ NewHandle(h, f)
         /\ hdirty' = [hdirty EXCEPT ![h] = @ \/ trunc]
         /\ dirtyCount' = IF trunc /\ ~hdirty[h]
                          THEN [dirtyCount EXCEPT ![f] = IncDirty(@)] ELSE dirtyCount
      \/ NewHandle(h, f) /\ UNCHANGED <<hdirty, dirtyCount>>
      \/ UNCHANGED <<hdirty, dirtyCount, hst, hpath>>
  BY Zenon DEF OpenFile, OpenCompleted, locks
<1>3. CASE UNCHANGED <<hdirty, dirtyCount, hst, hpath>>
  BY <1>1, <1>3, DirtyFrame DEF DirtyInv
<1>4. CASE NewHandle(h, f)
  <2>1. /\ hst'[h] = "opened" /\ hpath'[h] = f
        /\ \A k \in Handles \ {h} : hpath'[k] = hpath[k] /\ hst'[k] = hst[k]
    BY <1>4 DEF NewHandle, DirtyInv, TypeInv, TypeOK, HandleType
  <2>2. CASE UNCHANGED <<hdirty, dirtyCount>>
    BY <1>1, <2>1, <2>2, DirtyFrame DEF DirtyInv
  <2>3. CASE /\ hdirty' = [hdirty EXCEPT ![h] = @ \/ trunc]
             /\ dirtyCount' = IF trunc /\ ~hdirty[h]
                              THEN [dirtyCount EXCEPT ![f] = IncDirty(@)] ELSE dirtyCount
    <3>1. hdirty'[h] = trunc /\ \A k \in Handles \ {h} : hdirty'[k] = hdirty[k]
      BY <1>1, <2>3 DEF DirtyInv, TypeInv, TypeOK, HandleType
    <3>2. CASE trunc
      BY <1>1, <2>1, <2>3, <3>1, <3>2, DirtyMore
    <3>3. CASE ~trunc
      BY <1>1, <2>1, <2>3, <3>1, <3>3, DirtyFrame DEF DirtyInv
    <3> QED
      BY <3>2, <3>3
  <2> QED
    BY <1>2, <1>3, <2>2, <2>3
<1> QED
  BY <1>2, <1>3, <1>4

\* WriteFile makes its handle dirty.
LEMMA DirtyWrite ==
    ASSUME DirtyFits, DirtyInv, TypeInv', NEW h \in Handles, WriteFile(h)
    PROVE  DirtyInv'
<1> USE DEF WriteFile, env
<1>1. PICK f \in Files : f = hpath[h]
  BY DEF DirtyInv, TypeInv, HandlesLinked
<1>2. /\ hdirty'[h] /\ \A k \in Handles \ {h} : hdirty'[k] = hdirty[k]
      /\ UNCHANGED <<hst, hpath, mount, connected>> /\ hst[h] # "free"
  BY DEF DirtyInv, TypeInv, TypeOK, HandleType
<1>3. CASE hdirty[h]
  <2>1. UNCHANGED hdirty
    BY <1>3 DEF DirtyInv, TypeInv, TypeOK, HandleType
  <2>2. UNCHANGED dirtyCount
    BY <1>3
  <2> QED
    BY <1>2, <2>1, <2>2, DirtyUnchanged DEF DirtyInv
<1>4. CASE ~hdirty[h]
  <2>1. dirtyCount' = [dirtyCount EXCEPT ![f] = IncDirty(@)]
    BY <1>1, <1>4
  <2> QED
    BY <1>1, <1>2, <1>4, <2>1, DirtyMore
<1> QED
  BY <1>3, <1>4

\* The steps of a flush or a release under the flock.
LEMMA DirtyFlushStep ==
    ASSUME DirtyInv, TypeInv', NEW h \in Handles,
           \/ FlushClean(h) \/ FlushDeferred(h) \/ FlushNoFile(h) \/ FlushUpload(h)
           \/ FlushUploaded(h) \/ FlushOffline(h) \/ FlushFailed(h)
    PROVE  DirtyInv'
<1>1. UNCHANGED <<mount, connected>>
  BY DEF FlushClean, FlushDeferred, FlushNoFile, FlushUpload, FlushUploaded,
         FlushOffline, FlushFailed, env
<1>2. ASSUME Returns(h) \/ ReturnsError(h)
      PROVE  \A k \in Handles \ {h} : hpath'[k] = hpath[k] /\ hst'[k] = hst[k]
  BY <1>2 DEF Returns, ReturnsError, CloseHandle, DirtyInv, TypeInv, TypeOK, HandleType
<1>3. CASE FlushUpload(h)
  <2>1. UNCHANGED <<dirtyCount, hdirty, hst, hpath>>
    BY <1>3 DEF FlushUpload, handle
  <2> QED
    BY <1>1, <2>1, DirtyFrame DEF DirtyInv
<1>4. CASE FlushClean(h)
  <2>1. UNCHANGED <<dirtyCount, hdirty>> /\ ~hdirty[h] /\ Returns(h)
    BY <1>4 DEF FlushClean
  <2> QED
    BY <1>1, <1>2, <2>1, DirtyFrame DEF DirtyInv
<1>5. CASE FlushNoFile(h) \/ FlushFailed(h)
  <2>1. UNCHANGED <<dirtyCount, hdirty, hpath>> /\ ReturnsError(h)
    BY <1>5 DEF FlushNoFile, FlushFailed, ReturnsError
  <2>2. \A k \in Handles : hst'[k] = "free" <=> hst[k] = "free"
    <3>1. hst[h] # "free"
      BY <1>5 DEF FlushNoFile, FlushFailed, Acquires, DirtyInv, TypeInv, HandlesLinked
    <3> QED
      BY <2>1, <3>1 DEF ReturnsError, DirtyInv, TypeInv, TypeOK, HandleType
  <2> QED
    BY <1>1, <2>1, <2>2, DirtyFrame DEF DirtyInv
<1>6. CASE FlushDeferred(h) \/ FlushUploaded(h)
  <2>1. clearHandleDirty(h) /\ Returns(h)
    BY <1>6 DEF FlushDeferred, FlushUploaded
  <2>2. ~hdirty'[h] /\ \A k \in Handles \ {h} : hdirty'[k] = hdirty[k]
    BY <2>1 DEF clearHandleDirty, DirtyInv, TypeInv, TypeOK, HandleType
  <2>3. CASE hdirty[h]
    <3>1. dirtyCount' = [dirtyCount EXCEPT ![hpath[h]] = DecDirty(@)]
      BY <2>1, <2>3 DEF clearHandleDirty
    <3> QED
      BY <1>1, <1>2, <2>1, <2>2, <2>3, <3>1, DirtyLess
  <2>4. CASE ~hdirty[h]
    <3>1. UNCHANGED dirtyCount
      BY <2>1, <2>4 DEF clearHandleDirty
    <3> QED
      BY <1>1, <1>2, <2>1, <2>2, <2>4, <3>1, DirtyFrame DEF DirtyInv
  <2> QED
    BY <2>3, <2>4
<1>7. CASE FlushOffline(h)
  <2>1. \A k \in Handles : hst'[k] = "free" => ~hdirty'[k]
    BY <1>7 DEF FlushOffline, Returns, ReturnsError, CloseHandle,
                DirtyInv, TypeInv, TypeOK, HandleType
  <2>2. mount'.losses > 0 /\ (~connected' => mount'.losses > 0)
    BY <1>1, <1>7 DEF FlushOffline, DirtyInv
  <2>3. mount'.losses # 0
    BY <2>2
  <2> QED
    BY <2>1, <2>2, <2>3 DEF DirtyInv, DirtyCountExact
<1> QED
  BY <1>3, <1>4, <1>5, <1>6, <1>7

\* Disconnect is for mounts with losses.
LEMMA LossesPositive ==
    ASSUME DirtyInv, Disconnect
    PROVE  mount.losses > 0
<1>1. mount.losses \in Nat /\ drops \in 0 .. mount.losses
  BY LossesType DEF DirtyInv, TypeInv, TypeOK, EnvType
<1> QED
  BY <1>1 DEF Disconnect

\* Every step.
LEMMA NextDirtyInv ==
    ASSUME DirtyFits, DirtyInv, [Next]_vars
    PROVE  DirtyInv'
<1>0. TypeInv' /\ (~connected => mount.losses > 0)
  BY NextTypeInv DEF DirtyInv
<1>1. CASE UNCHANGED vars
  BY <1>0, <1>1, DirtyUnchanged DEF vars, locks, handle, env
<1>2. CASE \E h \in Handles, f \in Files :
              CreateFile(h, f) \/ OpenFile(h, f, FALSE) \/ OpenFile(h, f, TRUE)
  BY <1>0, <1>2, DirtyCreate, DirtyOpen
<1>3. CASE \E h \in Handles : AddHandle(h)
  <2>1. PICK h \in Handles : AddHandle(h)
    BY <1>3
  <2> USE DEF AddHandle, locks, env
  <2>2. UNCHANGED <<mount, connected, dirtyCount, hdirty, hpath>>
    BY <2>1
  <2>3. \A k \in Handles : hst'[k] = "free" <=> hst[k] = "free"
    BY <2>1 DEF DirtyInv, TypeInv, TypeOK, HandleType
  <2> QED
    BY <1>0, <2>2, <2>3, DirtyFrame DEF DirtyInv
<1>4. CASE \E h \in Handles : EnsureOpen(h)
  <2>1. PICK h \in Handles : EnsureOpen(h)
    BY <1>4
  <2>2. /\ UNCHANGED <<mount, connected, hst, hpath>>
        /\ \/ UNCHANGED <<dirtyCount, hdirty>>
           \/ hdirty' = [hdirty EXCEPT ![h] = @ \/ FALSE] /\ UNCHANGED dirtyCount
    BY <2>1 DEF EnsureOpen, OpenCompleted, locks, env
  <2>3. UNCHANGED <<dirtyCount, hdirty>>
    BY <2>2 DEF DirtyInv, TypeInv, TypeOK, HandleType
  <2> QED
    BY <1>0, <2>2, <2>3, DirtyUnchanged
<1>5. CASE \E h \in Handles : WriteFile(h)
  BY <1>0, <1>5, DirtyWrite
<1>6. CASE \E h \in Handles :
              FlushFile(h, FALSE) \/ FlushFile(h, TRUE) \/ ReleaseFile(h)
  <2>1. UNCHANGED <<mount, connected, dirtyCount, hdirty, hst, hpath>>
    BY <1>6 DEF FlushFile, ReleaseFile, locks, env
  <2> QED
    BY <1>0, <2>1, DirtyUnchanged
<1>7. CASE \E h \in Handles :
              \/ FlushClean(h) \/ FlushDeferred(h) \/ FlushNoFile(h) \/ FlushUpload(h)
              \/ FlushUploaded(h) \/ FlushOffline(h) \/ FlushFailed(h)
  BY <1>0, <1>7, DirtyFlushStep
<1>8. CASE \E f \in Files :
              \/ DeleteFile(f) \/ DeleteFileLocked(f) \/ DeleteFileFailed(f)
              \/ TruncateFile(f, "zero") \/ TruncateFile(f, "nonzero")
              \/ SvcPick(f) \/ SvcSkip(f) \/ SvcDelete(f) \/ SvcUpload(f)
              \/ SvcUploaded(f) \/ SvcFailed(f)
              \/ EvictItem(f) \/ deleteItem(f) \/ asyncCacheValid(f)
  <2>1. UNCHANGED <<mount, connected, dirtyCount, hdirty, hst, hpath>>
    BY <1>8 DEF DeleteFile, DeleteFileLocked, DeleteFileFailed, TruncateFile, SvcPick,
         SvcSkip, SvcDelete, SvcUpload, SvcUploaded, SvcFailed, EvictItem,
         deleteItem, asyncCacheValid, locks, handle, env
  <2> QED
    BY <1>0, <2>1, DirtyUnchanged
<1>9. CASE \E s, d \in Files : RenameFile(s, d)
  <2>1. UNCHANGED <<mount, connected, hdirty, hst>> /\ mount.renames # {}
    BY <1>9 DEF RenameFile, env
  <2> QED
    BY <1>0, <2>1 DEF DirtyInv, DirtyCountExact
<1>10. CASE \/ \E S \in SUBSET mount.evictable : EvictMark(S)
            \/ Disconnect \/ Reconnect \/ WindowToggle
  <2>1. UNCHANGED <<mount, dirtyCount, hdirty, hst, hpath>>
    BY <1>10 DEF EvictMark, Disconnect, Reconnect, WindowToggle, locks, handle, env
  <2>2. ~connected' => mount.losses > 0
    BY <1>0, <1>10, LossesPositive DEF EvictMark, Disconnect, Reconnect, WindowToggle, env
  <2> QED
    BY <1>0, <2>1, <2>2, DirtyUnchanged
<1> QED
  BY <1>1, <1>2, <1>3, <1>4, <1>5, <1>6, <1>7, <1>8, <1>9, <1>10 DEF Next

\* LockMapItem.dirtyCount is the number of dirty handles on the name, for any
\* number of files and handles and whatever fails, in every mount that never
\* loses its connection and renames nothing: flushFileCloud that queues an upload
\* offline clears the flag of the handle, and does not count it down.
THEOREM DirtyExact == ASSUME DirtyFits PROVE Spec => []DirtyCountExact
<1>1. Init => DirtyInv
  <2> SUFFICES ASSUME Init PROVE DirtyInv
    OBVIOUS
  <2>1. \A f \in Files : {h \in OpenOn(f) : hdirty[h]} = {} /\ dirtyCount[f] = 0
    BY DEF Init, OpenOn
  <2>2. DirtyCountExact
    BY <2>1, FS_EmptySet DEF DirtyCountExact
  <2>3. connected /\ \A h \in Handles : ~hdirty[h]
    BY DEF Init
  <2> QED
    BY <2>2, <2>3, InitTypeInv DEF DirtyInv
<1>2. DirtyInv /\ [Next]_vars => DirtyInv'
  BY NextDirtyInv
<1>3. DirtyInv => DirtyCountExact
  BY DEF DirtyInv
<1> QED
  BY <1>1, <1>2, <1>3, PTL DEF Spec

-----------------------------------------------------------------------------
(* The contents of files: the inductive invariant                          *)

\* A file is renamed online, between the calls on it; it is made through the mount
\* and stays in the cache until it is renamed or deleted, since no failing refresh
\* and no eviction removes it.
CalmRenames(m) ==
    /\ m.renames # {} => ~m.races /\ m.losses = 0
    /\ m.renames # {} /\ m.refreshSec => "data" \notin m.cloudErrors
    /\ \A r \in m.renames : r[1] \notin m.objects /\ r[1] # r[2]
    /\ \A r \in m.renames : r[1] \notin m.evictable /\ r[2] \notin m.evictable

\* The mounts whose files keep their contents, whatever else happens: a handle is
\* used by one thread at a time, and GetAttr fails only for want of a connection;
\* where uploads may have to wait, in pendingOps, nothing is evicted or refreshed;
\* where the connection may be lost nothing is deleted, or truncated by path; a file
\* that may be evicted is opened by one handle at a time; renames are calm.
CalmMount(m) ==
    /\ CalmRenames(m) /\ ~m.sharedHandles /\ "attr" \notin m.cloudErrors
    /\ m.scheduled \/ m.losses > 0 => ~m.refreshSec /\ m.evictable = {}
    /\ m.losses > 0 => m.deletes = {} /\ m.truncates = {}
    /\ \A f \in m.evictable : \A h, k \in Handles :
          f \in m.mayOpen[h] /\ f \in m.mayOpen[k] => h = k

Calm == \A m \in Mounts : CalmMount(m)

\* The mount may have to queue uploads in pendingOps.
MayQueue == mount.scheduled \/ mount.losses > 0

\* The files that handle h may be on: those it may be opened on, and new names.
Uses(h) == mount.mayOpen[h] \cup {r[2] : r \in mount.renames}

\* The files that may be renamed.
Movable == {r[1] : r \in mount.renames}

\* Handle h is dirty, and its descriptor is the file in the cache directory.
Writer(h, f) == hdirty[h] /\ hfd[h] = f

\* A handle has a descriptor only for the file that its path and its users mean,
\* which is in the cache; a lazy one has none and has written nothing.
HandleBound(h) ==
    /\ hst[h] = "free" => ~hdirty[h] /\ hfd[h] = None /\ ~hlazy[h] /\ target[h] = None
    /\ hst[h] # "free" => hpath[h] \in Uses(h)
    /\ hlazy[h] => ~hdirty[h] /\ hfd[h] = None
    /\ target[h] \in {hpath[h], None}
    /\ hfd[h] # None => hfd[h] = hpath[h] /\ target[h] = hfd[h]
    /\ ~hlazy[h] /\ target[h] # None => hfd[h] = target[h]

HandlesBound == \A h \in Handles : HandleBound(h)

\* A file that is open is in the cache, and not marked as open only lazily.
OpenHere(f) ==
    (\E h \in Handles : hfd[h] = f) => local[f] # NoFile /\ ~lazyOpen[f]

\* An upload has the flock of the file it uploads, and a file has one at a time.
UploadsOwned ==
    /\ \A h \in Handles : upload[h] # NoUpload =>
          upload[h].lock = hpath[h] /\ upload[h].name = hpath[h]
    /\ upload[Service] # NoUpload =>
          /\ svc.name # None
          /\ upload[Service].lock = svc.name /\ upload[Service].name = svc.name
    /\ \A u, v \in Uploaders :
          upload[u].lock # None /\ upload[u].lock = upload[v].lock => u = v

\* What an upload sends is what the file holds, or another handle has written to
\* it since and will write back; nor will it replace the latest contents.
Fresh(u) ==
    upload[u] # NoUpload =>
       /\ upload[u].data # NoFile /\ local[upload[u].name] # NoFile
       /\ upload[u].data = local[upload[u].name]
             \/ \E k \in Handles \ {u} : Writer(k, upload[u].name)
       /\ upload[u].data = want[upload[u].name] \/ cloud[upload[u].name] # want[upload[u].name]

\* A file that differs from its object is queued or has a dirty handle.
Synced(f) ==
    local[f] # NoFile /\ local[f] # cloud[f]
       => pending[f] # "none" \/ \E h \in Handles : Writer(h, f)

\* The latest contents are in the cache, or in the cloud if the cache has none.
Current(f) ==
    /\ local[f] = want[f] \/ local[f] = NoFile
    /\ local[f] = NoFile => cloud[f] = want[f]

\* Something is queued only where uploads may have to wait; and there an object
\* that is not in the cache has neither an entry nor a handle that could make one,
\* so that servicePendingOps deletes nothing.  A file that may be renamed is in the
\* cache, or nowhere.
Settled(f) ==
    /\ f \in Movable /\ local[f] = NoFile => cloud[f] = NoFile
    /\ ~MayQueue => pending[f] = "none"
    /\ pending[f] # "none" /\ local[f] = NoFile => cloud[f] = NoFile
    /\ MayQueue /\ local[f] = NoFile /\ (\E h \in OpenOn(f) : ~hlazy[h])
          => cloud[f] = NoFile

\* The LRU policy gives up only the files that may be evicted.
Evictions(f) ==
    /\ policy[f] = "marked" \/ delItems[f] # "no" \/ deleting = f => f \in mount.evictable
    /\ local[f] # NoFile /\ policy[f] # "cached" => f \in mount.evictable

\* No contents are newer than the last version.
Numbered ==
    /\ \A f \in Files : local[f] <= ver /\ cloud[f] <= ver /\ want[f] <= ver
    /\ \A u \in Uploaders : upload[u].data <= ver

FilesKept ==
    \A f \in Files : OpenHere(f) /\ Synced(f) /\ Current(f) /\ Settled(f) /\ Evictions(f)

DataInv ==
    /\ HandlesBound /\ UploadsOwned /\ Numbered /\ FilesKept
    /\ \A u \in Uploaders : Fresh(u)
    /\ ~connected => mount.losses > 0

-----------------------------------------------------------------------------
(* Frames                                                                  *)

\* What the invariants say of one mount.
LEMMA CalmHere ==
    ASSUME Calm, TypeInv
    PROVE  CalmMount(mount)
  BY DEF Calm, TypeInv, TypeOK, EnvType

\* A handle of a file that may be evicted is its only one.
LEMMA OneHandle ==
    ASSUME Calm, TypeInv, DataInv, NEW f \in mount.evictable, NEW h \in Handles,
           hst[h] # "free" => hpath[h] = f, f \in Uses(h), hfd[h] = None
    PROVE  \A k \in Handles : hfd[k] # f
<1>1. CalmMount(mount)
  BY CalmHere
<1>2. ASSUME NEW k \in Handles, hfd[k] = f, f # None PROVE k = h
  BY <1>1, <1>2 DEF DataInv, HandlesBound, HandleBound, Uses, CalmMount, CalmRenames
<1>3. f # None
  BY ConstantsAssumption DEF TypeInv, TypeOK, EnvType, Mount
<1> QED
  BY <1>2, <1>3

\* The flock of a file is free: nobody uploads it.
LEMMA NotUploaded ==
    ASSUME TypeInv, DataInv, NEW f \in Files, ~Locked(f)
    PROVE  \A u \in Uploaders : upload[u].name # f /\ upload[u].lock # f
<1>1. ASSUME NEW u \in Uploaders PROVE upload[u] = NoUpload \/ upload[u].lock = upload[u].name
  BY DEF DataInv, UploadsOwned, Uploaders
<1>2. NoUpload.name # f /\ NoUpload.lock # f
  BY ConstantsAssumption DEF NoUpload
<1> QED
  BY <1>1, <1>2 DEF Locked

\* A step under the flock of f, or of no file, that uploads nothing.
LEMMA FreshFrame ==
    ASSUME TypeInv, DataInv, UNCHANGED upload, NEW f,
           \A u \in Uploaders : upload[u] # NoUpload => upload[u].name # f /\ upload[u].name \in Files,
           \A g \in Files : g # f =>
              local'[g] = local[g] /\ cloud'[g] = cloud[g] /\ want'[g] = want[g],
           \A k \in Handles : \A g \in Files : g # f /\ Writer(k, g) => Writer(k, g)'
    PROVE  \A u \in Uploaders : Fresh(u)'
<1> SUFFICES ASSUME NEW u \in Uploaders, upload[u] # NoUpload PROVE Fresh(u)'
  BY DEF Fresh
<1>1. PICK g \in Files : g = upload[u].name /\ g # f
  OBVIOUS
<1>2. Fresh(u)
  BY DEF DataInv
<1>3. (\E k \in Handles \ {u} : Writer(k, g)) => \E k \in Handles \ {u} : Writer(k, g)'
  BY <1>1
<1> QED
  BY <1>1, <1>2, <1>3 DEF Fresh

\* Nothing about file f changes.
LEMMA KeptFrame ==
    ASSUME DataInv, NEW f \in Files, UNCHANGED mount,
           local'[f] = local[f], cloud'[f] = cloud[f], want'[f] = want[f],
           pending'[f] = pending[f], lazyOpen'[f] => lazyOpen[f],
           \A k \in Handles : hfd'[k] = f => hfd[k] = f,
           \A k \in Handles : Writer(k, f) => Writer(k, f)',
           \A k \in OpenOn(f)' : ~hlazy'[k] => k \in OpenOn(f) /\ ~hlazy[k]
    PROVE  OpenHere(f)' /\ Synced(f)' /\ Current(f)' /\ Settled(f)'
<1>1. OpenHere(f) /\ Synced(f) /\ Current(f) /\ Settled(f)
  BY DEF DataInv, FilesKept
<1>2. OpenHere(f)'
  BY <1>1 DEF OpenHere
<1>3. Synced(f)' /\ Current(f)'
  BY <1>1 DEF Synced, Current
<1>4. Settled(f)'
  <2>1. MayQueue' <=> MayQueue
    BY DEF MayQueue
  <2> QED
    BY <1>1, <2>1 DEF Settled, Movable
<1> QED
  BY <1>2, <1>3, <1>4

\* The names of uploads are names of files.
LEMMA UploadNames ==
    ASSUME TypeInv, DataInv, NEW u \in Uploaders, upload[u] # NoUpload
    PROVE  /\ upload[u].name \in Files /\ upload[u].lock = upload[u].name
           /\ Locked(upload[u].name)
<1>1. upload[u].lock = upload[u].name
  BY DEF DataInv, UploadsOwned, Uploaders
<1>2. CASE u \in Handles
  BY <1>1, <1>2 DEF DataInv, UploadsOwned, TypeInv, HandlesLinked, Locked
<1>3. CASE u = Service
  BY <1>1, <1>3 DEF DataInv, UploadsOwned, TypeInv, TypeOK, OpsType, Locked
<1> QED
  BY <1>2, <1>3 DEF Uploaders

\* A step that changes no upload keeps them owned.
LEMMA OwnedFrame ==
    ASSUME DataInv, UNCHANGED upload,
           \A h \in Handles : upload[h] # NoUpload => hpath'[h] = hpath[h],
           upload[Service] = NoUpload \/ UNCHANGED svc
    PROVE  UploadsOwned'
  BY DEF DataInv, UploadsOwned

\* A step that changes nothing of a handle but, perhaps, the progress of its call.
LEMMA HandlesFrame ==
    ASSUME DataInv, UNCHANGED <<mount, hpath, hfd, hlazy, hdirty, target>>,
           \A h \in Handles : hst'[h] = "free" <=> hst[h] = "free"
    PROVE  HandlesBound'
<1> SUFFICES ASSUME NEW h \in Handles PROVE HandleBound(h)'
  BY DEF HandlesBound
<1>1. HandleBound(h)
  BY DEF DataInv, HandlesBound
<1> QED
  BY <1>1 DEF HandleBound, Uses

\* A step that writes no contents.
LEMMA NumberedFrame ==
    ASSUME DataInv, UNCHANGED <<local, cloud, want, ver, upload>>
    PROVE  Numbered'
  BY DEF DataInv, Numbered

\* The policy is told of the use of a file.
LEMMA EvictionsUse ==
    ASSUME TypeInv, DataInv, NEW f \in Files, CacheValid(f), UNCHANGED mount,
           \A g \in Files : g # f /\ local'[g] # NoFile => local[g] # NoFile
    PROVE  \A g \in Files : Evictions(g)'
<1>1. /\ UNCHANGED <<delItems, deleting>>
      /\ \A g \in Files : policy'[g] = policy[g] \/ (policy[g] = "absent" /\ policy'[g] = "cached")
      /\ policy'[f] # "absent"
  BY DEF CacheValid, TypeInv, TypeOK, LruType
<1> SUFFICES ASSUME NEW g \in Files PROVE Evictions(g)'
  OBVIOUS
<1>2. Evictions(g)
  BY DEF DataInv, FilesKept
<1>3. policy'[g] \in {"absent", "cached", "marked"}
  BY <1>1 DEF TypeInv, TypeOK, LruType
<1>4. CASE g = f
  BY <1>1, <1>2, <1>3, <1>4 DEF Evictions
<1>5. CASE g # f
  BY <1>1, <1>2, <1>5 DEF Evictions
<1> QED
  BY <1>4, <1>5

\* The policy is told nothing.
LEMMA EvictionsKeep ==
    ASSUME DataInv, UNCHANGED <<mount, lru>>,
           \A g \in Files : local'[g] # NoFile => local[g] # NoFile
    PROVE  \A g \in Files : Evictions(g)'
  BY DEF DataInv, FilesKept, Evictions, lru

-----------------------------------------------------------------------------
(* Steps that touch no contents                                            *)

\* A step of a call, of the service or of the policy that changes no contents, no
\* descriptor, no upload and no entry of pendingOps.
LEMMA QuietStep ==
    ASSUME TypeInv, DataInv,
           UNCHANGED <<mount, local, cloud, want, ver, target, upload, hpath, hfd,
                       hlazy, hdirty, lazyOpen, pending>>,
           \A h \in Handles : hst'[h] = "free" <=> hst[h] = "free",
           upload[Service] = NoUpload \/ UNCHANGED svc,
           \A g \in Files : Evictions(g)',
           ~connected' => mount.losses > 0
    PROVE  DataInv'
<1>1. HandlesBound' /\ UploadsOwned' /\ Numbered'
  BY HandlesFrame, OwnedFrame, NumberedFrame
<1>2. \A u \in Uploaders : Fresh(u)'
  <2>1. \A u \in Uploaders : upload[u] # NoUpload => upload[u].name # None /\ upload[u].name \in Files
    BY UploadNames, ConstantsAssumption
  <2>2. \A k \in Handles : \A g \in Files : g # None /\ Writer(k, g) => Writer(k, g)'
    BY DEF Writer
  <2> QED
    BY <2>1, <2>2, FreshFrame
<1>3. ASSUME NEW f \in Files
      PROVE  OpenHere(f)' /\ Synced(f)' /\ Current(f)' /\ Settled(f)'
  <2>1. \A k \in Handles : Writer(k, f) => Writer(k, f)'
    BY DEF Writer
  <2>2. \A k \in OpenOn(f)' : ~hlazy'[k] => k \in OpenOn(f) /\ ~hlazy[k]
    BY DEF OpenOn
  <2> QED
    BY <2>1, <2>2, KeptFrame
<1> QED
  BY <1>1, <1>2, <1>3 DEF DataInv, FilesKept

\* AddHandle, the first step of a flush or a release, and nothing at all.
LEMMA CallData ==
    ASSUME TypeInv, DataInv, NEW h \in Handles,
           AddHandle(h) \/ FlushFile(h, FALSE) \/ FlushFile(h, TRUE) \/ ReleaseFile(h)
    PROVE  DataInv'
<1>1. /\ UNCHANGED <<mount, local, cloud, want, ver, target, upload, hpath, hfd,
                     hlazy, hdirty, lazyOpen, pending, svc, connected>>
      /\ (CacheValid(hpath[h]) /\ hpath[h] \in Files) \/ UNCHANGED lru
  BY DEF AddHandle, FlushFile, ReleaseFile, disk, locks, ops, env, ghost, TypeInv, HandlesLinked
<1>2. \A k \in Handles : hst'[k] = "free" <=> hst[k] = "free"
  BY DEF AddHandle, FlushFile, ReleaseFile, TypeInv, TypeOK, HandleType
<1>3. \A g \in Files : Evictions(g)'
  BY <1>1, EvictionsUse, EvictionsKeep
<1>4. ~connected' => mount.losses > 0
  BY <1>1 DEF DataInv
<1> QED
  BY <1>1, <1>2, <1>3, <1>4, QuietStep

\* DeleteFile before it locks, when it fails, and the choice of updateObject.
LEMMA QueueData ==
    ASSUME TypeInv, DataInv, NEW f \in Files,
           DeleteFile(f) \/ DeleteFileFailed(f) \/ SvcPick(f)
    PROVE  DataInv'
<1>1. UNCHANGED <<mount, local, cloud, want, ver, target, upload, hpath, hfd, hst,
                  hlazy, hdirty, lazyOpen, pending, connected, lru>>
  BY DEF DeleteFile, DeleteFileFailed, SvcPick, disk, locks, handle, env, ghost
<1>2. upload[Service] = NoUpload \/ UNCHANGED svc
  BY DEF DeleteFile, DeleteFileFailed, SvcPick, Idle, DataInv, UploadsOwned
<1>3. \A g \in Files : Evictions(g)'
  BY <1>1, EvictionsKeep
<1>4. ~connected' => mount.losses > 0
  BY <1>1 DEF DataInv
<1> QED
  BY <1>1, <1>2, <1>3, <1>4, QuietStep

\* The steps of the LRU policy that remove no file.
LEMMA PolicyData ==
    ASSUME TypeInv, DataInv,
           \/ \E S \in SUBSET mount.evictable : EvictMark(S)
           \/ \E f \in Files : EvictItem(f) \/ asyncCacheValid(f)
    PROVE  DataInv'
<1>1. UNCHANGED <<mount, local, cloud, want, ver, target, upload, hpath, hfd, hst,
                  hlazy, hdirty, lazyOpen, pending, connected, svc>>
  BY DEF EvictMark, EvictItem, asyncCacheValid, disk, locks, ops, handle, env, ghost
<1>2. ASSUME NEW g \in Files PROVE Evictions(g)'
  <2>1. Evictions(g) /\ deleting \in Files \cup {None}
    BY DEF DataInv, FilesKept, TypeInv, TypeOK, LruType
  <2>2. CASE \E S \in SUBSET mount.evictable : EvictMark(S)
    BY <1>1, <2>1, <2>2 DEF EvictMark, Evictions, TypeInv, TypeOK, LruType
  <2>3. CASE \E f \in Files : EvictItem(f)
    BY <1>1, <2>1, <2>3 DEF EvictItem, Evictions, DataInv, FilesKept, TypeInv, TypeOK, LruType
  <2>4. CASE \E f \in Files : asyncCacheValid(f)
    BY <1>1, <2>1, <2>4 DEF asyncCacheValid, Evictions, TypeInv, TypeOK, LruType
  <2> QED
    BY <2>2, <2>3, <2>4
<1>3. ~connected' => mount.losses > 0
  BY <1>1 DEF DataInv
<1> QED
  BY <1>1, <1>2, <1>3, QuietStep

\* The connection and the upload windows.
LEMMA EnvData ==
    ASSUME TypeInv, DataInv, Disconnect \/ Reconnect \/ WindowToggle
    PROVE  DataInv'
<1>1. /\ UNCHANGED <<mount, local, cloud, want, ver, target, upload, hpath, hfd, hst,
                     hlazy, hdirty, lazyOpen, pending, svc>>
      /\ UNCHANGED lru
  BY DEF Disconnect, Reconnect, WindowToggle, disk, locks, ops, handle, env, ghost
<1>2. \A g \in Files : Evictions(g)'
  BY <1>1, EvictionsKeep
<1>3. ~connected' => mount.losses > 0
  <2>1. mount.losses \in Nat /\ drops \in 0 .. mount.losses
    BY LossesType DEF TypeInv, TypeOK, EnvType
  <2>2. ~connected => mount.losses > 0
    BY DEF DataInv
  <2> QED
    BY <2>1, <2>2 DEF Disconnect, Reconnect, WindowToggle
<1> QED
  BY <1>1, <1>2, <1>3, QuietStep

-----------------------------------------------------------------------------
(* Uploads                                                                 *)

\* An upload whose file is not touched stays fresh.
LEMMA FreshKept ==
    ASSUME DataInv, NEW u \in Uploaders, upload'[u] = upload[u],
           NEW f, upload[u] # NoUpload => f = upload[u].name,
           local'[f] = local[f], cloud'[f] = cloud[f], want'[f] = want[f],
           \A k \in Handles : Writer(k, f) => Writer(k, f)'
    PROVE  Fresh(u)'
<1> SUFFICES ASSUME upload[u] # NoUpload PROVE Fresh(u)'
  BY DEF Fresh
<1>1. Fresh(u)
  BY DEF DataInv
<1>2. (\E k \in Handles \ {u} : Writer(k, f)) => \E k \in Handles \ {u} : Writer(k, f)'
  OBVIOUS
<1> QED
  BY <1>1, <1>2 DEF Fresh

\* An upload starts, under the flock that is free or that the caller holds.
LEMMA StartUpload ==
    ASSUME TypeInv, DataInv, NEW u \in Uploaders, NEW f \in Files,
           upload[u] = NoUpload, ~Locked(f), local[f] # NoFile,
           upload' = [upload EXCEPT ![u] = [lock |-> f, name |-> f, data |-> local[f]]],
           u \in Handles => hpath[u] = f, u = Service => svc.name = f,
           UNCHANGED <<mount, local, cloud, want, ver, target, hpath, hfd, hst,
                       hlazy, hdirty, lazyOpen, pending, svc, connected>>,
           \A g \in Files : Evictions(g)'
    PROVE  DataInv'
<1>1. /\ upload'[u] = [lock |-> f, name |-> f, data |-> local[f]]
      /\ \A v \in Uploaders \ {u} : upload'[v] = upload[v]
  BY DEF TypeInv, TypeOK, LocksType
<1>2. /\ upload'[u].lock = f /\ upload'[u].name = f /\ upload'[u].data = local[f]
      /\ f # None
  BY <1>1, ConstantsAssumption
<1>3. HandlesBound'
  BY HandlesFrame
<1>4. UploadsOwned'
  <2>1. \A v \in Uploaders : upload[v].lock # f
    BY NotUploaded
  <2>2. /\ \A h \in Handles : upload'[h] # NoUpload =>
              upload'[h].lock = hpath[h] /\ upload'[h].name = hpath[h]
        /\ upload'[Service] # NoUpload => svc.name # None
              /\ upload'[Service].lock = svc.name /\ upload'[Service].name = svc.name
    BY <1>1, <1>2 DEF DataInv, UploadsOwned, Uploaders
  <2>3. \A v, w \in Uploaders :
           upload'[v].lock # None /\ upload'[v].lock = upload'[w].lock => v = w
    BY <1>1, <1>2, <2>1 DEF DataInv, UploadsOwned
  <2> QED
    BY <2>2, <2>3 DEF UploadsOwned
<1>5. Numbered'
  BY <1>1, <1>2 DEF DataInv, Numbered
<1>6. \A g : \A k \in Handles : Writer(k, g) => Writer(k, g)'
  BY DEF Writer
<1>7. ASSUME NEW v \in Uploaders PROVE Fresh(v)'
  <2>1. CASE v = u
    <3>1. local[f] = want[f]
      BY DEF DataInv, FilesKept, Current
    <3> QED
      BY <1>2, <2>1, <3>1 DEF Fresh
  <2>2. CASE v # u
    <3>1. PICK g : g = upload[v].name
      OBVIOUS
    <3> QED
      BY <1>1, <1>6, <2>2, <3>1, FreshKept
  <2> QED
    BY <2>1, <2>2
<1>8. ASSUME NEW g \in Files
      PROVE  OpenHere(g)' /\ Synced(g)' /\ Current(g)' /\ Settled(g)'
  <2>1. \A k \in OpenOn(g)' : ~hlazy'[k] => k \in OpenOn(g) /\ ~hlazy[k]
    BY DEF OpenOn
  <2> QED
    BY <1>6, <2>1, KeptFrame
<1> QED
  BY <1>3, <1>4, <1>5, <1>7, <1>8 DEF DataInv, FilesKept

\* FlushUpload.
LEMMA FlushUploadData ==
    ASSUME TypeInv, CallLocks, DataInv, NEW h \in Handles, FlushUpload(h)
    PROVE  DataInv'
<1>1. PICK f \in Files : f = hpath[h]
  BY DEF FlushUpload, Acquires, TypeInv, HandlesLinked
<1>2. hlk[h] = f /\ ~Locked(f) /\ upload[h] = NoUpload /\ h \in Uploaders /\ h # Service
  BY <1>1, ConstantsAssumption DEF FlushUpload, Acquires, CallLocks, Uploaders
<1>3. UNCHANGED <<mount, local, cloud, want, ver, target, hpath, hfd, hst,
                  hlazy, hdirty, lazyOpen, pending, svc, connected>>
  BY DEF FlushUpload, disk, ops, handle, env, ghost
<1>4. \A g \in Files : Evictions(g)'
  BY <1>1, <1>3, EvictionsUse, EvictionsKeep DEF FlushUpload, UsedOnClose
<1>5. /\ upload' = [upload EXCEPT ![h] = [lock |-> f, name |-> f, data |-> local[f]]]
      /\ local[f] # NoFile
  BY <1>1, <1>2 DEF FlushUpload
<1> QED
  BY <1>1, <1>2, <1>3, <1>4, <1>5, StartUpload

\* SvcUpload.
LEMMA SvcUploadData ==
    ASSUME TypeInv, DataInv, NEW f \in Files, SvcUpload(f)
    PROVE  DataInv'
<1>1. UNCHANGED <<mount, local, cloud, want, ver, target, hpath, hfd, hst,
                  hlazy, hdirty, lazyOpen, pending, svc, connected, lru>>
  BY DEF SvcUpload, disk, ops, handle, env, ghost
<1>2. \A g \in Files : Evictions(g)'
  BY <1>1, EvictionsKeep
<1>3. /\ upload' = [upload EXCEPT ![Service] = [lock |-> f, name |-> f, data |-> local[f]]]
      /\ local[f] # NoFile /\ upload[Service] = NoUpload /\ ~Locked(f) /\ svc.name = f
      /\ Service \in Uploaders /\ Service \notin Handles
  BY ConstantsAssumption DEF SvcUpload, SvcRuns, Uploaders
<1> QED
  BY <1>1, <1>2, <1>3, StartUpload

-----------------------------------------------------------------------------
(* Calls that return                                                       *)

\* A call that returns, for a handle that is then clean if it is closed, leaves
\* the other handles alone and opens nothing.
LEMMA ReturnsFacts ==
    ASSUME TypeInv, DataInv, NEW h \in Handles, hop[h] # "none", UNCHANGED mount,
           Returns(h) \/ ReturnsError(h),
           hdirty' \in [Handles -> BOOLEAN], hdirty'[h] => hdirty[h],
           \A k \in Handles \ {h} : hdirty'[k] = hdirty[k],
           Returns(h) /\ hop[h] = "close" => ~hdirty'[h]
    PROVE  /\ HandlesBound'
           /\ \A k \in Handles \ {h} : hpath'[k] = hpath[k] /\ hfd'[k] = hfd[k]
           /\ hdirty'[h] => hfd'[h] = hfd[h]
           /\ \A f \in Files : lazyOpen'[f] => lazyOpen[f]
           /\ \A f \in Files : \A k \in Handles : hfd'[k] = f => hfd[k] = f
           /\ \A f \in Files : \A k \in OpenOn(f)' : ~hlazy'[k] => k \in OpenOn(f) /\ ~hlazy[k]
<1> USE DEF TypeInv, TypeOK, HandleType, LocksType, GhostType
<1>1. hst[h] = "live" /\ HandleBound(h)
  BY DEF HandlesLinked, DataInv, HandlesBound
<1>2. CASE Returns(h) /\ hop[h] = "close"
  <2>1. CloseHandle(h) /\ ~hdirty'[h]
    BY <1>2 DEF Returns
  <2>2. /\ \A k \in Handles \ {h} : /\ hst'[k] = hst[k] /\ hpath'[k] = hpath[k]
                                    /\ hfd'[k] = hfd[k] /\ hlazy'[k] = hlazy[k]
                                    /\ target'[k] = target[k]
        /\ hst'[h] = "free" /\ hpath'[h] = None /\ hfd'[h] = None /\ ~hlazy'[h] /\ target'[h] = None
    BY <2>1 DEF CloseHandle
  <2>3. \A f \in Files : lazyOpen'[f] => lazyOpen[f]
    BY <2>1 DEF CloseHandle
  <2>4. HandlesBound'
    <3> SUFFICES ASSUME NEW k \in Handles PROVE HandleBound(k)'
      BY DEF HandlesBound
    <3>1. CASE k = h
      BY <2>1, <2>2, <3>1 DEF HandleBound
    <3>2. CASE k # h
      BY <2>2, <3>2 DEF HandleBound, Uses, DataInv, HandlesBound
    <3> QED
      BY <3>1, <3>2
  <2>5. \A f \in Files : \A k \in Handles : hfd'[k] = f => hfd[k] = f
    BY <2>2, ConstantsAssumption
  <2>6. \A f \in Files : \A k \in OpenOn(f)' : ~hlazy'[k] => k \in OpenOn(f) /\ ~hlazy[k]
    BY <2>2 DEF OpenOn
  <2> QED
    BY <2>1, <2>2, <2>3, <2>4, <2>5, <2>6
<1>3. CASE ReturnsError(h) \/ (Returns(h) /\ hop[h] # "close")
  <2>1. UNCHANGED <<lazyOpen, hpath, hfd, hlazy, target>>
    BY <1>3 DEF Returns, ReturnsError
  <2>2. \A k \in Handles : hst'[k] = "free" <=> hst[k] = "free"
    BY <1>1, <1>3 DEF Returns, ReturnsError
  <2>3. HandlesBound'
    <3> SUFFICES ASSUME NEW k \in Handles PROVE HandleBound(k)'
      BY DEF HandlesBound
    <3>1. HandleBound(k) /\ (hdirty'[k] => hdirty[k])
      BY DEF DataInv, HandlesBound
    <3> QED
      BY <2>1, <2>2, <3>1 DEF HandleBound, Uses
  <2>4. \A f \in Files : \A k \in OpenOn(f)' : ~hlazy'[k] => k \in OpenOn(f) /\ ~hlazy[k]
    BY <2>1, <2>2 DEF OpenOn
  <2> QED
    BY <2>1, <2>3, <2>4
<1> QED
  BY <1>2, <1>3

\* A call gives up its upload, if it has one, and the other uploads have other
\* names.
LEMMA DroppedUpload ==
    ASSUME TypeInv, DataInv, NEW u \in Uploaders, NEW f \in Files,
           upload' = [upload EXCEPT ![u] = NoUpload],
           upload[u] # NoUpload => upload[u].lock = f,
           upload[u] = NoUpload => ~Locked(f),
           \A k \in Handles : k # u /\ upload[k] # NoUpload => hpath'[k] = hpath[k],
           u = Service \/ UNCHANGED svc
    PROVE  /\ UploadsOwned'
           /\ \A v \in Uploaders \ {u} :
                 upload'[v] = upload[v] /\ (upload[v] # NoUpload => upload[v].name # f)
           /\ upload'[u] = NoUpload
           /\ \A v \in Uploaders : upload'[v].data = NoFile \/ upload'[v] = upload[v]
<1>1. /\ upload'[u] = NoUpload
      /\ \A v \in Uploaders \ {u} : upload'[v] = upload[v]
  BY DEF TypeInv, TypeOK, LocksType
<1>2. ASSUME NEW v \in Uploaders \ {u}, upload[v] # NoUpload PROVE upload[v].name # f
  <2>1. upload[v].lock = upload[v].name /\ upload[v].name \in Files
    BY <1>2, UploadNames
  <2>2. CASE upload[u] # NoUpload
    BY <2>1, <2>2, ConstantsAssumption DEF DataInv, UploadsOwned
  <2>3. CASE upload[u] = NoUpload
    BY <2>1, <2>3 DEF Locked
  <2> QED
    BY <2>2, <2>3
<1>3. UploadsOwned'
  <2>1. NoUpload.lock = None
    BY DEF NoUpload
  <2>2. \A v, w \in Uploaders :
           upload'[v].lock # None /\ upload'[v].lock = upload'[w].lock => v = w
    BY <1>1, <2>1 DEF DataInv, UploadsOwned
  <2>3. \A k \in Handles : upload'[k] # NoUpload =>
           upload'[k].lock = hpath'[k] /\ upload'[k].name = hpath'[k]
    BY <1>1 DEF DataInv, UploadsOwned, Uploaders
  <2>4. upload'[Service] # NoUpload => svc'.name # None
              /\ upload'[Service].lock = svc'.name /\ upload'[Service].name = svc'.name
    BY <1>1 DEF DataInv, UploadsOwned, Uploaders
  <2> QED
    BY <2>2, <2>3, <2>4 DEF UploadsOwned
<1> QED
  BY <1>1, <1>2, <1>3 DEF NoUpload

\* A call returns without having changed the cloud: it wrote nothing back, and if
\* its handle is no longer dirty its file is queued.
LEMMA ReturnData ==
    ASSUME TypeInv, DataInv, NEW h \in Handles, NEW f \in Files, f = hpath[h],
           hop[h] # "none", Returns(h) \/ ReturnsError(h),
           UNCHANGED <<mount, connected, local, cloud, want, ver, svc>>,
           upload' = [upload EXCEPT ![h] = NoUpload],
           upload[h] = NoUpload => ~Locked(f),
           hdirty' \in [Handles -> BOOLEAN], hdirty'[h] => hdirty[h],
           \A k \in Handles \ {h} : hdirty'[k] = hdirty[k],
           Returns(h) /\ hop[h] = "close" => ~hdirty'[h],
           \A g \in Files \ {f} : pending'[g] = pending[g],
           pending'[f] = "none" => pending[f] = "none" /\ (hdirty[h] => hdirty'[h]),
           pending[f] = "none" /\ pending'[f] # "none" =>
              MayQueue /\ (local[f] = NoFile => cloud[f] = NoFile),
           \A g \in Files : Evictions(g)'
    PROVE  DataInv'
<1>1. /\ HandlesBound'
      /\ \A k \in Handles \ {h} : hpath'[k] = hpath[k] /\ hfd'[k] = hfd[k]
      /\ hdirty'[h] => hfd'[h] = hfd[h]
      /\ \A g \in Files : lazyOpen'[g] => lazyOpen[g]
      /\ \A g \in Files : \A k \in Handles : hfd'[k] = g => hfd[k] = g
      /\ \A g \in Files : \A k \in OpenOn(g)' : ~hlazy'[k] => k \in OpenOn(g) /\ ~hlazy[k]
  BY ReturnsFacts
<1>2. h \in Uploaders /\ h # Service /\ (upload[h] # NoUpload => upload[h].lock = f)
  BY ConstantsAssumption DEF Uploaders, DataInv, UploadsOwned
<1>3. /\ UploadsOwned'
      /\ \A v \in Uploaders \ {h} :
            upload'[v] = upload[v] /\ (upload[v] # NoUpload => upload[v].name # f)
      /\ upload'[h] = NoUpload
      /\ \A v \in Uploaders : upload'[v].data = NoFile \/ upload'[v] = upload[v]
  <2>1. \A k \in Handles : k # h /\ upload[k] # NoUpload => hpath'[k] = hpath[k]
    BY <1>1, <1>2
  <2> QED
    BY <1>2, <2>1, DroppedUpload
<1>4. \A g \in Files : g # f => \A k \in Handles : Writer(k, g) => Writer(k, g)'
  <2>1. \A g \in Files : g # f => ~Writer(h, g)
    BY ConstantsAssumption DEF Writer, DataInv, HandlesBound, HandleBound
  <2> QED
    BY <1>1, <2>1 DEF Writer
<1>5. ASSUME NEW v \in Uploaders PROVE Fresh(v)'
  <2>1. CASE v = h
    BY <1>3, <2>1 DEF Fresh
  <2>2. CASE v # h /\ upload[v] = NoUpload
    BY <1>3, <2>2 DEF Fresh
  <2>3. CASE v # h /\ upload[v] # NoUpload
    <3>1. PICK g \in Files : g = upload[v].name
      BY <2>3, UploadNames
    <3>2. g # f /\ upload'[v] = upload[v]
      BY <1>3, <2>3, <3>1
    <3> QED
      BY <1>4, <3>1, <3>2, FreshKept
  <2> QED
    BY <2>1, <2>2, <2>3
<1>6. Numbered'
  <2>1. \A v \in Uploaders : upload'[v].data <= ver'
    <3>1. ver \in Nat /\ NoFile <= ver
      BY ConstantsAssumption DEF TypeInv, TypeOK, GhostType, NoFile
    <3>2. \A v \in Uploaders : upload[v].data <= ver
      BY DEF DataInv, Numbered
    <3> QED
      BY <1>3, <3>1, <3>2
  <2> QED
    BY <2>1 DEF DataInv, Numbered
<1>7. ASSUME NEW g \in Files
      PROVE  OpenHere(g)' /\ Synced(g)' /\ Current(g)' /\ Settled(g)'
  <2>1. CASE g # f \/ pending'[f] = "none"
    <3>1. pending'[g] = pending[g]
      BY <2>1
    <3>2. \A k \in Handles : Writer(k, g) => Writer(k, g)'
      <4>1. CASE g # f
        BY <1>4, <4>1
      <4>2. CASE g = f
        BY <1>1, <2>1, <4>2 DEF Writer
      <4> QED
        BY <4>1, <4>2
    <3> QED
      BY <1>1, <3>1, <3>2, KeptFrame
  <2>2. CASE g = f /\ pending'[f] # "none"
    <3>1. OpenHere(f) /\ Current(f) /\ Settled(f)
      BY DEF DataInv, FilesKept
    <3>2. OpenHere(f)'
      BY <1>1, <3>1 DEF OpenHere
    <3>3. Synced(f)' /\ Current(f)'
      BY <2>2, <3>1 DEF Synced, Current
    <3>4. Settled(f)'
      <4>1. MayQueue' <=> MayQueue
        BY DEF MayQueue
      <4>2. MayQueue
        BY <2>2, <3>1 DEF Settled
      <4>3. local[f] = NoFile => cloud[f] = NoFile
        BY <2>2, <3>1 DEF Settled
      <4> QED
        BY <4>1, <4>2, <4>3 DEF Settled
    <3> QED
      BY <2>2, <3>2, <3>3, <3>4
  <2> QED
    BY <2>1, <2>2
<1> QED
  BY <1>1, <1>3, <1>5, <1>6, <1>7 DEF DataInv, FilesKept

\* The steps of a flush or a release that do not reach the cloud.
LEMMA FlushReturnData ==
    ASSUME Calm, TypeInv, CallLocks, DataInv, NEW h \in Handles,
           \/ FlushClean(h) \/ FlushDeferred(h) \/ FlushNoFile(h)
           \/ FlushOffline(h) \/ FlushFailed(h)
    PROVE  DataInv'
<1>1. hop[h] # "none" /\ hst[h] = "live"
  BY DEF TypeInv, HandlesLinked, Acquires, FlushClean, FlushDeferred, FlushNoFile,
         FlushOffline, FlushFailed
<1>2. PICK f \in Files : f = hpath[h] /\ hlk[h] = f
  BY <1>1 DEF TypeInv, HandlesLinked, CallLocks
<1>3. h \in Uploaders
  BY DEF Uploaders
<1>4. hdirty \in [Handles -> BOOLEAN] /\ pending \in [Files -> {"none", "upload", "deletion"}]
      /\ upload[h] \in [lock : Files \cup {None}, name : Files \cup {None}, data : Content]
  BY <1>3 DEF TypeInv, TypeOK, HandleType, OpsType, LocksType
<1>5. UNCHANGED <<mount, connected, local, cloud, want, ver, svc>>
  BY DEF FlushClean, FlushDeferred, FlushNoFile, FlushOffline, FlushFailed, disk, ops, env
<1>6. \A g \in Files : Evictions(g)'
  <2>1. CacheValid(f) \/ UNCHANGED lru
    BY <1>2 DEF FlushClean, FlushDeferred, FlushNoFile, FlushOffline, FlushFailed, UsedOnClose
  <2> QED
    BY <1>5, <2>1, EvictionsUse, EvictionsKeep
<1>7. upload' = [upload EXCEPT ![h] = NoUpload]
  BY <1>3 DEF FlushClean, FlushDeferred, FlushNoFile, FlushOffline, FlushFailed, Acquires,
              TypeInv, TypeOK, LocksType
<1>8. ASSUME upload[h] = NoUpload PROVE ~Locked(f)
  BY <1>2, <1>8 DEF FlushClean, FlushDeferred, FlushNoFile, FlushOffline, FlushFailed, Acquires
<1>9. CASE FlushClean(h)
  <2>1. UNCHANGED <<hdirty, pending>> /\ ~hdirty[h] /\ Returns(h)
    BY <1>9 DEF FlushClean, ops
  <2> QED
    BY <1>1, <1>2, <1>4, <1>5, <1>6, <1>7, <1>8, <2>1, ReturnData
<1>10. CASE FlushNoFile(h) \/ FlushFailed(h)
  <2>1. UNCHANGED <<hdirty, pending>> /\ ReturnsError(h)
    BY <1>10 DEF FlushNoFile, FlushFailed, ops
  <2>2. ~(Returns(h) /\ hop[h] = "close")
    BY <1>1, <2>1 DEF Returns, ReturnsError, CloseHandle, TypeInv, TypeOK, HandleType
  <2> QED
    BY <1>1, <1>2, <1>4, <1>5, <1>6, <1>7, <1>8, <2>1, <2>2, ReturnData
<1>11. CASE FlushDeferred(h)
  <2>1. Returns(h) /\ pending' = [pending EXCEPT ![f] = "upload"] /\ hdirty[h]
        /\ hdirty' = [hdirty EXCEPT ![h] = FALSE]
    BY <1>2, <1>11 DEF FlushDeferred, clearHandleDirty
  <2>2. MayQueue
    BY <1>11 DEF FlushDeferred, WindowActive, MayQueue
  <2>3. local[f] = NoFile => cloud[f] = NoFile
    <3>1. h \in OpenOn(f) /\ ~hlazy[h]
      BY <1>1, <1>2, <2>1 DEF OpenOn, DataInv, HandlesBound, HandleBound
    <3> QED
      BY <2>2, <3>1 DEF DataInv, FilesKept, Settled
  <2>4. /\ hdirty' \in [Handles -> BOOLEAN] /\ ~hdirty'[h] /\ pending'[f] = "upload"
        /\ \A k \in Handles \ {h} : hdirty'[k] = hdirty[k]
        /\ \A g \in Files \ {f} : pending'[g] = pending[g]
    BY <1>4, <2>1
  <2> QED
    BY <1>1, <1>2, <1>5, <1>6, <1>7, <1>8, <2>1, <2>2, <2>3, <2>4, ReturnData
<1>12. CASE FlushOffline(h)
  <2>1. MayQueue
    BY <1>12 DEF FlushOffline, MayQueue, DataInv
  <2>2. local[f] # NoFile
    BY <1>2, <1>3, <1>12 DEF FlushOffline, DataInv, Fresh, UploadsOwned
  <2>3. CASE mount.offlineAccess
    <3>1. Returns(h) /\ pending' = [pending EXCEPT ![f] = "upload"]
          /\ hdirty' = [hdirty EXCEPT ![h] = @ /\ hop[h] # "close"]
      BY <1>2, <1>12, <2>3 DEF FlushOffline
    <3>2. /\ hdirty' \in [Handles -> BOOLEAN] /\ (hdirty'[h] => hdirty[h] /\ hop[h] # "close")
          /\ pending'[f] = "upload"
          /\ \A k \in Handles \ {h} : hdirty'[k] = hdirty[k]
          /\ \A g \in Files \ {f} : pending'[g] = pending[g]
      BY <1>4, <3>1
    <3> QED
      BY <1>1, <1>2, <1>5, <1>6, <1>7, <1>8, <2>1, <2>2, <3>1, <3>2, ReturnData
  <2>4. CASE ~mount.offlineAccess
    <3>1. UNCHANGED <<hdirty, pending>> /\ ReturnsError(h)
      BY <1>12, <2>4 DEF FlushOffline
    <3>2. ~(Returns(h) /\ hop[h] = "close")
      BY <1>1, <3>1 DEF Returns, ReturnsError, CloseHandle, TypeInv, TypeOK, HandleType
    <3> QED
      BY <1>1, <1>2, <1>4, <1>5, <1>6, <1>7, <1>8, <3>1, <3>2, ReturnData
  <2> QED
    BY <2>3, <2>4
<1> QED
  BY <1>9, <1>10, <1>11, <1>12

\* An upload has succeeded: the object is what the file was when it began.
LEMMA UploadDone ==
    ASSUME TypeInv, DataInv, NEW u \in Uploaders, NEW f \in Files,
           upload[u] # NoUpload, upload[u].name = f,
           cloud' = [cloud EXCEPT ![f] = upload[u].data],
           upload' = [upload EXCEPT ![u] = NoUpload],
           pending' = [pending EXCEPT ![f] = "none"],
           UNCHANGED <<mount, connected, local, want, ver, lru>>,
           UploadsOwned', HandlesBound',
           \A k \in Handles \ {u} : hdirty'[k] = hdirty[k] /\ hfd'[k] = hfd[k],
           u \in Handles => hpath[u] = f,
           \A g \in Files : lazyOpen'[g] => lazyOpen[g],
           \A g \in Files : \A k \in Handles : hfd'[k] = g => hfd[k] = g,
           \A g \in Files : \A k \in OpenOn(g)' : ~hlazy'[k] => k \in OpenOn(g) /\ ~hlazy[k]
    PROVE  DataInv'
<1>1. /\ upload'[u] = NoUpload
      /\ \A v \in Uploaders \ {u} : upload'[v] = upload[v]
  BY DEF TypeInv, TypeOK, LocksType
<1>2. /\ cloud'[f] = upload[u].data /\ pending'[f] = "none"
      /\ \A g \in Files \ {f} : cloud'[g] = cloud[g] /\ pending'[g] = pending[g]
  BY DEF TypeInv, TypeOK, DiskType, OpsType
<1>3. \A g \in Files : g # f => \A k \in Handles : Writer(k, g) => Writer(k, g)'
  <2>1. \A g \in Files : g # f => \A k \in Handles : Writer(k, g) => k # u
    BY ConstantsAssumption DEF Writer, DataInv, HandlesBound, HandleBound
  <2> QED
    BY <2>1 DEF Writer
<1>4. ASSUME NEW v \in Uploaders PROVE Fresh(v)'
  <2>1. CASE v = u
    BY <1>1, <2>1 DEF Fresh
  <2>2. CASE v # u /\ upload[v] = NoUpload
    BY <1>1, <2>2 DEF Fresh
  <2>3. CASE v # u /\ upload[v] # NoUpload
    <3>1. PICK g \in Files : g = upload[v].name
      BY <2>3, UploadNames
    <3>2. g # f
      BY <2>3, <3>1, UploadNames, ConstantsAssumption DEF DataInv, UploadsOwned
    <3> QED
      BY <1>1, <1>2, <1>3, <2>3, <3>1, <3>2, FreshKept
  <2> QED
    BY <2>1, <2>2, <2>3
<1>5. Numbered'
  <2>1. ver \in Nat /\ NoFile <= ver /\ NoUpload.data = NoFile
    BY ConstantsAssumption DEF TypeInv, TypeOK, GhostType, NoFile, NoUpload
  <2>2. \A v \in Uploaders : upload'[v].data <= ver
    BY <1>1, <2>1 DEF DataInv, Numbered
  <2>3. \A g \in Files : cloud'[g] <= ver
    BY <1>2 DEF DataInv, Numbered
  <2> QED
    BY <2>2, <2>3 DEF DataInv, Numbered
<1>6. ASSUME NEW g \in Files
      PROVE  OpenHere(g)' /\ Synced(g)' /\ Current(g)' /\ Settled(g)'
  <2>1. CASE g # f
    BY <1>2, <1>3, <2>1, KeptFrame
  <2>2. CASE g = f
    <3>1. OpenHere(f) /\ Current(f) /\ Fresh(u)
      BY DEF DataInv, FilesKept
    <3>2. local[f] # NoFile
      BY <3>1 DEF Fresh
    <3>3. OpenHere(f)' /\ Current(f)' /\ Settled(f)'
      BY <1>2, <3>1, <3>2 DEF OpenHere, Current, Settled
    <3>4. Synced(f)'
      <4>1. \A k \in Handles \ {u} : Writer(k, f) => Writer(k, f)'
        BY DEF Writer
      <4>2. cloud'[f] = local[f] \/ \E k \in Handles \ {u} : Writer(k, f)
        BY <1>2, <3>1 DEF Fresh
      <4> QED
        BY <4>1, <4>2 DEF Synced
    <3> QED
      BY <2>2, <3>3, <3>4
  <2> QED
    BY <2>1, <2>2
<1>7. \A g \in Files : Evictions(g)'
  BY EvictionsKeep
<1> QED
  BY <1>4, <1>5, <1>6, <1>7 DEF DataInv, FilesKept

\* FlushUploaded.
LEMMA FlushUploadedData ==
    ASSUME TypeInv, CallLocks, DataInv, NEW h \in Handles, FlushUploaded(h)
    PROVE  DataInv'
<1>1. hop[h] # "none" /\ upload[h] # NoUpload /\ h \in Uploaders /\ Returns(h)
  BY DEF FlushUploaded, TypeInv, HandlesLinked, Uploaders
<1>2. PICK f \in Files : f = hpath[h] /\ upload[h].name = f /\ upload[h].lock = f
  BY <1>1 DEF TypeInv, HandlesLinked, DataInv, UploadsOwned
<1>3. UNCHANGED <<mount, connected, local, want, ver, lru, svc>>
  BY DEF FlushUploaded, env
<1>4. /\ cloud' = [cloud EXCEPT ![f] = upload[h].data]
      /\ upload' = [upload EXCEPT ![h] = NoUpload]
      /\ pending' = [pending EXCEPT ![f] = "none"]
      /\ hdirty' = [hdirty EXCEPT ![h] = FALSE]
  BY <1>2 DEF FlushUploaded, clearHandleDirty
<1>5. /\ hdirty' \in [Handles -> BOOLEAN] /\ ~hdirty'[h]
      /\ \A k \in Handles \ {h} : hdirty'[k] = hdirty[k]
  BY <1>4 DEF TypeInv, TypeOK, HandleType
<1>6. /\ HandlesBound'
      /\ \A k \in Handles \ {h} : hpath'[k] = hpath[k] /\ hfd'[k] = hfd[k]
      /\ \A g \in Files : lazyOpen'[g] => lazyOpen[g]
      /\ \A g \in Files : \A k \in Handles : hfd'[k] = g => hfd[k] = g
      /\ \A g \in Files : \A k \in OpenOn(g)' : ~hlazy'[k] => k \in OpenOn(g) /\ ~hlazy[k]
  BY <1>1, <1>3, <1>5, ReturnsFacts
<1>7. UploadsOwned'
  <2>1. \A k \in Handles : k # h /\ upload[k] # NoUpload => hpath'[k] = hpath[k]
    BY <1>6
  <2> QED
    BY <1>1, <1>2, <1>3, <1>4, <2>1, DroppedUpload
<1> QED
  BY <1>1, <1>2, <1>3, <1>4, <1>5, <1>6, <1>7, UploadDone

\* SvcUploaded.
LEMMA SvcUploadedData ==
    ASSUME TypeInv, DataInv, NEW f \in Files, SvcUploaded(f)
    PROVE  DataInv'
<1>1. Service \in Uploaders /\ Service \notin Handles /\ upload[Service].name = f
  BY ConstantsAssumption DEF Uploaders, SvcUploaded
<1>2. upload[Service] # NoUpload
  BY <1>1, ConstantsAssumption DEF NoUpload
<1>3. upload[Service].lock = f
  BY <1>1, <1>2 DEF DataInv, UploadsOwned
<1>4. UNCHANGED <<mount, connected, local, want, ver, lru, hst, hpath, hfd, hlazy, hdirty,
                  target, lazyOpen>>
  BY DEF SvcUploaded, handle, env, ghost
<1>5. /\ cloud' = [cloud EXCEPT ![f] = upload[Service].data]
      /\ upload' = [upload EXCEPT ![Service] = NoUpload]
      /\ pending' = [pending EXCEPT ![f] = "none"]
  BY DEF SvcUploaded
<1>6. HandlesBound'
  BY <1>4, HandlesFrame
<1>7. UploadsOwned'
  BY <1>1, <1>2, <1>3, <1>4, <1>5, DroppedUpload
<1>8. \A g \in Files : \A k \in OpenOn(g)' : ~hlazy'[k] => k \in OpenOn(g) /\ ~hlazy[k]
  BY <1>4 DEF OpenOn
<1> QED
  BY <1>1, <1>2, <1>4, <1>5, <1>6, <1>7, <1>8, UploadDone

-----------------------------------------------------------------------------
(* The service                                                             *)

\* updateObject deletes nothing in a calm mount: an entry of a file that is not in
\* the cache has no object.
LEMMA NoSvcDelete ==
    ASSUME DataInv, NEW f \in Files
    PROVE  ~SvcDelete(f)
  BY DEF DataInv, FilesKept, Settled, SvcDelete

\* updateObject ends without an upload: it had nothing to do, or it failed.
LEMMA SvcEndData ==
    ASSUME TypeInv, DataInv, NEW f \in Files, SvcSkip(f) \/ SvcFailed(f)
    PROVE  DataInv'
<1>1. UNCHANGED <<mount, connected, local, cloud, want, ver, lru, hst, hpath, hfd, hlazy,
                  hdirty, target, lazyOpen>>
  BY DEF SvcSkip, SvcFailed, disk, locks, handle, env, ghost
<1>2. Service \in Uploaders /\ Service \notin Handles
  BY ConstantsAssumption DEF Uploaders
<1>3. upload' = [upload EXCEPT ![Service] = NoUpload]
  BY <1>2 DEF SvcSkip, SvcFailed, SvcRuns, locks, TypeInv, TypeOK, LocksType
<1>4. /\ \A g \in Files \ {f} : pending'[g] = pending[g]
      /\ pending'[f] = pending[f] \/ (pending'[f] = "none" /\ local[f] = NoFile)
  BY DEF SvcSkip, SvcFailed, TypeInv, TypeOK, OpsType
<1>5. upload'[Service] = NoUpload /\ \A v \in Uploaders \ {Service} : upload'[v] = upload[v]
  BY <1>2, <1>3 DEF TypeInv, TypeOK, LocksType
<1>6. HandlesBound'
  BY <1>1, HandlesFrame
<1>7. UploadsOwned'
  <2>1. NoUpload.lock = None
    BY DEF NoUpload
  <2>2. \A v, w \in Uploaders :
           upload'[v].lock # None /\ upload'[v].lock = upload'[w].lock => v = w
    BY <1>5, <2>1 DEF DataInv, UploadsOwned
  <2>3. \A k \in Handles : upload'[k] # NoUpload =>
           upload'[k].lock = hpath'[k] /\ upload'[k].name = hpath'[k]
    BY <1>1, <1>2, <1>5 DEF DataInv, UploadsOwned, Uploaders
  <2> QED
    BY <1>5, <2>2, <2>3 DEF UploadsOwned
<1>8. Numbered'
  <2>1. ver \in Nat /\ NoFile <= ver /\ NoUpload.data = NoFile
    BY ConstantsAssumption DEF TypeInv, TypeOK, GhostType, NoFile, NoUpload
  <2>2. \A v \in Uploaders : upload'[v].data <= ver
    BY <1>5, <2>1 DEF DataInv, Numbered
  <2> QED
    BY <1>1, <2>2 DEF DataInv, Numbered
<1>9. \A g : \A k \in Handles : Writer(k, g) => Writer(k, g)'
  BY <1>1 DEF Writer
<1>10. ASSUME NEW v \in Uploaders PROVE Fresh(v)'
  <2>1. CASE v = Service
    BY <1>5, <2>1 DEF Fresh
  <2>2. CASE v # Service
    <3>1. PICK g : g = upload[v].name
      OBVIOUS
    <3> QED
      BY <1>1, <1>5, <1>9, <2>2, <3>1, FreshKept
  <2> QED
    BY <2>1, <2>2
<1>11. ASSUME NEW g \in Files
       PROVE  OpenHere(g)' /\ Synced(g)' /\ Current(g)' /\ Settled(g)'
  <2>1. \A k \in OpenOn(g)' : ~hlazy'[k] => k \in OpenOn(g) /\ ~hlazy[k]
    BY <1>1 DEF OpenOn
  <2>2. CASE pending'[g] = pending[g]
    BY <1>1, <1>9, <2>1, <2>2, KeptFrame
  <2>3. CASE g = f /\ pending'[f] = "none" /\ local[f] = NoFile
    <3>1. OpenHere(f) /\ Current(f) /\ Settled(f)
      BY DEF DataInv, FilesKept
    <3>2. MayQueue' <=> MayQueue
      BY <1>1 DEF MayQueue
    <3> QED
      BY <1>1, <2>1, <2>3, <3>1, <3>2 DEF OpenHere, Synced, Current, Settled, Movable
  <2> QED
    BY <1>4, <2>2, <2>3
<1>12. \A g \in Files : Evictions(g)'
  BY <1>1, EvictionsKeep
<1>13. ~connected' => mount'.losses > 0
  BY <1>1 DEF DataInv
<1> QED
  BY <1>6, <1>7, <1>8, <1>10, <1>11, <1>12, <1>13 DEF DataInv, FilesKept

-----------------------------------------------------------------------------
(* Steps under the flock of one file                                       *)

\* A step that holds the flock of f and touches no other file.
LEMMA FileStep ==
    ASSUME TypeInv, TypeInv', DataInv, NEW f \in Files, ~Locked(f),
           UNCHANGED <<mount, connected, upload, svc>>, ver <= ver',
           local'[f] <= ver', cloud'[f] <= ver', want'[f] <= ver',
           \A g \in Files : g # f =>
              /\ local'[g] = local[g] /\ cloud'[g] = cloud[g] /\ want'[g] = want[g]
              /\ pending'[g] = pending[g] /\ (lazyOpen'[g] => lazyOpen[g]),
           \A g \in Files : g # f => \A k \in Handles : hfd'[k] = g => hfd[k] = g,
           \A g \in Files : g # f => \A k \in Handles : Writer(k, g) => Writer(k, g)',
           \A g \in Files : g # f =>
              \A k \in OpenOn(g)' : ~hlazy'[k] => k \in OpenOn(g) /\ ~hlazy[k],
           \A k \in Handles : upload[k] # NoUpload => hpath'[k] = hpath[k],
           HandlesBound', \A g \in Files : Evictions(g)',
           OpenHere(f)', Synced(f)', Current(f)', Settled(f)'
    PROVE  DataInv'
<1>1. UploadsOwned'
  BY OwnedFrame
<1>2. \A u \in Uploaders : Fresh(u)'
  <2>1. \A u \in Uploaders : upload[u] # NoUpload => upload[u].name # f /\ upload[u].name \in Files
    BY UploadNames, NotUploaded
  <2> QED
    BY <2>1, FreshFrame
<1>3. Numbered'
  <2>1. ver \in Nat /\ ver' \in Nat
    BY ConstantsAssumption DEF TypeInv, TypeOK, GhostType
  <2>2. \A g \in Files : local[g] \in Int /\ cloud[g] \in Int /\ want[g] \in Int
    BY ConstantsAssumption DEF TypeInv, TypeOK, DiskType, GhostType, Content, NoFile
  <2>3. \A u \in Uploaders : upload[u].data \in Int
    BY ConstantsAssumption DEF TypeInv, TypeOK, LocksType, Content, NoFile
  <2>4. \A g \in Files : local'[g] <= ver' /\ cloud'[g] <= ver' /\ want'[g] <= ver'
    BY <2>1, <2>2 DEF DataInv, Numbered
  <2>5. \A u \in Uploaders : upload'[u].data <= ver'
    BY <2>1, <2>3 DEF DataInv, Numbered
  <2> QED
    BY <2>4, <2>5 DEF Numbered
<1>4. ASSUME NEW g \in Files, g # f
      PROVE  OpenHere(g)' /\ Synced(g)' /\ Current(g)' /\ Settled(g)'
  BY <1>4, KeptFrame
<1>5. ~connected' => mount'.losses > 0
  BY DEF DataInv
<1> QED
  BY <1>1, <1>2, <1>3, <1>4, <1>5 DEF DataInv, FilesKept

\* A handle that has no upload under way may get another path.
LEMMA IdleHandle ==
    ASSUME TypeInv, NEW h \in Handles, hst[h] = "free"
    PROVE  upload[h] = NoUpload /\ hop[h] = "none"
  BY DEF TypeInv, HandlesLinked, TypeOK, HandleType

-----------------------------------------------------------------------------
(* Opening                                                                 *)

\* When a file is not cached, or is to be refreshed, nobody has it open other
\* than lazily, and the cloud has its latest contents.
LEMMA NobodyHere ==
    ASSUME Calm, TypeInv, HandleCountExact, DataInv, NEW h \in Handles, NEW f \in Files,
           f \in Uses(h), hst[h] # "free" => hpath[h] = f, hfd[h] = None,
           NEW refresh \in Refreshes(f), ~IsCached(f) \/ refresh
    PROVE  /\ \A k \in Handles : hfd[k] # f
           /\ cloud[f] = want[f]
           /\ local[f] = NoFile \/ ~MayQueue
<1>1. OpenHere(f) /\ Synced(f) /\ Current(f) /\ Settled(f) /\ Evictions(f) /\ CalmMount(mount)
  BY CalmHere DEF DataInv, FilesKept
<1>2. CASE local[f] = NoFile
  BY <1>1, <1>2 DEF OpenHere, Current
<1>3. CASE local[f] # NoFile /\ policy[f] # "cached"
  <2>1. f \in mount.evictable
    BY <1>1, <1>3 DEF Evictions
  <2>2. \A k \in Handles : hfd[k] # f
    BY <2>1, OneHandle
  <2>3. ~MayQueue
    BY <1>1, <2>1 DEF CalmMount, MayQueue
  <2>4. cloud[f] = want[f]
    BY <1>1, <1>3, <2>2, <2>3 DEF Settled, Synced, Current, Writer
  <2> QED
    BY <2>2, <2>3, <2>4
<1>4. CASE IsCached(f) /\ refresh
  <2>1. mount.refreshSec /\ (count[f] = 0 \/ lazyOpen[f])
    BY <1>4 DEF Refreshes
  <2>2. \A k \in Handles : hfd[k] # f
    <3>1. CASE count[f] = 0
      <4>1. OpenOn(f) = {}
        BY <3>1, OpenOnFinite, FS_EmptySet DEF HandleCountExact
      <4> QED
        BY <4>1, ConstantsAssumption DEF OpenOn, DataInv, HandlesBound, HandleBound
    <3>2. CASE lazyOpen[f]
      BY <1>1, <3>2 DEF OpenHere
    <3> QED
      BY <2>1, <3>1, <3>2
  <2>3. ~MayQueue
    BY <1>1, <2>1 DEF CalmMount, MayQueue
  <2>4. cloud[f] = want[f]
    BY <1>1, <1>4, <2>2, <2>3 DEF Settled, Synced, Current, Writer, IsCached
  <2> QED
    BY <2>2, <2>3, <2>4
<1> QED
  BY <1>2, <1>3, <1>4 DEF IsCached

\* Without errors on attributes they are there whenever the cloud is.
LEMMA AttrsThere ==
    ASSUME Calm, TypeInv, NEW noAttr \in AttrErrors, connected
    PROVE  ~noAttr
<1>1. "attr" \notin mount.cloudErrors
  BY CalmHere DEF CalmMount
<1> QED
  BY <1>1 DEF AttrErrors

\* What an open that completes does to the cached file: it keeps it, empties it on
\* request, or makes it the latest contents.
LEMMA OpenedContents ==
    ASSUME Calm, TypeInv, HandleCountExact, DataInv, NEW h \in Handles, NEW f \in Files,
           f \in Uses(h), hst[h] # "free" => hpath[h] = f, hfd[h] = None,
           NEW trunc \in BOOLEAN, NEW noAttr \in AttrErrors, NEW refresh \in Refreshes(f),
           OpenCompleted(h, f, trunc, noAttr, refresh)
    PROVE  /\ \A g \in Files : g # f => local'[g] = local[g]
           /\ local'[f] # NoFile
           /\ trunc => local'[f] = Empty
           /\ ~trunc => \/ local'[f] = local[f]
                        \/ local'[f] = cloud[f] /\ cloud[f] = want[f]
<1> DEFINE required == isDownloadRequired(f, CachedOnOpen(f), noAttr, refresh)
           download == required /\ ~trunc /\ ~noAttr /\ cloud[f] # NoFile
<1>1. /\ ~DataUnavailable(f, trunc, required)
      /\ required \/ trunc \/ local[f] # NoFile
      /\ local' = IF download THEN [local EXCEPT ![f] = cloud[f]]
                  ELSE IF required \/ trunc THEN [local EXCEPT ![f] = Empty]
                  ELSE local
  BY DEF OpenCompleted
<1>2. local \in [Files -> Content]
  BY DEF TypeInv, TypeOK, DiskType
<1>3. required => ~CachedOnOpen(f) \/ refresh
  BY DEF isDownloadRequired
<1>4. ASSUME required PROVE ~IsCached(f) \/ refresh
  BY <1>3, <1>4 DEF CachedOnOpen, IsCached
<1>5. ASSUME required, ~trunc PROVE connected
  <2> SUFFICES ASSUME ~connected PROVE FALSE
    OBVIOUS
  <2>1. ~refresh
    BY DEF Refreshes
  <2> QED
    BY <1>1, <1>3, <1>5, <2>1 DEF DataUnavailable
<1>6. CASE trunc
  <2>1. local' = [local EXCEPT ![f] = Empty]
    BY <1>1, <1>6
  <2> QED
    BY <1>2, <1>6, <2>1 DEF Empty, NoFile
<1>7. CASE ~trunc /\ required
  <2>1. ~noAttr
    BY <1>5, <1>7, AttrsThere
  <2>2. cloud[f] # NoFile
    BY <1>7, <2>1 DEF isDownloadRequired, Refreshes
  <2>3. cloud[f] = want[f]
    BY <1>4, <1>7, NobodyHere
  <2>4. local' = [local EXCEPT ![f] = cloud[f]]
    BY <1>1, <1>7, <2>1, <2>2
  <2> QED
    BY <1>2, <1>7, <2>2, <2>3, <2>4
<1>8. CASE ~trunc /\ ~required
  BY <1>1, <1>8
<1> QED
  BY <1>6, <1>7, <1>8

\* An open completes: now, or at the first use of a lazy handle.
LEMMA OpenedData ==
    ASSUME Calm, TypeInv, TypeInv', HandleCountExact, DataInv, NEW h \in Handles, NEW f \in Files,
           f \in Uses(h), hst[h] # "free" => hpath[h] = f, hfd[h] = None,
           NEW trunc \in BOOLEAN, NEW noAttr \in AttrErrors, NEW refresh \in Refreshes(f),
           OpenCompleted(h, f, trunc, noAttr, refresh), ~Locked(f),
           UNCHANGED <<mount, connected, cloud, upload, svc, pending, ver>>,
           want' = IF trunc THEN [want EXCEPT ![f] = Empty] ELSE want,
           hst'[h] # "free", hpath'[h] = f, target'[h] = f,
           \A k \in Handles : k # h =>
              hst'[k] = hst[k] /\ hpath'[k] = hpath[k] /\ target'[k] = target[k]
    PROVE  DataInv'
<1> USE DEF TypeInv, TypeOK, HandleType, LocksType
<1>1. /\ \A g \in Files : g # f => local'[g] = local[g]
      /\ local'[f] # NoFile
      /\ trunc => local'[f] = Empty
      /\ ~trunc => \/ local'[f] = local[f]
                   \/ local'[f] = cloud[f] /\ cloud[f] = want[f]
  <2> HIDE DEF TypeInv
  <2> QED
    BY OpenedContents
<1>2. /\ hfd' = [hfd EXCEPT ![h] = f] /\ hlazy' = [hlazy EXCEPT ![h] = FALSE]
      /\ hdirty' = [hdirty EXCEPT ![h] = @ \/ trunc]
      /\ lazyOpen' = [lazyOpen EXCEPT ![f] = FALSE] /\ CacheValid(f)
  BY DEF OpenCompleted
<1>3. /\ hfd'[h] = f /\ ~hlazy'[h] /\ (hdirty'[h] <=> hdirty[h] \/ trunc)
      /\ \A k \in Handles : k # h =>
            hfd'[k] = hfd[k] /\ hlazy'[k] = hlazy[k] /\ hdirty'[k] = hdirty[k]
      /\ ~lazyOpen'[f] /\ \A g \in Files : g # f => lazyOpen'[g] = lazyOpen[g]
  BY <1>2
<1>4. /\ \A g \in Files : g # f => want'[g] = want[g]
      /\ trunc => want'[f] = Empty
      /\ ~trunc => want'[f] = want[f]
  BY DEF GhostType
<1>5. HandlesBound'
  <2> SUFFICES ASSUME NEW k \in Handles PROVE HandleBound(k)'
    BY DEF HandlesBound
  <2>1. CASE k = h
    BY <1>3, <2>1 DEF HandleBound, Uses
  <2>2. CASE k # h
    BY <1>3, <2>2 DEF HandleBound, Uses, DataInv, HandlesBound
  <2> QED
    BY <2>1, <2>2
<1>6. \A g \in Files : Evictions(g)'
  <2>1. CacheValid(f) /\ \A g \in Files : g # f /\ local'[g] # NoFile => local[g] # NoFile
    BY <1>1, <1>2
  <2> QED
    BY <2>1, EvictionsUse
<1>7. \A g \in Files : g # f => \A k \in Handles : hfd'[k] = g => hfd[k] = g
  BY <1>3
<1>8. \A g \in Files : \A k \in Handles : Writer(k, g) => Writer(k, g)'
  <2>1. \A g \in Files : ~Writer(h, g)
    BY ConstantsAssumption DEF Writer
  <2> QED
    BY <1>3, <2>1 DEF Writer
<1>9. \A g \in Files : g # f =>
         \A k \in OpenOn(g)' : ~hlazy'[k] => k \in OpenOn(g) /\ ~hlazy[k]
  BY <1>3 DEF OpenOn
<1>10. \A k \in Handles : upload[k] # NoUpload => hpath'[k] = hpath[k]
  BY IdleHandle
<1>11. OpenHere(f) /\ Synced(f) /\ Current(f) /\ Settled(f)
  BY DEF DataInv, FilesKept
<1>12. OpenHere(f)'
  BY <1>1, <1>3 DEF OpenHere
<1>13. Synced(f)'
  <2>1. CASE trunc
    BY <1>3, <2>1 DEF Synced, Writer
  <2>2. CASE ~trunc
    BY <1>1, <1>8, <1>11, <2>2 DEF Synced
  <2> QED
    BY <2>1, <2>2
<1>14. Current(f)'
  BY <1>1, <1>4, <1>11 DEF Current
<1>15. Settled(f)'
  BY <1>1, <1>11 DEF Settled, MayQueue
<1>16. ver \in Nat /\ Empty <= ver /\ local[f] <= ver /\ cloud[f] <= ver /\ want[f] <= ver
  BY ConstantsAssumption DEF DataInv, Numbered, GhostType, Empty
<1>17. local'[f] <= ver' /\ cloud'[f] <= ver' /\ want'[f] <= ver' /\ ver <= ver'
  BY <1>1, <1>4, <1>16
<1> HIDE DEF TypeInv
<1> QED
  BY <1>1, <1>3, <1>4, <1>5, <1>6, <1>7, <1>8, <1>9, <1>10, <1>12, <1>13, <1>14, <1>15,
     <1>17, FileStep

\* An open fails: a download that failed has removed a file that was not open.
LEMMA OpenFailedData ==
    ASSUME Calm, TypeInv, TypeInv', HandleCountExact, DataInv, NEW h \in Handles, NEW f \in Files,
           f \in Uses(h), hst[h] # "free" => hpath[h] = f, hfd[h] = None,
           NEW trunc \in BOOLEAN, NEW noAttr \in AttrErrors, NEW refresh \in Refreshes(f),
           OpenFailed(f, trunc, noAttr, refresh), ~Locked(f),
           UNCHANGED <<mount, connected, cloud, upload, svc, pending, lazyOpen, hst, hpath,
                       hlazy, hdirty, want, ver, target>>
    PROVE  DataInv'
<1> DEFINE required == isDownloadRequired(f, CachedOnOpen(f), noAttr, refresh)
<1>1. \A g \in Files : Evictions(g)'
  <2>1. CacheValid(f) /\ \A g \in Files : g # f /\ local'[g] # NoFile => local[g] # NoFile
    BY DEF OpenFailed, TypeInv, TypeOK, DiskType
  <2> QED
    BY <2>1, EvictionsUse
<1>2. ~connected' => mount.losses > 0
  BY DEF DataInv
<1>3. CASE UNCHANGED <<local, hfd>>
  BY <1>1, <1>2, <1>3, QuietStep
<1>4. CASE /\ required /\ cloud[f] # NoFile /\ "data" \in mount.cloudErrors
           /\ local' = [local EXCEPT ![f] = NoFile] /\ hfd' = Unlinked(f)
  <2>1. ~IsCached(f) \/ refresh
    BY <1>4 DEF isDownloadRequired, CachedOnOpen, IsCached
  <2>2. /\ \A k \in Handles : hfd[k] # f
        /\ cloud[f] = want[f] /\ (local[f] = NoFile \/ ~MayQueue)
    BY <2>1, NobodyHere
  <2>3. /\ local'[f] = NoFile /\ \A g \in Files : g # f => local'[g] = local[g]
        /\ hfd' = hfd
    BY <1>4, <2>2 DEF Unlinked, TypeInv, TypeOK, DiskType, HandleType
  <2>4. HandlesBound'
    BY <2>3, HandlesFrame
  <2>5. \A g \in Files : \A k \in Handles : Writer(k, g) => Writer(k, g)'
    BY <2>3 DEF Writer
  <2>6. \A g \in Files : \A k \in OpenOn(g)' : ~hlazy'[k] => k \in OpenOn(g) /\ ~hlazy[k]
    BY DEF OpenOn
  <2>7. OpenHere(f)' /\ Synced(f)' /\ Current(f)'
    BY <2>2, <2>3 DEF OpenHere, Synced, Current
  <2>8. Settled(f)'
    <3>1. Settled(f) /\ (MayQueue' <=> MayQueue)
      BY DEF DataInv, FilesKept, MayQueue
    <3>2. f \notin Movable
      <4>1. Settled(f) /\ Evictions(f) /\ CalmRenames(mount)
        BY CalmHere DEF DataInv, FilesKept, CalmMount
      <4> QED
        BY <1>4, <2>1, <4>1 DEF Settled, Evictions, CalmRenames, Movable, IsCached, Refreshes
    <3> QED
      BY <2>2, <2>3, <2>6, <3>1, <3>2 DEF Settled, Movable
  <2>9. ver \in Nat /\ local'[f] <= ver' /\ cloud'[f] <= ver' /\ want'[f] <= ver' /\ ver <= ver'
    BY <2>3, ConstantsAssumption DEF DataInv, Numbered, TypeInv, TypeOK, GhostType, NoFile
  <2> QED
    BY <1>1, <2>3, <2>4, <2>5, <2>6, <2>7, <2>8, <2>9, FileStep
<1> QED
  BY <1>3, <1>4 DEF OpenFailed

\* The handle that OpenFile or CreateFile takes has nothing yet.
LEMMA FreeHandle ==
    ASSUME DataInv, NEW h \in Handles, hst[h] = "free"
    PROVE  hfd[h] = None /\ ~hdirty[h] /\ ~hlazy[h] /\ target[h] = None
  BY DEF DataInv, HandlesBound, HandleBound

\* OpenFile leaves the open lazy: nobody has the file open otherwise.
LEMMA LazyData ==
    ASSUME Calm, TypeInv, TypeInv', HandleCountExact, DataInv, NEW h \in Handles, NEW f \in Files,
           hst[h] = "free", f \in Uses(h), ~Locked(f), NEW trunc \in BOOLEAN,
           NEW noAttr \in AttrErrors, NEW refresh \in Refreshes(f),
           ~OpensNow(f, trunc, noAttr, refresh),
           lazyOpen' = [lazyOpen EXCEPT ![f] = TRUE],
           hlazy' = [hlazy EXCEPT ![h] = TRUE], NewHandle(h, f),
           UNCHANGED <<disk, lru, dirtyCount, upload, ops, hfd, hdirty, hop, hlk, env, want, ver>>
    PROVE  DataInv'
<1> USE DEF disk, ops, env
<1>1. \A k \in Handles : hfd[k] # f
  <2>1. ~IsCached(f) \/ refresh
    BY DEF OpensNow, isDownloadRequired
  <2> QED
    BY <2>1, FreeHandle, NobodyHere
<1>2. /\ hst'[h] # "free" /\ hpath'[h] = f /\ target'[h] = f /\ hlazy'[h]
      /\ \A k \in Handles : k # h => /\ hst'[k] = hst[k] /\ hpath'[k] = hpath[k]
                                     /\ target'[k] = target[k] /\ hlazy'[k] = hlazy[k]
      /\ \A g \in Files : g # f => lazyOpen'[g] = lazyOpen[g]
  BY DEF NewHandle, TypeInv, TypeOK, HandleType, LocksType, GhostType
<1>3. HandlesBound'
  <2> SUFFICES ASSUME NEW k \in Handles PROVE HandleBound(k)'
    BY DEF HandlesBound
  <2>1. CASE k = h
    BY <1>2, <2>1, FreeHandle DEF HandleBound, Uses
  <2>2. CASE k # h
    BY <1>2, <2>2 DEF HandleBound, Uses, DataInv, HandlesBound
  <2> QED
    BY <2>1, <2>2
<1>4. \A g \in Files : Evictions(g)'
  BY EvictionsKeep
<1>5. \A g \in Files : \A k \in Handles : Writer(k, g) => Writer(k, g)'
  BY DEF Writer
<1>6. \A g \in Files : \A k \in OpenOn(g)' : ~hlazy'[k] => k \in OpenOn(g) /\ ~hlazy[k]
  BY <1>2 DEF OpenOn
<1>7. \A k \in Handles : upload[k] # NoUpload => hpath'[k] = hpath[k]
  BY <1>2, IdleHandle
<1>8. OpenHere(f)' /\ Synced(f)' /\ Current(f)' /\ Settled(f)'
  <2>1. Synced(f) /\ Current(f) /\ Settled(f) /\ (MayQueue' <=> MayQueue)
    BY DEF DataInv, FilesKept, MayQueue
  <2> QED
    BY <1>1, <1>5, <1>6, <2>1 DEF OpenHere, Synced, Current, Settled, Movable
<1>9. ver \in Nat /\ local'[f] <= ver' /\ cloud'[f] <= ver' /\ want'[f] <= ver' /\ ver <= ver'
  BY ConstantsAssumption DEF DataInv, Numbered, TypeInv, TypeOK, GhostType
<1> QED
  BY <1>2, <1>3, <1>4, <1>5, <1>6, <1>7, <1>8, <1>9, FileStep

\* OpenFile.
LEMMA OpenFileData ==
    ASSUME Calm, TypeInv, TypeInv', HandleCountExact, DataInv, NEW h \in Handles, NEW f \in Files,
           NEW trunc \in BOOLEAN, OpenFile(h, f, trunc)
    PROVE  DataInv'
<1>1. hst[h] = "free" /\ f \in Uses(h) /\ ~Locked(f) /\ hfd[h] = None
  BY FreeHandle DEF OpenFile, Uses
<1>2. PICK noAttr \in AttrErrors, refresh \in Refreshes(f) :
         \/ /\ OpenCompleted(h, f, trunc, noAttr, refresh)
            /\ want' = IF trunc THEN [want EXCEPT ![f] = Empty] ELSE want
            /\ NewHandle(h, f)
            /\ UNCHANGED <<cloud, upload, ops, hop, hlk, env, ver>>
         \/ /\ OpenFailed(f, trunc, noAttr, refresh)
            /\ UNCHANGED <<cloud, locks, ops, hst, hpath, hlazy, hdirty, hop,
                           hlk, env, ghost>>
         \/ /\ ~OpensNow(f, trunc, noAttr, refresh)
            /\ lazyOpen' = [lazyOpen EXCEPT ![f] = TRUE]
            /\ hlazy' = [hlazy EXCEPT ![h] = TRUE]
            /\ NewHandle(h, f)
            /\ UNCHANGED <<disk, lru, dirtyCount, upload, ops, hfd, hdirty,
                           hop, hlk, env, want, ver>>
  BY Zenon DEF OpenFile
<1>3. CASE /\ OpenCompleted(h, f, trunc, noAttr, refresh)
           /\ want' = IF trunc THEN [want EXCEPT ![f] = Empty] ELSE want
           /\ NewHandle(h, f)
           /\ UNCHANGED <<cloud, upload, ops, hop, hlk, env, ver>>
  <2>1. /\ hst'[h] # "free" /\ hpath'[h] = f /\ target'[h] = f
        /\ \A k \in Handles : k # h =>
              hst'[k] = hst[k] /\ hpath'[k] = hpath[k] /\ target'[k] = target[k]
    BY <1>3 DEF NewHandle, TypeInv, TypeOK, HandleType, GhostType
  <2>2. UNCHANGED <<mount, connected, svc, pending>>
    BY <1>3 DEF ops, env
  <2> QED
    BY <1>1, <1>3, <2>1, <2>2, OpenedData
<1>4. CASE /\ OpenFailed(f, trunc, noAttr, refresh)
           /\ UNCHANGED <<cloud, locks, ops, hst, hpath, hlazy, hdirty, hop,
                          hlk, env, ghost>>
  <2>1. UNCHANGED <<mount, connected, cloud, upload, svc, pending, lazyOpen, hst, hpath,
                    hlazy, hdirty, want, ver, target>>
    BY <1>4 DEF locks, ops, env, ghost
  <2> QED
    BY <1>1, <1>4, <2>1, OpenFailedData
<1>5. CASE /\ ~OpensNow(f, trunc, noAttr, refresh)
           /\ lazyOpen' = [lazyOpen EXCEPT ![f] = TRUE]
           /\ hlazy' = [hlazy EXCEPT ![h] = TRUE]
           /\ NewHandle(h, f)
           /\ UNCHANGED <<disk, lru, dirtyCount, upload, ops, hfd, hdirty,
                          hop, hlk, env, want, ver>>
  BY <1>1, <1>5, LazyData
<1> QED
  BY <1>2, <1>3, <1>4, <1>5

\* EnsureOpen.
LEMMA EnsureOpenData ==
    ASSUME Calm, TypeInv, TypeInv', HandleCountExact, DataInv, NEW h \in Handles, EnsureOpen(h)
    PROVE  DataInv'
<1>1. PICK f \in Files : f = hpath[h]
  BY DEF EnsureOpen, TypeInv, HandlesLinked
<1>2. f \in Uses(h) /\ ~Locked(f) /\ hfd[h] = None /\ hst[h] = "live"
  BY <1>1 DEF EnsureOpen, DataInv, HandlesBound, HandleBound
<1>3. PICK noAttr \in AttrErrors, refresh \in Refreshes(f) :
         \/ /\ OpenCompleted(h, f, FALSE, noAttr, refresh)
            /\ target' = [target EXCEPT ![h] = f]
            /\ UNCHANGED <<cloud, count, upload, ops, hst, hpath, hop, hlk, env, want, ver>>
         \/ /\ OpenFailed(f, FALSE, noAttr, refresh)
            /\ UNCHANGED <<cloud, locks, ops, hst, hpath, hlazy, hdirty, hop, hlk, env, ghost>>
  BY <1>1, Zenon DEF EnsureOpen
<1>4. CASE /\ OpenCompleted(h, f, FALSE, noAttr, refresh)
           /\ target' = [target EXCEPT ![h] = f]
           /\ UNCHANGED <<cloud, count, upload, ops, hst, hpath, hop, hlk, env, want, ver>>
  <2>1. UNCHANGED <<mount, connected, svc, pending>>
    BY <1>4 DEF ops, env
  <2>2. target'[h] = f /\ \A k \in Handles : k # h => target'[k] = target[k]
    BY <1>4 DEF TypeInv, TypeOK, GhostType
  <2>3. want' = IF FALSE THEN [want EXCEPT ![f] = Empty] ELSE want
    BY <1>4
  <2> QED
    BY <1>1, <1>2, <1>4, <2>1, <2>2, <2>3, OpenedData
<1>5. CASE /\ OpenFailed(f, FALSE, noAttr, refresh)
           /\ UNCHANGED <<cloud, locks, ops, hst, hpath, hlazy, hdirty, hop, hlk, env, ghost>>
  <2>1. UNCHANGED <<mount, connected, cloud, upload, svc, pending, lazyOpen, hst, hpath,
                    hlazy, hdirty, want, ver, target>>
    BY <1>5 DEF locks, ops, env, ghost
  <2> QED
    BY <1>1, <1>2, <1>5, <2>1, OpenFailedData
<1> QED
  BY <1>3, <1>4, <1>5

\* CreateFile: a file that is neither cached nor in the cloud.
LEMMA CreateFileData ==
    ASSUME Calm, TypeInv, TypeInv', DataInv, NEW h \in Handles, NEW f \in Files, CreateFile(h, f)
    PROVE  DataInv'
<1>1. /\ hst[h] = "free" /\ f \in Uses(h) /\ ~Locked(f)
      /\ local[f] = NoFile /\ cloud[f] = NoFile
      /\ UNCHANGED <<mount, connected, upload, svc, ver, hlazy>>
  BY DEF CreateFile, Uses, env
<1>2. /\ local'[f] = Empty /\ want'[f] = Empty /\ cloud'[f] \in {Empty, NoFile}
      /\ (mount.createEmptyFile /\ connected => cloud'[f] = Empty)
      /\ \A g \in Files : g # f =>
            local'[g] = local[g] /\ cloud'[g] = cloud[g] /\ want'[g] = want[g]
  BY <1>1 DEF CreateFile, TypeInv, TypeOK, DiskType, GhostType
<1>3. /\ (connected => pending' = pending) /\ (~connected => pending'[f] = "upload")
      /\ \A g \in Files : g # f => pending'[g] = pending[g] /\ lazyOpen'[g] = lazyOpen[g]
      /\ ~lazyOpen'[f]
  BY DEF CreateFile, TypeInv, TypeOK, OpsType, LocksType
<1>4. /\ hst'[h] # "free" /\ hpath'[h] = f /\ hfd'[h] = f /\ target'[h] = f
      /\ hdirty'[h] = ~mount.createEmptyFile
      /\ \A k \in Handles : k # h =>
            /\ hst'[k] = hst[k] /\ hpath'[k] = hpath[k] /\ hfd'[k] = hfd[k]
            /\ target'[k] = target[k] /\ hdirty'[k] = hdirty[k]
  BY DEF CreateFile, TypeInv, TypeOK, HandleType, GhostType
<1>5. HandlesBound'
  <2> SUFFICES ASSUME NEW k \in Handles PROVE HandleBound(k)'
    BY DEF HandlesBound
  <2>1. CASE k = h
    BY <1>1, <1>4, <2>1, FreeHandle DEF HandleBound, Uses
  <2>2. CASE k # h
    BY <1>1, <1>4, <2>2 DEF HandleBound, Uses, DataInv, HandlesBound
  <2> QED
    BY <2>1, <2>2
<1>6. \A g \in Files : Evictions(g)'
  <2>1. CacheValid(f)
    BY DEF CreateFile
  <2> QED
    BY <1>1, <1>2, <2>1, EvictionsUse
<1>7. \A g \in Files : \A k \in Handles : Writer(k, g) => Writer(k, g)'
  BY <1>1, <1>4, FreeHandle DEF Writer
<1>8. \A g \in Files : g # f => \A k \in Handles : hfd'[k] = g => hfd[k] = g
  BY <1>4
<1>9. \A g \in Files : g # f =>
         \A k \in OpenOn(g)' : ~hlazy'[k] => k \in OpenOn(g) /\ ~hlazy[k]
  BY <1>1, <1>4 DEF OpenOn
<1>10. \A k \in Handles : upload[k] # NoUpload => hpath'[k] = hpath[k]
  BY <1>1, <1>4, IdleHandle
<1>11. Empty # NoFile /\ ver \in Nat /\ Empty <= ver /\ NoFile <= ver
  BY ConstantsAssumption DEF Empty, NoFile, TypeInv, TypeOK, GhostType
<1>12. OpenHere(f)' /\ Current(f)'
  BY <1>2, <1>3, <1>11 DEF OpenHere, Current
<1>13. Synced(f)'
  <2>1. CASE mount.createEmptyFile /\ connected
    BY <1>2, <2>1 DEF Synced
  <2>2. CASE ~mount.createEmptyFile
    BY <1>4, <2>2 DEF Synced, Writer
  <2>3. CASE ~connected
    BY <1>3, <2>3 DEF Synced
  <2> QED
    BY <2>1, <2>2, <2>3
<1>14. Settled(f)'
  <2>1. (~connected => MayQueue) /\ (MayQueue' <=> MayQueue) /\ Settled(f)
    BY <1>1 DEF DataInv, FilesKept, MayQueue
  <2> QED
    BY <1>2, <1>3, <1>11, <2>1 DEF Settled
<1>15. local'[f] <= ver' /\ cloud'[f] <= ver' /\ want'[f] <= ver' /\ ver <= ver'
  BY <1>1, <1>2, <1>11
<1> QED
  BY <1>1, <1>2, <1>3, <1>5, <1>6, <1>7, <1>8, <1>9, <1>10, <1>12, <1>13, <1>14, <1>15, FileStep

-----------------------------------------------------------------------------
(* Writing                                                                 *)

\* WriteFile, under no flock: an upload of the file may be under way.
LEMMA WriteFileData ==
    ASSUME Calm, TypeInv, TypeInv', DataInv, NEW h \in Handles, WriteFile(h)
    PROVE  DataInv'
<1>1. PICK f \in Files : f = hpath[h]
  BY DEF WriteFile, TypeInv, HandlesLinked
<1>2. /\ hst[h] = "live" /\ ~hlazy[h] /\ hop[h] = "none" /\ upload[h] = NoUpload
      /\ hfd[h] \in {f, None} /\ target[h] = hfd[h] /\ f # None
  <2>1. hst[h] = "live" /\ ~hlazy[h] /\ hop[h] = "none"
    BY CalmHere DEF WriteFile, CalmMount
  <2>2. hfd[h] \in {f, None} /\ target[h] = hfd[h]
    BY <1>1, <2>1 DEF DataInv, HandlesBound, HandleBound
  <2> QED
    BY <2>1, <2>2, ConstantsAssumption DEF TypeInv, HandlesLinked
<1>3. /\ UNCHANGED <<mount, connected, cloud, upload, svc, pending, lazyOpen, hst, hpath, hfd,
                     hlazy, target>>
      /\ ver' = ver + 1 /\ ver \in Nat
  BY ConstantsAssumption DEF WriteFile, ops, env, TypeInv, TypeOK, GhostType
<1>4. /\ \A g \in Files : g # f => local'[g] = local[g] /\ want'[g] = want[g]
      /\ \/ hfd[h] = None /\ local' = local /\ want' = want
         \/ hfd[h] = f /\ local'[f] = ver + 1 /\ want'[f] = ver + 1
  BY <1>2 DEF WriteFile, TypeInv, TypeOK, DiskType, GhostType
<1>5. hdirty'[h] /\ \A k \in Handles : k # h => hdirty'[k] = hdirty[k]
  BY DEF WriteFile, TypeInv, TypeOK, HandleType
<1>6. HandlesBound'
  <2> SUFFICES ASSUME NEW k \in Handles PROVE HandleBound(k)'
    BY DEF HandlesBound
  <2>1. HandleBound(k) /\ hst[h] # "free"
    BY <1>2 DEF DataInv, HandlesBound
  <2> QED
    BY <1>2, <1>3, <1>5, <2>1 DEF HandleBound, Uses
<1>7. UploadsOwned'
  BY <1>3, OwnedFrame
<1>8. /\ \A g \in Files : local[g] <= ver /\ cloud[g] <= ver /\ want[g] <= ver
      /\ \A u \in Uploaders : upload[u].data <= ver
      /\ \A g \in Files : local[g] \in Int /\ cloud[g] \in Int /\ want[g] \in Int
      /\ \A u \in Uploaders : upload[u].data \in Int
  <2>1. Content \subseteq Int
    BY DEF Content, NoFile
  <2> QED
    BY <2>1 DEF DataInv, Numbered, TypeInv, TypeOK, DiskType, GhostType, LocksType
<1>9. Numbered'
  <2>1. ASSUME NEW g \in Files PROVE local'[g] <= ver' /\ cloud'[g] <= ver' /\ want'[g] <= ver'
    BY <1>3, <1>4, <1>8
  <2>2. ASSUME NEW u \in Uploaders PROVE upload'[u].data <= ver'
    BY <1>3, <1>8
  <2> QED
    BY <2>1, <2>2 DEF Numbered
<1>10. \A g : \A k \in Handles : Writer(k, g) => Writer(k, g)'
  BY <1>3, <1>5 DEF Writer
<1>11. ASSUME NEW u \in Uploaders PROVE Fresh(u)'
  <2> SUFFICES ASSUME upload[u] # NoUpload PROVE Fresh(u)'
    BY <1>3 DEF Fresh
  <2>1. PICK g \in Files : g = upload[u].name
    BY UploadNames
  <2>2. CASE g # f \/ hfd[h] = None
    <3>1. local'[g] = local[g] /\ want'[g] = want[g]
      BY <1>2, <1>4, <2>2
    <3> QED
      BY <1>3, <1>10, <2>1, <3>1, FreshKept
  <2>3. CASE g = f /\ hfd[h] = f
    <3>1. h # u /\ Writer(h, f)'
      BY <1>2, <1>3, <1>5, <2>3 DEF Writer
    <3>2. local'[f] # NoFile /\ cloud'[f] # want'[f]
      BY <1>2, <1>3, <1>4, <1>8, <2>3 DEF NoFile
    <3>3. upload[u].data # NoFile
      BY DEF DataInv, Fresh
    <3> QED
      BY <1>3, <2>1, <2>3, <3>1, <3>2, <3>3 DEF Fresh
  <2> QED
    BY <1>2, <2>2, <2>3
<1>12. \A g \in Files : Evictions(g)'
  <2>1. CacheValid(f) \/ UNCHANGED lru
    BY <1>1 DEF WriteFile
  <2>2. \A g \in Files : local'[g] # NoFile => local[g] # NoFile
    BY <1>2, <1>4 DEF DataInv, FilesKept, OpenHere
  <2> QED
    BY <1>3, <2>1, <2>2, EvictionsUse, EvictionsKeep
<1>13. ASSUME NEW g \in Files
       PROVE  OpenHere(g)' /\ Synced(g)' /\ Current(g)' /\ Settled(g)'
  <2>1. \A k \in OpenOn(g)' : ~hlazy'[k] => k \in OpenOn(g) /\ ~hlazy[k]
    BY <1>3 DEF OpenOn
  <2>2. CASE g # f \/ hfd[h] = None
    <3>1. local'[g] = local[g] /\ want'[g] = want[g]
      BY <1>2, <1>4, <2>2
    <3> QED
      BY <1>3, <1>10, <2>1, <3>1, KeptFrame
  <2>3. CASE g = f /\ hfd[h] = f
    <3>1. local'[f] = ver + 1 /\ want'[f] = ver + 1 /\ local'[f] # NoFile /\ Writer(h, f)'
      BY <1>2, <1>3, <1>4, <1>5, <2>3 DEF NoFile, Writer
    <3>2. OpenHere(f) /\ Settled(f) /\ (MayQueue' <=> MayQueue)
      BY <1>3 DEF DataInv, FilesKept, MayQueue
    <3> QED
      BY <1>3, <2>3, <3>1, <3>2 DEF OpenHere, Synced, Current, Settled
  <2> QED
    BY <1>2, <2>2, <2>3
<1>14. ~connected' => mount'.losses > 0
  BY <1>3 DEF DataInv
<1> QED
  BY <1>6, <1>7, <1>9, <1>11, <1>12, <1>13, <1>14 DEF DataInv, FilesKept

\* Cutting or extending a file whose latest contents are in one place keeps them
\* there.
LEMMA ResizedLatest ==
    ASSUME TypeInv, NEW f \in Files, NEW size \in {"zero", "nonzero"}
    PROVE  /\ Resized(f, size, want[f]) # NoFile
           /\ \A c \in Content : Resized(f, size, c) \in {Empty, ver + 1, c}
           /\ size = "zero" => \A c : Resized(f, size, c) = Empty
  BY ConstantsAssumption
     DEF Resized, NoFile, Empty, Content, TypeInv, TypeOK, GhostType

\* TruncateFile by path, which a calm mount allows online only.
LEMMA TruncateFileData ==
    ASSUME Calm, TypeInv, TypeInv', DataInv, NEW f \in Files, NEW size \in {"zero", "nonzero"},
           TruncateFile(f, size)
    PROVE  DataInv'
<1>1. connected
  BY CalmHere DEF CalmMount, DataInv, TruncateFile
<1>2. /\ ~Locked(f)
      /\ UNCHANGED <<mount, connected, upload, svc, pending, lazyOpen, hst, hpath, hfd, hlazy,
                     hdirty, target>>
  BY <1>1 DEF TruncateFile, locks, handle, env
<1>3. OpenHere(f) /\ Synced(f) /\ Current(f) /\ Settled(f) /\ local[f] \in Content
      /\ cloud[f] \in Content /\ want[f] \in Content /\ ver \in Nat
      /\ local[f] <= ver /\ cloud[f] <= ver /\ want[f] <= ver
  BY ConstantsAssumption
     DEF DataInv, FilesKept, Numbered, TypeInv, TypeOK, DiskType, GhostType
<1>4. /\ local[f] # NoFile => local'[f] = Resized(f, size, local[f])
      /\ local[f] = NoFile => local'[f] = NoFile
      /\ cloud[f] # NoFile => cloud'[f] = Resized(f, size, cloud[f])
      /\ cloud[f] = NoFile => cloud'[f] = NoFile
      /\ want'[f] = Resized(f, size, want[f])
      /\ \A g \in Files : g # f =>
            local'[g] = local[g] /\ cloud'[g] = cloud[g] /\ want'[g] = want[g]
  <2>1. /\ cloud[f] # NoFile => cloud'[f] = Resized(f, size, cloud[f])
        /\ cloud[f] = NoFile => cloud'[f] = NoFile
        /\ want'[f] = Resized(f, size, want[f])
        /\ \A g \in Files : g # f => cloud'[g] = cloud[g] /\ want'[g] = want[g]
    BY <1>1 DEF TruncateFile, TypeInv, TypeOK, DiskType, GhostType
  <2>2. \A g \in Files : g # f => local'[g] = local[g]
    BY DEF TruncateFile, TypeInv, TypeOK, DiskType
  <2>3. CASE local[f] = NoFile
    BY <1>1, <2>1, <2>2, <2>3 DEF TruncateFile
  <2>4. CASE local[f] # NoFile /\ (size = "zero" => local[f] # Empty)
    <3>1. local' = [local EXCEPT ![f] = Resized(f, size, local[f])]
      BY <1>1, <2>4 DEF TruncateFile
    <3> QED
      BY <2>1, <2>2, <2>4, <3>1 DEF TypeInv, TypeOK, DiskType
  <2>5. CASE local[f] # NoFile /\ size = "zero" /\ local[f] = Empty
    <3>1. local' = local
      BY <1>1, <2>5 DEF TruncateFile
    <3> QED
      BY <2>1, <2>2, <2>5, <3>1 DEF Resized
  <2> QED
    BY <2>3, <2>4, <2>5
<1>5. HandlesBound'
  BY <1>2, HandlesFrame
<1>6. \A g \in Files : local'[g] # NoFile => local[g] # NoFile
  BY <1>4
<1>7. \A g \in Files : Evictions(g)'
  <2>1. CacheValid(f) \/ UNCHANGED lru
    BY DEF TruncateFile
  <2> QED
    BY <1>2, <1>6, <2>1, EvictionsUse, EvictionsKeep
<1>8. \A g \in Files : \A k \in Handles : Writer(k, g) => Writer(k, g)'
  BY <1>2 DEF Writer
<1>9. \A g \in Files : \A k \in OpenOn(g)' : ~hlazy'[k] => k \in OpenOn(g) /\ ~hlazy[k]
  BY <1>2 DEF OpenOn
<1>10. want[f] # NoFile
  BY <1>3 DEF Current, TruncateFile
<1>11. local[f] # NoFile => local'[f] # NoFile
  BY <1>3, <1>4, ResizedLatest DEF Empty, NoFile, Current
<1>12. Current(f)'
  <2>1. CASE local[f] # NoFile
    BY <1>3, <1>4, <1>11, <2>1 DEF Current
  <2>2. CASE local[f] = NoFile
    BY <1>3, <1>4, <1>10, <2>2 DEF Current
  <2> QED
    BY <2>1, <2>2
<1>13. OpenHere(f)'
  BY <1>2, <1>3, <1>11 DEF OpenHere
<1>14. Synced(f)'
  <2>1. local'[f] # NoFile /\ local'[f] # cloud'[f] => local[f] # NoFile /\ local[f] # cloud[f]
    BY <1>4
  <2> QED
    BY <1>2, <1>3, <1>8, <2>1 DEF Synced
<1>15. Settled(f)'
  <2>1. (MayQueue' <=> MayQueue) /\ (local'[f] = NoFile => local[f] = NoFile)
    BY <1>2, <1>11 DEF MayQueue
  <2>2. cloud[f] = NoFile => cloud'[f] = NoFile
    BY <1>4
  <2> QED
    BY <1>2, <1>3, <1>9, <2>1, <2>2 DEF Settled, Movable
<1>16. local'[f] <= ver' /\ cloud'[f] <= ver' /\ want'[f] <= ver' /\ ver <= ver'
  <2>1. CASE size = "zero"
    <3>1. Empty <= ver /\ NoFile <= ver /\ ver' = ver
      BY <1>3, <2>1 DEF Empty, NoFile, TruncateFile
    <3>2. /\ local'[f] \in {NoFile, Empty} /\ cloud'[f] \in {NoFile, Empty}
          /\ want'[f] = Empty
      BY <1>4, <2>1, ResizedLatest
    <3> QED
      BY <1>3, <3>1, <3>2
  <2>2. CASE size = "nonzero"
    <3>1. ver' = ver + 1
      BY <2>2 DEF TruncateFile
    <3>2. \A c \in Content : c <= ver => Resized(f, size, c) <= ver + 1
      BY <1>3, <2>2, ConstantsAssumption DEF Resized, Content, NoFile
    <3>3. NoFile <= ver + 1 /\ ver <= ver + 1
      BY <1>3 DEF NoFile
    <3> QED
      BY <1>3, <1>4, <3>1, <3>2, <3>3
  <2> QED
    BY <2>1, <2>2
<1> QED
  BY <1>2, <1>4, <1>5, <1>7, <1>8, <1>9, <1>12, <1>13, <1>14, <1>15, <1>16, FileStep

-----------------------------------------------------------------------------
(* Deleting and evicting                                                   *)

\* A deletion under way was asked for, and found an entry in pendingOps only where
\* uploads may have to wait.
DeletesAsked ==
    \A f \in Files : unlinking[f] # "no"
       => f \in mount.deletes /\ (unlinking[f] = "had" => MayQueue)

\* What the calls of DeleteFile leave for its second half.
LEMMA NextDeletesAsked ==
    ASSUME TypeInv, DataInv, DeletesAsked, [Next]_vars
    PROVE  DeletesAsked'
<1>1. mount' = mount /\ (UNCHANGED unlinking \/ \E f \in Files :
         DeleteFile(f) \/ DeleteFileLocked(f) \/ DeleteFileFailed(f))
  <2>1. CASE UNCHANGED vars
    BY <2>1 DEF vars, env, ops
  <2>2. CASE \E h \in Handles, f \in Files :
                CreateFile(h, f) \/ OpenFile(h, f, FALSE) \/ OpenFile(h, f, TRUE)
    <3>1. PICK h \in Handles, f \in Files :
             CreateFile(h, f) \/ OpenFile(h, f, FALSE) \/ OpenFile(h, f, TRUE)
      BY <2>2
    <3>2. CASE CreateFile(h, f)
      BY <3>2 DEF CreateFile, env
    <3>3. ASSUME NEW trunc \in BOOLEAN, OpenFile(h, f, trunc) PROVE UNCHANGED <<env, ops>>
      <4>1. PICK noAttr \in AttrErrors, refresh \in Refreshes(f) :
               UNCHANGED <<env>> /\ UNCHANGED <<ops>>
        BY <3>3 DEF OpenFile
      <4> QED
        BY <4>1
    <3> QED
      BY <3>1, <3>2, <3>3 DEF env, ops
  <2>3. CASE \E h \in Handles :
                \/ AddHandle(h) \/ EnsureOpen(h) \/ WriteFile(h)
                \/ FlushFile(h, FALSE) \/ FlushFile(h, TRUE) \/ ReleaseFile(h)
    BY <2>3 DEF AddHandle, EnsureOpen, WriteFile, FlushFile, ReleaseFile, env, ops
  <2>4. CASE \E h \in Handles :
                \/ FlushClean(h) \/ FlushDeferred(h) \/ FlushNoFile(h) \/ FlushUpload(h)
                \/ FlushUploaded(h) \/ FlushOffline(h) \/ FlushFailed(h)
    BY <2>4 DEF FlushClean, FlushDeferred, FlushNoFile, FlushUpload, FlushUploaded,
                FlushOffline, FlushFailed, env, ops
  <2>5. CASE \E f \in Files :
                \/ DeleteFile(f) \/ DeleteFileLocked(f) \/ DeleteFileFailed(f)
                \/ TruncateFile(f, "zero") \/ TruncateFile(f, "nonzero")
                \/ SvcPick(f) \/ SvcSkip(f) \/ SvcDelete(f) \/ SvcUpload(f)
                \/ SvcUploaded(f) \/ SvcFailed(f)
                \/ EvictItem(f) \/ deleteItem(f) \/ asyncCacheValid(f)
    <3>1. PICK f \in Files :
             \/ DeleteFile(f) \/ DeleteFileLocked(f) \/ DeleteFileFailed(f)
             \/ TruncateFile(f, "zero") \/ TruncateFile(f, "nonzero")
             \/ SvcPick(f) \/ SvcSkip(f) \/ SvcDelete(f) \/ SvcUpload(f)
             \/ SvcUploaded(f) \/ SvcFailed(f)
             \/ EvictItem(f) \/ deleteItem(f) \/ asyncCacheValid(f)
      BY <2>5
    <3>2. CASE DeleteFile(f) \/ DeleteFileLocked(f) \/ DeleteFileFailed(f)
      BY <3>2 DEF DeleteFile, DeleteFileLocked, DeleteFileFailed, env
    <3>3. CASE \/ TruncateFile(f, "zero") \/ TruncateFile(f, "nonzero")
               \/ EvictItem(f) \/ deleteItem(f) \/ asyncCacheValid(f)
      BY <3>3 DEF TruncateFile, EvictItem, deleteItem, asyncCacheValid, env, ops
    <3>4. CASE \/ SvcPick(f) \/ SvcSkip(f) \/ SvcDelete(f) \/ SvcUpload(f)
               \/ SvcUploaded(f) \/ SvcFailed(f)
      BY <3>4 DEF SvcPick, SvcSkip, SvcDelete, SvcUpload, SvcUploaded, SvcFailed, env, ops
    <3> QED
      BY <3>1, <3>2, <3>3, <3>4
  <2>6. CASE \E s, d \in Files : RenameFile(s, d)
    BY <2>6 DEF RenameFile, env
  <2>7. CASE \/ \E S \in SUBSET mount.evictable : EvictMark(S)
             \/ Disconnect \/ Reconnect \/ WindowToggle
    BY <2>7 DEF EvictMark, Disconnect, Reconnect, WindowToggle, env, ops
  <2> QED
    BY <2>1, <2>2, <2>3, <2>4, <2>5, <2>6, <2>7 DEF Next
<1>2. MayQueue' <=> MayQueue
  BY <1>1 DEF MayQueue
<1>3. CASE UNCHANGED unlinking
  BY <1>1, <1>2, <1>3 DEF DeletesAsked
<1>4. CASE \E f \in Files : DeleteFile(f) \/ DeleteFileLocked(f) \/ DeleteFileFailed(f)
  <2>1. PICK f \in Files : DeleteFile(f) \/ DeleteFileLocked(f) \/ DeleteFileFailed(f)
    BY <1>4
  <2>2. /\ \A g \in Files : g # f => unlinking'[g] = unlinking[g]
        /\ unlinking'[f] = "no" \/ DeleteFile(f)
    BY <2>1 DEF DeleteFile, DeleteFileLocked, DeleteFileFailed, TypeInv, TypeOK, OpsType
  <2>3. ASSUME DeleteFile(f)
        PROVE  f \in mount.deletes /\ (unlinking'[f] = "had" => MayQueue)
    <3>1. f \in mount.deletes /\ (unlinking'[f] = "had" => pending[f] # "none")
      BY <2>3 DEF DeleteFile, TypeInv, TypeOK, OpsType
    <3>2. Settled(f)
      BY DEF DataInv, FilesKept
    <3> QED
      BY <3>1, <3>2 DEF Settled
  <2> QED
    BY <1>1, <1>2, <2>2, <2>3 DEF DeletesAsked
<1> QED
  BY <1>1, <1>3, <1>4

\* DeleteFile once it has the lock.  A calm mount deletes online only.
LEMMA DeleteFileLockedData ==
    ASSUME Calm, TypeInv, TypeInv', DataInv, DeletesAsked, NEW f \in Files, DeleteFileLocked(f)
    PROVE  DataInv'
<1>1. connected /\ (unlinking[f] = "had" => MayQueue)
  BY CalmHere DEF CalmMount, DataInv, DeletesAsked, DeleteFileLocked
<1>2. /\ ~Locked(f)
      /\ UNCHANGED <<mount, connected, upload, svc, deleting, ver, hst, hpath, hlazy, hdirty>>
  BY DEF DeleteFileLocked, env
<1>3. /\ local'[f] = NoFile /\ cloud'[f] = NoFile /\ want'[f] = NoFile
      /\ lazyOpen'[f] = FALSE /\ policy'[f] = "absent"
      /\ delItems'[f] # "no" => delItems[f] # "no"
      /\ pending'[f] # "none" => pending[f] # "none" \/ MayQueue
  BY <1>1 DEF DeleteFileLocked, Stale, TypeInv, TypeOK, DiskType, GhostType, LocksType,
              LruType, OpsType
<1>4. \A g \in Files : g # f =>
         /\ local'[g] = local[g] /\ cloud'[g] = cloud[g] /\ want'[g] = want[g]
         /\ pending'[g] = pending[g] /\ lazyOpen'[g] = lazyOpen[g]
         /\ policy'[g] = policy[g] /\ delItems'[g] = delItems[g]
  BY DEF DeleteFileLocked, Stale, TypeInv, TypeOK, DiskType, GhostType, LocksType,
         LruType, OpsType
<1>5. f # None
  BY ConstantsAssumption
<1>6. \A k \in Handles :
         /\ hfd'[k] = IF hfd[k] = f THEN None ELSE hfd[k]
         /\ target'[k] = IF target[k] = f THEN None ELSE target[k]
  BY DEF DeleteFileLocked, Unlinked
<1>7. HandlesBound'
  <2> SUFFICES ASSUME NEW k \in Handles PROVE HandleBound(k)'
    BY DEF HandlesBound
  <2>1. HandleBound(k)
    BY DEF DataInv, HandlesBound
  <2> QED
    BY <1>2, <1>5, <1>6, <2>1 DEF HandleBound, Uses
<1>8. \A g \in Files : Evictions(g)'
  <2> SUFFICES ASSUME NEW g \in Files PROVE Evictions(g)'
    OBVIOUS
  <2>1. Evictions(g)
    BY DEF DataInv, FilesKept
  <2> QED
    BY <1>2, <1>3, <1>4, <2>1 DEF Evictions
<1>9. \A g \in Files : g # f => \A k \in Handles :
         (hfd'[k] = g => hfd[k] = g) /\ (Writer(k, g) => Writer(k, g)')
  BY <1>2, <1>5, <1>6, ConstantsAssumption DEF Writer
<1>10. \A g \in Files : \A k \in OpenOn(g)' : ~hlazy'[k] => k \in OpenOn(g) /\ ~hlazy[k]
  BY <1>2 DEF OpenOn
<1>11. OpenHere(f)' /\ Synced(f)' /\ Current(f)'
  BY <1>3, <1>5, <1>6 DEF OpenHere, Synced, Current
<1>12. Settled(f)'
  <2>1. Settled(f) /\ (MayQueue' <=> MayQueue)
    BY <1>2 DEF DataInv, FilesKept, MayQueue
  <2> QED
    BY <1>3, <2>1 DEF Settled
<1>13. ver \in Nat /\ ver' = ver /\ NoFile <= ver
  BY <1>2, ConstantsAssumption DEF TypeInv, TypeOK, GhostType, NoFile
<1>14. ver <= ver' /\ local'[f] <= ver' /\ cloud'[f] <= ver' /\ want'[f] <= ver'
  BY <1>3, <1>13
<1> QED
  BY <1>2, <1>4, <1>7, <1>8, <1>9, <1>10, <1>11, <1>12, <1>14, FileStep

\* deleteItem removes only a file that is closed and has nothing to write back.
LEMMA DeleteItemData ==
    ASSUME Calm, TypeInv, TypeInv', HandleCountExact, DataInv, NEW f \in Files, deleteItem(f)
    PROVE  DataInv'
<1>1. /\ ~Locked(f)
      /\ UNCHANGED <<mount, connected, cloud, want, ver, target, upload, svc, hst, hpath, hlazy,
                     hdirty, lazyOpen, pending, delItems>>
  BY DEF deleteItem, env, locks, ops, ghost
<1>2. f \in mount.evictable /\ f # None /\ deleting' = None
  BY ConstantsAssumption DEF deleteItem, DataInv, FilesKept, Evictions
<1>3. \A g \in Files : g # f => policy'[g] = policy[g] /\ local'[g] = local[g]
  BY DEF deleteItem, TypeInv, TypeOK, LruType, DiskType
<1>4. policy'[f] = "marked" => policy[f] = "marked"
  BY DEF deleteItem, TypeInv, TypeOK, LruType
<1>5. \A g \in Files : Evictions(g)'
  <2> SUFFICES ASSUME NEW g \in Files PROVE Evictions(g)'
    OBVIOUS
  <2>1. Evictions(g) /\ g # None
    BY ConstantsAssumption DEF DataInv, FilesKept
  <2> QED
    BY <1>1, <1>2, <1>3, <1>4, <2>1 DEF Evictions
<1>6. CASE policy[f] # "absent" \/ InUse(f)
  <2>1. UNCHANGED <<local, hfd>>
    BY <1>6 DEF deleteItem
  <2>2. ~connected' => mount.losses > 0
    BY <1>1 DEF DataInv
  <2> QED
    BY <1>1, <1>5, <2>1, <2>2, QuietStep
<1>7. CASE policy[f] = "absent" /\ ~InUse(f)
  <2>1. local'[f] = NoFile /\ hfd' = Unlinked(f)
    BY <1>7 DEF deleteItem, TypeInv, TypeOK, DiskType
  <2>2. OpenOn(f) = {} /\ pending[f] = "none"
    <3>1. count[f] = 0 /\ pending[f] = "none"
      BY <1>7, ConstantsAssumption DEF InUse, TypeInv, TypeOK, LocksType
    <3>2. Cardinality(OpenOn(f)) = 0 /\ IsFiniteSet(OpenOn(f))
      BY <3>1, OpenOnFinite DEF HandleCountExact
    <3> QED
      BY <3>1, <3>2, FS_EmptySet
  <2>3. \A k \in Handles : hfd[k] # f
    BY <1>2, <2>2 DEF DataInv, HandlesBound, HandleBound, OpenOn
  <2>4. \A k \in Handles : hfd'[k] = hfd[k]
    BY <2>1, <2>3 DEF Unlinked
  <2>5. cloud[f] = want[f]
    BY <2>2, <2>3 DEF DataInv, FilesKept, Synced, Current, Writer
  <2>6. HandlesBound'
    <3> SUFFICES ASSUME NEW k \in Handles PROVE HandleBound(k)'
      BY DEF HandlesBound
    <3>1. HandleBound(k)
      BY DEF DataInv, HandlesBound
    <3> QED
      BY <1>1, <2>4, <3>1 DEF HandleBound, Uses
  <2>7. \A g \in Files : g # f => \A k \in Handles :
           (hfd'[k] = g => hfd[k] = g) /\ (Writer(k, g) => Writer(k, g)')
    BY <1>1, <2>4 DEF Writer
  <2>8. \A g \in Files : OpenOn(g)' = OpenOn(g)
    BY <1>1 DEF OpenOn
  <2>9. OpenHere(f)' /\ Synced(f)' /\ Current(f)'
    BY <1>1, <2>1, <2>3, <2>4, <2>5 DEF OpenHere, Synced, Current
  <2>10. Settled(f)'
    <3>1. f \notin Movable'
      BY <1>1, <1>2, CalmHere DEF CalmMount, CalmRenames, Movable
    <3> QED
      BY <1>1, <2>2, <2>8, <3>1 DEF Settled
  <2>11. ver \in Nat /\ ver' = ver /\ NoFile <= ver
    BY <1>1, ConstantsAssumption DEF TypeInv, TypeOK, GhostType, NoFile
  <2>12. ver <= ver' /\ local'[f] <= ver' /\ cloud'[f] <= ver' /\ want'[f] <= ver'
    BY <1>1, <2>1, <2>11 DEF DataInv, Numbered
  <2> QED
    BY <1>1, <1>3, <1>5, <2>6, <2>7, <2>8, <2>9, <2>10, <2>12, FileStep
<1> QED
  BY <1>6, <1>7

-----------------------------------------------------------------------------
(* Renaming                                                                *)

\* What a calm rename finds: src is in the cache with its latest contents, no call is
\* under way on it, and nobody has dst open.
LEMMA RenameFacts ==
    ASSUME Calm, TypeInv, HandleCountExact, DataInv, NEW s \in Files, NEW d \in Files,
           RenameFile(s, d)
    PROVE  /\ s # d /\ connected /\ s \notin mount.evictable /\ d \notin mount.evictable
           /\ d \in {r[2] : r \in mount.renames}
           /\ local[s] # NoFile /\ local[s] = want[s]
           /\ \A k \in Handles : hst[k] # "free" => hpath[k] # d
           /\ \A k \in Handles : hpath'[k] = IF hst[k] # "free" /\ hpath[k] = s
                                             THEN d ELSE hpath[k]
<1>1. <<s, d>> \in mount.renames
  BY DEF RenameFile
<1>2. /\ s # d /\ s \notin mount.evictable /\ d \notin mount.evictable
      /\ ~mount.races /\ mount.losses = 0
  BY <1>1, CalmHere DEF CalmMount, CalmRenames
<1>3. connected /\ NoCallOn(s) /\ OpenOn(d) = {}
  BY <1>2 DEF RenameFile, DataInv
<1>4. local[s] # NoFile
  <2>1. s \in Movable
    BY <1>1 DEF Movable
  <2>2. CloudResolves(s)
    BY <1>3 DEF RenameFile, RenameAllowed
  <2> QED
    BY <2>1, <2>2 DEF CloudResolves, DataInv, FilesKept, Settled
<1>5. local[s] = want[s]
  BY <1>4 DEF DataInv, FilesKept, Current
<1>6. ASSUME NEW k \in Handles
      PROVE  hpath'[k] = IF hst[k] # "free" /\ hpath[k] = s THEN d ELSE hpath[k]
  <2>1. hpath'[k] = RenamedHandle(k, s, d)
    BY DEF RenameFile
  <2>2. CASE hst[k] # "free" /\ hpath[k] = s
    <3>1. k \in OpenOn(s)
      BY <2>2 DEF OpenOn
    <3>2. count[s] > 0
      BY <3>1, OpenOnFinite, FS_EmptySet DEF HandleCountExact
    <3>3. hst[k] \in {"live", "stuck"}
      BY <1>3, <2>2 DEF NoCallOn, TypeInv, TypeOK, HandleType
    <3> QED
      BY <2>1, <2>2, <3>2, <3>3 DEF RenamedHandle
  <2>3. CASE hst[k] = "free" \/ hpath[k] # s
    BY <2>1, <2>3 DEF RenamedHandle
  <2> QED
    BY <2>2, <2>3
<1>7. d \in {r[2] : r \in mount.renames}
  BY <1>1
<1> QED
  BY <1>2, <1>3, <1>4, <1>5, <1>6, <1>7 DEF OpenOn

\* RenameFile: the file, its descriptors and what is queued for it move to the new name.
LEMMA RenameFileData ==
    ASSUME Calm, TypeInv, TypeInv', HandleCountExact, DataInv, NEW s \in Files, NEW d \in Files,
           RenameFile(s, d)
    PROVE  DataInv'
<1> DEFINE Follow(g) == IF g = s THEN d ELSE g
<1>1. /\ s # d /\ connected /\ s \notin mount.evictable /\ d \notin mount.evictable
      /\ d \in {r[2] : r \in mount.renames}
      /\ local[s] # NoFile /\ local[s] = want[s]
      /\ \A k \in Handles : hst[k] # "free" => hpath[k] # d
      /\ \A k \in Handles : hpath'[k] = IF hst[k] # "free" /\ hpath[k] = s THEN d ELSE hpath[k]
  BY RenameFacts
<1>2. /\ ~Locked(s) /\ ~Locked(d) /\ s # None /\ d # None
      /\ UNCHANGED <<mount, connected, deleting, upload, svc, hst, hlazy, hdirty, ver>>
  BY ConstantsAssumption DEF RenameFile, env
<1>3. /\ local'[s] = NoFile /\ want'[s] = NoFile /\ cloud'[s] = NoFile
      /\ local'[d] = local[s] /\ want'[d] = want[s]
      /\ cloud'[d] = IF cloud[s] # NoFile THEN cloud[s] ELSE cloud[d]
      /\ \A g \in Files : g # s /\ g # d =>
            local'[g] = local[g] /\ cloud'[g] = cloud[g] /\ want'[g] = want[g]
  BY <1>1 DEF RenameFile, TypeInv, TypeOK, DiskType, GhostType
<1>4. /\ \A g \in Files : g # s /\ g # d => pending'[g] = pending[g] /\ lazyOpen'[g] = lazyOpen[g]
      /\ pending[s] = "none" => pending' = pending
      /\ pending[s] # "none" => pending'[s] # "none" /\ pending'[d] # "none"
  BY <1>1 DEF RenameFile, RenamedPending, TypeInv, TypeOK, OpsType, LocksType
<1>5. \A k \in Handles : /\ hfd'[k] = Follow(hfd[k]) /\ target'[k] = Follow(target[k])
                         /\ hfd[k] # d /\ target[k] # d
  <2> SUFFICES ASSUME NEW k \in Handles
               PROVE  /\ hfd'[k] = Follow(hfd[k]) /\ target'[k] = Follow(target[k])
                      /\ hfd[k] # d /\ target[k] # d
    OBVIOUS
  <2>1. hfd[k] # d /\ target[k] # d
    BY <1>1, <1>2 DEF DataInv, HandlesBound, HandleBound
  <2> QED
    BY <1>1, <2>1 DEF RenameFile
<1>6. HandlesBound'
  <2> SUFFICES ASSUME NEW k \in Handles PROVE HandleBound(k)'
    BY DEF HandlesBound
  <2>1. HandleBound(k)
    BY DEF DataInv, HandlesBound
  <2>2. CASE hst[k] # "free" /\ hpath[k] = s
    BY <1>1, <1>2, <1>5, <2>1, <2>2 DEF HandleBound, Uses
  <2>3. CASE hst[k] = "free" \/ hpath[k] # s
    BY <1>1, <1>2, <1>5, <2>1, <2>3 DEF HandleBound, Uses
  <2> QED
    BY <2>2, <2>3
<1>7. \A u \in Uploaders : upload[u].name \notin {s, d} /\ upload[u].lock \notin {s, d}
  BY <1>2, NotUploaded
<1>8. UploadsOwned'
  <2>1. ASSUME NEW h \in Handles, upload[h] # NoUpload PROVE hpath'[h] = hpath[h]
    BY <1>1, <1>7, <2>1 DEF DataInv, UploadsOwned, Uploaders
  <2> QED
    BY <1>2, <2>1, OwnedFrame
<1>9. \A g \in Files : g # s /\ g # d =>
         \A k \in Handles : (hfd'[k] = g <=> hfd[k] = g) /\ (Writer(k, g) => Writer(k, g)')
  BY <1>2, <1>5 DEF Writer
<1>10. ASSUME NEW u \in Uploaders PROVE Fresh(u)'
  <2> SUFFICES ASSUME upload[u] # NoUpload PROVE Fresh(u)'
    BY <1>2 DEF Fresh
  <2>1. PICK g \in Files : g = upload[u].name /\ g # s /\ g # d
    BY <1>7, UploadNames
  <2>2. Fresh(u)
    BY DEF DataInv
  <2>3. (\E k \in Handles \ {u} : Writer(k, g)) => \E k \in Handles \ {u} : Writer(k, g)'
    BY <1>9, <2>1
  <2> QED
    BY <1>2, <1>3, <2>1, <2>2, <2>3 DEF Fresh
<1>11. Numbered'
  <2>1. NoFile <= ver
    BY ConstantsAssumption DEF TypeInv, TypeOK, GhostType, NoFile
  <2>2. Numbered
    BY DEF DataInv
  <2>3. \A g \in Files : local'[g] <= ver /\ cloud'[g] <= ver /\ want'[g] <= ver
    BY <1>3, <2>1, <2>2 DEF Numbered
  <2> QED
    BY <1>2, <2>2, <2>3 DEF Numbered
<1>12. \A g \in Files : Evictions(g)'
  <2> SUFFICES ASSUME NEW g \in Files PROVE Evictions(g)'
    OBVIOUS
  <2>1. Evictions(g) /\ policy[g] \in {"absent", "cached", "marked"}
    BY DEF DataInv, FilesKept, TypeInv, TypeOK, LruType
  <2>2. /\ delItems'[g] # "no" => delItems[g] # "no"
        /\ policy'[g] = IF g = s THEN "absent"
                        ELSE IF g = d /\ policy[g] = "absent" THEN "cached" ELSE policy[g]
    BY <1>1 DEF RenameFile, Stale, TypeInv, TypeOK, LruType
  <2> QED
    BY <1>1, <1>2, <1>3, <2>1, <2>2 DEF Evictions
<1>13. MayQueue' <=> MayQueue
  BY <1>2 DEF MayQueue
<1>14. ASSUME NEW g \in Files, g # s, g # d
       PROVE  OpenHere(g)' /\ Synced(g)' /\ Current(g)' /\ Settled(g)'
  <2>1. \A k \in OpenOn(g)' : ~hlazy'[k] => k \in OpenOn(g) /\ ~hlazy[k]
    BY <1>1, <1>2, <1>14 DEF OpenOn
  <2> QED
    BY <1>2, <1>3, <1>4, <1>9, <1>14, <2>1, KeptFrame
<1>15. OpenHere(s)' /\ Synced(s)' /\ Current(s)' /\ Settled(s)'
  <2>1. ~MayQueue => pending[s] = "none"
    BY DEF DataInv, FilesKept, Settled
  <2>2. OpenHere(s)' /\ Synced(s)' /\ Current(s)'
    BY <1>1, <1>3, <1>5 DEF OpenHere, Synced, Current
  <2> QED
    BY <1>3, <1>4, <1>13, <2>1, <2>2 DEF Settled
<1>16. OpenHere(d)' /\ Synced(d)' /\ Current(d)' /\ Settled(d)'
  <2>1. OpenHere(s) /\ Synced(s) /\ Settled(s) /\ Settled(d)
    BY DEF DataInv, FilesKept
  <2>2. OpenHere(d)'
    <3> SUFFICES ASSUME NEW h \in Handles, hfd'[h] = d PROVE ~lazyOpen'[d]
      BY <1>1, <1>3 DEF OpenHere
    <3>1. hfd[h] = s
      BY <1>5
    <3>2. h \in OpenOn(s)
      BY <1>2, <3>1 DEF OpenOn, DataInv, HandlesBound, HandleBound
    <3>3. count[s] > 0
      BY <3>2, OpenOnFinite, FS_EmptySet DEF HandleCountExact
    <3>4. lazyOpen'[d] = lazyOpen[s]
      BY <3>3 DEF RenameFile, TypeInv, TypeOK, LocksType
    <3> QED
      BY <2>1, <3>1, <3>4 DEF OpenHere
  <2>3. Synced(d)'
    <3> SUFFICES ASSUME local'[d] # cloud'[d]
                 PROVE  pending'[d] # "none" \/ \E h \in Handles : Writer(h, d)'
      BY DEF Synced
    <3>1. local[s] # cloud[s]
      BY <1>1, <1>3
    <3>2. pending[s] # "none" \/ \E h \in Handles : Writer(h, s)
      BY <1>1, <2>1, <3>1 DEF Synced
    <3>3. \A h \in Handles : Writer(h, s) => Writer(h, d)'
      BY <1>2, <1>5 DEF Writer
    <3> QED
      BY <1>4, <3>2, <3>3
  <2>4. Current(d)'
    BY <1>1, <1>3 DEF Current
  <2>5. Settled(d)'
    BY <1>1, <1>3, <1>4, <1>13, <2>1 DEF Settled
  <2> QED
    BY <2>2, <2>3, <2>4, <2>5
<1>17. ~connected' => mount'.losses > 0
  BY <1>1, <1>2
<1> QED
  BY <1>6, <1>8, <1>10, <1>11, <1>12, <1>14, <1>15, <1>16, <1>17 DEF DataInv, FilesKept

-----------------------------------------------------------------------------
(* The invariant is inductive                                              *)

KeptInv == CountInv /\ DeletesAsked /\ DataInv

\* A fresh mount: nothing is cached, open or under way.
LEMMA InitData == ASSUME Calm, Init PROVE DataInv /\ DeletesAsked
<1>1. TypeInv
  BY InitTypeInv
<1>2. /\ \A f \in Files : local[f] = NoFile /\ cloud[f] = want[f] /\ policy[f] = "absent"
                          /\ delItems[f] = "no" /\ pending[f] = "none" /\ unlinking[f] = "no"
      /\ \A h \in Handles : hst[h] = "free" /\ hfd[h] = None /\ hlazy[h] = FALSE
                            /\ hdirty[h] = FALSE /\ target[h] = None /\ hpath[h] = None
      /\ \A u \in Uploaders : upload[u] = NoUpload
      /\ deleting = None /\ connected
  BY Zenon DEF Init
<1>3. None \notin Files /\ Service \in Uploaders /\ Handles \subseteq Uploaders
  BY ConstantsAssumption DEF Uploaders
<1>4. HandlesBound
  BY <1>2 DEF HandlesBound, HandleBound
<1>5. UploadsOwned
  BY <1>2, <1>3 DEF UploadsOwned, NoUpload
<1>6. Numbered
  <2>1. \A f \in Files : cloud[f] <= ver
    BY ConstantsAssumption DEF Init, NoFile
  <2>2. ver \in Nat /\ NoFile <= ver /\ NoUpload.data = NoFile
    BY <1>1, ConstantsAssumption DEF TypeInv, TypeOK, GhostType, NoFile, NoUpload
  <2> QED
    BY <1>2, <2>1, <2>2 DEF Numbered
<1>7. FilesKept
  <2> SUFFICES ASSUME NEW f \in Files
               PROVE  OpenHere(f) /\ Synced(f) /\ Current(f) /\ Settled(f) /\ Evictions(f)
    BY DEF FilesKept
  <2>1. OpenOn(f) = {}
    BY <1>2 DEF OpenOn
  <2>2. OpenHere(f) /\ Synced(f) /\ Current(f)
    BY <1>2, <1>3 DEF OpenHere, Synced, Current
  <2>3. Settled(f) /\ Evictions(f)
    <3>1. f \in Movable => cloud[f] = NoFile
      BY <1>1, CalmHere DEF CalmMount, CalmRenames, Movable, Init
    <3> QED
      BY <1>2, <1>3, <2>1, <3>1 DEF Settled, Evictions
  <2> QED
    BY <2>2, <2>3
<1>8. \A u \in Uploaders : Fresh(u)
  BY <1>2 DEF Fresh
<1> QED
  BY <1>2, <1>4, <1>5, <1>6, <1>7, <1>8 DEF DataInv, DeletesAsked

\* Every step of a calm mount keeps the contents of its files.
LEMMA NextKeptInv ==
    ASSUME Calm, KeptInv, [Next]_vars
    PROVE  KeptInv'
<1>1. NoRenameRaces
  BY DEF Calm, CalmMount, CalmRenames, NoRenameRaces
<1>2. CountInv'
  BY <1>1, NextCountInv DEF KeptInv
<1>3. /\ TypeInv /\ TypeInv' /\ HandleCountExact /\ CallLocks /\ DataInv /\ DeletesAsked
  BY <1>2 DEF KeptInv, CountInv
<1>4. DeletesAsked'
  BY <1>3, NextDeletesAsked
<1>5. DataInv'
  <2>1. CASE UNCHANGED vars
    <3>1. /\ UNCHANGED <<mount, connected, local, cloud, want, ver, target, upload, svc, hst,
                         hpath, hfd, hlazy, hdirty, lazyOpen, pending>>
          /\ UNCHANGED lru
      BY <2>1 DEF vars, disk, locks, ops, handle, env, ghost
    <3>2. \A g \in Files : Evictions(g)'
      BY <1>3, <3>1, EvictionsKeep
    <3>3. ~connected' => mount.losses > 0
      BY <1>3, <3>1 DEF DataInv
    <3> QED
      BY <1>3, <3>1, <3>2, <3>3, QuietStep
  <2>2. CASE \E h \in Handles, f \in Files : CreateFile(h, f)
    BY <1>3, <2>2, CreateFileData
  <2>3. CASE \E h \in Handles, f \in Files : OpenFile(h, f, FALSE) \/ OpenFile(h, f, TRUE)
    BY <1>3, <2>3, OpenFileData
  <2>4. CASE \E h \in Handles : AddHandle(h) \/ FlushFile(h, FALSE) \/ FlushFile(h, TRUE)
                                \/ ReleaseFile(h)
    BY <1>3, <2>4, CallData
  <2>5. CASE \E h \in Handles : EnsureOpen(h)
    BY <1>3, <2>5, EnsureOpenData
  <2>6. CASE \E h \in Handles : WriteFile(h)
    BY <1>3, <2>6, WriteFileData
  <2>7. CASE \E h \in Handles : \/ FlushClean(h) \/ FlushDeferred(h) \/ FlushNoFile(h)
                                \/ FlushOffline(h) \/ FlushFailed(h)
    BY <1>3, <2>7, FlushReturnData
  <2>8. CASE \E h \in Handles : FlushUpload(h)
    BY <1>3, <2>8, FlushUploadData
  <2>9. CASE \E h \in Handles : FlushUploaded(h)
    BY <1>3, <2>9, FlushUploadedData
  <2>10. CASE \E f \in Files : DeleteFile(f) \/ DeleteFileFailed(f) \/ SvcPick(f)
    BY <1>3, <2>10, QueueData
  <2>11. CASE \E f \in Files : DeleteFileLocked(f)
    BY <1>3, <2>11, DeleteFileLockedData
  <2>12. CASE \E f \in Files : TruncateFile(f, "zero") \/ TruncateFile(f, "nonzero")
    BY <1>3, <2>12, TruncateFileData
  <2>13. CASE \E f \in Files : SvcSkip(f) \/ SvcFailed(f)
    BY <1>3, <2>13, SvcEndData
  <2>14. CASE \E f \in Files : SvcUpload(f)
    BY <1>3, <2>14, SvcUploadData
  <2>15. CASE \E f \in Files : SvcUploaded(f)
    BY <1>3, <2>15, SvcUploadedData
  <2>16. CASE \E f \in Files : deleteItem(f)
    BY <1>3, <2>16, DeleteItemData
  <2>17. CASE \/ \E S \in SUBSET mount.evictable : EvictMark(S)
              \/ \E f \in Files : EvictItem(f) \/ asyncCacheValid(f)
    BY <1>3, <2>17, PolicyData
  <2>18. CASE Disconnect \/ Reconnect \/ WindowToggle
    BY <1>3, <2>18, EnvData
  <2>19. ~\E f \in Files : SvcDelete(f)
    BY <1>3, NoSvcDelete
  <2>20. CASE \E s, d \in Files : RenameFile(s, d)
    BY <1>3, <2>20, RenameFileData
  <2> QED
    BY <2>1, <2>2, <2>3, <2>4, <2>5, <2>6, <2>7, <2>8, <2>9, <2>10, <2>11, <2>12, <2>13,
       <2>14, <2>15, <2>16, <2>17, <2>18, <2>19, <2>20 DEF Next
<1> QED
  BY <1>2, <1>4, <1>5 DEF KeptInv

\* The invariant of every calm mount.
LEMMA AlwaysKept == ASSUME Calm PROVE Spec => []KeptInv
<1>1. Init => KeptInv
  <2> SUFFICES ASSUME Init PROVE KeptInv
    OBVIOUS
  <2>1. TypeInv /\ DataInv /\ DeletesAsked
    BY InitTypeInv, InitData
  <2>2. \A f \in Files : OpenOn(f) = {} /\ count[f] = 0
    BY DEF Init, OpenOn
  <2>3. HandleCountExact /\ CallLocks
    BY <2>2, FS_EmptySet DEF Init, HandleCountExact, CallLocks
  <2> QED
    BY <2>1, <2>3 DEF KeptInv, CountInv
<1>2. KeptInv /\ [Next]_vars => KeptInv'
  BY NextKeptInv
<1> QED
  BY <1>1, <1>2, PTL DEF Spec

-----------------------------------------------------------------------------
(* The theorems                                                            *)

\* A dirty handle of a file counts towards its open handles.
LEMMA WriterCounts ==
    ASSUME CountInv, DataInv, NEW f \in Files, NEW h \in Handles, Writer(h, f)
    PROVE  h \in OpenOn(f) /\ count[f] > 0
<1>1. h \in OpenOn(f)
  BY ConstantsAssumption DEF Writer, DataInv, HandlesBound, HandleBound, OpenOn
<1>2. Cardinality(OpenOn(f)) > 0
  BY <1>1, OpenOnFinite, FS_EmptySet
<1> QED
  BY <1>1, <1>2 DEF CountInv, HandleCountExact

\* deleteItem can never remove the only copy of a change: a file of the cache
\* directory that differs from its object is counted as open or is queued in
\* pendingOps, in any calm mount, for any number of files and handles.
THEOREM UnsyncedKept == ASSUME Calm PROVE Spec => []UnsyncedProtected
<1>1. KeptInv => UnsyncedProtected
  <2> SUFFICES ASSUME KeptInv, NEW f \in Files, local[f] # NoFile, local[f] # cloud[f]
               PROVE  count[f] > 0 \/ pending[f] # "none"
    BY DEF UnsyncedProtected
  <2>1. pending[f] # "none" \/ \E h \in Handles : Writer(h, f)
    BY DEF KeptInv, DataInv, FilesKept, Synced
  <2> QED
    BY <2>1, WriterCounts DEF KeptInv
<1> QED
  BY <1>1, AlwaysKept, PTL

\* No eviction, new download, upload, failure or retry loses the latest contents
\* of a file: the cache directory has them or the cloud does.
THEOREM DataKept == ASSUME Calm PROVE Spec => []DataSurvives
<1>1. KeptInv => DataSurvives
  BY DEF KeptInv, DataInv, FilesKept, Current, DataSurvives
<1> QED
  BY <1>1, AlwaysKept, PTL

\* An opened handle reads what was written last, by whichever handle: the file of
\* its descriptor is neither replaced by a download nor evicted under it.
THEOREM LatestRead == ASSUME Calm PROVE Spec => []ReadsLatest
<1>1. KeptInv => ReadsLatest
  <2> SUFFICES ASSUME KeptInv, NEW h \in Handles, ~hlazy[h], target[h] # None
               PROVE  hfd[h] = target[h] /\ local[hfd[h]] = want[target[h]]
    BY DEF ReadsLatest
  <2>1. hfd[h] = target[h]
    BY DEF KeptInv, DataInv, HandlesBound, HandleBound
  <2>2. PICK f \in Files : f = target[h]
    BY DEF KeptInv, CountInv, TypeInv, TypeOK, GhostType
  <2>3. OpenHere(f) /\ Current(f)
    BY DEF KeptInv, DataInv, FilesKept
  <2> QED
    BY <2>1, <2>2, <2>3 DEF OpenHere, Current
<1> QED
  BY <1>1, AlwaysKept, PTL

\* Once a file is closed and has no entry in pendingOps, the cloud holds what its
\* writers left: flushFileCloud and updateObject drop nothing on the way.
THEOREM ClosedSynced == ASSUME Calm PROVE Spec => []QuiescentSynced
<1>1. KeptInv => QuiescentSynced
  <2> SUFFICES ASSUME KeptInv, NEW f \in Files, Quiescent(f) PROVE cloud[f] = want[f]
    BY DEF QuiescentSynced
  <2>1. ~\E h \in Handles : Writer(h, f)
    BY WriterCounts DEF KeptInv, Quiescent
  <2> QED
    BY <2>1 DEF KeptInv, DataInv, FilesKept, Synced, Current, Quiescent
<1> QED
  BY <1>1, AlwaysKept, PTL

\* The steps that change the cloud in a calm mount; a rename moves contents as well.
LEMMA CloudSteps ==
    ASSUME Calm, KeptInv, [Next]_vars
    PROVE  \/ UNCHANGED cloud
           \/ \E h \in Handles, f \in Files : CreateFile(h, f)
           \/ \E f \in Files : \/ DeleteFileLocked(f)
                               \/ TruncateFile(f, "zero") \/ TruncateFile(f, "nonzero")
           \/ \E u \in Uploaders :
                 /\ upload[u] # NoUpload
                 /\ cloud' = [cloud EXCEPT ![upload[u].name] = upload[u].data]
           \/ want' # want
<1>1. CASE UNCHANGED vars
  BY <1>1 DEF vars, disk
<1>2. CASE \E h \in Handles, f \in Files :
              CreateFile(h, f) \/ OpenFile(h, f, FALSE) \/ OpenFile(h, f, TRUE)
  <2>1. PICK h \in Handles, f \in Files :
           CreateFile(h, f) \/ OpenFile(h, f, FALSE) \/ OpenFile(h, f, TRUE)
    BY <1>2
  <2>2. ASSUME NEW trunc \in BOOLEAN, OpenFile(h, f, trunc) PROVE UNCHANGED cloud
    BY <2>2 DEF OpenFile, disk
  <2> QED
    BY <2>1, <2>2
<1>3. CASE \E h \in Handles :
              \/ AddHandle(h) \/ EnsureOpen(h) \/ WriteFile(h)
              \/ FlushFile(h, FALSE) \/ FlushFile(h, TRUE) \/ ReleaseFile(h)
  BY <1>3 DEF AddHandle, EnsureOpen, WriteFile, FlushFile, ReleaseFile, disk
<1>4. CASE \E h \in Handles :
              \/ FlushClean(h) \/ FlushDeferred(h) \/ FlushNoFile(h) \/ FlushUpload(h)
              \/ FlushUploaded(h) \/ FlushOffline(h) \/ FlushFailed(h)
  BY <1>4 DEF FlushClean, FlushDeferred, FlushNoFile, FlushUpload, FlushUploaded,
              FlushOffline, FlushFailed, disk, Uploaders
<1>5. CASE \E f \in Files :
              \/ DeleteFile(f) \/ DeleteFileLocked(f) \/ DeleteFileFailed(f)
              \/ TruncateFile(f, "zero") \/ TruncateFile(f, "nonzero")
              \/ EvictItem(f) \/ deleteItem(f) \/ asyncCacheValid(f)
  BY <1>5 DEF DeleteFile, DeleteFileFailed, EvictItem, deleteItem, asyncCacheValid, disk
<1>6. CASE \E f \in Files :
              \/ SvcPick(f) \/ SvcSkip(f) \/ SvcDelete(f) \/ SvcUpload(f)
              \/ SvcUploaded(f) \/ SvcFailed(f)
  <2>1. PICK f \in Files : \/ SvcPick(f) \/ SvcSkip(f) \/ SvcDelete(f) \/ SvcUpload(f)
                           \/ SvcUploaded(f) \/ SvcFailed(f)
    BY <1>6
  <2>2. ~SvcDelete(f)
    BY NoSvcDelete DEF KeptInv
  <2>3. CASE SvcPick(f) \/ SvcSkip(f) \/ SvcUpload(f) \/ SvcFailed(f)
    BY <2>3 DEF SvcPick, SvcSkip, SvcUpload, SvcFailed, disk
  <2>4. CASE SvcUploaded(f)
    <3>1. upload[Service] # NoUpload /\ upload[Service].name = f
      BY <2>4, ConstantsAssumption DEF SvcUploaded, NoUpload
    <3> QED
      BY <2>4, <3>1 DEF SvcUploaded, Uploaders
  <2> QED
    BY <2>1, <2>2, <2>3, <2>4
<1>7. ASSUME NEW s \in Files, NEW d \in Files, RenameFile(s, d) PROVE want' # want
  <2>1. s # d /\ want[s] # NoFile
    BY <1>7, RenameFacts DEF KeptInv, CountInv
  <2>2. want'[s] = NoFile
    BY <1>7, <2>1 DEF RenameFile, KeptInv, CountInv, TypeInv, TypeOK, GhostType
  <2> QED
    BY <2>1, <2>2
<1>8. CASE \/ \E S \in SUBSET mount.evictable : EvictMark(S)
           \/ Disconnect \/ Reconnect \/ WindowToggle
  BY <1>8 DEF EvictMark, Disconnect, Reconnect, WindowToggle, disk
<1> QED
  BY <1>1, <1>2, <1>3, <1>4, <1>5, <1>6, <1>7, <1>8 DEF Next

\* A write-back, by a flush or by updateObject, never replaces the latest contents
\* in the cloud by older ones, whatever was written to the file since the upload
\* began and however often it is retried.
THEOREM NoRegression == ASSUME Calm PROVE Spec => CloudNeverRegresses
<1>1. ASSUME KeptInv, [Next]_vars, want' = want, NEW f \in Files, cloud[f] = want[f]
      PROVE  cloud'[f] = want[f]
  <2>1. cloud \in [Files -> Content] /\ want \in [Files -> Content]
    BY <1>1 DEF KeptInv, CountInv, TypeInv, TypeOK, DiskType, GhostType
  <2>2. CASE UNCHANGED cloud
    BY <1>1, <2>2
  <2>3. CASE \E h \in Handles, g \in Files : CreateFile(h, g)
    <3>1. PICK h \in Handles, g \in Files : CreateFile(h, g)
      BY <2>3
    <3>2. want'[g] = Empty /\ cloud[g] = NoFile /\ (g # f => cloud'[f] = cloud[f])
      BY <2>1, <3>1 DEF CreateFile
    <3> QED
      BY <1>1, <3>2 DEF Empty, NoFile
  <2>4. CASE \E g \in Files : DeleteFileLocked(g)
    <3>1. PICK g \in Files : DeleteFileLocked(g)
      BY <2>4
    <3>2. want'[g] = NoFile /\ cloud'[f] \in {cloud[f], IF g = f THEN NoFile ELSE cloud[f]}
      BY <2>1, <3>1 DEF DeleteFileLocked
    <3> QED
      BY <1>1, <3>2
  <2>5. ASSUME NEW size \in {"zero", "nonzero"}, NEW g \in Files, TruncateFile(g, size)
        PROVE  cloud'[f] = want[f]
    <3>1. want'[g] = Resized(g, size, want[g])
      BY <2>1, <2>5 DEF TruncateFile
    <3>2. cloud'[f] = cloud[f] \/ (g = f /\ cloud'[f] = Resized(g, size, cloud[g]))
      BY <2>1, <2>5 DEF TruncateFile
    <3> QED
      BY <1>1, <3>1, <3>2
  <2>6. CASE \E u \in Uploaders :
                /\ upload[u] # NoUpload
                /\ cloud' = [cloud EXCEPT ![upload[u].name] = upload[u].data]
    <3>1. PICK u \in Uploaders :
             /\ upload[u] # NoUpload
             /\ cloud' = [cloud EXCEPT ![upload[u].name] = upload[u].data]
      BY <2>6
    <3>2. Fresh(u)
      BY <1>1 DEF KeptInv, DataInv
    <3> QED
      BY <1>1, <2>1, <3>1, <3>2 DEF Fresh
  <2> QED
    BY <1>1, <2>2, <2>3, <2>4, <2>5, <2>6, CloudSteps
<1>2. KeptInv /\ [Next]_vars =>
         [want' = want => \A f \in Files : cloud[f] = want[f] => cloud'[f] = want[f]]_vars
  BY <1>1
<1> QED
  BY <1>2, AlwaysKept, PTL DEF Spec, CloudNeverRegresses

-----------------------------------------------------------------------------
(* Queued deletions                                                        *)

\* Mounts whose files are neither renamed nor truncated by path, and where a
\* download that replaces a cached file does not fail.  They may lose their
\* connection, queue deletions and uploads, evict, refresh and share handles.
QueueingMount(m) ==
    /\ m.renames = {} /\ m.truncates = {}
    /\ m.evictable # {} \/ m.refreshSec => "data" \notin m.cloudErrors

Queueing == \A m \in Mounts : QueueingMount(m)

\* An open handle is bound to its name, and its descriptor to a file of the cache.
Follows(h) ==
    /\ hfd[h] \in {None, hpath[h]} /\ target[h] \in {None, hpath[h]}
    /\ hfd[h] # None => local[hfd[h]] # NoFile
    /\ ~hlazy[h] /\ target[h] # None => hfd[h] = target[h]
    /\ hdirty[h] => ~hlazy[h] /\ hst[h] # "free"
    /\ hst[h] = "free" => ~hlazy[h] /\ hpath[h] = None

\* An upload sends a file, for a handle that is dirty until it ends.
Sends(u) == upload[u] # NoUpload => upload[u].data # NoFile /\ (u \in Handles => hdirty[u])

\* f has an entry in pendingOps, or a handle that has seen its contents.
Touched(f) == pending[f] # "none" \/ \E h \in OpenOn(f) : ~hlazy[h]

\* A file that is not in the cache does not exist for its users either.
Held(f) == local[f] = NoFile => want[f] = NoFile

Unmarked == mount.evictable = {} => \A f \in Files : policy[f] # "marked"

QueueInv ==
    /\ CountInv /\ Unmarked
    /\ \A h \in Handles : Follows(h)
    /\ \A u \in Uploaders : Sends(u)
    /\ \A f \in Files : Touched(f) => Held(f)

\* The mount of a behaviour is one of them.
LEMMA QueueingHere == ASSUME Queueing, TypeInv PROVE QueueingMount(mount)
  BY DEF Queueing, TypeInv, TypeOK, EnvType

\* Using a file marks none for eviction.
LEMMA MarksKept ==
    ASSUME QueueInv, NEW f, CacheValid(f) \/ UNCHANGED policy, mount' = mount
    PROVE  Unmarked'
  BY DEF QueueInv, Unmarked, CacheValid, CountInv, TypeInv, TypeOK, LruType

\* A step that keeps the cache, what its users want and the handles, and queues
\* nothing new.
LEMMA QueueFrame ==
    ASSUME QueueInv, CountInv', Unmarked',
           UNCHANGED <<local, want, target, hfd, hlazy, hdirty, hpath>>,
           \A h \in Handles : hst'[h] = "free" <=> hst[h] = "free",
           \A f \in Files : pending'[f] # "none" => pending[f] # "none" \/ Held(f),
           \A u \in Uploaders : upload'[u] = upload[u] \/ Sends(u)'
    PROVE  QueueInv'
<1>1. \A h \in Handles : Follows(h)'
  BY DEF QueueInv, Follows
<1>2. \A u \in Uploaders : Sends(u)'
  BY DEF QueueInv, Sends
<1>3. \A f \in Files : OpenOn(f)' = OpenOn(f)
  BY DEF OpenOn
<1>4. \A f \in Files : Touched(f)' => Held(f)'
  BY <1>3 DEF QueueInv, Touched, Held
<1> QED
  BY <1>1, <1>2, <1>4 DEF QueueInv

\* A step of one handle h on one file f, which is in the cache afterwards.
LEMMA QueueFileStep ==
    ASSUME QueueInv, CountInv', Unmarked', NEW h \in Handles, NEW f \in Files,
           UNCHANGED upload, upload[h] = NoUpload, local'[f] # NoFile,
           \A g \in Files : g # f => local'[g] = local[g] /\ want'[g] = want[g]
                                     /\ pending'[g] = pending[g],
           \A k \in Handles : k # h =>
              /\ hst'[k] = hst[k] /\ hpath'[k] = hpath[k] /\ hfd'[k] = hfd[k]
              /\ hlazy'[k] = hlazy[k] /\ hdirty'[k] = hdirty[k] /\ target'[k] = target[k],
           hpath'[h] = f, hst'[h] # "free", hfd'[h] = f, target'[h] \in {None, f},
           ~hlazy'[h]
    PROVE  QueueInv'
<1>0. f # None
  BY ConstantsAssumption
<1>1. \A k \in Handles : Follows(k)'
  <2> SUFFICES ASSUME NEW k \in Handles PROVE Follows(k)'
    OBVIOUS
  <2>1. CASE k = h
    BY <1>0, <2>1 DEF Follows
  <2>2. CASE k # h
    <3>1. Follows(k) /\ hfd[k] \in Files \cup {None}
      BY DEF QueueInv, CountInv, TypeInv, TypeOK, HandleType
    <3> QED
      BY <2>2, <3>1 DEF Follows
  <2> QED
    BY <2>1, <2>2
<1>2. \A u \in Uploaders : Sends(u)'
  BY DEF QueueInv, Sends
<1>3. ASSUME NEW g \in Files PROVE Touched(g)' => Held(g)'
  <2>1. CASE g = f
    BY <2>1 DEF Held
  <2>2. CASE g # f
    <3>1. \A k \in OpenOn(g)' : k # h /\ k \in OpenOn(g) /\ hlazy'[k] = hlazy[k]
      BY <2>2 DEF OpenOn
    <3> QED
      BY <2>2, <3>1 DEF QueueInv, Touched, Held
  <2> QED
    BY <2>1, <2>2
<1> QED
  BY <1>1, <1>2, <1>3 DEF QueueInv

\* A handle that is free has no upload, no path and no descriptor.
LEMMA FreeHandleHere ==
    ASSUME QueueInv, NEW h \in Handles, hst[h] = "free"
    PROVE  upload[h] = NoUpload /\ ~hlazy[h] /\ ~hdirty[h] /\ hfd[h] = None
  BY DEF QueueInv, Follows, CountInv, TypeInv, HandlesLinked

\* CreateFile makes the file in the cache.
LEMMA QueueCreate ==
    ASSUME QueueInv, CountInv', NEW h \in Handles, NEW f \in Files, CreateFile(h, f)
    PROVE  QueueInv'
<1>1. /\ hst[h] = "free" /\ CacheValid(f) /\ UNCHANGED <<upload, hlazy>> /\ mount' = mount
      /\ local' = [local EXCEPT ![f] = Empty] /\ want' = [want EXCEPT ![f] = Empty]
      /\ hst' = [hst EXCEPT ![h] = "live"] /\ hpath' = [hpath EXCEPT ![h] = f]
      /\ hfd' = [hfd EXCEPT ![h] = f] /\ target' = [target EXCEPT ![h] = f]
      /\ hdirty' = [hdirty EXCEPT ![h] = ~mount.createEmptyFile]
      /\ pending' = IF connected THEN pending ELSE [pending EXCEPT ![f] = "upload"]
  BY DEF CreateFile, env
<1>2. TypeOK
  BY DEF QueueInv, CountInv, TypeInv
<1>3. upload[h] = NoUpload /\ ~hlazy[h]
  BY <1>1, FreeHandleHere
<1>4. Unmarked'
  BY <1>1, MarksKept
<1>5. /\ local'[f] = Empty
      /\ \A g \in Files : g # f => local'[g] = local[g] /\ want'[g] = want[g]
                                   /\ pending'[g] = pending[g]
  BY <1>1, <1>2 DEF TypeOK, DiskType, GhostType, OpsType
<1>6. /\ hpath'[h] = f /\ hst'[h] = "live" /\ hfd'[h] = f /\ target'[h] = f
      /\ \A k \in Handles : k # h =>
              /\ hst'[k] = hst[k] /\ hpath'[k] = hpath[k] /\ hfd'[k] = hfd[k]
              /\ hlazy'[k] = hlazy[k] /\ hdirty'[k] = hdirty[k] /\ target'[k] = target[k]
  BY <1>1, <1>2 DEF TypeOK, HandleType, GhostType
<1>7. Empty # NoFile
  BY DEF Empty, NoFile
<1> QED
  BY <1>1, <1>3, <1>4, <1>5, <1>6, <1>7, QueueFileStep

\* An open that is completed puts the file into the cache or finds it there.
LEMMA QueueCompleted ==
    ASSUME QueueInv, CountInv', NEW h \in Handles, NEW f \in Files,
           NEW trunc \in BOOLEAN, NEW noAttr \in BOOLEAN, NEW refresh \in BOOLEAN,
           OpenCompleted(h, f, trunc, noAttr, refresh), upload[h] = NoUpload,
           UNCHANGED <<mount, upload, pending>>,
           want' = IF trunc THEN [want EXCEPT ![f] = Empty] ELSE want,
           hpath'[h] = f, hst'[h] # "free", target'[h] = f,
           \A k \in Handles : k # h => /\ hst'[k] = hst[k] /\ hpath'[k] = hpath[k]
                                       /\ target'[k] = target[k]
    PROVE  QueueInv'
<1>1. TypeOK
  BY DEF QueueInv, CountInv, TypeInv
<1>2. Unmarked'
  BY MarksKept DEF OpenCompleted
<1>3. local'[f] # NoFile /\ \A g \in Files : g # f => local'[g] = local[g]
  <2>1. /\ local \in [Files -> Content] /\ cloud \in [Files -> Content] /\ Empty # NoFile
    BY <1>1 DEF TypeOK, DiskType, Empty, NoFile
  <2> QED
    BY <2>1 DEF OpenCompleted
<1>4. /\ hfd'[h] = f /\ ~hlazy'[h]
      /\ \A k \in Handles : k # h => hfd'[k] = hfd[k] /\ hlazy'[k] = hlazy[k]
                                     /\ hdirty'[k] = hdirty[k]
  BY <1>1 DEF OpenCompleted, TypeOK, HandleType
<1>5. \A g \in Files : g # f => want'[g] = want[g]
  BY <1>1 DEF TypeOK, GhostType
<1> QED
  BY <1>2, <1>3, <1>4, <1>5, QueueFileStep

\* A failed open removes nothing here: the file it would have replaced is absent.
LEMMA QueueFailed ==
    ASSUME Queueing, QueueInv, CountInv', NEW f \in Files,
           NEW trunc \in BOOLEAN, NEW noAttr \in BOOLEAN, NEW refresh \in Refreshes(f),
           OpenFailed(f, trunc, noAttr, refresh),
           UNCHANGED <<mount, upload, pending, want, target, hlazy, hdirty, hpath, hst>>
    PROVE  QueueInv'
<1>1. TypeOK /\ QueueingMount(mount)
  BY QueueingHere DEF QueueInv, CountInv, TypeInv
<1>2. Unmarked'
  BY MarksKept DEF OpenFailed
<1>3. UNCHANGED <<local, hfd>>
  <2>1. CASE UNCHANGED <<local, hfd>>
    BY <2>1
  <2>2. CASE /\ "data" \in mount.cloudErrors
             /\ isDownloadRequired(f, CachedOnOpen(f), noAttr, refresh) /\ ~noAttr
             /\ local' = [local EXCEPT ![f] = NoFile] /\ hfd' = Unlinked(f)
    <3>1. mount.evictable = {} /\ ~mount.refreshSec
      BY <1>1, <2>2 DEF QueueingMount
    <3>2. policy[f] # "marked" /\ ~refresh
      BY <3>1 DEF QueueInv, Unmarked, Refreshes
    <3>3. local[f] = NoFile
      BY <2>2, <3>2 DEF isDownloadRequired, CachedOnOpen
    <3>4. local' = local
      BY <1>1, <2>2, <3>3 DEF TypeOK, DiskType
    <3>5. \A h \in Handles : hfd[h] # f
      BY <3>3, ConstantsAssumption DEF QueueInv, Follows
    <3>6. hfd' = hfd
      BY <1>1, <2>2, <3>5 DEF TypeOK, HandleType, Unlinked
    <3> QED
      BY <3>4, <3>6
  <2> QED
    BY <2>1, <2>2 DEF OpenFailed
<1> QED
  BY <1>2, <1>3, QueueFrame

\* A lazy open looks at nothing yet.
LEMMA QueueLazy ==
    ASSUME QueueInv, CountInv', NEW h \in Handles, NEW f \in Files, hst[h] = "free",
           NewHandle(h, f), hlazy' = [hlazy EXCEPT ![h] = TRUE],
           UNCHANGED <<disk, lru, upload, ops, hfd, hdirty, mount, want>>
    PROVE  QueueInv'
<1>1. TypeOK
  BY DEF QueueInv, CountInv, TypeInv
<1>2. upload[h] = NoUpload /\ ~hdirty[h] /\ hfd[h] = None
  BY FreeHandleHere
<1>3. /\ hst'[h] = "opened" /\ hpath'[h] = f /\ target'[h] = f /\ hlazy'[h]
      /\ \A k \in Handles : k # h => hst'[k] = hst[k] /\ hpath'[k] = hpath[k]
            /\ target'[k] = target[k] /\ hlazy'[k] = hlazy[k]
  BY <1>1 DEF NewHandle, TypeOK, HandleType, GhostType
<1>4. UNCHANGED <<local, policy, upload, pending, hfd, hdirty, mount, want>>
  BY DEF disk, lru, ops
<1>5. \A k \in Handles : Follows(k)'
  BY <1>2, <1>3, <1>4 DEF QueueInv, Follows
<1>6. \A u \in Uploaders : Sends(u)'
  BY <1>4 DEF QueueInv, Sends
<1>7. ASSUME NEW g \in Files PROVE Touched(g)' => Held(g)'
  <2>1. \A k \in OpenOn(g)' : ~hlazy'[k] => k \in OpenOn(g) /\ ~hlazy[k]
    BY <1>3 DEF OpenOn
  <2> QED
    BY <1>4, <2>1 DEF QueueInv, Touched, Held
<1>8. Unmarked'
  BY <1>4, MarksKept
<1> QED
  BY <1>5, <1>6, <1>7, <1>8 DEF QueueInv

LEMMA QueueOpen ==
    ASSUME Queueing, QueueInv, CountInv', NEW h \in Handles, NEW f \in Files,
           NEW trunc \in BOOLEAN, OpenFile(h, f, trunc)
    PROVE  QueueInv'
<1>1. TypeOK /\ hst[h] = "free"
  BY DEF QueueInv, CountInv, TypeInv, OpenFile
<1>2. upload[h] = NoUpload
  BY <1>1, FreeHandleHere
<1>3. PICK noAttr \in AttrErrors, refresh \in Refreshes(f) :
         \/ /\ OpenCompleted(h, f, trunc, noAttr, refresh)
            /\ want' = IF trunc THEN [want EXCEPT ![f] = Empty] ELSE want
            /\ NewHandle(h, f) /\ UNCHANGED <<cloud, upload, ops, env>>
         \/ /\ OpenFailed(f, trunc, noAttr, refresh)
            /\ UNCHANGED <<locks, ops, hst, hpath, hlazy, hdirty, env, ghost>>
         \/ /\ hlazy' = [hlazy EXCEPT ![h] = TRUE] /\ NewHandle(h, f)
            /\ UNCHANGED <<disk, lru, upload, ops, hfd, hdirty, env, want>>
  BY DEF OpenFile
<1>4. noAttr \in BOOLEAN /\ refresh \in BOOLEAN
  BY DEF AttrErrors, Refreshes
<1>5. NewHandle(h, f) =>
        /\ hst'[h] = "opened" /\ hpath'[h] = f /\ target'[h] = f
        /\ \A k \in Handles : k # h => /\ hst'[k] = hst[k] /\ hpath'[k] = hpath[k]
                                       /\ target'[k] = target[k]
  BY <1>1 DEF NewHandle, TypeOK, HandleType, GhostType
<1>6. CASE /\ OpenCompleted(h, f, trunc, noAttr, refresh)
           /\ want' = IF trunc THEN [want EXCEPT ![f] = Empty] ELSE want
           /\ NewHandle(h, f) /\ UNCHANGED <<cloud, upload, ops, env>>
  BY <1>2, <1>4, <1>5, <1>6, QueueCompleted DEF ops, env
<1>7. CASE /\ OpenFailed(f, trunc, noAttr, refresh)
           /\ UNCHANGED <<locks, ops, hst, hpath, hlazy, hdirty, env, ghost>>
  BY <1>4, <1>7, QueueFailed DEF locks, ops, env, ghost
<1>8. CASE /\ hlazy' = [hlazy EXCEPT ![h] = TRUE] /\ NewHandle(h, f)
           /\ UNCHANGED <<disk, lru, upload, ops, hfd, hdirty, env, want>>
  BY <1>1, <1>8, QueueLazy DEF env
<1> QED
  BY <1>3, <1>6, <1>7, <1>8

LEMMA QueueEnsureOpen ==
    ASSUME Queueing, QueueInv, CountInv', NEW h \in Handles, EnsureOpen(h)
    PROVE  QueueInv'
<1>1. /\ TypeOK /\ hst[h] = "live" /\ hop[h] = "none" /\ upload[h] = NoUpload
      /\ hpath[h] \in Files
  BY DEF QueueInv, CountInv, TypeInv, HandlesLinked, EnsureOpen
<1>2. PICK noAttr \in AttrErrors, refresh \in Refreshes(hpath[h]) :
         \/ /\ OpenCompleted(h, hpath[h], FALSE, noAttr, refresh)
            /\ target' = [target EXCEPT ![h] = hpath[h]]
            /\ UNCHANGED <<upload, ops, hst, hpath, env, want>>
         \/ /\ OpenFailed(hpath[h], FALSE, noAttr, refresh)
            /\ UNCHANGED <<locks, ops, hst, hpath, hlazy, hdirty, env, ghost>>
  BY DEF EnsureOpen
<1>3. noAttr \in BOOLEAN /\ refresh \in BOOLEAN
  BY DEF AttrErrors, Refreshes
<1>4. CASE /\ OpenCompleted(h, hpath[h], FALSE, noAttr, refresh)
           /\ target' = [target EXCEPT ![h] = hpath[h]]
           /\ UNCHANGED <<upload, ops, hst, hpath, env, want>>
  <2>1. target'[h] = hpath[h] /\ \A k \in Handles : k # h => target'[k] = target[k]
    BY <1>1, <1>4 DEF TypeOK, GhostType
  <2> QED
    BY <1>1, <1>3, <1>4, <2>1, QueueCompleted DEF ops, env
<1>5. CASE /\ OpenFailed(hpath[h], FALSE, noAttr, refresh)
           /\ UNCHANGED <<locks, ops, hst, hpath, hlazy, hdirty, env, ghost>>
  BY <1>1, <1>3, <1>5, QueueFailed DEF locks, ops, env, ghost
<1> QED
  BY <1>2, <1>4, <1>5

\* A write goes to a file of the cache, or to one that has lost its name.
LEMMA QueueWrite ==
    ASSUME QueueInv, CountInv', NEW h \in Handles, WriteFile(h)
    PROVE  QueueInv'
<1>1. /\ TypeOK /\ hst[h] = "live" /\ ~hlazy[h] /\ Follows(h)
      /\ CacheValid(hpath[h]) \/ UNCHANGED lru
      /\ ver + 1 # NoFile
      /\ local' = IF hfd[h] = None THEN local ELSE [local EXCEPT ![hfd[h]] = ver + 1]
      /\ want' = IF target[h] = None THEN want ELSE [want EXCEPT ![target[h]] = ver + 1]
      /\ hdirty' = [hdirty EXCEPT ![h] = TRUE]
      /\ UNCHANGED <<upload, pending, hst, hpath, hfd, hlazy, mount, target>>
  BY ConstantsAssumption
     DEF QueueInv, CountInv, TypeInv, TypeOK, GhostType, WriteFile, ops, env, NoFile
<1>2. Unmarked'
  BY <1>1, MarksKept DEF lru
<1>3. \A g \in Files : /\ local'[g] = NoFile => local[g] = NoFile
                       /\ local'[g] = NoFile => want'[g] = want[g]
  <2>1. \A g \in Files : /\ local'[g] = IF g = hfd[h] THEN ver + 1 ELSE local[g]
                         /\ want'[g] = IF g = target[h] THEN ver + 1 ELSE want[g]
    BY <1>1, ConstantsAssumption DEF TypeOK, DiskType, GhostType
  <2> QED
    BY <1>1, <2>1, ConstantsAssumption DEF Follows
<1>4. \A k \in Handles : hdirty'[k] = (k = h \/ hdirty[k])
  BY <1>1 DEF TypeOK, HandleType
<1>5. ASSUME NEW k \in Handles PROVE Follows(k)'
  <2>1. Follows(k) /\ hfd[k] \in Files \cup {None}
    BY <1>1 DEF QueueInv, TypeOK, HandleType
  <2>2. hdirty'[k] => ~hlazy[k] /\ hst[k] # "free"
    BY <1>1, <1>4, <2>1 DEF Follows
  <2>3. hfd[k] # None => local'[hfd[k]] # NoFile
    BY <1>3, <2>1 DEF Follows
  <2> QED
    BY <1>1, <2>1, <2>2, <2>3 DEF Follows
<1>6. \A u \in Uploaders : Sends(u)'
  BY <1>1, <1>4 DEF QueueInv, Sends
<1>7. \A f \in Files : Touched(f)' => Held(f)'
  <2>1. \A f \in Files : Touched(f)' <=> Touched(f)
    BY <1>1 DEF Touched, OpenOn
  <2> QED
    BY <1>3, <2>1 DEF QueueInv, Held
<1> QED
  BY <1>2, <1>5, <1>6, <1>7 DEF QueueInv

\* The call for h ends: its handle is clean or still dirty, and open or free.
LEMMA QueueReturn ==
    ASSUME QueueInv, CountInv', NEW h \in Handles, Returns(h) \/ ReturnsError(h),
           hop[h] # "none",
           UNCHANGED <<mount, local, want>>, UNCHANGED policy \/ UsedOnClose(h),
           \A f \in Files : pending'[f] # "none" => pending[f] # "none" \/ Held(f),
           \A u \in Uploaders : upload'[u] = upload[u] \/ Sends(u)',
           \A k \in Handles : k # h => hdirty'[k] = hdirty[k],
           hdirty'[h] => hdirty[h] /\ hst'[h] # "free",
           hdirty'[h] \/ upload'[h] = NoUpload
    PROVE  QueueInv'
<1>1. TypeOK /\ hst[h] = "live" /\ Follows(h)
  BY DEF QueueInv, CountInv, TypeInv, HandlesLinked
<1>2. /\ \A k \in Handles : k # h => /\ hst'[k] = hst[k] /\ hpath'[k] = hpath[k]
            /\ target'[k] = target[k] /\ hlazy'[k] = hlazy[k] /\ hfd'[k] = hfd[k]
      /\ \/ /\ hst'[h] # "free" /\ hpath'[h] = hpath[h] /\ target'[h] = target[h]
            /\ hlazy'[h] = hlazy[h] /\ hfd'[h] = hfd[h]
         \/ /\ hst'[h] = "free" /\ hpath'[h] = None /\ target'[h] = None
            /\ ~hlazy'[h] /\ hfd'[h] = None
  BY <1>1 DEF Returns, CloseHandle, ReturnsError, TypeOK, HandleType, GhostType
<1>3. Unmarked'
  BY MarksKept DEF UsedOnClose, lru
<1>4. ASSUME NEW k \in Handles PROVE Follows(k)'
  <2>1. Follows(k)
    BY DEF QueueInv
  <2> QED
    BY <1>1, <1>2, <2>1 DEF Follows
<1>5. \A u \in Uploaders : Sends(u)'
  BY DEF QueueInv, Sends
<1>6. \A f \in Files : Touched(f)' => Held(f)'
  <2>1. \A f \in Files : \A k \in OpenOn(f)' : ~hlazy'[k] => k \in OpenOn(f) /\ ~hlazy[k]
    BY <1>1, <1>2, ConstantsAssumption DEF OpenOn
  <2> QED
    BY <2>1 DEF QueueInv, Touched, Held
<1> QED
  BY <1>3, <1>4, <1>5, <1>6 DEF QueueInv

\* FlushFile, SyncFile and ReleaseFile behind the lock.
LEMMA QueueFlush ==
    ASSUME QueueInv, CountInv', NEW h \in Handles,
           \/ FlushClean(h) \/ FlushDeferred(h) \/ FlushNoFile(h) \/ FlushUpload(h)
           \/ FlushUploaded(h) \/ FlushOffline(h) \/ FlushFailed(h)
    PROVE  QueueInv'
<1>1. TypeOK /\ HandlesLinked /\ Sends(h) /\ Follows(h) /\ h \in Uploaders
  BY DEF QueueInv, CountInv, TypeInv, Uploaders
<1>2. hop[h] # "none" /\ hst[h] = "live" /\ hpath[h] \in Files
  <2>1. hop[h] # "none"
    BY <1>1 DEF HandlesLinked, Acquires, FlushClean, FlushDeferred, FlushNoFile, FlushUpload,
                FlushUploaded, FlushOffline, FlushFailed
  <2> QED
    BY <1>1, <2>1 DEF HandlesLinked
<1>3. hdirty[h] => Held(hpath[h])
  <2>1. hdirty[h] => h \in OpenOn(hpath[h]) /\ ~hlazy[h]
    BY <1>1, <1>2 DEF Follows, OpenOn
  <2> QED
    BY <1>2, <2>1 DEF QueueInv, Touched
<1>4. clearHandleDirty(h) => ~hdirty'[h] /\ \A k \in Handles : k # h => hdirty'[k] = hdirty[k]
  BY <1>1 DEF clearHandleDirty, TypeOK, HandleType
<1>5. CASE FlushClean(h)
  BY <1>2, <1>5, QueueReturn DEF FlushClean, Acquires, disk, ops, env
<1>6. CASE FlushDeferred(h)
  <2>1. \A f \in Files : pending'[f] # "none" => pending[f] # "none" \/ Held(f)
    BY <1>1, <1>3, <1>6 DEF FlushDeferred, TypeOK, OpsType
  <2> QED
    BY <1>2, <1>4, <1>6, <2>1, QueueReturn DEF FlushDeferred, Acquires, disk, env
<1>7. CASE FlushNoFile(h)
  <2>1. hst'[h] # "free"
    BY <1>1, <1>2, <1>7 DEF FlushNoFile, ReturnsError, TypeOK, HandleType
  <2> QED
    BY <1>2, <1>7, <2>1, QueueReturn DEF FlushNoFile, disk, ops, env
<1>8. CASE FlushUpload(h)
  <2>1. \A u \in Uploaders : upload'[u] = upload[u] \/ Sends(u)'
    BY <1>1, <1>8 DEF FlushUpload, Sends, TypeOK, LocksType, handle
  <2>2. Unmarked'
    BY <1>8, MarksKept DEF FlushUpload, UsedOnClose, lru, env
  <2> QED
    BY <1>8, <2>1, <2>2, QueueFrame DEF FlushUpload, disk, ops, handle, ghost
<1>9. CASE FlushUploaded(h) \/ FlushOffline(h) \/ FlushFailed(h)
  <2>1. upload[h] # NoUpload /\ upload' = [upload EXCEPT ![h] = NoUpload]
    BY <1>9 DEF FlushUploaded, FlushOffline, FlushFailed
  <2>2. /\ hdirty[h] /\ upload'[h] = NoUpload
        /\ \A u \in Uploaders : upload'[u] = upload[u] \/ Sends(u)'
    BY <1>1, <2>1 DEF Sends, TypeOK, LocksType
  <2>3. /\ UNCHANGED <<mount, local, want, policy>>
        /\ Returns(h) \/ ReturnsError(h)
    BY <1>9 DEF FlushUploaded, FlushOffline, FlushFailed, disk, lru, env
  <2>4. \A f \in Files : pending'[f] # "none" => pending[f] # "none" \/ Held(f)
    BY <1>1, <1>3, <1>9, <2>2 DEF FlushUploaded, FlushOffline, FlushFailed, TypeOK, OpsType, ops
  <2>5. /\ \A k \in Handles : k # h => hdirty'[k] = hdirty[k]
        /\ hdirty'[h] => hst'[h] # "free"
    <3>1. CASE FlushUploaded(h)
      BY <1>4, <3>1 DEF FlushUploaded
    <3>2. CASE FlushOffline(h)
      <4>1. CASE mount.offlineAccess
        BY <1>1, <1>2, <3>2, <4>1 DEF FlushOffline, Returns, TypeOK, HandleType
      <4>2. CASE ~mount.offlineAccess
        BY <1>1, <1>2, <3>2, <4>2 DEF FlushOffline, ReturnsError, TypeOK, HandleType
      <4> QED
        BY <4>1, <4>2
    <3>3. CASE FlushFailed(h)
      BY <1>1, <1>2, <3>3 DEF FlushFailed, ReturnsError, TypeOK, HandleType
    <3> QED
      BY <1>9, <3>1, <3>2, <3>3
  <2> QED
    BY <1>2, <2>2, <2>3, <2>4, <2>5, QueueReturn
<1> QED
  BY <1>5, <1>6, <1>7, <1>8, <1>9

\* DeleteFile: nobody refers to the file any more.
LEMMA QueueDelete ==
    ASSUME QueueInv, CountInv', NEW f \in Files, DeleteFileLocked(f)
    PROVE  QueueInv'
<1>1. /\ TypeOK /\ local' = [local EXCEPT ![f] = NoFile] /\ hfd' = Unlinked(f)
      /\ want' = [want EXCEPT ![f] = NoFile] /\ policy' = [policy EXCEPT ![f] = "absent"]
      /\ target' = [h \in Handles |-> IF target[h] = f THEN None ELSE target[h]]
      /\ pending' \in {pending, [pending EXCEPT ![f] = "deletion"]}
      /\ UNCHANGED <<upload, hst, hpath, hlazy, hdirty, mount>>
  BY DEF QueueInv, CountInv, TypeInv, DeleteFileLocked, env
<1>2. Unmarked'
  BY <1>1 DEF QueueInv, Unmarked, TypeOK, LruType
<1>3. ASSUME NEW h \in Handles PROVE Follows(h)'
  <2>1. Follows(h) /\ hfd[h] \in Files \cup {None}
    BY <1>1 DEF QueueInv, TypeOK, HandleType
  <2>2. \A g \in Files : g # f => local'[g] = local[g]
    BY <1>1 DEF TypeOK, DiskType
  <2>3. /\ hfd'[h] = IF hfd[h] = f THEN None ELSE hfd[h]
        /\ target'[h] = IF target[h] = f THEN None ELSE target[h]
    BY <1>1 DEF Unlinked
  <2> QED
    BY <1>1, <2>1, <2>2, <2>3 DEF Follows
<1>4. \A u \in Uploaders : Sends(u)'
  BY <1>1 DEF QueueInv, Sends
<1>5. ASSUME NEW g \in Files PROVE Touched(g)' => Held(g)'
  <2>1. CASE g = f
    BY <1>1, <2>1 DEF Held, TypeOK, GhostType
  <2>2. CASE g # f
    <3>1. local'[g] = local[g] /\ want'[g] = want[g] /\ pending'[g] = pending[g]
      BY <1>1, <2>2 DEF TypeOK, DiskType, GhostType, OpsType
    <3>2. OpenOn(g)' = OpenOn(g)
      BY <1>1 DEF OpenOn
    <3> QED
      BY <1>1, <3>1, <3>2 DEF QueueInv, Touched, Held
  <2> QED
    BY <2>1, <2>2
<1> QED
  BY <1>2, <1>3, <1>4, <1>5 DEF QueueInv

\* deleteItem removes a file that nobody has open and nothing is queued for.
LEMMA QueueEvict ==
    ASSUME QueueInv, CountInv', NEW f \in Files, deleteItem(f)
    PROVE  QueueInv'
<1>1. /\ TypeOK /\ UNCHANGED <<upload, pending, hst, hpath, hlazy, hdirty, mount, want, target>>
      /\ policy' = [policy EXCEPT ![f] = IF @ = "absent" /\ InUse(f) THEN "cached" ELSE @]
      /\ \/ UNCHANGED <<local, hfd>>
         \/ ~InUse(f) /\ local' = [local EXCEPT ![f] = NoFile] /\ hfd' = Unlinked(f)
  BY DEF QueueInv, CountInv, TypeInv, deleteItem, locks, ops, env, ghost
<1>2. Unmarked'
  BY <1>1 DEF QueueInv, Unmarked, TypeOK, LruType
<1>3. CASE UNCHANGED <<local, hfd>>
  BY <1>1, <1>2, <1>3, QueueFrame
<1>4. CASE ~InUse(f) /\ local' = [local EXCEPT ![f] = NoFile] /\ hfd' = Unlinked(f)
  <2>1. pending[f] = "none" /\ OpenOn(f) = {}
    <3>1. pending[f] = "none" /\ count[f] = 0
      BY <1>1, <1>4 DEF InUse, TypeOK, LocksType
    <3>2. Cardinality(OpenOn(f)) = 0
      BY <3>1 DEF QueueInv, CountInv, HandleCountExact
    <3> QED
      BY <3>1, <3>2, OpenOnFinite, FS_EmptySet
  <2>2. \A h \in Handles : hfd[h] # f /\ target[h] # f
    <3> SUFFICES ASSUME NEW h \in Handles PROVE hfd[h] # f /\ target[h] # f
      OBVIOUS
    <3>1. hpath[h] # f
      BY <2>1, ConstantsAssumption DEF QueueInv, Follows, OpenOn
    <3> QED
      BY <3>1, ConstantsAssumption DEF QueueInv, Follows
  <2>3. hfd' = hfd
    BY <1>1, <1>4, <2>2 DEF TypeOK, HandleType, Unlinked
  <2>4. \A g \in Files : g # f => local'[g] = local[g]
    BY <1>1, <1>4 DEF TypeOK, DiskType
  <2>5. ASSUME NEW h \in Handles PROVE Follows(h)'
    <3>1. Follows(h) /\ hfd[h] \in Files \cup {None}
      BY <1>1 DEF QueueInv, TypeOK, HandleType
    <3> QED
      BY <1>1, <2>2, <2>3, <2>4, <3>1 DEF Follows
  <2>6. \A u \in Uploaders : Sends(u)'
    BY <1>1 DEF QueueInv, Sends
  <2>7. ASSUME NEW g \in Files PROVE Touched(g)' => Held(g)'
    <3>1. OpenOn(g)' = OpenOn(g)
      BY <1>1 DEF OpenOn
    <3> QED
      BY <1>1, <2>1, <2>4, <3>1 DEF QueueInv, Touched, Held
  <2> QED
    BY <1>2, <2>5, <2>6, <2>7 DEF QueueInv
<1> QED
  BY <1>1, <1>3, <1>4

\* servicePendingOps.
LEMMA QueueService ==
    ASSUME QueueInv, CountInv', NEW f \in Files,
           \/ SvcPick(f) \/ SvcSkip(f) \/ SvcDelete(f) \/ SvcUpload(f)
           \/ SvcUploaded(f) \/ SvcFailed(f)
    PROVE  QueueInv'
<1>1. TypeOK /\ Service \notin Handles
  BY ConstantsAssumption DEF QueueInv, CountInv, TypeInv
<1>2. UNCHANGED <<local, want, target, hfd, hlazy, hdirty, hpath, hst, policy, mount>>
  BY DEF SvcPick, SvcSkip, SvcDelete, SvcUpload, SvcUploaded, SvcFailed, disk, lru, handle, env,
         ghost
<1>3. \A g \in Files : pending'[g] # "none" => pending[g] # "none"
  BY <1>1 DEF SvcPick, SvcSkip, SvcDelete, SvcUpload, SvcUploaded, SvcFailed, ops, TypeOK, OpsType
<1>4. \A u \in Uploaders : upload'[u] = upload[u] \/ Sends(u)'
  <2>1. \/ UNCHANGED upload \/ upload' = [upload EXCEPT ![Service] = NoUpload]
        \/ SvcUpload(f)
    BY DEF SvcPick, SvcSkip, SvcDelete, SvcUploaded, SvcFailed, locks
  <2>2. CASE UNCHANGED upload \/ upload' = [upload EXCEPT ![Service] = NoUpload]
    BY <1>1, <2>2 DEF Sends, TypeOK, LocksType
  <2>3. CASE SvcUpload(f)
    BY <1>1, <2>3 DEF SvcUpload, Sends, TypeOK, LocksType
  <2> QED
    BY <2>1, <2>2, <2>3
<1>5. Unmarked'
  BY <1>2, MarksKept
<1> QED
  BY <1>2, <1>3, <1>4, <1>5, QueueFrame

\* The policy, the connection, the windows, and the first halves of calls.
LEMMA QueueQuiet ==
    ASSUME QueueInv, CountInv',
           \/ UNCHANGED vars
           \/ \E h \in Handles : \/ AddHandle(h) \/ ReleaseFile(h)
                                 \/ FlushFile(h, FALSE) \/ FlushFile(h, TRUE)
           \/ \E f \in Files : \/ DeleteFile(f) \/ DeleteFileFailed(f)
                               \/ EvictItem(f) \/ asyncCacheValid(f)
           \/ \E S \in SUBSET mount.evictable : EvictMark(S)
           \/ Disconnect \/ Reconnect \/ WindowToggle
    PROVE  QueueInv'
<1>1. TypeOK
  BY DEF QueueInv, CountInv, TypeInv
<1>2. CASE UNCHANGED vars
  BY <1>2, MarksKept, QueueFrame DEF vars, disk, lru, locks, ops, handle, env, ghost
<1>3. ASSUME NEW h \in Handles, \/ AddHandle(h) \/ ReleaseFile(h)
                                \/ FlushFile(h, FALSE) \/ FlushFile(h, TRUE)
      PROVE  QueueInv'
  <2>1. /\ UNCHANGED <<local, want, target, hfd, hlazy, hdirty, hpath, pending, upload, mount>>
        /\ UNCHANGED policy \/ CacheValid(hpath[h])
    BY <1>3 DEF AddHandle, ReleaseFile, FlushFile, disk, lru, locks, ops, env, ghost
  <2>2. \A k \in Handles : hst'[k] = "free" <=> hst[k] = "free"
    BY <1>1, <1>3 DEF AddHandle, ReleaseFile, FlushFile, TypeOK, HandleType
  <2> QED
    BY <2>1, <2>2, MarksKept, QueueFrame
<1>4. ASSUME NEW f \in Files, DeleteFile(f) \/ DeleteFileFailed(f)
      PROVE  QueueInv'
  BY <1>4, MarksKept, QueueFrame DEF DeleteFile, DeleteFileFailed, disk, lru, locks, handle, env, ghost
<1>5. ASSUME NEW f \in Files, EvictItem(f) \/ asyncCacheValid(f)
      PROVE  QueueInv'
  <2>1. /\ UNCHANGED <<local, want, target, hfd, hlazy, hdirty, hpath, hst, pending, upload, mount>>
        /\ \A g \in Files : policy'[g] = "marked" => policy[g] = "marked"
    BY <1>1, <1>5 DEF EvictItem, asyncCacheValid, disk, locks, ops, handle, env, ghost, TypeOK, LruType
  <2>2. Unmarked'
    BY <2>1 DEF QueueInv, Unmarked
  <2> QED
    BY <2>1, <2>2, QueueFrame
<1>6. ASSUME NEW S \in SUBSET mount.evictable, EvictMark(S)
      PROVE  QueueInv'
  <2>1. mount.evictable # {} /\ mount' = mount
    BY <1>6 DEF EvictMark, env
  <2>2. Unmarked'
    BY <2>1 DEF Unmarked
  <2> QED
    BY <1>6, <2>2, QueueFrame DEF EvictMark, disk, locks, ops, handle, ghost
<1>7. CASE Disconnect \/ Reconnect \/ WindowToggle
  BY <1>7, MarksKept, QueueFrame
     DEF Disconnect, Reconnect, WindowToggle, disk, lru, locks, ops, handle, ghost
<1> QED
  BY <1>2, <1>3, <1>4, <1>5, <1>6, <1>7

\* Every step of a mount that queues keeps the invariant.
LEMMA NextQueueInv == ASSUME Queueing, QueueInv, [Next]_vars PROVE QueueInv'
<1>1. NoRenameRaces
  BY DEF Queueing, QueueingMount, NoRenameRaces
<1>2. CountInv'
  BY <1>1, NextCountInv DEF QueueInv
<1>3. QueueingMount(mount)
  BY QueueingHere DEF QueueInv, CountInv
<1>4. CASE \E h \in Handles, f \in Files :
              CreateFile(h, f) \/ OpenFile(h, f, FALSE) \/ OpenFile(h, f, TRUE)
  BY <1>2, <1>4, QueueCreate, QueueOpen
<1>5. CASE \E h \in Handles : EnsureOpen(h) \/ WriteFile(h)
  BY <1>2, <1>5, QueueEnsureOpen, QueueWrite
<1>6. CASE \E h \in Handles :
              \/ FlushClean(h) \/ FlushDeferred(h) \/ FlushNoFile(h) \/ FlushUpload(h)
              \/ FlushUploaded(h) \/ FlushOffline(h) \/ FlushFailed(h)
  BY <1>2, <1>6, QueueFlush
<1>7. CASE \E f \in Files : DeleteFileLocked(f) \/ deleteItem(f)
  BY <1>2, <1>7, QueueDelete, QueueEvict
<1>8. CASE \E f \in Files :
              \/ SvcPick(f) \/ SvcSkip(f) \/ SvcDelete(f) \/ SvcUpload(f)
              \/ SvcUploaded(f) \/ SvcFailed(f)
  BY <1>2, <1>8, QueueService
<1>9. ASSUME NEW f \in Files PROVE ~TruncateFile(f, "zero") /\ ~TruncateFile(f, "nonzero")
  BY <1>3 DEF TruncateFile, QueueingMount
<1>10. ASSUME NEW s \in Files, NEW d \in Files PROVE ~RenameFile(s, d)
  BY <1>3 DEF RenameFile, QueueingMount
<1>11. CASE \/ UNCHANGED vars
            \/ \E h \in Handles : \/ AddHandle(h) \/ ReleaseFile(h)
                                  \/ FlushFile(h, FALSE) \/ FlushFile(h, TRUE)
            \/ \E f \in Files : \/ DeleteFile(f) \/ DeleteFileFailed(f)
                                \/ EvictItem(f) \/ asyncCacheValid(f)
            \/ \E S \in SUBSET mount.evictable : EvictMark(S)
            \/ Disconnect \/ Reconnect \/ WindowToggle
  BY <1>2, <1>11, QueueQuiet
<1> QED
  BY <1>4, <1>5, <1>6, <1>7, <1>8, <1>9, <1>10, <1>11 DEF Next

\* A fresh mount has neither queue nor cache.
LEMMA InitQueueInv == Init => QueueInv
<1> SUFFICES ASSUME Init PROVE QueueInv
  OBVIOUS
<1>1. /\ \A f \in Files : /\ pending[f] = "none" /\ policy[f] = "absent" /\ count[f] = 0
                          /\ OpenOn(f) = {}
      /\ \A h \in Handles : /\ hst[h] = "free" /\ hfd[h] = None /\ target[h] = None
                            /\ hpath[h] = None /\ ~hlazy[h] /\ ~hdirty[h] /\ hop[h] = "none"
      /\ \A u \in Uploaders : upload[u] = NoUpload
  BY DEF Init, OpenOn
<1>2. CountInv
  BY <1>1, InitTypeInv, FS_EmptySet DEF CountInv, HandleCountExact, CallLocks
<1> QED
  BY <1>1, <1>2 DEF QueueInv, Unmarked, Follows, Sends, Touched

\* The service deletes what its users have deleted: an entry for a file that is not
\* in the cache is there because the file does not exist for them either.
LEMMA QueuedDeletion ==
    ASSUME QueueInv, NEW f \in Files, SvcDelete(f)
    PROVE  want[f] = NoFile
  BY DEF QueueInv, SvcDelete, Touched, Held

\* No background step and no failed call removes an object that its users did not
\* delete: when updateObject finds an entry in pendingOps for a file that is not in
\* the cache, no user sees the file, whatever the entry's flags were when the
\* service picked it up, and however often the file was made and deleted since.
THEOREM DeletionsAsked == ASSUME Queueing PROVE Spec => NoUnaskedDeletion
<1>1. ASSUME QueueInv, [Next]_vars, want' = want, NEW f \in Files,
             cloud[f] # NoFile, cloud'[f] = NoFile
      PROVE  want[f] = NoFile
  <2>1. TypeOK /\ cloud \in [Files -> Content] /\ QueueingMount(mount)
    BY <1>1, QueueingHere DEF QueueInv, CountInv, TypeInv, TypeOK, DiskType
  <2>2. \A u \in Uploaders : Sends(u)
    BY <1>1 DEF QueueInv
  <2>3. CASE \E h \in Handles, g \in Files :
                CreateFile(h, g) \/ OpenFile(h, g, FALSE) \/ OpenFile(h, g, TRUE)
    <3>1. PICK h \in Handles, g \in Files :
             CreateFile(h, g) \/ OpenFile(h, g, FALSE) \/ OpenFile(h, g, TRUE)
      BY <2>3
    <3>2. CASE CreateFile(h, g)
      BY <1>1, <2>1, <3>2 DEF CreateFile, Empty, NoFile
    <3>3. ASSUME NEW trunc \in BOOLEAN, OpenFile(h, g, trunc) PROVE UNCHANGED cloud
      BY <3>3 DEF OpenFile, disk
    <3> QED
      BY <1>1, <3>1, <3>2, <3>3
  <2>4. CASE \E h \in Handles :
                \/ AddHandle(h) \/ EnsureOpen(h) \/ WriteFile(h)
                \/ FlushFile(h, FALSE) \/ FlushFile(h, TRUE) \/ ReleaseFile(h)
                \/ FlushClean(h) \/ FlushDeferred(h) \/ FlushNoFile(h) \/ FlushUpload(h)
                \/ FlushOffline(h) \/ FlushFailed(h)
    BY <1>1, <2>4 DEF AddHandle, EnsureOpen, WriteFile, FlushFile, ReleaseFile, FlushClean,
              FlushDeferred, FlushNoFile, FlushUpload, FlushOffline, FlushFailed, disk
  <2>5. CASE \E h \in Handles : FlushUploaded(h)
    <3>1. PICK h \in Handles : FlushUploaded(h)
      BY <2>5
    <3>2. upload[h].data # NoFile
      BY <2>2, <3>1 DEF FlushUploaded, Sends, Uploaders
    <3> QED
      BY <1>1, <2>1, <3>1, <3>2 DEF FlushUploaded
  <2>6. CASE \E g \in Files : SvcUploaded(g)
    <3>1. PICK g \in Files : SvcUploaded(g)
      BY <2>6
    <3>2. upload[Service].data # NoFile
      BY <2>2, <3>1, ConstantsAssumption DEF SvcUploaded, Sends, Uploaders, NoUpload
    <3> QED
      BY <1>1, <2>1, <3>1, <3>2 DEF SvcUploaded
  <2>7. CASE \E g \in Files : DeleteFileLocked(g)
    <3>1. PICK g \in Files : DeleteFileLocked(g)
      BY <2>7
    <3>2. want'[g] = NoFile /\ (g # f => cloud'[f] = cloud[f])
      BY <2>1, <3>1 DEF DeleteFileLocked, TypeOK, GhostType
    <3> QED
      BY <1>1, <3>2
  <2>8. CASE \E g \in Files : SvcDelete(g)
    <3>1. PICK g \in Files : SvcDelete(g)
      BY <2>8
    <3>2. want[g] = NoFile /\ (g # f => cloud'[f] = cloud[f])
      BY <1>1, <2>1, <3>1, QueuedDeletion DEF SvcDelete
    <3> QED
      BY <1>1, <3>2
  <2>9. CASE \E g \in Files :
                \/ DeleteFile(g) \/ DeleteFileFailed(g)
                \/ SvcPick(g) \/ SvcSkip(g) \/ SvcUpload(g) \/ SvcFailed(g)
                \/ EvictItem(g) \/ deleteItem(g) \/ asyncCacheValid(g)
    BY <1>1, <2>9 DEF DeleteFile, DeleteFileFailed, SvcPick, SvcSkip, SvcUpload, SvcFailed,
                      EvictItem, deleteItem, asyncCacheValid, disk
  <2>10. ASSUME NEW g \in Files PROVE ~TruncateFile(g, "zero") /\ ~TruncateFile(g, "nonzero")
    BY <2>1 DEF TruncateFile, QueueingMount
  <2>11. ASSUME NEW s \in Files, NEW d \in Files PROVE ~RenameFile(s, d)
    BY <2>1 DEF RenameFile, QueueingMount
  <2>12. CASE \/ UNCHANGED vars \/ \E S \in SUBSET mount.evictable : EvictMark(S)
              \/ Disconnect \/ Reconnect \/ WindowToggle
    <3>1. UNCHANGED cloud
      BY <2>12 DEF EvictMark, Disconnect, Reconnect, WindowToggle, vars, disk
    <3> QED
      BY <1>1, <3>1
  <2> QED
    BY <1>1, <2>3, <2>4, <2>5, <2>6, <2>7, <2>8, <2>9, <2>10, <2>11, <2>12 DEF Next
<1>2. QueueInv /\ [Next]_vars =>
         [want' = want => \A f \in Files :
             cloud[f] # NoFile /\ cloud'[f] = NoFile => want[f] = NoFile]_vars
  BY <1>1
<1>3. QueueInv /\ [Next]_vars => QueueInv'
  BY NextQueueInv
<1> QED
  BY <1>2, <1>3, InitQueueInv, PTL DEF Spec, NoUnaskedDeletion
=============================================================================
