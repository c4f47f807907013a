----------------------------- MODULE FileCache -----------------------------
(***************************************************************************)
(* The file_cache component (component/file_cache): files are downloaded   *)
(* into a local cache directory, read and written there, uploaded when a   *)
(* handle is flushed or closed, and evicted by the LRU policy.  While the  *)
(* cloud is unreachable, or outside the configured upload windows, changes *)
(* are queued in pendingOps and a background thread writes them back.      *)
(*                                                                         *)
(* One action is one critical section of the code: what a handler does     *)
(* while it holds a file's lock (flock), or one of the steps that takes no *)
(* lock.  An upload keeps the flock but not the local file, so it has a    *)
(* first and a last step between which other handles may write.            *)
(*                                                                         *)
(* The contents of a file are a version number: 0 is the empty file, every *)
(* write makes a fresh version.  want and target are history variables:    *)
(* the file system that a caller of the component is entitled to see.      *)
(***************************************************************************)
EXTENDS Integers, FiniteSets

CONSTANTS
    Files,      \* object names
    Handles,    \* handle slots (internal/handlemap)
    Service,    \* the thread that runs servicePendingOps
    None,       \* no file, no lock
    CountMod,   \* the modulus of LockMapItem.handleCount (2^32)
    MaxVer,     \* bound on the number of versions written
    MaxDirty,   \* bound on LockMapItem.dirtyCount, which can leak
    Mounts      \* the mounts considered: a configuration and a workload each

\* A configuration (Configure, file_cache.go) and what callers and cloud do.
Mount == [
    offlineAccess : BOOLEAN,    \* fc.offlineAccess
    createEmptyFile : BOOLEAN,  \* fc.createEmptyFile
    lazyWrite : BOOLEAN,        \* fc.lazyWrite
    refreshSec : BOOLEAN,       \* fc.refreshSec # 0
    scheduled : BOOLEAN,        \* upload windows are configured
    objects : SUBSET Files,     \* the objects that may be in the cloud at first
    mayOpen : [Handles -> SUBSET Files],     \* the use of each handle slot
    deletes : SUBSET Files,                  \* the files that are deleted
    renames : SUBSET (Files \X Files),       \* the renames, src and dst
    truncates : SUBSET {"zero", "nonzero"},  \* the sizes given to truncate(path)
    evictable : SUBSET Files,   \* the files the LRU policy finds beyond its marker
    cloudErrors : SUBSET {"attr", "data"},   \* calls that may fail with another
                                \* error than offline: GetAttr, the others
    losses : Nat,               \* bound on the number of connection losses
    sharedHandles : BOOLEAN,    \* two threads use one handle at the same time
    races : BOOLEAN]            \* files are deleted or replaced while open (FUSE
                                \* hides them instead, Windows does not), and
                                \* renamed while a call on them is under way

\* What is assumed of the parameters: None is not the name of a file, and there
\* are fewer handles than handleCount can count.
ASSUME ConstantsAssumption ==
    /\ None \notin Files /\ Service \notin Handles
    /\ IsFiniteSet(Handles) /\ Cardinality(Handles) < CountMod
    /\ CountMod \in Nat /\ CountMod > 1
    /\ MaxVer \in Nat /\ MaxDirty \in Nat
    /\ Mounts \subseteq Mount

VARIABLES
    mount,         \* the mount at hand, fixed by Init
    local,         \* contents of the file in the cache directory, or NoFile
    cloud,         \* contents of the object in cloud storage, or NoFile
    policy,        \* the LRU node: "absent" from nodeMap, "cached", "marked" deleted
    validateChan,  \* names sent to asyncCacheValid
    delItems,      \* deleteExpiredNodes' items: "no", "item", "stale" (node replaced)
    deleting,      \* the name deleteItem was called for, or None
    count,         \* LockMapItem.handleCount
    dirtyCount,    \* LockMapItem.dirtyCount
    lazyOpen,      \* LockMapItem.LazyOpen
    upload,        \* the upload a handle's call, or the service, has in flight
    pending,       \* pendingOps: "none", "upload", "deletion"
    svc,           \* servicePendingOps: the entry Range handed to updateObject
    unlinking,     \* DeleteFile between reading hadPendingOp and locking
    hst,           \* handle: "free", "opened" (not in handlemap), "live", "stuck"
    hpath,         \* handle.Path
    hfd,           \* the name of the local file behind the handle's descriptor
    hlazy,         \* openFileOptions present: the open is not completed
    hdirty,        \* HandleFlagDirty
    hop,           \* the call blocked on or holding a flock for the handle
    hlk,           \* the name that call looked its flock up by
    connected,     \* the cloud is reachable
    drops,         \* connection losses so far
    window,        \* an upload window is active
    want,          \* history: contents of each file as the callers made them
    target,        \* history: the file each handle refers to
    ver            \* history: the last version written

disk == <<local, cloud>>
lru == <<policy, validateChan, delItems, deleting>>
locks == <<count, dirtyCount, lazyOpen, upload>>
ops == <<pending, svc, unlinking>>
handle == <<hst, hpath, hfd, hlazy, hdirty, hop, hlk>>
env == <<mount, connected, drops, window>>
ghost == <<want, target, ver>>
vars == <<disk, lru, locks, ops, handle, env, ghost>>

NoFile == -1
Empty == 0
Content == NoFile .. MaxVer
Uploaders == Handles \cup {Service}
NoUpload == [lock |-> None, name |-> None, data |-> NoFile]
Idle == [name |-> None, flags |-> "none"]

DiskType == local \in [Files -> Content] /\ cloud \in [Files -> Content]

LruType ==
    /\ policy \in [Files -> {"absent", "cached", "marked"}]
    /\ validateChan \subseteq Files
    /\ delItems \in [Files -> {"no", "item", "stale"}]
    /\ deleting \in Files \cup {None}

LocksType ==
    /\ count \in [Files -> 0 .. CountMod - 1]
    /\ dirtyCount \in [Files -> 0 .. MaxDirty]
    /\ lazyOpen \in [Files -> BOOLEAN]
    /\ upload \in [Uploaders -> [lock : Files \cup {None},
                                 name : Files \cup {None}, data : Content]]

OpsType ==
    /\ pending \in [Files -> {"none", "upload", "deletion"}]
    /\ svc \in [name : Files \cup {None}, flags : {"none", "upload", "deletion"}]
    /\ unlinking \in [Files -> {"no", "had", "hadnot"}]

HandleType ==
    /\ hst \in [Handles -> {"free", "opened", "live", "stuck"}]
    /\ hpath \in [Handles -> Files \cup {None}]
    /\ hfd \in [Handles -> Files \cup {None}]
    /\ hlazy \in [Handles -> BOOLEAN] /\ hdirty \in [Handles -> BOOLEAN]
    /\ hop \in [Handles -> {"none", "flush", "close"}]
    /\ hlk \in [Handles -> Files \cup {None}]

EnvType ==
    /\ mount \in Mounts /\ drops \in 0 .. mount.losses
    /\ connected \in BOOLEAN /\ window \in BOOLEAN

GhostType ==
    /\ want \in [Files -> Content]
    /\ target \in [Handles -> Files \cup {None}]
    /\ ver \in 0 .. MaxVer

\* The type invariant.  It says more than it seems to: handleCount never leaves
\* its width, and dirtyCount never goes below zero (DecDirty).
TypeOK ==
    DiskType /\ LruType /\ LocksType /\ OpsType /\ HandleType /\ EnvType /\ GhostType

\* A fresh mount: an empty cache and any set of objects in the cloud, whose
\* contents count as version 1.
Init ==
    /\ mount \in Mounts
    /\ \E S \in SUBSET mount.objects :
         cloud = [f \in Files |-> IF f \in S /\ MaxVer > 0 THEN 1 ELSE NoFile]
    /\ local = [f \in Files |-> NoFile]
    /\ policy = [f \in Files |-> "absent"]
    /\ validateChan = {} /\ deleting = None
    /\ delItems = [f \in Files |-> "no"]
    /\ count = [f \in Files |-> 0] /\ dirtyCount = [f \in Files |-> 0]
    /\ lazyOpen = [f \in Files |-> FALSE]
    /\ upload = [u \in Uploaders |-> NoUpload]
    /\ pending = [f \in Files |-> "none"] /\ svc = Idle
    /\ unlinking = [f \in Files |-> "no"]
    /\ hst = [h \in Handles |-> "free"] /\ hpath = [h \in Handles |-> None]
    /\ hfd = [h \in Handles |-> None] /\ hlazy = [h \in Handles |-> FALSE]
    /\ hdirty = [h \in Handles |-> FALSE] /\ hop = [h \in Handles |-> "none"]
    /\ hlk = [h \in Handles |-> None]
    /\ connected = TRUE /\ drops = 0 /\ window = FALSE
    /\ want = cloud /\ target = [h \in Handles |-> None]
    /\ ver = IF MaxVer > 0 THEN 1 ELSE 0

-----------------------------------------------------------------------------
(* LockMapItem (common/lock_map.go)                                        *)

\* The flock of f is held across steps by an upload only.
Locked(f) == \E u \in Uploaders : upload[u].lock = f

Inc(c) == IF c = CountMod - 1 THEN 0 ELSE c + 1
Dec(c) == IF c = 0 THEN CountMod - 1 ELSE c - 1
IncDirty(c) == IF c = MaxDirty THEN c ELSE c + 1
\* Mutant: DecDirty without the test for zero.
DecDirtyUnchecked(c) == c - 1

DecDirty(c) == IF c = 0 THEN 0 ELSE c - 1

\* The handles that count towards the open handles of f.
OpenOn(f) == {h \in Handles : hst[h] # "free" /\ hpath[h] = f}

(* The LRU policy as FileCache calls it (lru_policy.go)                    *)

IsCached(f) == local[f] # NoFile /\ policy[f] = "cached"

\* A new node is linked at once, an existing one by asyncCacheValid.
CacheValid(f) ==
    IF policy[f] = "absent"
    THEN /\ policy' = [policy EXCEPT ![f] = "cached"]
         /\ UNCHANGED <<validateChan, delItems, deleting>>
    ELSE /\ validateChan' = validateChan \cup {f}
         /\ UNCHANGED <<policy, delItems, deleting>>

\* removeNode drops the node, so one that deleteExpiredNodes holds goes stale.
Stale(f) == [delItems EXCEPT ![f] = IF @ = "no" THEN "no" ELSE "stale"]

\* The descriptors left behind by the removal of f from the cache directory.
Unlinked(f) == [h \in Handles |-> IF hfd[h] = f THEN None ELSE hfd[h]]

(* pendingOps (async.go)                                                   *)

WindowActive == mount.scheduled => window

-----------------------------------------------------------------------------
(* CreateFile                                                              *)

\* Called after a lookup that found nothing: no local file, and either the
\* cloud or the attribute cache says that there is no object.
CreateFile(h, f) ==
    /\ hst[h] = "free" /\ f \in mount.mayOpen[h] /\ ~Locked(f)
    /\ local[f] = NoFile /\ cloud[f] = NoFile
    /\ connected \/ mount.offlineAccess
    /\ cloud' = IF mount.createEmptyFile /\ connected
                THEN [cloud EXCEPT ![f] = Empty] ELSE cloud
    /\ CacheValid(f)
    /\ local' = [local EXCEPT ![f] = Empty]
    /\ count' = [count EXCEPT ![f] = Inc(@)]
    /\ lazyOpen' = [lazyOpen EXCEPT ![f] = FALSE]
    /\ hst' = [hst EXCEPT ![h] = "live"]
    /\ hpath' = [hpath EXCEPT ![h] = f] /\ hfd' = [hfd EXCEPT ![h] = f]
    /\ hdirty' = [hdirty EXCEPT ![h] = ~mount.createEmptyFile]
    /\ dirtyCount' = IF mount.createEmptyFile THEN dirtyCount
                     ELSE [dirtyCount EXCEPT ![f] = IncDirty(@)]
    /\ pending' = IF connected THEN pending
                  ELSE [pending EXCEPT ![f] = "upload"]
    /\ want' = [want EXCEPT ![f] = Empty] /\ target' = [target EXCEPT ![h] = f]
    /\ UNCHANGED <<upload, svc, unlinking, hlazy, hop, hlk, env, ver>>

\* The Open handler of libfuse puts the handle in handlemap only after the file
\* cache returned it.  So does Create, but the kernel keeps the parent directory
\* locked meanwhile, so that the file cannot be renamed.
AddHandle(h) ==
    /\ hst[h] = "opened"
    /\ hst' = [hst EXCEPT ![h] = "live"]
    /\ UNCHANGED <<disk, lru, locks, ops, hpath, hfd, hlazy, hdirty, hop, hlk,
                   env, ghost>>

-----------------------------------------------------------------------------
(* OpenFile, openFileInternal, isDownloadRequired                          *)

\* GetAttr of the next component fails: offline without cached attributes, or
\* on an error of the cloud.
AttrErrors == IF "attr" \in mount.cloudErrors \/ ~connected THEN BOOLEAN ELSE {FALSE}

\* Mutant: the refresh does not ask whether the file is open.
RefreshesOpen(f) ==
    IF mount.refreshSec /\ connected /\ IsCached(f) /\ cloud[f] # NoFile
    THEN BOOLEAN ELSE {FALSE}

\* The refresh timer has expired, the file is not open and the times and sizes
\* (which versions do not determine) say that the object changed.
Refreshes(f) ==
    IF /\ mount.refreshSec /\ connected /\ IsCached(f) /\ cloud[f] # NoFile
       /\ count[f] = 0 \/ lazyOpen[f]
    THEN BOOLEAN ELSE {FALSE}

isDownloadRequired(f, cached, noAttr, refresh) ==
    \/ ~cached /\ (noAttr \/ cloud[f] # NoFile)
    \/ refresh /\ ~noAttr

\* By the time openFileInternal asks, its CacheValid has linked a new node.
CachedOnOpen(f) == local[f] # NoFile /\ policy[f] # "marked"

\* The offline cases in which openFileInternal gives up.
DataUnavailable(f, trunc, required) ==
    /\ ~connected /\ ~trunc
    /\ IF mount.offlineAccess THEN ~CachedOnOpen(f) ELSE required

\* openFileInternal succeeds: truncates, downloads or uses the local file.
\* When it must download and has no attributes it opens an empty file.
OpenCompleted(h, f, trunc, noAttr, refresh) ==
    LET required == isDownloadRequired(f, CachedOnOpen(f), noAttr, refresh)
        download == required /\ ~trunc /\ ~noAttr /\ cloud[f] # NoFile
    IN /\ ~DataUnavailable(f, trunc, required)
       /\ required \/ trunc \/ local[f] # NoFile
       /\ CacheValid(f)
       /\ local' = IF download THEN [local EXCEPT ![f] = cloud[f]]
                   ELSE IF required \/ trunc THEN [local EXCEPT ![f] = Empty]
                   ELSE local
       /\ hfd' = [hfd EXCEPT ![h] = f] /\ hlazy' = [hlazy EXCEPT ![h] = FALSE]
       /\ hdirty' = [hdirty EXCEPT ![h] = @ \/ trunc]
       /\ dirtyCount' = IF trunc /\ ~hdirty[h]
                        THEN [dirtyCount EXCEPT ![f] = IncDirty(@)] ELSE dirtyCount
       /\ lazyOpen' = [lazyOpen EXCEPT ![f] = FALSE]

\* openFileInternal fails: no data offline, no such file, or the download
\* failed, which removes the local file.
OpenFailed(f, trunc, noAttr, refresh) ==
    LET required == isDownloadRequired(f, CachedOnOpen(f), noAttr, refresh)
        download == required /\ ~trunc /\ ~noAttr /\ cloud[f] # NoFile
    IN /\ CacheValid(f)
       /\ \/ /\ \/ DataUnavailable(f, trunc, required)
                \/ ~required /\ ~trunc /\ local[f] = NoFile
             /\ UNCHANGED <<local, hfd>>
          \/ /\ connected /\ "data" \in mount.cloudErrors /\ download
             /\ local' = [local EXCEPT ![f] = NoFile] /\ hfd' = Unlinked(f)

\* Does OpenFile call openFileInternal at once, or leave the open lazy?
OpensNow(f, trunc, noAttr, refresh) ==
    trunc \/ ~connected \/ ~isDownloadRequired(f, IsCached(f), noAttr, refresh)

NewHandle(h, f) ==
    /\ hst' = [hst EXCEPT ![h] = "opened"] /\ hpath' = [hpath EXCEPT ![h] = f]
    /\ count' = [count EXCEPT ![f] = Inc(@)]
    /\ target' = [target EXCEPT ![h] = f]

OpenFile(h, f, trunc) ==
    /\ hst[h] = "free" /\ f \in mount.mayOpen[h] /\ ~Locked(f)
    /\ connected \/ mount.offlineAccess
    /\ \E noAttr \in AttrErrors, refresh \in Refreshes(f) :
         \/ /\ OpensNow(f, trunc, noAttr, refresh)
            /\ OpenCompleted(h, f, trunc, noAttr, refresh)
            /\ want' = IF trunc THEN [want EXCEPT ![f] = Empty] ELSE want
            /\ NewHandle(h, f)
            /\ UNCHANGED <<cloud, upload, ops, hop, hlk, env, ver>>
         \/ /\ OpensNow(f, trunc, noAttr, refresh)
            /\ OpenFailed(f, trunc, noAttr, refresh)
            /\ UNCHANGED <<cloud, locks, ops, hst, hpath, hlazy, hdirty, hop,
                           hlk, env, ghost>>
         \/ /\ ~OpensNow(f, trunc, noAttr, refresh)
            /\ lazyOpen' = [lazyOpen EXCEPT ![f] = TRUE]
            /\ hlazy' = [hlazy EXCEPT ![h] = TRUE]
            /\ NewHandle(h, f)
            /\ UNCHANGED <<disk, lru, dirtyCount, upload, ops, hfd, hdirty,
                           hop, hlk, env, want, ver>>

\* The first read, write or truncate through a lazy handle completes its open.
\* A lazy handle was never opened with O_TRUNC.  It is bound to its name, and
\* refers from then on to the file that has the name when the open completes.
EnsureOpen(h) ==
    LET f == hpath[h]
    IN /\ hst[h] = "live" /\ hlazy[h] /\ hop[h] = "none" /\ ~Locked(f)
       /\ \E noAttr \in AttrErrors, refresh \in Refreshes(f) :
            \/ /\ OpenCompleted(h, f, FALSE, noAttr, refresh)
               /\ target' = [target EXCEPT ![h] = f]
               /\ UNCHANGED <<cloud, count, upload, ops, hst, hpath, hop, hlk,
                              env, want, ver>>
            \/ /\ OpenFailed(f, FALSE, noAttr, refresh)
               /\ UNCHANGED <<cloud, locks, ops, hst, hpath, hlazy, hdirty,
                              hop, hlk, env, ghost>>

-----------------------------------------------------------------------------
(* WriteFile                                                               *)

\* The data goes to the local file behind the descriptor, without the flock;
\* every defaultCacheUpdateCount calls the policy is told of the use.
WriteFile(h) ==
    /\ hst[h] = "live" /\ ~hlazy[h] /\ ver < MaxVer
    /\ hop[h] = "none" \/ (mount.sharedHandles /\ hop[h] = "flush")
    /\ CacheValid(hpath[h]) \/ UNCHANGED lru
    /\ ver' = ver + 1
    /\ local' = IF hfd[h] = None THEN local ELSE [local EXCEPT ![hfd[h]] = ver + 1]
    /\ hdirty' = [hdirty EXCEPT ![h] = TRUE]
    /\ dirtyCount' = IF hdirty[h] THEN dirtyCount
                     ELSE [dirtyCount EXCEPT ![hpath[h]] = IncDirty(@)]
    /\ want' = IF target[h] = None THEN want ELSE [want EXCEPT ![target[h]] = ver + 1]
    /\ UNCHANGED <<cloud, count, lazyOpen, upload, ops, hst, hpath, hfd, hlazy,
                   hop, hlk, env, target>>

-----------------------------------------------------------------------------
(* FlushFile, SyncFile, ReleaseFile, flushFileCloud, uploadFile            *)

\* FlushFile (sync is FALSE) or SyncFile up to flock.Lock: a clean handle, and
\* with lazy writes every flush but a sync, is done here.
FlushFile(h, sync) ==
    /\ hst[h] = "live" /\ hop[h] = "none"
    /\ CacheValid(hpath[h])
    /\ IF hdirty[h] /\ (sync \/ ~mount.lazyWrite)
       THEN /\ hop' = [hop EXCEPT ![h] = "flush"]
            /\ hlk' = [hlk EXCEPT ![h] = hpath[h]]
       ELSE UNCHANGED <<hop, hlk>>
    /\ UNCHANGED <<disk, locks, ops, hst, hpath, hfd, hlazy, hdirty, env, ghost>>

\* ReleaseFile up to flock.Lock.
ReleaseFile(h) ==
    /\ hst[h] = "live" /\ hop[h] = "none"
    /\ hop' = [hop EXCEPT ![h] = "close"]
    /\ hlk' = [hlk EXCEPT ![h] = hpath[h]]
    /\ UNCHANGED <<disk, lru, locks, ops, hst, hpath, hfd, hlazy, hdirty, env,
                   ghost>>

\* Mutant: the call goes on without the flock.
AcquiresUnlocked(h) == hop[h] # "none" /\ upload[h] = NoUpload

\* The call made for h gets the flock it looked up.
Acquires(h) ==
    /\ hop[h] # "none" /\ upload[h] = NoUpload /\ ~Locked(hlk[h])

\* releaseFileInternal marks the file used before it looks at the dirty flag.
UsedOnClose(h) ==
    IF hop[h] = "close" /\ ~hlazy[h] THEN CacheValid(hpath[h]) ELSE UNCHANGED lru

\* The end of a successful releaseFileInternal: close and count down, under
\* the lock that was looked up when ReleaseFile was called.
CloseHandle(h) ==
    /\ count' = [count EXCEPT ![hlk[h]] = Dec(@)]
    /\ lazyOpen' = [lazyOpen EXCEPT ![hlk[h]] =
                       @ /\ ~(hlazy[h] /\ Dec(count[hlk[h]]) = 0)]
    /\ hst' = [hst EXCEPT ![h] = "free"] /\ hpath' = [hpath EXCEPT ![h] = None]
    /\ hfd' = [hfd EXCEPT ![h] = None] /\ hlazy' = [hlazy EXCEPT ![h] = FALSE]
    /\ target' = [target EXCEPT ![h] = None]

\* The call for h returns nil: a release closes the handle, a flush does not.
Returns(h) ==
    /\ hop' = [hop EXCEPT ![h] = "none"] /\ hlk' = [hlk EXCEPT ![h] = None]
    /\ IF hop[h] = "close" THEN CloseHandle(h)
       ELSE UNCHANGED <<count, lazyOpen, hst, hpath, hfd, hlazy, target>>

\* Mutant: a release that could not upload closes the handle all the same.
ReturnsErrorClosed(h) == Returns(h)

\* The call for h returns an error: a release leaves the handle counted and
\* nobody will release it again.
ReturnsError(h) ==
    /\ hop' = [hop EXCEPT ![h] = "none"] /\ hlk' = [hlk EXCEPT ![h] = None]
    /\ hst' = [hst EXCEPT ![h] = IF hop[h] = "close" THEN "stuck" ELSE @]
    /\ UNCHANGED <<count, lazyOpen, hpath, hfd, hlazy, target>>

\* Mutant: clearHandleDirty leaves the count of the lock alone.
clearHandleDirtyOnly(h) ==
    hdirty' = [hdirty EXCEPT ![h] = FALSE] /\ UNCHANGED dirtyCount

\* clearHandleDirty.
clearHandleDirty(h) ==
    /\ hdirty' = [hdirty EXCEPT ![h] = FALSE]
    /\ dirtyCount' = IF hdirty[h]
                     THEN [dirtyCount EXCEPT ![hpath[h]] = DecDirty(@)]
                     ELSE dirtyCount

\* A clean handle has nothing to write back.
FlushClean(h) ==
    /\ Acquires(h) /\ ~hdirty[h]
    /\ UsedOnClose(h) /\ Returns(h)
    /\ UNCHANGED <<disk, dirtyCount, upload, ops, hdirty, env, want, ver>>

\* Mutant: outside the upload windows the upload is not queued.
FlushDropped(h) ==
    /\ Acquires(h) /\ hdirty[h] /\ ~WindowActive
    /\ clearHandleDirty(h)
    /\ UsedOnClose(h) /\ Returns(h)
    /\ UNCHANGED <<disk, upload, ops, env, want, ver>>

\* Outside the upload windows the upload is left to servicePendingOps.
FlushDeferred(h) ==
    /\ Acquires(h) /\ hdirty[h] /\ ~WindowActive
    /\ pending' = [pending EXCEPT ![hpath[h]] = "upload"]
    /\ clearHandleDirty(h)
    /\ UsedOnClose(h) /\ Returns(h)
    /\ UNCHANGED <<disk, upload, svc, unlinking, env, want, ver>>

\* uploadFile cannot stat or open a local file that is gone.
FlushNoFile(h) ==
    /\ Acquires(h) /\ hdirty[h] /\ WindowActive /\ local[hpath[h]] = NoFile
    /\ UsedOnClose(h) /\ ReturnsError(h)
    /\ UNCHANGED <<disk, dirtyCount, upload, ops, hdirty, env, want, ver>>

\* uploadFile opens the local file and hands it to CopyFromFile, flock held.
\* Data written to it from now on is not uploaded: of the outcomes of reading
\* a file that is being written, the oldest contents are the ones that matter.
FlushUpload(h) ==
    /\ Acquires(h) /\ hdirty[h] /\ WindowActive /\ local[hpath[h]] # NoFile
    /\ upload' = [upload EXCEPT ![h] =
                    [lock |-> hlk[h], name |-> hpath[h], data |-> local[hpath[h]]]]
    /\ UsedOnClose(h)
    /\ UNCHANGED <<disk, count, dirtyCount, lazyOpen, ops, handle, env, ghost>>

\* CopyFromFile succeeded.
FlushUploaded(h) ==
    /\ upload[h] # NoUpload /\ connected
    /\ cloud' = [cloud EXCEPT ![upload[h].name] = upload[h].data]
    /\ upload' = [upload EXCEPT ![h] = NoUpload]
    /\ clearHandleDirty(h)
    /\ pending' = [pending EXCEPT ![hpath[h]] = "none"]
    /\ Returns(h)
    /\ UNCHANGED <<local, lru, svc, unlinking, env, want, ver>>

\* CopyFromFile found the cloud unreachable: with offline access the upload is
\* queued and the call succeeds, without it the call fails.
FlushOffline(h) ==
    /\ upload[h] # NoUpload /\ ~connected
    /\ upload' = [upload EXCEPT ![h] = NoUpload]
    /\ IF mount.offlineAccess
       THEN /\ pending' = [pending EXCEPT ![hpath[h]] = "upload"]
            /\ hdirty' = [hdirty EXCEPT ![h] = @ /\ hop[h] # "close"]
            /\ Returns(h)
       ELSE /\ ReturnsError(h) /\ UNCHANGED <<pending, hdirty>>
    /\ UNCHANGED <<disk, lru, dirtyCount, svc, unlinking, env, want, ver>>

\* CopyFromFile failed for another reason: the handle stays dirty.
FlushFailed(h) ==
    /\ upload[h] # NoUpload /\ connected /\ "data" \in mount.cloudErrors
    /\ upload' = [upload EXCEPT ![h] = NoUpload]
    /\ ReturnsError(h)
    /\ UNCHANGED <<disk, lru, dirtyCount, ops, hdirty, env, want, ver>>

-----------------------------------------------------------------------------
(* DeleteFile                                                              *)

\* DeleteFile reads hadPendingOp before it locks the file.
DeleteFile(f) ==
    /\ f \in mount.deletes /\ (mount.races \/ OpenOn(f) = {})
    /\ unlinking[f] = "no" /\ (local[f] # NoFile \/ cloud[f] # NoFile)
    /\ unlinking' = [unlinking EXCEPT ![f] =
                       IF pending[f] = "none" THEN "hadnot" ELSE "had"]
    /\ UNCHANGED <<disk, lru, locks, pending, svc, handle, env, ghost>>

\* The cloud operation on f goes through: the object exists, or it was not
\* uploaded yet and resolveCloudNotFoundError turns the error into success.
CloudResolves(f) ==
    cloud[f] # NoFile \/ (~mount.createEmptyFile /\ local[f] # NoFile)

DeleteAllowed(f) == IF connected THEN CloudResolves(f) ELSE mount.offlineAccess

DeleteFileLocked(f) ==
    /\ unlinking[f] # "no" /\ ~Locked(f) /\ DeleteAllowed(f)
    /\ cloud' = IF connected THEN [cloud EXCEPT ![f] = NoFile] ELSE cloud
    /\ policy' = [policy EXCEPT ![f] = "absent"] /\ delItems' = Stale(f)
    /\ local' = [local EXCEPT ![f] = NoFile] /\ hfd' = Unlinked(f)
    /\ lazyOpen' = [lazyOpen EXCEPT ![f] = FALSE]
    /\ pending' = IF ~connected \/ unlinking[f] = "had"
                  THEN [pending EXCEPT ![f] = "deletion"] ELSE pending
    /\ unlinking' = [unlinking EXCEPT ![f] = "no"]
    /\ want' = [want EXCEPT ![f] = NoFile]
    /\ target' = [h \in Handles |-> IF target[h] = f THEN None ELSE target[h]]
    /\ UNCHANGED <<validateChan, deleting, count, dirtyCount, upload, svc, hst,
                   hpath, hlazy, hdirty, hop, hlk, env, ver>>

DeleteFileFailed(f) ==
    /\ unlinking[f] # "no" /\ ~Locked(f)
    /\ ~DeleteAllowed(f) \/ (connected /\ "data" \in mount.cloudErrors)
    /\ unlinking' = [unlinking EXCEPT ![f] = "no"]
    /\ UNCHANGED <<disk, lru, locks, pending, svc, handle, env, ghost>>

-----------------------------------------------------------------------------
(* RenameFile, renameLocalFile, renameOpenHandles, renamePendingOp         *)

\* Offline src must be cached.
RenameAllowed(s) ==
    IF connected THEN CloudResolves(s)
    ELSE mount.offlineAccess /\ local[s] # NoFile

\* pendingOps once an offline rename has recorded src and renamePendingOp has
\* turned an entry of src into a deletion of src and the same entry for dst.
RenamedPending(s, d) ==
    LET flags == IF ~connected /\ pending[s] = "none" THEN "upload" ELSE pending[s]
    IN IF flags = "none" THEN pending
       ELSE [pending EXCEPT ![s] = "deletion", ![d] = flags]

\* Mutant: open handles keep the old path.
RenamedHandleKept(h, s, d) == hpath[h]

\* renameOpenHandles finds the handles in handlemap only.
RenamedHandle(h, s, d) ==
    IF count[s] > 0 /\ hpath[h] = s /\ hst[h] \in {"live", "stuck"} THEN d
    ELSE hpath[h]

\* No call on the name is between two of its steps.
NoCallOn(f) ==
    \A h \in Handles : hpath[h] = f => hst[h] # "opened" /\ hop[h] = "none"

RenameFile(s, d) ==
    LET moved == local[s] # NoFile
        Follow(g) == IF g = s THEN d ELSE IF g = d THEN None ELSE g
    IN /\ <<s, d>> \in mount.renames /\ ~Locked(s) /\ ~Locked(d)
       /\ mount.races \/ (NoCallOn(s) /\ OpenOn(d) = {})
       /\ RenameAllowed(s)
       /\ cloud' = IF connected /\ cloud[s] # NoFile
                   THEN [cloud EXCEPT ![s] = NoFile, ![d] = cloud[s]] ELSE cloud
       /\ local' = IF moved
                   THEN [local EXCEPT ![s] = NoFile, ![d] = local[s]] ELSE local
       /\ policy' = [policy EXCEPT ![s] = "absent",
                                   ![d] = IF moved /\ @ = "absent" THEN "cached" ELSE @]
       /\ validateChan' = IF moved /\ policy[d] # "absent"
                          THEN validateChan \cup {d} ELSE validateChan
       /\ delItems' = Stale(s)
       /\ hfd' = IF moved THEN [h \in Handles |-> Follow(hfd[h])] ELSE hfd
       /\ hpath' = [h \in Handles |-> RenamedHandle(h, s, d)]
       /\ count' = [count EXCEPT ![s] = 0, ![d] = (@ + count[s]) % CountMod]
       /\ lazyOpen' = [lazyOpen EXCEPT ![d] = IF count[s] > 0 THEN lazyOpen[s] ELSE @]
       /\ pending' = RenamedPending(s, d)
       /\ want' = [want EXCEPT ![s] = NoFile, ![d] = want[s]]
       /\ target' = [h \in Handles |-> Follow(target[h])]
       /\ UNCHANGED <<deleting, dirtyCount, upload, svc, unlinking, hst, hlazy,
                      hdirty, hop, hlk, env, ver>>

-----------------------------------------------------------------------------
(* TruncateFile by path; through a handle it writes like WriteFile         *)

\* Cutting or extending the latest version makes a fresh version.
Resized(f, size, c) ==
    IF size = "zero" THEN Empty ELSE IF c = want[f] THEN ver + 1 ELSE c

\* Offline the file's data must be cached, but needData is
\* options.NewSize == 0, so it is a nonzero size that does without it.
TruncateAllowed(f, size) ==
    IF connected THEN CloudResolves(f)
    ELSE mount.offlineAccess /\ (local[f] # NoFile \/ size = "nonzero")

TruncateFile(f, size) ==
    LET created == ~connected /\ local[f] = NoFile
        old == IF created THEN Empty ELSE local[f]
        resized == (local[f] # NoFile \/ created) /\ (size = "zero" => old # Empty)
    IN /\ size \in mount.truncates /\ ~Locked(f)
       /\ local[f] # NoFile \/ cloud[f] # NoFile
       /\ size = "nonzero" => ver < MaxVer
       /\ TruncateAllowed(f, size)
       /\ cloud' = IF connected /\ cloud[f] # NoFile
                   THEN [cloud EXCEPT ![f] = Resized(f, size, @)] ELSE cloud
       /\ local' = IF resized THEN [local EXCEPT ![f] = Resized(f, size, old)]
                   ELSE local
       /\ IF local[f] # NoFile \/ created THEN CacheValid(f) ELSE UNCHANGED lru
       /\ pending' = IF resized /\ ~connected
                     THEN [pending EXCEPT ![f] = "upload"] ELSE pending
       /\ want' = [want EXCEPT ![f] = Resized(f, size, @)]
       /\ ver' = IF size = "nonzero" THEN ver + 1 ELSE ver
       /\ UNCHANGED <<locks, svc, unlinking, handle, env, target>>

-----------------------------------------------------------------------------
(* servicePendingOps, updateObject (async.go)                              *)

\* Range hands the entry to updateObject, which then waits for the flock.
SvcPick(f) ==
    /\ svc = Idle /\ pending[f] # "none" /\ WindowActive /\ connected
    /\ svc' = [name |-> f, flags |-> pending[f]]
    /\ UNCHANGED <<disk, lru, locks, pending, unlinking, handle, env, ghost>>

\* updateObject has the flock and has not started an upload.
SvcRuns(f) == svc.name = f /\ upload[Service] = NoUpload /\ ~Locked(f)

\* Nothing is pending any more, or the file to upload is gone and its entry is
\* dropped, or the object to delete is known to be absent.
SvcSkip(f) ==
    /\ SvcRuns(f)
    /\ \/ pending[f] = "none"
       \/ local[f] = NoFile /\ svc.flags = "upload"
       \/ local[f] = NoFile /\ svc.flags = "deletion" /\ cloud[f] = NoFile
    /\ pending' = [pending EXCEPT ![f] = "none"]
    /\ svc' = Idle
    /\ UNCHANGED <<disk, lru, locks, unlinking, handle, env, ghost>>

\* Mutant: a queued deletion is applied even when the file is back.
SvcDeleteBlindly(f) ==
    /\ SvcRuns(f) /\ pending[f] # "none" /\ connected
    /\ svc.flags = "deletion" /\ cloud[f] # NoFile
    /\ cloud' = [cloud EXCEPT ![f] = NoFile]
    /\ pending' = [pending EXCEPT ![f] = "none"]
    /\ svc' = Idle
    /\ UNCHANGED <<local, lru, locks, unlinking, handle, env, ghost>>

SvcDelete(f) ==
    /\ SvcRuns(f) /\ pending[f] # "none" /\ connected
    /\ svc.flags = "deletion" /\ local[f] = NoFile /\ cloud[f] # NoFile
    /\ cloud' = [cloud EXCEPT ![f] = NoFile]
    /\ pending' = [pending EXCEPT ![f] = "none"]
    /\ svc' = Idle
    /\ UNCHANGED <<local, lru, locks, unlinking, handle, env, ghost>>

\* A local file is uploaded whatever the entry's flags say.
SvcUpload(f) ==
    /\ SvcRuns(f) /\ pending[f] # "none" /\ local[f] # NoFile
    /\ upload' = [upload EXCEPT ![Service] =
                    [lock |-> f, name |-> f, data |-> local[f]]]
    /\ UNCHANGED <<disk, lru, count, dirtyCount, lazyOpen, ops, handle, env, ghost>>

\* Mutant: the entry of an uploaded file is not removed.
SvcUploadedKept(f) ==
    /\ upload[Service].name = f /\ connected
    /\ cloud' = [cloud EXCEPT ![f] = upload[Service].data]
    /\ upload' = [upload EXCEPT ![Service] = NoUpload]
    /\ svc' = Idle
    /\ UNCHANGED <<local, lru, count, dirtyCount, lazyOpen, pending, unlinking,
                   handle, env, ghost>>

SvcUploaded(f) ==
    /\ upload[Service].name = f /\ connected
    /\ cloud' = [cloud EXCEPT ![f] = upload[Service].data]
    /\ upload' = [upload EXCEPT ![Service] = NoUpload]
    /\ pending' = [pending EXCEPT ![f] = "none"]
    /\ svc' = Idle
    /\ UNCHANGED <<local, lru, count, dirtyCount, lazyOpen, unlinking, handle,
                   env, ghost>>

\* The cloud call fails: the entry stays and a later pass retries it.
SvcFailed(f) ==
    /\ ~connected \/ "data" \in mount.cloudErrors
    /\ svc.name = f
    /\ \/ upload[Service].name = f /\ upload' = [upload EXCEPT ![Service] = NoUpload]
       \/ /\ SvcRuns(f) /\ pending[f] # "none" /\ svc.flags = "deletion"
          /\ local[f] = NoFile /\ UNCHANGED upload
    /\ svc' = Idle
    /\ UNCHANGED <<disk, lru, count, dirtyCount, lazyOpen, pending, unlinking,
                   handle, env, ghost>>

-----------------------------------------------------------------------------
(* Eviction (lru_policy.go)                                                *)

\* deleteExpiredNodes detaches and marks the nodes beyond the marker, except
\* those of files that are pending.
EvictMark(S) ==
    /\ S # {} /\ deleting = None
    /\ \A f \in Files : delItems[f] = "no"
    /\ \A f \in S : policy[f] = "cached" /\ pending[f] = "none"
    /\ policy' = [f \in Files |-> IF f \in S THEN "marked" ELSE policy[f]]
    /\ delItems' = [f \in Files |-> IF f \in S THEN "item" ELSE "no"]
    /\ UNCHANGED <<disk, validateChan, deleting, locks, ops, handle, env, ghost>>

\* It then takes the items one by one: a restored node is left alone, any other
\* is dropped from nodeMap, by name, and deleteItem is called.
EvictItem(f) ==
    /\ deleting = None /\ delItems[f] # "no"
    /\ delItems' = [delItems EXCEPT ![f] = "no"]
    /\ IF delItems[f] = "item" /\ policy[f] = "cached"
       THEN UNCHANGED <<policy, deleting>>
       ELSE policy' = [policy EXCEPT ![f] = "absent"] /\ deleting' = f
    /\ UNCHANGED <<disk, validateChan, locks, ops, handle, env, ghost>>

\* Mutant: open handles do not keep the file.
InUsePending(f) == pending[f] # "none"

InUse(f) == count[f] > 0 \/ pending[f] # "none"

\* deleteItem, under the flock, removes the local file unless it is valid
\* again, open or pending.
deleteItem(f) ==
    LET keep == policy[f] # "absent" \/ InUse(f)
    IN /\ deleting = f /\ ~Locked(f)
       /\ deleting' = None
       /\ policy' = [policy EXCEPT ![f] = IF @ = "absent" /\ InUse(f) THEN "cached" ELSE @]
       /\ local' = IF keep THEN local ELSE [local EXCEPT ![f] = NoFile]
       /\ hfd' = IF keep THEN hfd ELSE Unlinked(f)
       /\ UNCHANGED <<cloud, validateChan, delItems, locks, ops, hst, hpath,
                      hlazy, hdirty, hop, hlk, env, ghost>>

\* asyncCacheValid restores a node that is still in nodeMap.
asyncCacheValid(f) ==
    /\ f \in validateChan
    /\ validateChan' = validateChan \ {f}
    /\ policy' = [policy EXCEPT ![f] = IF @ = "marked" THEN "cached" ELSE @]
    /\ UNCHANGED <<disk, delItems, deleting, locks, ops, handle, env, ghost>>

-----------------------------------------------------------------------------
(* The connection to the cloud and the upload windows                      *)

Disconnect ==
    /\ connected /\ drops < mount.losses
    /\ connected' = FALSE /\ drops' = drops + 1
    /\ UNCHANGED <<disk, lru, locks, ops, handle, mount, window, ghost>>

Reconnect ==
    /\ ~connected /\ connected' = TRUE
    /\ UNCHANGED <<disk, lru, locks, ops, handle, mount, drops, window, ghost>>

WindowToggle ==
    /\ mount.scheduled /\ window' = ~window
    /\ UNCHANGED <<disk, lru, locks, ops, handle, mount, connected, drops, ghost>>

Next ==
    \/ \E h \in Handles, f \in Files :
          \/ CreateFile(h, f) \/ OpenFile(h, f, FALSE) \/ OpenFile(h, f, TRUE)
    \/ \E h \in Handles :
          \/ AddHandle(h) \/ EnsureOpen(h) \/ WriteFile(h)
          \/ FlushFile(h, FALSE) \/ FlushFile(h, TRUE) \/ ReleaseFile(h)
          \/ FlushClean(h) \/ FlushDeferred(h) \/ FlushNoFile(h) \/ FlushUpload(h)
          \/ FlushUploaded(h) \/ FlushOffline(h) \/ FlushFailed(h)
    \/ \E f \in Files :
          \/ DeleteFile(f) \/ DeleteFileLocked(f) \/ DeleteFileFailed(f)
          \/ TruncateFile(f, "zero") \/ TruncateFile(f, "nonzero")
          \/ SvcPick(f) \/ SvcSkip(f) \/ SvcDelete(f) \/ SvcUpload(f)
          \/ SvcUploaded(f) \/ SvcFailed(f)
          \/ EvictItem(f) \/ deleteItem(f) \/ asyncCacheValid(f)
    \/ \E s, d \in Files : RenameFile(s, d)
    \/ \E S \in SUBSET mount.evictable : EvictMark(S)
    \/ Disconnect \/ Reconnect \/ WindowToggle

Spec == Init /\ [][Next]_vars

\* The background threads run, uploads end, a lost connection comes back and
\* upload windows keep opening.  Go's mutexes hand themselves over to waiters
\* (starvation mode), so a thread that waits for a flock gets it: SF.
Fairness ==
    /\ WF_vars(Reconnect)
    /\ SF_vars(WindowToggle)
    /\ \A f \in Files :
         /\ SF_vars(SvcPick(f)) /\ SF_vars(SvcSkip(f))
         /\ SF_vars(SvcDelete(f)) /\ SF_vars(SvcUpload(f))
         /\ SF_vars(SvcUploaded(f)) /\ WF_vars(SvcFailed(f))
    /\ \A h \in Handles :
         SF_vars(FlushUploaded(h)) /\ WF_vars(FlushOffline(h))

FairSpec == Spec /\ Fairness

-----------------------------------------------------------------------------
(* Properties                                                              *)

\* Nobody uses f: it is closed, no operation on it is queued or running.
Quiescent(f) ==
    /\ OpenOn(f) = {} /\ pending[f] = "none"
    /\ \A u \in Uploaders : upload[u].name # f

\* LockMapItem.handleCount is the number of handles opened on the name and not
\* yet released, however opens, renames, deletes and releases interleave: the
\* eviction guard of deleteItem relies on it.
HandleCountExact == \A f \in Files : count[f] = Cardinality(OpenOn(f))

\* LockMapItem.dirtyCount is the number of dirty handles on the name, by which
\* GetAttr decides that the local file is the source of truth, as long as the
\* connection is never lost and nothing is renamed.
DirtyCountExact ==
    mount.losses = 0 /\ mount.renames = {} => \A f \in Files :
       dirtyCount[f] = Cardinality({h \in OpenOn(f) : hdirty[h]})

\* A local file that differs from its object is protected from eviction: it is
\* open or queued in pendingOps (deleteItem).
UnsyncedProtected ==
    \A f \in Files :
       local[f] # NoFile /\ local[f] # cloud[f] => count[f] > 0 \/ pending[f] # "none"

\* The latest contents of every file are in the local cache or in the cloud,
\* whatever is evicted, downloaded again, uploaded or retried.
DataSurvives == \A f \in Files : want[f] # NoFile => want[f] \in {local[f], cloud[f]}

\* What an opened handle reads is the latest contents of its file: its
\* descriptor is still the file in the cache directory and that is current.
ReadsLatest ==
    \A h \in Handles :
       hst[h] \in {"opened", "live"} /\ ~hlazy[h] /\ target[h] # None
          => hfd[h] = target[h] /\ local[hfd[h]] = want[target[h]]

\* When a file is closed and nothing is queued for it, the cloud holds exactly
\* what its writers left: no change, and no deletion, has been dropped.
QuiescentSynced == \A f \in Files : Quiescent(f) => cloud[f] = want[f]

\* No background step and no failed call deletes an object that its users did
\* not delete: updateObject applies a queued deletion to the file it was meant
\* for.
NoUnaskedDeletion ==
    [][want' = want => \A f \in Files :
          cloud[f] # NoFile /\ cloud'[f] = NoFile => want[f] = NoFile]_vars

\* A write-back never replaces the latest contents in the cloud by older ones.
CloudNeverRegresses ==
    [][want' = want => \A f \in Files : cloud[f] = want[f] => cloud'[f] = want[f]]_vars

\* Every queued operation is eventually written to the cloud or superseded.
PendingDrains == \A f \in Files : (pending[f] # "none") ~> (pending[f] = "none")
=============================================================================
