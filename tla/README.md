# Cloudfuse in TLA+

Cloudfuse mounts an S3 bucket or an Azure container as a file system. A mount is
a pipeline of components (`internal/pipeline.go`); each call of the kernel
arrives at `libfuse` and travels down the chain until a component answers it.
This directory holds TLA+ models of the components that keep state of their own
and are hard to test, the TLC runs that check them on small instances, and
TLAPS proofs of the properties that matter most for every instance.

## 1. The system

| component | state it keeps | operations | what is hard |
|---|---|---|---|
| `libfuse` | open handles (through `handlemap`) | one handler per FUSE call | a handle enters `handlemap` only after the pipeline opened the file |
| `file_cache` | files in a cache directory, a lock item per file (`handleCount`, `dirtyCount`, `LazyOpen`), `pendingOps`, `missedChmodList` | create, open, read, write, truncate, flush, sync, release, delete, rename, directories, chmod | handlers, eviction and write-back interleave; the cloud comes and goes |
| LRU policy (`lru_policy.go`) | linked list with two markers, `nodeMap`, per node a lock and a `deleted` flag | `CacheValid`, `CachePurge`, `IsCached`, eviction, snapshot | two threads and all handlers change one list; nodes are reused, replaced and restored |
| write-back (`async.go`) | `pendingOps`, `activeWindows`, the channels `startScheduledUploads` and `pendingOpAdded` | cron jobs of upload windows, `addPendingOp`, `servicePendingOps` | channels are closed and replaced while others wait on them |
| `attr_cache` | a tree of attributes, tombstones and listings with timeouts | one hook per operation | answers of the cloud that arrive after a change; renames move subtrees |
| `entry_cache` | pages of listings with timeouts | `StreamDir` | a page is older than its neighbours |
| `block_cache` | blocks of a bounded pool, per handle lists, two worker queues, a disk cache | read, write, prefetch, stage, commit | a block is downloaded, read, written, staged and reused by several threads |
| `stream` | blocks of open files in memory, per handle or per name | read, write, flush, release, truncate | dirty blocks are flushed to make room; a flush fails half way |
| `size_tracker` | the size of the mount: a journal file shared by mounts, a pending delta | hooks on every size change, periodic sync | attributes are read before, deltas added after the operation |
| `xload` | a pipeline lister, splitter, data manager over one block pool | preload of a container, opens of files that are not loaded yet | three thread pools and all users share one bounded pool |
| `s3storage`, `azstorage` | the connection state; the objects, through the services | one REST call or more per operation | a rename is copies and deletions, a write is stages and a commit; any of them fails |
| `stats_manager`, health monitor | counters, channels, a pipe, records in memory, rotated files | push, poll, export | check and use of full channels are two steps; the monitor comes late or dies |

The file cache calls the policy and `pendingOps`; `servicePendingOps` calls back
into the file cache (`updateObject`) and so does eviction (`deleteItem`), both
under the lock of the file; `libfuse` adds handles and translates paths; the
storage component tells the file cache whether the cloud is reachable.

What makes the parts correct:

* file cache: the counters by which eviction and `GetAttr` decide are exact; no
  change of a file is lost, hidden, or overwritten by an older one, whatever is
  evicted, retried or deferred; when a file is left alone, the cloud ends up with
  what its users left;
* policy: the list stays a list, every cached file is on it, eviction ends;
* write-back: uploads run exactly in windows, no wake-up is lost, `Stop` ends;
* attribute cache: it never answers from before a change that it has seen, and
  after a timeout not from before a change of others;
* directories: a listing gives every name once however it is cut into pages; no
  call on a directory loses a file;
* storage: an object is what the calls asked for, a rename never loses one;
* block cache: blocks return to the pool, a reader never waits for ever or reads
  a block that failed, data that is written is staged before its block is reused;
* stream: readers see their own writes, a flush that succeeded is in the store;
* preload: a file under its name is whole, every open ends;
* statistics: nothing is lost or doubled but where the code drops it, every closed
  output file is valid;
* size tracker: the journal and the deltas that are still out add up to the size.

## 2. The modules

| module | models | extends |
|---|---|---|
| `FileCache` | `file_cache.go`, `lock_map.go`, the policy and `pendingOps` as the file cache sees them | - |
| `MCFileCache` | the mounts that the runs consider | `FileCache` |
| `FileCacheProofs` | theorems about `FileCache`: types, `handleCount` | `FileCache`, `TLAPS` |
| `FileCacheDataProofs` | theorems about the contents `FileCache` keeps, `dirtyCount` | `FileCacheProofs` |
| `LruPolicy`, `MCLruPolicy` | `lru_policy.go` in detail | - |
| `LruPolicyProofs` | theorems about the list, the map of names and the snapshot | `LruPolicy`, `TLAPS` |
| `UploadScheduler`, `MCUploadScheduler` | `async.go` in detail | - |
| `UploadSchedulerProofs` | theorems about `UploadScheduler` | `UploadScheduler`, `TLAPS` |
| `SizeTracker`, `MCSizeTracker` | `size_tracker.go`, `journal.go`, the command `sync-size-tracker` | - |
| `SizeTrackerProofs` | theorems about `SizeTracker`, and the lemmas about sums that they need | `SizeTracker`, `TLAPS` |
| `BlockCache`, `MCBlockCache` | `block_cache.go`, its pool and its workers | - |
| `ObjectStore` | what the storage components keep and answer about names | - |
| `AttrCache` | `cacheMap.go` and the helpers of `attr_cache.go` | `ObjectStore` |
| `Namespace`, `MCNamespace` | calls on names from `libfuse` through `attr_cache` to S3, Azure Blob and Data Lake | `AttrCache` |
| `NamespaceProofs` | the theorem about renames | `Namespace`, `TLAPS` |
| `Directory`, `MCDirectory` | listings and the directory calls of `file_cache`, `entry_cache`, paging in `libfuse` and the stores | - |
| `BlockOffsets` | `BlockOffsetList` and its searches (`common/types.go`) | - |
| `BlobStore` | an object, its blocks and what the services do with them | `BlockOffsets` |
| `BlockBlob`, `S3Client` | contents in `block_blob.go` and in `client.go` | `BlobStore` |
| `Stream`, `MCStream` | `stream`, and the calls of file and block cache, on both back ends | `BlobStore`; instances of `BlockBlob`, `S3Client` |
| `Preload` | what `xload` promises: files are whole or absent | - |
| `Xload`, `MCXload` | `xload` in detail, shown to implement `Preload` | instance of `Preload` |
| `XloadProofs` | the proof that `Xload` implements `Preload` | `Xload`, `TLAPS` |
| `StatsExport`, `MCStatsExport` | `stats_manager`, the exporter and reader of the health monitor | - |
| `StatsExportProofs` | theorems about the output files and the messages | `StatsExport`, `TLAPS` |

`PROJECT.json` maps each definition to the lines it models.

### FileCache

The contents of a file are a version number (`Empty` = 0, every write makes a
fresh one), so that "the latest contents" can be told from older ones. `local`
and `cloud` are the two copies. `count`, `dirtyCount` and `lazyOpen` are the
fields of `LockMapItem`; `hst`, `hpath`, `hfd`, `hlazy`, `hdirty` are what a
`handlemap.Handle` holds. `want` and `target` are history variables: the file
system that the callers are entitled to see.

An action is one critical section of the code. Nearly every handler holds the
lock of its file (`flock`) from its first to its last effect, so it is one
action; these are the exceptions, and each is split where the code is:

* `WriteFile` takes no lock;
* `FlushFile`, `SyncFile` and `ReleaseFile` look the lock up by the path of the
  handle and may wait for it while a rename changes the path (`hlk`);
* an upload holds the lock but not the local file: `FlushUpload` and
  `FlushUploaded` / `FlushOffline` / `FlushFailed`, and the same for the service;
* `DeleteFile` reads `hadPendingOp` before it locks;
* `libfuse` inserts a handle after `OpenFile` returned (`AddHandle`);
* the service reads the flags of an entry before `updateObject` locks (`SvcPick`);
* eviction marks nodes, then takes them one by one, then locks the file
  (`EvictMark`, `EvictItem`, `deleteItem`).

A *mount* is a configuration (`offlineAccess`, `createEmptyFile`, `lazyWrite`,
`refreshSec`, upload windows) together with a workload: which names are opened,
deleted, renamed, truncated and evicted, which cloud calls may fail and how often
the connection is lost. `Init` picks one of `Mounts`, so one run covers several.

Abstractions: a cloud call that fails has no effect; a handler sees one state of
the connection and one answer of `GetAttr`; an upload reads the local file when
it starts, which is the worst case for a concurrent writer; `validateChan` is a
set; a truncation through a handle is a write; `handleCount` wraps at `CountMod`
and `dirtyCount` saturates at `MaxDirty`. Errors that leave everything as it was
(limits, permissions) are stuttering. The kernel keeps an unlinked or replaced
file that is open under a hidden name; `races` says whether that protection is
there (it is not on Windows, and it never covers a call under way).

### LruPolicy

Nodes are objects with `next` and `prev`; a node that was cut out keeps the
pointers that the code leaves in it, and an unreferenced node is garbage that a
new node may take the place of. `CacheValid` and `asyncCacheValid` share the
steps `LoadOrStore`, `Restore` and `Link`; `CachePurge` is two steps; a pass of
`clearCache` is `updateMarker`, `MarkExpired` and per node `EvictItem` and
`deleteItem`. `flock` and `item` are the lock of a file and of a node: callers
hold `flock` for the length of one call. `Restart` is an unmount and a mount:
`createSnapshot` followed by `loadSnapshot`, which inserts the nodes one by one
(`Insert`) and steps over a marker where its position says so (`SkipMarker`). Disk
usage, which decides when a pass runs, is nondeterminism.

### UploadScheduler

A cron job is `WindowStart` (the counter), `WindowOpen` (the channel), and later
`WindowEnd` and `WindowClosed`, each of which may run between any two steps of
another job: cron gives every job a goroutine of its own. A job that closes a channel
that is closed ends the process (`panicked`). `servicePendingOps` is its two selects and its `Range`,
with the channel it evaluated in `waitsOn`; `addPendingOp` is the store and then
the non-blocking send. Time is abstracted; a schedule is configured.

### SizeTracker

`journal` is the file that the mounts of a bucket share; `size`, `pendingDelta`
and `epoch` are the fields of each `MountSize`. A sync is two steps: `SyncBegin`
locks the file, reads it and adopts its size and epoch, `SyncEnd` writes it and
takes the delta off. No other process sees the file in between, and the loads of
`GetSize` see the same values as if each store were a step: they read the delta
before the size, which `GetSizeDelta` and `GetSizeBase` keep apart. `SyncFail`
is an error before or after the write. An operation is `Begin` (`GetAttr`), the
capacity check, `Do` (the next component, external), for `CommitData` a second
`GetAttr`, and `Add`. The file cache and the kernel serialise the operations on
a file of one mount (`Used`). The legacy 8-byte journal and the parsing of the
file are left out; sizes are small numbers.

A *setting* is chosen by `Init` like a mount of `FileCache`: who owns which files,
which operations are called, the capacity, whether calls fail, whether the
command runs.

### BlockCache

One file in blocks of `BlockSize` cells; every write puts a fresh number into the
cells it covers, so that stale, lost and misplaced data can be told apart. A
handler runs from one wait to the next in one step; where it waits it is a frame
on the stack of its handle. Work items are taken in any order, as several workers
do. A buffer keeps what it held when its block is reused (`ReUse`); such cells are
`LeftOver`. `got` and `view` are history: what a user is entitled to read. `leaked`,
`astray` and `shifted` are history too: blocks that the code gives back to nobody
(the null block of a read beyond the end, the block in the hand of a call whose
commit fails), blocks that a read has put on the list after its own prefetch had
reused them, and whether a block was committed with a filler though it had grown
meanwhile. Left out: calls that span blocks (they are several calls), rename,
`StatFs`, checksums, reads of gaps through a handle opened with `O_TRUNC` (the old
object is there until the commit), and deletions of an open file, which libfuse
turns into a rename.

### ObjectStore, AttrCache, Namespace

The store has objects and directory markers; a directory is there when it has a
marker or something lies below it. `AttrCache` maps a tree to the tree an update
leaves, with the detached children that re-inserting a directory leaves behind
(`attached`). In `Namespace` a call is its lookups, its requests and its update
under `cacheLock`, each a step; `Conflict` is what the kernel and the FUSE library
keep apart. A request may be lost on the way (`faults`): what the caller is told and
does then is as in the code, down to the errors that `RenameDirectory` of S3 swallows,
and the connection state changes where the operation returns. Azure may copy in the
background (`async`): the copy is begun, polled (`RenamePoll`, or a poll that is
lost) and ended by the server (`CopyEnds`), done or given up. Five histories tell what
the properties except: `torn` (a rename has failed half way), `misled` (a call was
about a name wrongly reported as missing, or the cache has denied the directory of a
missing file), `inner` (written to before the end), `renewed` (the mode was changed)
and `made` (directories that may exist in the cache only). Listings are one page,
`cacheOnList` is on, the cache is never full, sizes are small numbers.

### Directory

Two directories of a few names. `Readdir` with the handle's window (`dc`), the
kernel's offset and buffer (`rd`) and the pages of each store, with whatever
`entry_cache` or `file_cache` adds in between; `mkdir`, `rmdir` and `rename` of
`file_cache` with the pending operations they queue and the service that carries
them out. `RenameDir` is three steps (locks, cloud, local). Files are written in
one step; `attr_cache` is reduced to what it knows (`known`, `negative`); the
connection is lost between steps; there is no `seekdir` backwards. `Rmdir` is
`IsDirEmpty` with what it removes from the cache, whatever it answers, and then
`DeleteDir`. Offline it trusts the attribute cache, which may have missed files of
another client (`missed`).

### BlockOffsets, BlobStore, BlockBlob, S3Client, Stream

Contents are sequences of small numbers. A call of a back end is one step with at
most one failing request (`faults`), which has no effect; the state after it is
what the requests before it left, so `may` keeps for every byte what the object may
hold. A stage, a part, the request that ends them, or a whole put may fail. The flags
of the blocks are cleared before the last request, as in the code; `unsent` is history
and tells that it failed and nothing was sent since (`"cached"`), or that blocks
staged before are left with the service (`"left"`), which a later list may pick up.
`mount.top` says which component is mounted above the storage. Calls come
one at a time; truncation, deletion and rename only while the file is closed;
size limits and the check of free memory are left out.

### Preload, Xload

`Preload` is the promise: a file is absent or whole, an open file stays as it was.
`Xload` is the pipeline of lister, splitter and data manager with their queues and
the block pool, users who open files that are not loaded, failing requests and the
end of the mount. Directories are listed one entry at a time; the configuration
gives the reserved blocks directly; objects that change keep their size and are
told apart by their checksum, which the mounts with several versions have and check
(`validate-md5` is off by default, and an object without a checksum passes: then
blocks of two versions may meet in one file); calls have ended before `Stop`.

### StatsExport

A message has a number, a counter is the set of the updates added up in it. A
record keeps the profiler's last value apart from its messages, like the fields
`Cpu` and `Mem` of `Output`. `Places` says where a message is: its holder, and the
position of the message there, so that a message held twice by one holder counts as
two places. The look at a full channel, the receive that makes room and the send are three steps,
as in the code. A channel holds 1 message, the exporter keeps 2 timestamps, a file
is full with 2 records and 3 files are kept; the code has 10000, 3, 10 MB and 10.
The exporter is closed when all is quiet, though `Destroy` waits only a while; writes
and renames of the output files succeed (the code logs an error and drops the
record); the mount ends in order, and one profiler stands for all.

## 3. Runs

| run | instance | result |
|---|---|---|
| `FileCache_safety` | 2 files, 2 handles, 3 versions, 7 mounts | holds |
| `FileCache_drains` | 1 file, 1 handle, windows, deletions and a loss of connection; fairness | holds |
| `LruPolicy_list` | 2 names, 3 nodes, all threads, restarts | holds |
| `UploadScheduler_windows` | 2 jobs, 1 operation, 3 channels, 1 loss; fairness | holds |
| `SizeTracker_journal` | 2 mounts, 2 files, 3 operations, 1 failed sync, 5 settings; fairness | holds |
| `BlockCache_blocks` | 2 handles, a pool of 2 or 3 blocks of 2 cells, 16 mounts | holds |
| `Namespace_names` | 2 threads, 2 directories of 2 files and a directory each, 24 mounts | holds |
| `Directory_entries` | 2 directories, 4 names, 2 handles, 10 mounts | holds |
| `Stream_contents` | 1 file of up to 6 bytes, 2 handles, 19 mounts on both services | holds |
| `Xload_preload` | 3 files of 2, 1 and 0 blocks, up to 2 splitters, workers and users, 8 mounts; fairness | holds |
| `StatsExport_files` | 1 component, 2 threads, channels of 1, 4 workloads | holds |
| `LruPolicy_deadlock` | `IsCached` under the file's lock; fairness | `EvictionEnds` violated |

What they check, beside the types:

* `FileCache_safety`: the counters are exact (`HandleCountExact`,
  `DirtyCountExact`), what is not in the cloud is protected from eviction
  (`UnsyncedProtected`), no change is lost (`DataSurvives`), hidden
  (`ReadsLatest`), left behind (`QuiescentSynced`) or overwritten by an older one
  (`CloudNeverRegresses`). `FileCache_drains`: queued operations end
  (`PendingDrains`), none deletes a file that was made again
  (`NoUnaskedDeletion`).
* `LruPolicy_list`: `ListIntact`, `CachedListed`, `SnapshotRestores`.
* `UploadScheduler_windows`: `WindowsAgree`; `PanicsOvertaking` (the process ends only
  when a window starts while another job is between its two last steps, which is
  reached); `OpsDrain` and `StopEnds`, unless the process has ended so.
* `SizeTracker_journal`: `Accounted`, `LimitKept`, `ToolRepairs`, `CatchesUp`.
* `BlockCache_blocks`: `ReadsLatest`; `FlushedCommitted` (a handle that is clean
  and current agrees with the object); `BlocksKept` (a block is in one place);
  `WaitsServed` (nobody waits on a channel that nobody serves or that is closed
  twice). Three things the code gets wrong are in the model, are reached by the run,
  and are named by the properties as their only exceptions: a read that goes on with a
  block which the prefetch it started (`block_cache.go:915`) has reused (`astray`; mount
  `Nested`), which may also end the process; cells that nobody wrote and that hold what
  the buffer held before, since `ReUse` does not clear it and a short download leaves
  the rest of it (`LeftOver`; mount `Growing`); and what is committed after a block has
  grown between `lineupUpload` and `upload` (`shifted`).
* `Namespace_names`: `OwnChangesSeen` and `ListingsTrue` (the cache answers what
  this client has done), `TimeoutHonoured` (with other clients, not longer than a
  timeout ago), `RenameKeeps` (a rename removes an object only when its copy is
  there, whatever requests fail). Time passes, writes end within files, modes change,
  renames fail half way and copies run in the background; what the cache answers
  wrongly then is named in `Alone`, `Fleeting`, `inner` and `renewed`, and `RenameKeeps`
  excepts a copy that did not end as done.
* `Directory_entries`: `ListedOnce`; `DirectoryKept` (no file outside a directory, no
  directory lost, whichever was made, filled, renamed or refused offline);
  `CloudSettled`.
* `Stream_contents`: `StoredAsAsked`, `ReadsOwn`; `FlushedStored` (a flush that reports
  success has stored everything, also after flushes that failed before their last
  request; after one that failed there, see the counterexamples).
* `Xload_preload`: `FilesWhole` is the refinement `Xload => Preload!Spec`, with
  `data` the file under its name unless a splitter is at it, and `handle` what an
  open file reads; `OpensEnd` and `Preloaded` are liveness.
* `StatsExport_files`: `EventsKept`, `OutputWhole`.

Bounds. Every property of `FileCache` is about one name or about a pair of names
(rename), and two handles on a name are what it takes for one to disturb the
other. Three versions are the object, a change and a change of it. `CountMod` 8
lets an underflow show without being reached by counting up. Two losses put a
loss before and after a write-back. For the list, two nodes of one name (an old
object that a thread still holds and its replacement) and one of another give all
neighbour relations between node, marker and end. Two overlapping windows are
enough for every value of "first" and "last", three channels for the one that is
waited on, the current and the next. Two mounts are enough for a lost update of
the journal, three operations for one before, in and after a sync, and the
command makes its own three attempts. A pool of two or three blocks for a file of two
or three makes every prefetch and write evict something, and two blocks of two cells
tell first, last, whole and partial blocks apart. Pools of 4 blocks, files of 5 and
windows of 1 to 4, explored in part (7.6 million states), show no case beyond the three
exceptions. Names have one level more than a
directory that is renamed; two threads are what it takes to outdate an answer.
Four names in pages of two or three put a page's end before, at and after each
kind of entry. A file of six bytes in blocks of two is read, overwritten, extended
and cut within, at and across blocks, below and above the limit under which
objects are written in one piece. One block for a splitter and two users is the
pool at its limit. Channels, pipe and files that are full after one or two
messages are full at every point of the protocol.

The settings of `SizeTracker_journal` are: `Sharing` (two mounts, a file each),
`Renaming` (one mount, all operations), `Limited` (a hard limit), `Failing` (a wrong
journal, failing attributes and syncs) and `Repairing` (the command at work).

The mounts of `FileCache_safety` are: `Online` (evictions, refreshes,
truncations, failing calls), `SameFile` (two handles on a file), `Scheduled`
(upload windows, objects made by create), `Offline` and `OfflineBlocked` (two
losses, with and without offline access, uploads on close), `Renaming` (a file of the
cloud onto a name that is not opened, uploads in windows) and `Saving` (a new file is
written and renamed over one that may be cached).

The mounts of the other runs are listed with what they vary in the MC modules.

Deadlock is checked in `FileCache_drains`. In the other passing runs the system
may stop: the versions, changes or messages are used up, a handle is stuck after a
failed release, the component has stopped.

### Counterexamples

* `LruPolicy_deadlock`: lock order node, file in `deleteExpiredNodes` and file,
  node in `IsCached`.

Seven more have a configuration of their own beside the runs (`tlc -config X.cfg`
with the MC module of the component) and end with a counterexample; each checks one
statement that the code makes of itself, without the exception or outside the mounts
under which the passing run has it:

* `UploadScheduler_collision.cfg`, `NeverPanics` ("Is this a transition from inactive?",
  `async.go:117`): the job that ends the last window has decremented `activeWindows`
  and not yet replaced the channel; the next `WindowStart` takes the transition from
  zero and closes a closed channel. `PanicsOvertaking` says, and `SchedulerSafe` proves, that there is no other
  way to the panic.
* `Namespace_copies.cfg`, `CopyDone` ("Copy of the file is done so now delete the older
  file", `block_blob.go:442`): the server copies in the background and one poll fails,
  so `copyStatus` is nil and the loop ends (415-429); the source is deleted (443), and
  the copy, still pending, has lost what it was reading. A copy the server gave up
  ends the loop too.
* `Namespace_entries.cfg`, `EntriesAnswered` ("we have no entry for options.Name",
  `attr_cache.go:1137`): a file's entry is past its timeout, its directory was touched
  since and has a complete listing; `GetAttr` answers ENOENT for the file.
* `BlockCache_sparse.cfg`, `GapsFilled` ("fill the gap with zero blocks",
  `block_cache.go:2112`): `lineupUpload` notes the size of the last block (1762), a
  write beyond it makes the file longer, and `upload` stages the block with the size it
  has by then (1857). The commit takes it for short and puts a filler behind it:
  everything that follows is moved by that much.
* `Stream_retry.cfg`, `SecondFlushStores` ("try to flush again to make sure it's cleaned
  up", `read_write.go:273`): the last request of a flush fails after `StageAndCommit`
  has cleared the dirty flags (`block_blob.go:2082`, `client.go:1286`); the flush of the
  release finds nothing dirty, makes no request and succeeds.
* `Directory_undone.cfg`, `DirectoriesFound` ("record this directory to sync to cloud
  later", `file_cache.go:582`): a directory is made offline; an `rmdir` of it fails with
  ENOTEMPTY since the attribute cache cannot prove it empty, but `deleteEmptyDirs` (818)
  has removed it by then, and the operation queued for it finds nothing.
* `Directory_expired.cfg`, `FilesInDirectories` ("this directory must be empty",
  `file_cache.go:634`): offline, `IsDirEmpty` takes an expired answer for proof (854),
  and `rmdir` removes a directory into which another client has put a file.

Six more are found by the passing configurations with one line changed:

* `FileCache_safety.cfg` with `Mounts <- RaceMounts` violates `HandleCountExact`:
  `OpenFile(h, f1)` counts the handle on `f1`; before `libfuse` adds it to
  `handlemap`, `RenameFile(f1, f2)` moves the count to `f2`; the handle's path
  stays `f1`. The theorem `CountExact` shows that this is the only way: without
  renames in that gap the count is exact.
* `FileCache_safety.cfg` with `Mounts <- EvictMounts` violates `DataSurvives`: a
  file is opened and truncated; while it is open, eviction marks its node; the
  release queues the upload because no window is active; before eviction gets to
  the node the file is opened again: `IsCached` is false for a marked node, and the
  open downloads the old object over the only copy of the change. `deleteItem`
  guards against pending files, the download does not.
* `FileCache_safety.cfg` with `Mounts <- SharedEvictMounts` violates `DataSurvives`
  without a pending upload: eviction marks the node of a file that one handle has
  changed, and the first access through a lazy handle downloads the old object over
  the change. The guard against open files is in `deleteItem` only.
* `FileCache_safety.cfg` with `Mounts <- OverwriteMounts` violates `UnsyncedProtected`
  and `ReadsLatest`: a file that is not cached is renamed over one that is. The cloud
  renames; `renameLocalFile` finds no source to move and leaves the destination in the
  cache, although `RenameFile` is there to "Invalidate the file in local cache"
  (`file_cache.go:2245`), and the next open reads what the file held before.
* `Directory_entries.cfg` with `Mounts <- LaterMounts` violates `CloudSettled`:
  `combineLists` loses the tail of the longer list, so `RenameDir` does not lock the
  files of a source that sorts after its destination, and an upload under way puts
  the old name back.
* `LruPolicy_list.cfg` with `maxEviction = 1` violates `ListIntact`:
  `deleteExpiredNodes` takes only some of the nodes beyond the last marker and cuts
  the list before them; a node it has taken keeps its `next` into the rest. When
  this node is used again or removed, `extractNode` sets the `prev` of that
  neighbour to nil, though the neighbour is no longer behind it. The hypothesis of
  the theorems about the list (`RoomToEvict`) excludes just this.

Cases that the models contain and the passing instances exclude, because the code
is known not to satisfy the property there, are noted with their hazards in
`PROJECT.json`: two threads on one handle during a flush (`sharedHandles`),
`GetAttr` errors on open (`"attr"`), truncation and deletion while offline;
for the size tracker syncs that fail after their write (the delta is counted
again), shrinking files under a hard limit, and the command on an empty bucket
(`newSize` starts as zero, so its loop is never entered). In the other parts:

* block cache: a release whose flush fails keeps the handle's blocks
  (`block_cache.go:624`); a download that cannot open the disk cache never makes
  its block ready (1233); an open for writing only, without `O_TRUNC`, does not see
  the old data; a truncation does not reach open handles; the disk cache is not
  keyed by the ETag; rename and delete remove the cached blocks of every name that
  begins like theirs.
* names: re-inserting a directory detaches its children (`attr_cache.go:752`);
  tombstones below the destination survive a rename of a directory; a `getattr` of
  a directory beside the removal of its last file stores an old answer; after a rename
  of S3 that lost requests the cache has moved entries of objects that stayed behind
  (`torn`), as `RenameDirectory` swallows the errors of single objects
  (`client.go:541-570`) and returns success. `OwnChangesSeen`, `ListingsTrue` and
  `TimeoutHonoured` leave out what is reached in the run but known to be wrong: a file
  that is denied because of its directory (`EntriesAnswered`), and what a create or
  rename then does; a directory that the clean-up of the cache has forgotten and that a
  missing file below it then denies (`misled`); a directory that only the cache has, past
  its timeout (`Fleeting`); the size of a file after a write before its end, which
  becomes the end of the write (`attr_cache.go:955`; `inner`); and an entry that a
  `chmod` has made new without asking the cloud (`cacheMap.go:293`; `renewed`). Where
  names are renamed they are stated for the time before the first timeout only: a
  tombstone below the new name may outlive the rename.
* directories: a deletion queued for the destination outlives a rename onto it and
  removes what was renamed; renaming a directory of uploaded files offline queues
  nothing; an `rmdir` refused offline takes the cached directory from the operation
  that is queued for it, which then does nothing, or deletes in the cloud a directory
  that was made again meanwhile; the creation of a directory that the cloud has is
  retried for ever; an empty last page lists cached names twice.
* contents: with S3, `stream` fills a block that cannot be read with zeros;
  `TruncateFileUsingBlocks` with a block size commits no blocks for a blob in one
  piece; a block whose flag a failed flush has cleared is clean for the eviction of
  `stream` too, so its data would be dropped and the store read instead: in the mounts
  whose commits fail the buffers hold all blocks; what such a flush has staged on Azure
  comes back with the next list; `CommitBlocks` of S3 completes a truncated object
  when a part cannot be read; renaming an open file leaves its handle at the old
  path.
* preload: a goroutine of `mkdir` that sends after `Stop` closed the channel
  panics; a listing with an old size rewrites a file that is open.
* statistics: with no monitor reading, two pushes at a full channel can leave a
  file operation waiting for ever; an unmount waits for a dumper that waits for a
  monitor; an update in the second of the last poll is not sent; `Destroy` of the
  exporter closes a channel that others may still send to.

### Fairness

`FileCache`: the service runs, an upload ends, a lost connection comes back and
windows keep opening; Go's mutexes go over to their waiters after a millisecond,
so a thread that asks for a lock again and again gets it (strong fairness). A
failing cloud is not assumed to recover by itself: `SvcUploaded` is strongly fair
because the service retries for ever. Handlers are not fair: users need not
close files. `UploadScheduler`: goroutines run; windows keep coming and now and
then one is long enough for the service to begin a pass in it; an operation that
is retried for ever succeeds at last; a `select` with several ready channels
takes each now and then (Go chooses at random). `LruPolicy`: threads run and
locks are handed over. `SizeTracker`: the ticker of every mount fires, a process
that asks for the file lock again and again gets it, and a call that has begun
returns; nobody has to stop or to call anything. `Xload`: goroutines run, a
worker takes what is in its queue, and a thread that asks for a file's lock gets it
at last (strong fairness of `Lock`: `sync.Mutex` hands over to its waiters); users
need not open or close anything, and nothing has to fail or to stop.

## 4. Theorems

`FileCacheProofs` proves, for every set of files, every finite set of handles and
every set of mounts, from `ConstantsAssumption` only:

* `TypeCorrect`: `Spec => []TypeOK`. `TypeOK` alone is not inductive: an upload
  writes to `cloud[upload[h].name]` and a flush looks at `local[hpath[h]]`, which
  must be files. `HandlesLinked` adds that a handle in use has a path, that a call
  has looked a lock up, and that an upload has a name.
* `CountExact`: `Spec => []HandleCountExact` for mounts without renames during
  calls (`NoRenameRaces`). The invariant adds `CallLocks`: the lock that a call
  has looked up is still the one of the handle's path; without it a release
  would count down the wrong name. Each action either leaves the set `OpenOn(f)`
  alone, adds a handle, removes one, or moves all handles of a name to an empty
  one; lemmas about cardinalities settle the four cases, and there are too few
  handles to reach the modulus.

`FileCacheDataProofs` proves what the cache does with contents, for every set of
files and every finite set of handles:

* `DirtyExact`: `Spec => []DirtyCountExact`, when the bound `MaxDirty` has room for
  every handle (`DirtyFits`; the counter of the code has no bound).
* `UnsyncedKept`, `DataKept`, `LatestRead`, `ClosedSynced`: `Spec =>
  []UnsyncedProtected`, `[]DataSurvives`, `[]ReadsLatest`, `[]QuiescentSynced`; and
  `NoRegression`: `Spec => CloudNeverRegresses`; for all calm mounts (`Calm`): every configuration and
  workload but these, each of which TLC refutes on one file:
  * evictions or refreshes where uploads may wait in `pendingOps` (upload windows or
    connection losses), and evictions of a file that two handles may open: a
    download replaces the only copy of a change (`DataSurvives`, `ReadsLatest`,
    `QuiescentSynced`);
  * deletion or truncation by path where the connection may be lost
    (`ReadsLatest`, `QuiescentSynced`, and `DataSurvives` for truncation): a later
    open takes the object that is not deleted or cut yet;
  * `GetAttr` errors of the cloud (`UnsyncedProtected`, `ReadsLatest`,
    `CloudNeverRegresses`, `QuiescentSynced`): the open makes an empty file;
  * two threads on one handle (`UnsyncedProtected`, `QuiescentSynced`): the flush
    clears the dirty flag that a write has set during the upload;
  * renames (`CalmRenames`) of a file that was in the cloud before the mount and may
    not be cached (`UnsyncedProtected`, see `OverwriteMounts`), of a file with a call
    under way (`HandleCountExact`), where the connection may be lost or a refresh may
    fail (`ReadsLatest`), and of or onto names that may be evicted
    (`UnsyncedProtected`; onto such a name TLC needs two handles for
    `DataSurvives`). A rename of a name to itself is left out to keep the proof short.
  Six of the seven mounts of `FileCache_safety` are calm; in `Renaming` the source may
  be an object from before the mount.

  The inductive invariant is `KeptInv`. Its heart, `DataInv`, relates the copies of
  a file to who will write them back: a file that differs from its object has a
  pending entry or a dirty handle with a descriptor on it (`Synced`); the latest
  contents are in the cache, and in the cloud if the cache has none (`Current`); an
  upload holds the lock of the file it uploads and sends what the file holds,
  unless another handle has written to it since, and it never sends older contents
  over the latest (`UploadsOwned`, `Fresh`). `HandlesBound` and `OpenHere` tie
  descriptors to the file in the cache directory. `Settled` says why the service
  deletes nothing and why a download never meets a queued upload: where uploads wait,
  a file outside the cache has neither an entry with an object nor an open handle
  that could make one. It also says that a file that may be renamed is in the cache
  or nowhere (`Movable`), so a rename moves contents, descriptors and pending entry
  together, onto a name that nobody has open (`RenameFacts`, `RenameFileData`). A
  handler that holds the flock changes one file and leaves the invariant of all others
  alone (`FileStep`), so each action is proved for its own file; `CountExact` is used
  for `deleteItem`, whose guard is the count, and for the refresh, which asks it too.

* `DeletionsAsked`: `Spec => NoUnaskedDeletion`, an action property, for mounts in which
  the service does delete: connection losses, upload windows, deletions, files made
  again, any number of handles. Excluded (`Queueing`) are renames, and two things that
  TLC refutes on one file: a truncation by path after the deletion of the file was
  queued; and, where files may be evicted or refreshed, downloads that fail: the copy
  that the download was to replace is gone, and the upload queued for it finds no file
  and deletes the object. The invariant
  `QueueInv` says that a file with a queued operation, or with a handle that has seen its
  contents, is in the cache unless its users have removed it (`Held`, `Touched`), that
  an open handle and its descriptor are bound to its name (`Follows`) and an upload sends
  a file of the cache (`Sends`); so where the service finds no file, there is none.

`UploadSchedulerProofs` proves, for every finite set of jobs and at least three channel
objects, however windows overlap:

* `SchedulerSafe`: `Spec => []PanicsOvertaking`; `UploadsFollowWindows`: `Spec =>
  []WindowsAgree`. The invariant `SchedulerInv` adds to the types that
  `activeWindows` is the number of the jobs that have counted themselves
  (`WindowsCounted`), and who may be between counting a window and switching the channel
  (`OneSwitches`): one job that closes the channel, one that replaces it, or both, the
  second having overtaken the first; in the last case alone a channel may be closed twice.

`SizeTrackerProofs` begins with the facts about `SumFunction` that the journal needs. The
library's induction theorems have an operator as a parameter; induction goes here by
the smallest counterexample, since a set of finite sets, or of naturals, has a
smallest member (`SmallestSet`, `SmallestNumber`). It proves, for every finite set of
mounts, threads and files:

* `NoByteLost`: `Spec => []Accounted`. The inductive invariant exhibits three
  ledgers (`Ledgers`): the share of each file in the journal's size, the size of it
  that some mount has accounted for, and what that was when a sync read the mount's
  delta. The deltas are the differences of the ledgers, summed over the files of a
  mount, and a call under way owes the rest (`Balanced`). `CallsExact` says what a
  call has read and is about to add, `EpochsAgree` that without the command no
  sync discards a delta.
* `CapacityKept`: `LimitKept` under the condition `Within` of that property's
  specification: what `GetSize` adds up is never less than the bucket (`Grows`), so a
  call that was let through has room for what it writes (`Room`).
* `CommandRepairs`: `ToolRepairs`. No mount is ahead of the journal's epoch
  (`EpochsBounded`), so that the one the command writes makes every mount adopt
  what the command has listed (`Listed`, `Confirmed`).

`XloadProofs` proves, for any number of blocks, workers, users and files
(`XloadAssumption`), that `Xload` implements the safety half of `Preload`:

* `ImplementsPreload`: `Spec => FilesWhole`, the refinement step by step: the end of a
  download, an open, a close and the removal of the cache by `Stop` map to `Get`,
  `Open`, `Close` and `Unmount`, every other step to a stutter. It rests on
  `PreloadSafe` (`Spec => []XloadInv`): whoever works on a file holds its lock
  (`Locked`), each block of it is in exactly one place, the queue, a worker, an
  answer, or written to the file (`Queues`, `Once`, `Genuine`, `Written`), the
  count of blocks received is the number written (`Progress`), so that the file is
  whole when the count is reached (`Whole`, `Opened`).

`StatsExportProofs` proves, for any components, threads and messages, channels of
any capacity and files of any size and number (`BoundsAssumption`,
`MountsAssumption`):

* `ExportedWhole`: `Spec => []OutputWhole`. Positions in a file are told apart by
  their parity: `Begun` says that a file still written to has records at the even
  places and commas behind them, and a record is never mistaken for a mark because
  its timestamp is positive. Without the last conjunct of `FilesInv` a monitor that
  ends with nothing in memory could leave a file without its bracket: the code
  writes the bracket behind the last record of the list, and the list, once it
  has a record, is never empty again.
* `MessagesKept`: `Spec => []EventsKept`. The invariant counts: `Total(id)` adds up the
  sizes of the nine kinds of holders, and `Kept(id)` says that it is 1, or 0 when the
  message is lost, for every number (those not made yet have 0). Each action takes a
  message out of one holder and puts it into another, or into `lost`; the union of
  the places has as many members as the sum says (`PlacesSize`), because the places
  of different holders are different. `TimesInv` says that the exporter's list
  has each timestamp once, so that a value that replaces another in its record is
  the only one.

`LruPolicyProofs` proves, for every set of names, every finite set of node objects,
any callers and any files opened, purged, pending or asked for (`LruAssumption`),
when a pass of `clearCache` may take all nodes (`RoomToEvict`, as in
`LruPolicy_list`; with a smaller `maxEviction` `ListIntact` is false, see the
counterexample above):

* `ListKept`: `Spec => []ListIntact`; `NoneForgotten`: `Spec => []CachedListed`;
  `SnapshotExact`: `Spec => []SnapshotRestores`. Reachability along pointers is not an
  induction here: `LruInv` says that there is a sequence, `Walk`, of different cells
  from the head to the end, in which each cell's `next` is its successor (`Along`),
  with the markers in it in order (`Ordered`). What makes this inductive is
  `Linked`: `next` and `prev` mirror each other for all cells, those outside the
  list too, so the stale pointers of a node that was cut out never lead into
  the list. A section of the code is then an operation on the sequence: it cuts a
  cell out (`Cut`), puts one first (`Push`), cuts the end off (`Upto`) or moves the
  markers. `Tracked` follows a mapped node: it is on the list, or marked deleted and
  among those the pass has still to delete, or in the hand of a thread that is about
  to link it; `ThreadsHold`, `EvictorHolds` and `OwnNodes` say what the threads may
  assume between their steps, when none holds the policy's lock.
* For the snapshot, `StateAt` describes what `loadSnapshot` holds after each of its
  insertions, with the markers not reached yet behind what is inserted; `Loaded` proves
  it by the smallest counterexample, since no induction theorem can be used.

`NamespaceProofs` proves, for every set of names and threads and every mount
(`StoreAssumption`, `NamespaceAssumption`: names are sequences, and what is above a
name is a directory):

* `RenamesKeep`: `Spec => RenameKeeps`, an action property, whatever requests are lost
  and whenever the server ends a copy; it says nothing of the mounts where another
  client writes, and nothing of the deletion of a source whose copy was not found done
  (`CopyDone` is refuted there). The invariant `RenameInv` says that a rename between
  its two requests for a file has the copy, if the server has reported it done while
  the rename still asked (`Copies`, `Fate`), and that the names it moves have places
  (`RenameTyped`); this survives the other calls because a call under way never
  touches a file of a rename that is under way too (`Apart`, `Exclusive`), which is what
  the kernel's locks are modelled for. Nothing is assumed about the cache: the proof
  goes through for any answer it may give. Every step of a call is shown to be a
  `StepOf` its thread, which changes objects of its own names at most, and to
  leave the copies where they are; the proof of the one request by which Data Lake
  renames needs that different names are moved to different names (`MovedApart`).

Only model-checked: the contents of files of `FileCache` that were in the cloud before
the mount and are renamed; the properties of `BlockCache`, whose contents are joined
from blocks (induction over data); the other ones of `Namespace` and those of
`Directory`, which are true of the mounts that the runs choose and not of all that can
be written down (the cases that are left out are among the counterexamples); those of
`Stream`, where contents are computed by folds over requests (induction over data);
and all liveness, that of the preloader included (fairness and ENABLED are outside the
prover).

## 5. Plan

The theorems that were planned for the statistics (`EventsKept`) and the eviction
policy (`ListIntact`, `CachedListed`, `SnapshotRestores`) are proved; `BlocksKept`, also
planned, is open. Proved as well are `RenameKeeps` of
`Namespace` and, for `FileCache`, what becomes of contents when a file made through the
mount is renamed. Next would be renames of files that were in the cloud before, onto
names that are never cached. `FlushedCommitted` of `BlockCache` joins the blocks of a
file into its contents, which is induction over data, and stays with TLC.

To be modelled: chmod and chown with `missedChmodList`, `StatFs` of the size tracker
with its eviction mode, a restart of `FileCache` from its snapshot.

### Not modelled

`loopback` and `custom` (one system call per operation, or a plugin), the pipeline
(built once, in order), configuration, authentication, credentials and logging
(parsing and I/O), the command line and its configuration screens, the Windows
service, the statistics of `xload`, and the health monitor's network profiler and
directory monitor (they feed the exporter like the profiler that is modelled).
