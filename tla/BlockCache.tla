----------------------------- MODULE BlockCache -----------------------------
(***************************************************************************)
(* The block_cache component (component/block_cache): a file is read and   *)
(* written in blocks of BlockSize cells that come from a bounded pool.     *)
(* The handler of a call holds the lock of its handle; the workers of the  *)
(* thread pool download blocks from the cloud and stage them there, and    *)
(* tell the handler so through the channel of the block.                   *)
(*                                                                         *)
(* The contents of a file are cells: 0 is a zero byte and every write puts *)
(* a fresh number into the cells it covers, so that stale, lost and        *)
(* misplaced data can be told apart.  A call covers cells of one block;    *)
(* the loops of ReadInBuffer and WriteFile are several calls.              *)
(*                                                                         *)
(* A handler runs from one wait to the next in one step.  Where it waits,  *)
(* for a block of the pool or for the channel of a block, it is a frame on *)
(* the stack of its handle, which also holds the calls it is nested in: a  *)
(* read may prefetch, which may commit, which may restage a block.         *)
(***************************************************************************)
EXTENDS Integers, Sequences, FiniteSets, SequencesExt, FiniteSetsExt

CONSTANTS
    Handles,        \* handles of the one file considered
    PoolSize,       \* bound on the blocks of the pool, without the zero block
    HighPriority,   \* blocks that priorityCh holds
    BlockSize,      \* cells of a block
    MaxBlocks,      \* bound on the blocks of the file
    MaxEtag,        \* bound on the etags in use at a time
    MIN_PREFETCH, MIN_RANDREAD, MIN_WRITE_BLOCK, MAX_FAIL_CNT,
    Mounts          \* the configurations and workloads considered

Blocks == 1 .. PoolSize
Indices == 0 .. MaxBlocks - 1
None == 0                    \* no block, no etag
NoData == <<>>
LeftOver == -1               \* a cell that an earlier use of the buffer has left
Modes == {"rdonly", "rdwr", "wronly", "trunc"}      \* flags of an open
Calls == Modes \cup {"create", "read", "write", "flush", "sync", "truncate", "delete",
                     "evict"}

Mount == [
    blocks : 1 .. PoolSize,  \* blocks of the pool
    disk : BOOLEAN,          \* blocks are also cached in files below tmpPath
    prefetch : Nat,          \* 0: noPrefetch
    prefetchOnOpen : BOOLEAN,
    lazyWrite : BOOLEAN,
    cells : Nat,             \* size of the object when the mount starts
    users : SUBSET Handles,
    calls : SUBSET Calls,    \* what the users do
    truncOpen : BOOLEAN,     \* the file is truncated while it is open
    writes : {"append", "whole", "first", "near", "any"},    \* where users write
    versions : Nat,          \* bound on the number of writes
    random : BOOLEAN,        \* more than MIN_RANDREAD reads may miss
    fails : SUBSET {"read", "stage", "commit", "disk"},
    preempt : BOOLEAN]       \* a worker may pause between its last statements

ASSUME BlockAssumption ==
    /\ PoolSize \in Nat \ {0} /\ BlockSize \in Nat \ {0} /\ MaxBlocks \in Nat
    /\ HighPriority \in Nat /\ MaxEtag \in Nat
    /\ \A n \in {MIN_PREFETCH, MIN_RANDREAD, MIN_WRITE_BLOCK, MAX_FAIL_CNT} : n \in Nat
    /\ Mounts \subseteq Mount

VARIABLES
    m,        \* the mount at hand, fixed by Init
    exists,   \* the object is there
    cloud,    \* its committed blocks: sequence of [id, data]
    etag,     \* its ETag
    staged,   \* blocks staged and not committed: set of [id, data]
    disk,     \* the disk cache: index -> data or NoData
    blk,      \* each Block: id, flags, state (its channel), data
    pool,     \* BlockPool: blocksCh, priorityCh, resetBlockCh
    items,    \* work items, queued or at a worker
    hd,       \* each handle: what block_cache keeps in it
    stack,    \* the calls a handle is in, the innermost first
    view,     \* history: the file as the user of a handle is to see it
    got,      \* history: the last read returned what was to be seen
    version,  \* the last version written
    astray,   \* history: blocks a read has put on the list though they were reused
    shifted,  \* history: a block was committed with a filler though it had grown
    leaked,   \* history: blocks taken that no list holds and nobody gives back
    panicked  \* blocks whose channel was closed twice, or used after it was closed

object == <<exists, cloud, etag, staged>>
history == <<view, got, version>>
vars == <<m, leaked, astray, shifted, object, disk, blk, pool, items, hd, stack, history, panicked>>

-----------------------------------------------------------------------------
(* Data                                                                    *)

\* The bytes of the object.
Contents == FlattenSeq([i \in DOMAIN cloud |-> cloud[i].data])
Zeros(n) == [i \in 1 .. n |-> 0]
\* The cells of block i in a file.
Part(s, i) == SubSeq(s, i * BlockSize + 1, Min({Len(s), (i + 1) * BlockSize}))
\* Data copied to the front of a buffer.  The rest of it stays, as ReUse clears no
\* buffer: what it is left over from an earlier use.
Over(old, d) == [k \in 1 .. BlockSize |-> IF k <= Len(d) THEN d[k]
                                          ELSE IF old[k] = 0 THEN 0 ELSE LeftOver]
\* The file s with version v in cells lo .. hi of block i.
Written(s, i, lo, hi, v) ==
    LET from == i * BlockSize + lo
        to == i * BlockSize + hi
    IN [k \in 1 .. Max({Len(s), to}) |->
          IF k \in from .. to THEN v ELSE IF k <= Len(s) THEN s[k] ELSE 0]
\* A file split into blocks that the cloud knows by the given ids.
Split(s) == [k \in 1 .. (Len(s) + BlockSize - 1) \div BlockSize |->
               [id |-> k, data |-> Part(s, k - 1)]]

NoFrame == [pc |-> "idle", idx |-> 0, lo |-> 0, hi |-> 0, b |-> None, n |-> 0,
            pre |-> FALSE, todo |-> <<>>, again |-> FALSE]
Frame(pc, i) == [NoFrame EXCEPT !.pc = pc, !.idx = i]
NoInfo == [id |-> 0, size |-> 0, committed |-> FALSE]
NoHandle == [open |-> "no", size |-> 0, dirty |-> FALSE, map |-> [i \in Indices |-> None],
             cooked |-> <<>>, cooking |-> <<>>, list |-> [i \in Indices |-> NoInfo],
             next |-> 0, optCnt |-> 0, etag |-> None]

\* The blocks on the two lists of a handle.
Held(h) == ToSet(hd[h].cooked) \cup ToSet(hd[h].cooking)
Free == pool.blocksCh \cup pool.priorityCh
\* A block id, an ETag nobody knows.
FreshIds(n) ==
    LET used == {cloud[k].id : k \in DOMAIN cloud} \cup {s.id : s \in staged}
                \cup {hd[h].list[i].id : h \in Handles, i \in Indices}
                \cup {it.id : it \in items}
        limit == Cardinality(used) + n
    IN SubSeq(SetToSortSeq((1 .. limit) \ used, <), 1, n)
FreshEtag == Min((1 .. MaxEtag) \ ({etag} \cup {hd[h].etag : h \in Handles}
                                   \cup {it.etag : it \in items}))

Init ==
    /\ m \in Mounts
    /\ exists = (m.cells > 0)
    /\ cloud = Split([k \in 1 .. m.cells |-> k]) /\ etag = 1 /\ staged = {}
    /\ disk = [i \in Indices |-> NoData]
    /\ blk = [b \in Blocks |-> [id |-> -1, flags |-> {}, state |-> "empty",
                                data |-> Zeros(BlockSize)]]
    /\ pool = [priorityCh |-> 1 .. HighPriority, blocksCh |-> (HighPriority + 1) .. m.blocks,
               resetBlockCh |-> {}]
    /\ items = {} /\ hd = [h \in Handles |-> NoHandle]
    /\ stack = [h \in Handles |-> <<>>] /\ view = [h \in Handles |-> <<>>]
    /\ got = [h \in Handles |-> TRUE]
    /\ version = m.cells /\ leaked = {} /\ astray = {} /\ shifted = FALSE /\ panicked = {}

-----------------------------------------------------------------------------
(* BlockPool, Block and the lists of a handle                              *)

\* The block MustGet, TryGet take; which one is immaterial.
Next1(S) == Min(S)

\* The first k blocks of a set.
FirstOf(S, k) == SubSeq(SetToSortSeq(S, <), 1, k)

ReUse(B) == [B EXCEPT !.id = -1, !.flags = {}, !.state = "empty"]

\* Ready: a non-blocking send; a receiver of a closed channel does not wait.
Ready(B, val) == [B EXCEPT !.state = IF @ = "empty" THEN val ELSE @]

\* A receive from the channel returns, with a value or because it is closed.
Arrived(b) == blk[b].state # "empty"

\* The value is taken and the channel closed, unless it was closed already.
Unblock(B) == [B EXCEPT !.state = "closed"]

addToCooked(H, b) == [H EXCEPT !.cooked = Append(Remove(@, b), b), !.cooking = Remove(@, b)]
addToCooking(H, b) == [H EXCEPT !.cooking = Append(Remove(@, b), b), !.cooked = Remove(@, b)]

\* Mutant: a block that cooks stays on its list.
DroppedKeepsCooking(H, S) ==
    [H EXCEPT !.cooked = SelectSeq(@, LAMBDA b : b \notin S),
              !.map = [i \in Indices |-> IF @[i] \in S THEN None ELSE @[i]]]

\* Neither on a list nor in the map of the handle.
Dropped(H, S) ==
    [H EXCEPT !.cooked = SelectSeq(@, LAMBDA b : b \notin S),
              !.cooking = SelectSeq(@, LAMBDA b : b \notin S),
              !.map = [i \in Indices |-> IF @[i] \in S THEN None ELSE @[i]]]

\* Release(b) for the blocks of S: they go to the thread that resets them.
Released(S) == [pool EXCEPT !.resetBlockCh = @ \cup S]
Reused(B, S) == [b \in Blocks |-> IF b \in S THEN ReUse(B[b]) ELSE B[b]]
Taken(S) == [pool EXCEPT !.blocksCh = @ \ S, !.priorityCh = @ \ S]

\* resetBlock: a released block is zeroed and is free again.
ResetBlock(b) ==
    /\ b \in pool.resetBlockCh
    /\ blk' = [blk EXCEPT ![b].data = Zeros(BlockSize)]
    /\ pool' = LET q == [pool EXCEPT !.resetBlockCh = @ \ {b}]
               IN IF Cardinality(q.priorityCh) < HighPriority
                  THEN [q EXCEPT !.priorityCh = @ \cup {b}]
                  ELSE [q EXCEPT !.blocksCh = @ \cup {b}]
    /\ UNCHANGED <<m, leaked, astray, shifted, object, disk, items, hd, stack, history, panicked>>

NoItem == [h |-> "none", b |-> None, idx |-> 0, upload |-> FALSE, st |-> "queued",
           id |-> 0, etag |-> None, failCnt |-> 0]

\* The work item of lineupDownload, of lineupUpload.
DownloadItem(h, b, i) == [NoItem EXCEPT !.h = h, !.b = b, !.idx = i, !.etag = hd[h].etag]
UploadItem(h, b, i, id) == [NoItem EXCEPT !.h = h, !.b = b, !.idx = i, !.upload = TRUE,
                                          !.id = id]

\* The index a block starts at, which ReUse sets to the first.
Offset(B) == Max({0, B.id})

\* The cells of block i that lie within the file.
getBlockSize(H, i) == Min({BlockSize, H.size - i * BlockSize})

-----------------------------------------------------------------------------
(* The stack of a handle                                                   *)

At(h, pc) == stack[h] # <<>> /\ Head(stack[h]).pc = pc
Top(h) == Head(stack[h])
Goto(h, f) == stack' = [stack EXCEPT ![h] = <<f>> \o Tail(@)]
Call(h, f, caller) == stack' = [stack EXCEPT ![h] = <<f, caller>> \o Tail(@)]
Return(h) == stack' = [stack EXCEPT ![h] = Tail(@)]

\* The blocks that getOrCreateBlock has taken and not put on a list yet.
InHand(s) == {s[k].b : k \in {k \in DOMAIN s : s[k].pc = "download"}}

\* An error ends all calls the handle is in; only OpenFile ignores it, and getBlock
\* when it prefetches more after a download.
Unwound(s) ==
    LET catching == {k \in DOMAIN s : s[k].pc \in {"tail", "open"}}
    IN IF catching = {} THEN <<>> ELSE SubSeq(s, Min(catching), Len(s))
Fail(h) ==
    /\ stack' = [stack EXCEPT ![h] = Unwound(@)]
    /\ leaked' = leaked \cup (InHand(stack[h]) \ InHand(Unwound(stack[h])))

\* A handle whose release failed is out of reach with all it holds.
Lost(h, H) == IF Last(stack[h]).pc = "release" THEN [H EXCEPT !.open = "lost"] ELSE H

Usable(h) == h \in m.users /\ hd[h].open = "yes" /\ stack[h] = <<>>

\* The lock of the file, which open, create, delete and flush hold, the flush of a
\* release too.
FileLocked == \E h \in Handles : \E k \in DOMAIN stack[h] : stack[h][k].pc \in {"flush", "open"}

shouldCommit(H, i) == H.list[i] # NoInfo /\ ~H.list[i].committed
shouldDownload(H, i) == H.list[i] # NoInfo /\ H.list[i].committed

-----------------------------------------------------------------------------
(* Opening, closing and what does not touch blocks                         *)

\* CreateFile: an empty object in the cloud, a new handle.
CreateFile(h) ==
    /\ h \in m.users /\ hd[h].open = "no" /\ ~FileLocked /\ "create" \in m.calls /\ ~exists
    /\ exists' = TRUE /\ cloud' = <<>> /\ etag' = FreshEtag /\ staged' = {}
    /\ hd' = [hd EXCEPT ![h] = [NoHandle EXCEPT !.open = "yes"]]
    /\ view' = [view EXCEPT ![h] = <<>>]
    /\ UNCHANGED <<m, leaked, astray, shifted, disk, blk, pool, items, stack, got, version, panicked>>

\* validateBlockList: the block list of a file that may be written.
CommittedList == [i \in Indices |-> IF i < Len(cloud)
                                    THEN [id |-> cloud[i + 1].id, committed |-> TRUE,
                                          size |-> Len(cloud[i + 1].data)]
                                    ELSE NoInfo]

\* OpenFile.  A file that fits in a block is downloaded at once.
OpenFile(h, mode) ==
    LET size == IF mode = "trunc" THEN 0 ELSE Len(Contents)
        H == [NoHandle EXCEPT
                !.open = "yes", !.size = size, !.dirty = (mode = "trunc"),
                !.etag = IF mode \in {"trunc", "wronly"} THEN None ELSE etag,
                !.list = IF mode = "rdwr" THEN CommittedList ELSE @]
        valid == \A k \in DOMAIN cloud : k < Len(cloud) => Len(cloud[k].data) = BlockSize
    IN /\ h \in m.users /\ hd[h].open = "no" /\ ~FileLocked /\ mode \in m.calls /\ exists
       /\ mode = "rdwr" => valid
       /\ hd' = [hd EXCEPT ![h] = H]
       /\ stack' = [stack EXCEPT ![h] =
            CASE 0 < size /\ size < BlockSize ->
                   <<[Frame("refresh", 0) EXCEPT !.n = 1], Frame("open", 0)>>
              [] size >= BlockSize /\ m.prefetchOnOpen /\ m.prefetch > 0 ->
                   <<Frame("prefetch", 0), Frame("open", 0)>>
              [] OTHER -> <<>>]
       /\ view' = [view EXCEPT ![h] = IF mode = "trunc" THEN <<>> ELSE Contents]
       /\ UNCHANGED <<m, leaked, astray, shifted, object, disk, blk, pool, items, got, version, panicked>>

\* FlushFile, which lazyWrite leaves to the release; SyncFile.
FlushFile(h, call) ==
    /\ Usable(h) /\ call \in m.calls \cap {"flush", "sync"} /\ ~FileLocked /\ hd[h].dirty
    /\ call = "flush" => ~m.lazyWrite
    /\ stack' = [stack EXCEPT ![h] = <<Frame("commit", 0), Frame("flush", 0)>>]
    /\ UNCHANGED <<m, leaked, astray, shifted, object, disk, blk, pool, items, hd, history, panicked>>

\* FlushFile or OpenFile is left.
FlushOpenReturn(h) ==
    /\ At(h, "flush") \/ At(h, "open")
    /\ Return(h)
    /\ UNCHANGED <<m, leaked, astray, shifted, object, disk, blk, pool, items, hd, history, panicked>>

\* releaseFileInternal, with the flush of a file that is still dirty.
ReleaseFile(h) ==
    /\ Usable(h)
    /\ hd[h].dirty => ~FileLocked
    /\ stack' = [stack EXCEPT ![h] =
         IF hd[h].dirty THEN <<Frame("commit", 0), Frame("flush", 0), Frame("release", 0)>>
         ELSE <<Frame("release", 0)>>]
    /\ UNCHANGED <<m, leaked, astray, shifted, object, disk, blk, pool, items, hd, history, panicked>>

\* Downloads under way are waited for, and all blocks go back to the pool.
ReleaseBlocks(h) ==
    /\ At(h, "release") /\ \A b \in ToSet(hd[h].cooking) : Arrived(b)
    /\ blk' = Reused(blk, Held(h)) /\ pool' = Released(Held(h))
    /\ hd' = [hd EXCEPT ![h] = NoHandle]
    /\ view' = [view EXCEPT ![h] = <<>>]
    /\ got' = [got EXCEPT ![h] = TRUE]
    /\ stack' = [stack EXCEPT ![h] = <<>>]
    /\ UNCHANGED <<m, leaked, astray, shifted, object, disk, items, version, panicked>>

NobodyHas == \A h \in Handles : hd[h].open = "no"

\* DeleteFile: the object and its blocks in the disk cache.  libfuse renames a file
\* that is open instead, so that it gets here only when nobody has it.
DeleteFile ==
    /\ "delete" \in m.calls /\ ~FileLocked /\ exists /\ NobodyHas
    /\ exists' = FALSE /\ cloud' = <<>> /\ staged' = {}
    /\ disk' = [i \in Indices |-> NoData]
    /\ UNCHANGED <<m, leaked, astray, shifted, etag, blk, pool, items, hd, stack, history, panicked>>

\* TruncateFile is left to the next component: neither handles nor the disk
\* cache hear of it.
TruncateFile(n) ==
    /\ "truncate" \in m.calls /\ exists /\ (m.truncOpen \/ NobodyHas) /\ n # Len(Contents)
    /\ cloud' = Split([k \in 1 .. n |-> IF k <= Len(Contents) THEN Contents[k] ELSE 0])
    /\ etag' = FreshEtag
    /\ view' = [h \in Handles |-> IF hd[h].open = "yes"
                 THEN [k \in 1 .. n |-> IF k <= Len(view[h]) THEN view[h][k] ELSE 0]
                 ELSE view[h]]
    /\ UNCHANGED <<m, leaked, astray, shifted, exists, staged, disk, blk, pool, items, hd, stack, got, version, panicked>>

\* diskEvict: the timeout or the size of the disk cache ends the life of a block.
DiskEvict(i) ==
    /\ "evict" \in m.calls /\ disk[i] # NoData
    /\ \A it \in items : it.idx = i => it.st = "queued"
    /\ disk' = [disk EXCEPT ![i] = NoData]
    /\ UNCHANGED <<m, leaked, astray, shifted, object, blk, pool, items, hd, stack, history, panicked>>

-----------------------------------------------------------------------------
(* Reading: getBlock                                                       *)

\* ReadInBuffer of block i.
Read(h, i) ==
    /\ Usable(h) /\ "read" \in m.calls /\ i * BlockSize < hd[h].size
    /\ hd[h].map[i] = None /\ hd[h].optCnt = MIN_RANDREAD => m.random
    /\ stack' = [stack EXCEPT ![h] = <<Frame("get", i)>>]
    /\ UNCHANGED <<m, leaked, astray, shifted, object, disk, blk, pool, items, hd, history, panicked>>

\* A cell that is as its reader is to see it: what an earlier use of a buffer has
\* left is where nobody wrote.
Agrees(cell, seen) == cell = seen \/ (cell = LeftOver /\ seen = 0)
SameCells(s, seen) == Len(s) = Len(seen) /\ \A k \in DOMAIN s : Agrees(s[k], seen[k])

\* The read returns the data of block b.
Returns(h, i, b) ==
    /\ got' = [got EXCEPT ![h] = b \in astray' \/ shifted
                 \/ SameCells(SubSeq(blk[b].data, 1, getBlockSize(hd[h], i)), Part(view[h], i))]
    /\ Return(h)

\* The block is there, or is downloaded: what is asked for first is looked up,
\* an uncommitted block is committed, everything else is prefetched.
GetBlock(h) ==
    LET f == Top(h)
        H == hd[h]
        find == [f EXCEPT !.pc = "find"]
        beyond == H.list[f.idx] = NoInfo /\ f.idx * BlockSize >= Len(Contents)
    IN /\ At(h, "get")
       /\ \/ /\ H.map[f.idx] # None
             /\ Goto(h, [f EXCEPT !.pc = "await"])
          \/ /\ H.map[f.idx] = None /\ shouldCommit(H, f.idx)
             /\ Call(h, Frame("commit", 0), [f EXCEPT !.pc = "fetch"])
          \/ /\ H.map[f.idx] = None /\ ~shouldCommit(H, f.idx) /\ ~beyond
             /\ Goto(h, [f EXCEPT !.pc = "fetch"])
       /\ UNCHANGED <<m, leaked, astray, shifted, object, disk, blk, pool, items, hd, history, panicked>>

\* Nothing was ever written there: a null block of the pool is returned.
GetNullBlock(h) ==
    LET f == Top(h)
        b == Next1(Free)
    IN /\ At(h, "get") /\ hd[h].map[f.idx] = None /\ hd[h].list[f.idx] = NoInfo
       /\ f.idx * BlockSize >= Len(Contents) /\ Free # {}
       /\ blk' = [blk EXCEPT ![b] = ReUse(@)] /\ pool' = Taken({b})
       /\ leaked' = leaked \cup {b}
       /\ astray' = astray /\ Returns(h, f.idx, b)
       /\ UNCHANGED <<m, shifted, object, disk, items, hd, view, version, panicked>>

\* The first read of a handle starts the prefetch, any other one that misses
\* is a random read.
GetFetch(h) ==
    LET f == Top(h)
    IN /\ At(h, "fetch")
       /\ hd' = [hd EXCEPT ![h].optCnt =
                   IF (m.prefetch > 0 /\ hd[h].next = 0) \/ @ > MIN_RANDREAD THEN @ ELSE @ + 1]
       /\ Call(h, Frame("prefetch", f.idx), [f EXCEPT !.pc = "find"])
       /\ UNCHANGED <<m, leaked, astray, shifted, object, disk, blk, pool, items, history, panicked>>

\* The prefetch is to have queued the block.
GetFind(h) ==
    LET f == Top(h)
    IN /\ At(h, "find")
       /\ IF hd[h].map[f.idx] # None THEN Goto(h, [f EXCEPT !.pc = "await"]) /\ UNCHANGED leaked
          ELSE Fail(h)
       /\ UNCHANGED <<m, astray, shifted, object, disk, blk, pool, items, hd, history, panicked>>

\* The first reader of a downloaded block prefetches more, before it moves the
\* block to the cooked ones.
GetDownloaded(h) ==
    LET f == Top(h)
        H == hd[h]
        b == H.map[f.idx]
        tail == [f EXCEPT !.pc = "tail", !.b = b]
        more == m.prefetch > 0 /\ H.optCnt <= MIN_RANDREAD /\ H.next * BlockSize < H.size
    IN /\ At(h, "await") /\ blk[b].state = "downloaded"
       /\ blk' = [blk EXCEPT ![b] = [Unblock(@) EXCEPT !.flags = @ \ {"downloading"}]]
       /\ IF more THEN Call(h, [Frame("prefetch", H.next) EXCEPT !.pre = TRUE], tail)
          ELSE Goto(h, tail)
       /\ UNCHANGED <<m, leaked, astray, shifted, object, disk, pool, items, hd, history, panicked>>

\* The read goes on with the block that it had before the prefetch, which may have
\* staged it or reused it: then the offset is taken from a block elsewhere, and the
\* slice is empty, and the read is repeated, or out of range, which is a panic.
GetTail(h) ==
    LET f == Top(h)
        at == Offset(blk[f.b])
        moved == blk[f.b].id # f.idx \/ blk[f.b].state # "closed"
    IN /\ At(h, "tail")
       /\ hd' = [hd EXCEPT ![h] = addToCooked(@, f.b)]
       /\ blk' = [blk EXCEPT ![f.b].flags = @ \cup {"synced"}]
       /\ astray' = astray \cup {b \in {f.b} : moved}
       /\ panicked' = panicked \cup {b \in {f.b} : at \notin {f.idx, f.idx - 1}}
       /\ IF at = f.idx - 1 THEN Goto(h, Frame("get", f.idx)) /\ UNCHANGED got
          ELSE Returns(h, f.idx, f.b)
       /\ UNCHANGED <<m, leaked, shifted, object, disk, pool, items, view, version>>

\* The block is open to all readers, or was staged, or could not be staged.
GetReady(h) ==
    LET f == Top(h)
        b == hd[h].map[f.idx]
    IN /\ At(h, "await") /\ blk[b].state \in {"closed", "uploaded", "uploadFailed"}
       /\ blk' = IF blk[b].state = "closed" THEN blk
                 ELSE [blk EXCEPT ![b] = [Unblock(@) EXCEPT !.flags = @ \ {"uploading"}]]
       /\ hd' = IF blk[b].state = "uploadFailed" THEN [hd EXCEPT ![h] = addToCooking(@, b)] ELSE hd
       /\ astray' = astray /\ Returns(h, f.idx, b)
       /\ UNCHANGED <<m, leaked, shifted, object, disk, pool, items, view, version, panicked>>

\* releaseDownloadFailedBlock: the block goes back, the call fails.
DownloadFailed(h, b) ==
    /\ hd' = [hd EXCEPT ![h] = Lost(h, Dropped(@, {b}))]
    /\ blk' = Reused(blk, {b}) /\ pool' = Released({b})
    /\ Fail(h)

GetFailed(h) ==
    /\ At(h, "await") /\ blk[hd[h].map[Top(h).idx]].state = "downloadFailed"
    /\ DownloadFailed(h, hd[h].map[Top(h).idx])
    /\ UNCHANGED <<m, astray, shifted, object, disk, items, history, panicked>>

-----------------------------------------------------------------------------
(* Prefetching: startPrefetch and refreshBlock                             *)

\* A handle that is read at random gives the blocks back that it has beyond
\* MIN_PREFETCH: what has arrived is moved to the cooked blocks, and the first
\* of these are released.
PrefetchRandom(h) ==
    LET f == Top(h)
        H == hd[h]
        arrived == {b \in ToSet(H.cooking) : blk[b].state \notin {"empty", "closed"}}
        cooked == H.cooked \o SelectSeq(H.cooking, LAMBDA b : b \in arrived)
        excess == IF Len(H.cooked) + Len(H.cooking) > MIN_PREFETCH
                  THEN {cooked[k] : k \in 1 .. Max({0, Len(cooked) - MIN_PREFETCH})} ELSE {}
        moved == IF Len(H.cooked) + Len(H.cooking) > MIN_PREFETCH THEN arrived ELSE {}
    IN /\ At(h, "prefetch") /\ H.optCnt > MIN_RANDREAD
       /\ hd' = [hd EXCEPT ![h] = Dropped(
                   IF moved = {} THEN H
                   ELSE [H EXCEPT !.cooked = cooked,
                           !.cooking = SelectSeq(@, LAMBDA b : b \notin arrived)], excess)]
       /\ blk' = Reused([b \in Blocks |-> IF b \in moved
                           THEN [Unblock(blk[b]) EXCEPT !.flags = @ \ {"downloading"}]
                           ELSE blk[b]], excess)
       /\ pool' = Released(excess)
       /\ Goto(h, [f EXCEPT !.pc = "next", !.n = 1])
       /\ UNCHANGED <<m, leaked, astray, shifted, object, disk, items, history, panicked>>

\* A handle that is read sequentially takes new blocks up to the limit; with
\* none to take, the window slides by one.
PrefetchSequential(h) ==
    LET f == Top(h)
        H == hd[h]
        room == Max({0, m.prefetch - Len(H.cooked) - Len(H.cooking)})
        cnt == Min({room, MIN_PREFETCH, Cardinality(pool.blocksCh)})
        new == FirstOf(pool.blocksCh, cnt)
    IN /\ At(h, "prefetch") /\ H.optCnt <= MIN_RANDREAD
       /\ blk' = Reused(blk, ToSet(new)) /\ pool' = Taken(ToSet(new))
       /\ hd' = [hd EXCEPT ![h].cooked = new \o @]
       /\ Goto(h, [f EXCEPT !.pc = "next", !.n = Max({1, cnt})])
       /\ UNCHANGED <<m, leaked, astray, shifted, object, disk, items, history, panicked>>

\* The next block of the prefetch; an uncommitted one is committed first.
PrefetchNext(h) ==
    LET f == Top(h)
        H == hd[h]
        inFile == f.idx \in Indices
    IN /\ At(h, "next")
       /\ \/ f.n = 0 /\ Return(h)
          \/ f.n > 0 /\ inFile /\ H.map[f.idx] # None
             /\ Goto(h, [f EXCEPT !.n = @ - 1, !.pre = TRUE])
          \/ /\ f.n > 0 /\ inFile /\ H.map[f.idx] = None /\ shouldCommit(H, f.idx)
             /\ Call(h, Frame("commit", 0), [f EXCEPT !.pc = "refresh"])
          \/ /\ f.n > 0 /\ (inFile => H.map[f.idx] = None /\ ~shouldCommit(H, f.idx))
             /\ Goto(h, [f EXCEPT !.pc = "refresh"])
       /\ UNCHANGED <<m, leaked, astray, shifted, object, disk, blk, pool, items, hd, history, panicked>>

\* Beyond the end of the file the prefetch ends; without a block to spare a
\* prefetched block is skipped.
RefreshNothing(h) ==
    LET f == Top(h)
    IN /\ At(h, "refresh")
       /\ \/ f.idx * BlockSize >= hd[h].size /\ Return(h)
          \/ /\ f.idx * BlockSize < hd[h].size /\ hd[h].cooked = <<>> /\ f.pre
             /\ Goto(h, [f EXCEPT !.pc = "next", !.n = @ - 1, !.idx = @ + 1])
       /\ UNCHANGED <<m, leaked, astray, shifted, object, disk, blk, pool, items, hd, history, panicked>>

\* Block b is reused for index i, at the front of the cooked blocks or new, and
\* its download is lined up.
Refresh(h, b) ==
    LET f == Top(h)
        i == f.idx
    IN /\ blk' = [blk EXCEPT ![b] = [ReUse(@) EXCEPT !.id = i, !.flags = {"downloading"}]]
       /\ hd' = [hd EXCEPT ![h] = [addToCooking(Dropped(@, {b}), b) EXCEPT
                                      !.map[i] = b, !.next = i + 1]]
       /\ items' = items \cup {DownloadItem(h, b, i)}
       /\ Goto(h, [f EXCEPT !.pc = "next", !.n = @ - 1, !.idx = @ + 1, !.pre = TRUE])

\* MustGet: a block that is needed now is waited for.
RefreshNew(h) ==
    /\ At(h, "refresh") /\ Top(h).idx * BlockSize < hd[h].size
    /\ hd[h].cooked = <<>> /\ ~Top(h).pre /\ Free # {}
    /\ pool' = Taken({Next1(Free)}) /\ Refresh(h, Next1(Free))
    /\ UNCHANGED <<m, leaked, astray, shifted, object, disk, history, panicked>>

\* Mutant: a block that is being staged is reused at once.
RefreshReadyAlways(b) == TRUE

\* A block that is being staged is waited for, whatever comes of it.
RefreshReady(b) == (blk[b].id # -1 /\ "uploading" \in blk[b].flags) => Arrived(b)

RefreshUsed(h) ==
    /\ At(h, "refresh") /\ Top(h).idx * BlockSize < hd[h].size
    /\ hd[h].cooked # <<>> /\ RefreshReady(Head(hd[h].cooked))
    /\ Refresh(h, Head(hd[h].cooked))
    /\ UNCHANGED <<m, leaked, astray, shifted, object, disk, pool, history, panicked>>

\* MustGet gives up after five seconds, which lets the call fail.  A block is
\* reset faster than that.
GetTimeout(h) ==
    /\ Free = {} /\ pool.resetBlockCh = {}
    /\ \/ At(h, "get") /\ hd[h].map[Top(h).idx] = None /\ hd[h].list[Top(h).idx] = NoInfo
          /\ Top(h).idx * BlockSize >= Len(Contents)
       \/ At(h, "refresh") /\ Top(h).idx * BlockSize < hd[h].size
          /\ hd[h].cooked = <<>> /\ ~Top(h).pre
       \/ At(h, "must")
    /\ hd' = [hd EXCEPT ![h] = Lost(h, @)] /\ Fail(h)
    /\ UNCHANGED <<m, astray, shifted, object, disk, blk, pool, items, history, panicked>>

-----------------------------------------------------------------------------
(* Writing: getOrCreateBlock                                               *)

\* WriteFile to cells lo .. hi of block i.
Write(h, i, lo, hi) ==
    /\ Usable(h) /\ "write" \in m.calls /\ version < m.cells + m.versions
    /\ m.writes \notin {"first", "any"} => i * BlockSize + lo <= hd[h].size + 1
    /\ m.writes = "first" => hi = 1
    /\ m.writes \in {"append", "whole"} => hi - lo + 1 = BlockSize
    /\ m.writes = "append" => i * BlockSize = hd[h].size
    /\ stack' = [stack EXCEPT ![h] =
         <<Frame("make", i), [Frame("copy", i) EXCEPT !.lo = lo, !.hi = hi]>>]
    /\ UNCHANGED <<m, leaked, astray, shifted, object, disk, blk, pool, items, hd, history, panicked>>

\* getOrCreateBlock returns block b to its caller.
Gives(h, b) == stack' = [stack EXCEPT ![h] = <<[@[2] EXCEPT !.b = b]>> \o SubSeq(@, 3, Len(@))]

\* Mutant: a block that is being staged is written without waiting.
MakeWaitsNever(b) == FALSE

\* A block that is downloading or being staged is waited for.
MakeWaits(b) == "synced" \notin blk[b].flags /\ blk[b].flags \cap {"downloading", "uploading"} # {}

\* The block is there: it is taken back to the cooking blocks.
MakeFound(h) ==
    LET f == Top(h)
        b == hd[h].map[f.idx]
        B == blk[b]
        downloading == MakeWaits(b) /\ "downloading" \in B.flags
    IN /\ At(h, "make") /\ b # None
       /\ MakeWaits(b) => Arrived(b)
       /\ IF downloading /\ "failed" \in B.flags
          THEN DownloadFailed(h, b)
          ELSE /\ blk' = [blk EXCEPT ![b] =
                     [(IF MakeWaits(b) THEN Unblock(@) ELSE @) EXCEPT
                        !.flags = @ \ {"uploading", "downloading", "synced"}]]
               /\ hd' = [hd EXCEPT ![h] = addToCooking(@, b)]
               /\ Gives(h, b) /\ UNCHANGED <<pool, leaked>>
       /\ UNCHANGED <<m, astray, shifted, object, disk, items, history, panicked>>

\* waitAndFreeUploadedBlocks(1): blocks at the front whose staging failed go
\* back to the cooking ones, and the first other one is freed.
FreeOne(h) ==
    LET H == hd[h]
        ok(k) == "failed" \notin blk[H.cooked[k]].flags
        done(k) == blk[H.cooked[k]].id = -1 \/ Arrived(H.cooked[k])
        good == {k \in DOMAIN H.cooked : ok(k)}
        last == IF good = {} THEN Len(H.cooked) ELSE Min(good)
        freed == IF good = {} THEN {} ELSE {H.cooked[last]}
        failed == SelectSeq(SubSeq(H.cooked, 1, last), LAMBDA b : b \notin freed)
    IN /\ At(h, "make") /\ H.map[Top(h).idx] = None
       /\ IF Len(H.cooked) + Len(H.cooking) >= m.prefetch
          THEN /\ \A k \in 1 .. last : done(k)
               /\ hd' = [hd EXCEPT ![h] = LET D == Dropped(H, freed)
                                          IN [D EXCEPT !.cooked = SelectSeq(@, LAMBDA b : b \notin ToSet(failed)),
                                                       !.cooking = @ \o failed]]
               /\ blk' = Reused([b \in Blocks |-> IF b \in ToSet(failed)
                            THEN [Unblock(blk[b]) EXCEPT !.flags = @ \ {"downloading", "uploading"}]
                            ELSE blk[b]], freed)
               /\ pool' = Released(freed)
               /\ panicked' = panicked \cup {b \in freed : blk[b].id = -1 /\ blk[b].state = "closed"}
          ELSE UNCHANGED <<hd, blk, pool, panicked>>
       /\ Goto(h, [Top(h) EXCEPT !.pc = "must"])
       /\ UNCHANGED <<m, leaked, astray, shifted, object, disk, items, history>>

\* MustGet, and what becomes of the new block: one that the cloud has is
\* downloaded, after a commit if it was only staged.
MakeNew(h) ==
    LET f == Top(h)
        H == hd[h]
        b == Next1(Free)
        inside == f.idx * BlockSize < H.size
        B == [ReUse(blk[b]) EXCEPT !.id = f.idx]
    IN /\ At(h, "must") /\ Free # {} /\ pool' = Taken({b})
       /\ IF inside /\ shouldCommit(H, f.idx)
          THEN /\ Call(h, Frame("commit", 0), [f EXCEPT !.pc = "download", !.b = b])
               /\ blk' = [blk EXCEPT ![b] = B]
               /\ UNCHANGED <<hd, items>>
          ELSE IF inside /\ shouldDownload(H, f.idx)
          THEN /\ Goto(h, [f EXCEPT !.pc = "arrive", !.b = b])
               /\ blk' = [blk EXCEPT ![b] = [B EXCEPT !.flags = {"downloading"}]]
               /\ hd' = [hd EXCEPT ![h] = addToCooking(@, b)]
               /\ items' = items \cup {DownloadItem(h, b, f.idx)}
          ELSE /\ Goto(h, [f EXCEPT !.pc = "made", !.b = b])
               /\ blk' = [blk EXCEPT ![b] = B]
               /\ hd' = [hd EXCEPT ![h] = addToCooking(@, b)]
               /\ UNCHANGED items
       /\ UNCHANGED <<m, leaked, astray, shifted, object, disk, history, panicked>>

\* The commit is done, the block that was staged can be downloaded.
MakeDownload(h) ==
    LET f == Top(h)
    IN /\ At(h, "download")
       /\ blk' = [blk EXCEPT ![f.b].flags = @ \cup {"downloading"}]
       /\ hd' = [hd EXCEPT ![h] = addToCooking(@, f.b)]
       /\ items' = items \cup {DownloadItem(h, f.b, f.idx)}
       /\ Goto(h, [f EXCEPT !.pc = "arrive"])
       /\ UNCHANGED <<m, leaked, astray, shifted, object, disk, pool, history, panicked>>

MakeArrived(h) ==
    LET f == Top(h)
    IN /\ At(h, "arrive") /\ Arrived(f.b)
       /\ IF "failed" \in blk[f.b].flags
          THEN DownloadFailed(h, f.b)
          ELSE /\ Goto(h, [f EXCEPT !.pc = "made"])
               /\ blk' = [blk EXCEPT ![f.b].state = "empty"]
               /\ UNCHANGED <<hd, pool, leaked>>
       /\ UNCHANGED <<m, astray, shifted, object, disk, items, history, panicked>>

\* lineupUpload for the blocks of a sequence: each gets a new id in the block
\* list, a new channel and a work item, and is moved to the cooked ones.
Lined(H, seq) ==
    [H EXCEPT !.cooking = SelectSeq(@, LAMBDA b : b \notin ToSet(seq)),
              !.cooked = SelectSeq(@, LAMBDA b : b \notin ToSet(seq)) \o seq,
              !.list = [i \in Indices |->
                  LET ks == {k \in DOMAIN seq : blk[seq[k]].id = i}
                  IN IF ks = {} THEN @[i]
                     ELSE [id |-> FreshIds(Len(seq))[Max(ks)], committed |-> FALSE,
                           size |-> getBlockSize(H, i)]]]
LinedBlocks(B, seq) ==
    [b \in Blocks |-> IF b \in ToSet(seq)
       THEN [B[b] EXCEPT !.state = "empty", !.flags = (@ \ {"failed"}) \cup {"uploading"}]
       ELSE B[b]]
LinedItems(h, seq) ==
    {UploadItem(h, seq[k], blk[seq[k]].id, FreshIds(Len(seq))[k]) : k \in DOMAIN seq}

\* The dirty blocks among those that cook.
DirtyCooking(H) == SelectSeq(H.cooking, LAMBDA b : "dirty" \in blk[b].flags)

\* The new block is open to readers; when too many cook, the first dirty one is
\* staged.
MakeEnd(h) ==
    LET f == Top(h)
        H == [hd[h] EXCEPT !.map[f.idx] = f.b]
        dirty == DirtyCooking(H)
        seq == IF Len(H.cooking) > MIN_WRITE_BLOCK /\ dirty # <<>> THEN <<Head(dirty)>> ELSE <<>>
        B == [blk EXCEPT ![f.b] = [Unblock(@) EXCEPT !.flags = @ \ {"downloading"}]]
    IN /\ At(h, "made")
       /\ hd' = [hd EXCEPT ![h] = Lined(H, seq)]
       /\ blk' = LinedBlocks(B, seq)
       /\ items' = items \cup LinedItems(h, seq)
       /\ panicked' = panicked \cup {b \in {f.b} : blk[b].state = "closed"}
       /\ Gives(h, f.b)
       /\ UNCHANGED <<m, leaked, astray, shifted, object, disk, pool, history>>

\* WriteFile copies the data into the block.
WriteCopy(h) ==
    LET f == Top(h)
        to == f.idx * BlockSize + f.hi
    IN /\ At(h, "copy")
       /\ version' = version + 1
       /\ blk' = [blk EXCEPT ![f.b].data = [k \in 1 .. BlockSize |->
                                             IF k \in f.lo .. f.hi THEN version + 1 ELSE @[k]],
                             ![f.b].flags = @ \cup {"dirty"}]
       /\ hd' = [hd EXCEPT ![h].dirty = TRUE, ![h].size = Max({@, to})]
       /\ view' = [view EXCEPT ![h] = Written(@, f.idx, f.lo, f.hi, version + 1)]
       /\ Return(h)
       /\ UNCHANGED <<m, leaked, astray, shifted, object, disk, pool, items, got, panicked>>

-----------------------------------------------------------------------------
(* Committing: commitBlocks and getBlockIDList                             *)

\* All dirty blocks are staged, in at most three attempts.
CommitStage(h) ==
    LET f == Top(h)
        seq == DirtyCooking(hd[h])
    IN /\ At(h, "commit") /\ f.n < 3 /\ hd[h].cooking # <<>>
       /\ hd' = [hd EXCEPT ![h] = Lined(@, seq)]
       /\ blk' = LinedBlocks(blk, seq)
       /\ items' = items \cup LinedItems(h, seq)
       /\ Goto(h, [f EXCEPT !.pc = "staging"])
       /\ UNCHANGED <<m, leaked, astray, shifted, object, disk, pool, history, panicked>>

\* waitAndFreeUploadedBlocks for all: what could not be staged cooks again,
\* blocks that were never used are freed.
CommitWait(h) ==
    LET f == Top(h)
        H == hd[h]
        failed == SelectSeq(H.cooked, LAMBDA b : "failed" \in blk[b].flags)
        unused == {b \in ToSet(H.cooked) \ ToSet(failed) : blk[b].id = -1}
        opened == {b \in ToSet(H.cooked) : blk[b].id # -1}
    IN /\ At(h, "staging") /\ \A b \in opened : Arrived(b)
       /\ hd' = [hd EXCEPT ![h] = LET D == Dropped(H, unused)
                 IN [D EXCEPT !.cooked = SelectSeq(@, LAMBDA b : b \notin ToSet(failed)),
                              !.cooking = @ \o failed]]
       /\ blk' = Reused([b \in Blocks |-> IF b \in opened
                           THEN [Unblock(blk[b]) EXCEPT !.flags = @ \ {"downloading", "uploading"}]
                           ELSE blk[b]], unused)
       /\ pool' = Released(unused)
       /\ panicked' = panicked \cup {b \in unused : blk[b].state = "closed"}
       /\ Goto(h, [f EXCEPT !.pc = "commit", !.n = @ + 1])
       /\ UNCHANGED <<m, leaked, astray, shifted, object, disk, items, history>>

\* The block list that is committed: blocks nobody wrote are one zero block, and
\* a short block that is not the last is filled up.
Ends(H) == {i \in Indices : H.list[i] # NoInfo}
LastOf(H) == IF Ends(H) = {} THEN -1 ELSE Max(Ends(H))
Short(H) == {i \in Ends(H) : i # LastOf(H) /\ H.list[i].size # BlockSize}

\* The list with the zero blocks in it.
WithZeros(H, id) ==
    [H EXCEPT !.list = [i \in Indices |->
        IF i < LastOf(H) /\ @[i] = NoInfo
        THEN [id |-> id, committed |-> FALSE, size |-> BlockSize] ELSE @[i]]]

\* Whether the cloud knows a block id, and its data.
Known(id) == (\E k \in DOMAIN cloud : cloud[k].id = id) \/ \E s \in staged : s.id = id
DataOf(id) == IF \E s \in staged : s.id = id THEN (CHOOSE s \in staged : s.id = id).data
              ELSE (CHOOSE c \in ToSet(cloud) : c.id = id).data

\* getBlockIDList and CommitData.  The restaging of short blocks follows.
CommitData(h) ==
    LET f == Top(h)
        H == hd[h]
        zero == FreshIds(2)[1]
        filler == FreshIds(2)[2]
        Z == WithZeros(H, zero)
        parts(i) == LET id == Z.list[i].id
                    IN <<[id |-> id, data |-> IF id = zero THEN Zeros(BlockSize) ELSE DataOf(id)]>>
                       \o IF i \in Short(H)
                          THEN <<[id |-> filler, data |-> Zeros(BlockSize - H.list[i].size)]>>
                          ELSE <<>>
    IN /\ At(h, "commit") /\ (f.n = 3 \/ H.cooking = <<>>)
       /\ f.n = 3 => DirtyCooking(H) = <<>>
       /\ \A i \in Ends(H) : Known(H.list[i].id)
       /\ cloud' = FlattenSeq([k \in 1 .. LastOf(H) + 1 |-> parts(k - 1)])
       /\ exists' = TRUE /\ staged' = {} /\ etag' = FreshEtag
       /\ shifted' = (shifted \/ \E i \in Short(H) : Len(DataOf(H.list[i].id)) > H.list[i].size)
       /\ hd' = [hd EXCEPT ![h] = [Z EXCEPT !.etag = FreshEtag,
                   !.list = [i \in Indices |-> IF @[i] = NoInfo THEN NoInfo
                                               ELSE [@[i] EXCEPT !.committed = TRUE]]]]
       /\ Goto(h, [f EXCEPT !.pc = "restage", !.todo = SetToSortSeq(Short(H), <)])
       /\ UNCHANGED <<m, leaked, astray, disk, blk, pool, items, history, panicked>>

\* Three attempts have not staged all blocks, a block is missing in the cloud,
\* or a zero block, a filler or the list is not accepted; the zero block may have
\* been staged by then and is in the list of the handle.
CommitFails(h) ==
    LET f == Top(h)
        H == hd[h]
        unstaged == f.n = 3 /\ DirtyCooking(H) # <<>>
        unknown == \E i \in Ends(H) : ~Known(H.list[i].id)
        zero == FreshIds(1)[1]
    IN /\ At(h, "commit") /\ (f.n = 3 \/ H.cooking = <<>>)
       /\ \/ /\ unstaged \/ unknown \/ "commit" \in m.fails
             /\ hd' = [hd EXCEPT ![h] = Lost(h, H)]
             /\ UNCHANGED staged
          \/ /\ ~unstaged /\ "commit" \in m.fails /\ WithZeros(H, zero) # H
             /\ hd' = [hd EXCEPT ![h] = Lost(h, WithZeros(H, zero))]
             /\ staged' = staged \cup {[id |-> zero, data |-> Zeros(BlockSize)]}
       /\ Fail(h)
       /\ UNCHANGED <<m, astray, shifted, exists, cloud, etag, disk, blk, pool, items, history, panicked>>

\* A short block that was filled up is read back and is to be staged as a whole;
\* then all is committed again.
CommitRestage(h) ==
    LET f == Top(h)
    IN /\ At(h, "restage") /\ f.todo # <<>>
       /\ Call(h, Frame("make", Head(f.todo)), [f EXCEPT !.pc = "mark"])
       /\ UNCHANGED <<m, leaked, astray, shifted, object, disk, blk, pool, items, hd, history, panicked>>

CommitMark(h) ==
    LET f == Top(h)
    IN /\ At(h, "mark")
       /\ blk' = [blk EXCEPT ![f.b].flags = @ \cup {"dirty"}]
       /\ Goto(h, [f EXCEPT !.pc = "restage", !.todo = Tail(@), !.again = TRUE])
       /\ UNCHANGED <<m, leaked, astray, shifted, object, disk, pool, items, hd, history, panicked>>

CommitEnd(h) ==
    LET f == Top(h)
    IN /\ At(h, "restage") /\ f.todo = <<>>
       /\ IF f.again THEN Goto(h, Frame("commit", 0)) /\ UNCHANGED hd
          ELSE Return(h) /\ hd' = [hd EXCEPT ![h].dirty = FALSE]
       /\ UNCHANGED <<m, leaked, astray, shifted, object, disk, blk, pool, items, history, panicked>>

-----------------------------------------------------------------------------
(* The workers: download and upload                                        *)

\* The lock of file and block index.
IndexFree(it) == \A o \in items : o.idx = it.idx => o.st = "queued"
Waiting(it, upload) == it.upload = upload /\ it.st = "queued" /\ IndexFree(it)
Done(it) == items' = items \ {it}
Becomes(it, new) == items' = (items \ {it}) \cup {new}
\* The worker reports to the channel of the block; sending on a closed one panics.
Reports(it, B, val) ==
    /\ blk' = [blk EXCEPT ![it.b] = Ready(B, val)]
    /\ panicked' = panicked \cup {b \in {it.b} : B.state = "closed"}
    /\ Done(it)

\* The part of the object the block of an item stands for by now.
Wanted(it) == Part(Contents, Offset(blk[it.b]))

\* Whether the disk cache has the block: a full one, or the end of the file.  What
\* else it has is read into the buffer too.
OnDisk(it) == LET n == Len(disk[it.idx])
              IN m.disk /\ n > 0 /\ (n = BlockSize \/ it.idx * BlockSize + n = hd[it.h].size)
Buffer(it) == IF m.disk THEN Over(blk[it.b].data, disk[it.idx]) ELSE blk[it.b].data

DownloadDisk(it) ==
    /\ Waiting(it, FALSE) /\ OnDisk(it)
    /\ Reports(it, [blk[it.b] EXCEPT !.data = Buffer(it)], "downloaded")
    /\ UNCHANGED <<m, leaked, astray, shifted, object, disk, pool, hd, stack, history>>

\* The disk cache cannot be opened: the download ends without a report.
DownloadHangs(it) ==
    /\ Waiting(it, FALSE) /\ m.disk /\ "disk" \in m.fails
    /\ Done(it)
    /\ UNCHANGED <<m, leaked, astray, shifted, object, disk, blk, pool, hd, stack, history, panicked>>

\* After MAX_FAIL_CNT failures, or when the object has changed since the handle
\* knew it, the block has failed.
DownloadGivesUp(it) ==
    /\ Waiting(it, FALSE) /\ ~OnDisk(it)
    /\ \/ it.failCnt > MAX_FAIL_CNT
       \/ Wanted(it) # <<>> /\ it.etag \notin {None, etag}
    /\ disk' = [disk EXCEPT ![it.idx] = NoData]
    /\ Reports(it, [blk[it.b] EXCEPT !.flags = @ \cup {"failed"}], "downloadFailed")
    /\ UNCHANGED <<m, leaked, astray, shifted, object, pool, hd, stack, history>>

\* Mutant: it is not.
DownloadRetryLost(it) ==
    /\ Waiting(it, FALSE) /\ ~OnDisk(it) /\ it.failCnt <= MAX_FAIL_CNT
    /\ "read" \in m.fails \/ Wanted(it) = <<>>
    /\ disk' = [disk EXCEPT ![it.idx] = NoData]
    /\ Done(it)
    /\ UNCHANGED <<m, leaked, astray, shifted, object, blk, pool, hd, stack, history, panicked>>

\* A read that fails or finds nothing is queued again.
DownloadRetry(it) ==
    /\ Waiting(it, FALSE) /\ ~OnDisk(it) /\ it.failCnt <= MAX_FAIL_CNT
    /\ "read" \in m.fails \/ Wanted(it) = <<>>
    /\ disk' = [disk EXCEPT ![it.idx] = NoData]
    /\ Becomes(it, [it EXCEPT !.failCnt = @ + 1])
    /\ blk' = [blk EXCEPT ![it.b].data = Buffer(it)]
    /\ UNCHANGED <<m, leaked, astray, shifted, object, pool, hd, stack, history, panicked>>

\* The block is read from the cloud, which leaves what the buffer held behind it,
\* and is kept on disk.
DownloadRead(it) ==
    LET d == Wanted(it)
    IN /\ Waiting(it, FALSE) /\ ~OnDisk(it) /\ it.failCnt <= MAX_FAIL_CNT
       /\ d # <<>> /\ it.etag \in {None, etag}
       /\ disk' = IF m.disk THEN [disk EXCEPT ![it.idx] = d] ELSE disk
       /\ Reports(it, [blk[it.b] EXCEPT !.data = Over(Buffer(it), d)], "downloaded")
       /\ UNCHANGED <<m, leaked, astray, shifted, object, pool, hd, stack, history>>

\* StageData, with the length the block has by now, and the copy on disk, which
\* may fail.  Then the block is synced, it is no more dirty, and its channel says so:
\* three statements between which the worker may pause.
UploadStage(it) ==
    LET B == blk[it.b]
        d == SubSeq(B.data, 1, getBlockSize(hd[it.h], Offset(B)))
    IN /\ Waiting(it, TRUE)
       /\ staged' = staged \cup {[id |-> it.id, data |-> d]}
       /\ disk' \in (IF m.disk THEN {[disk EXCEPT ![it.idx] = d]} ELSE {disk})
                   \cup (IF "disk" \in m.fails THEN {disk} ELSE {})
       /\ IF m.preempt
          THEN Becomes(it, [it EXCEPT !.st = "staged"]) /\ UNCHANGED <<blk, panicked>>
          ELSE Reports(it, [B EXCEPT !.flags = (@ \ {"dirty"}) \cup {"synced"}], "uploaded")
       /\ UNCHANGED <<m, leaked, astray, shifted, exists, cloud, etag, pool, hd, stack, history>>

UploadFails(it) ==
    /\ Waiting(it, TRUE) /\ "stage" \in m.fails
    /\ IF it.failCnt + 1 > MAX_FAIL_CNT
       THEN Reports(it, [blk[it.b] EXCEPT !.flags = @ \cup {"failed"}], "uploadFailed")
       ELSE Becomes(it, [it EXCEPT !.failCnt = @ + 1]) /\ UNCHANGED <<blk, panicked>>
    /\ UNCHANGED <<m, leaked, astray, shifted, object, disk, pool, hd, stack, history>>

UploadSynced(it) ==
    /\ it.st = "staged"
    /\ blk' = [blk EXCEPT ![it.b].flags = @ \cup {"synced"}]
    /\ Becomes(it, [it EXCEPT !.st = "synced"])
    /\ UNCHANGED <<m, leaked, astray, shifted, object, disk, pool, hd, stack, history, panicked>>

UploadClean(it) ==
    /\ it.st = "synced"
    /\ blk' = [blk EXCEPT ![it.b].flags = @ \ {"dirty"}]
    /\ Becomes(it, [it EXCEPT !.st = "clean"])
    /\ UNCHANGED <<m, leaked, astray, shifted, object, disk, pool, hd, stack, history, panicked>>

UploadReady(it) ==
    /\ it.st = "clean"
    /\ Reports(it, blk[it.b], "uploaded")
    /\ UNCHANGED <<m, leaked, astray, shifted, object, disk, pool, hd, stack, history>>

-----------------------------------------------------------------------------
Getting(h) ==
    \/ GetBlock(h) \/ GetNullBlock(h) \/ GetFetch(h) \/ GetFind(h) \/ GetDownloaded(h)
    \/ GetTail(h) \/ GetReady(h) \/ GetFailed(h) \/ GetTimeout(h)
    \/ PrefetchRandom(h) \/ PrefetchSequential(h) \/ PrefetchNext(h)
    \/ RefreshNothing(h) \/ RefreshNew(h) \/ RefreshUsed(h)
Making(h) ==
    \/ MakeFound(h) \/ FreeOne(h) \/ MakeNew(h) \/ MakeDownload(h) \/ MakeArrived(h)
    \/ MakeEnd(h) \/ WriteCopy(h)
Committing(h) ==
    \/ CommitStage(h) \/ CommitWait(h) \/ CommitData(h) \/ CommitFails(h)
    \/ CommitRestage(h) \/ CommitMark(h) \/ CommitEnd(h)

\* A call goes on.
Handler(h) ==
    Getting(h) \/ Making(h) \/ Committing(h) \/ FlushOpenReturn(h) \/ ReleaseBlocks(h)

\* A call begins.
User(h) ==
    \/ CreateFile(h) \/ ReleaseFile(h)
    \/ \E mode \in Modes : OpenFile(h, mode)
    \/ \E call \in {"flush", "sync"} : FlushFile(h, call)
    \/ \E i \in Indices : Read(h, i)
    \/ \E i \in Indices, lo, hi \in 1 .. BlockSize : lo <= hi /\ Write(h, i, lo, hi)

Worker(it) ==
    \/ DownloadDisk(it) \/ DownloadHangs(it) \/ DownloadGivesUp(it) \/ DownloadRetry(it)
    \/ DownloadRead(it) \/ UploadStage(it) \/ UploadFails(it)
    \/ UploadSynced(it) \/ UploadClean(it) \/ UploadReady(it)

Next ==
    \/ \E h \in Handles : Handler(h) \/ User(h)
    \/ \E it \in items : Worker(it)
    \/ \E b \in Blocks : ResetBlock(b)
    \/ DeleteFile
    \/ \E n \in 0 .. MaxBlocks * BlockSize : TruncateFile(n)
    \/ \E i \in Indices : DiskEvict(i)

Spec == Init /\ [][Next]_vars

-----------------------------------------------------------------------------
(* Properties                                                              *)

\* A read returns what the file held when it was opened with what was written
\* through the handle since: whatever was evicted, prefetched, staged and read back.
\* Excepted is what the code is known to get wrong: cells nobody wrote, beyond the
\* old end of the object in its last block, may hold what the buffer held before
\* (LeftOver), and so may all of a block that a read found reused by its own
\* prefetch (astray); and what follows a block that grew between lineupUpload, which
\* notes its size, and upload, which stages it, is committed too far behind (shifted).
ReadsLatest == \A h \in Handles : got[h]

\* An idle handle that is not dirty and knows the current version of the object
\* agrees with it: a commit puts every write where it was made, whatever short blocks
\* it fills up (getBlockIDList, 2109), and left over cells at most beside.
GapsFilled ==
    \A h \in Handles : hd[h].open = "yes" /\ stack[h] = <<>> /\ ~hd[h].dirty /\ hd[h].etag = etag
                       => SameCells(Contents, view[h])

\* A flush that succeeded has committed every write, unless a block that had grown
\* was taken for a short one.
FlushedCommitted == ~shifted => GapsFilled

\* A block of the pool is in one place: free, being reset, on the lists of one handle
\* or in the hand of its call.  Only a null block and the block of a call whose
\* commit failed are lost.
BlocksKept ==
    \A b \in 1 .. m.blocks :
       Cardinality({p \in {"free", "reset", "leaked"} :
                      b \in CASE p = "free" -> Free [] p = "reset" -> pool.resetBlockCh
                             [] p = "leaked" -> leaked}
                   \cup {h \in Handles : b \in Held(h) \cup InHand(stack[h])}) = 1

\* Whoever waits for a block is served: as long as its channel is empty there is a
\* work item that reports to it, unless the disk cache is out of order; and no two
\* of them report to one channel, which would close it twice and end the process
\* (Ready, Unblock).  Excepted are blocks astray: a read that finds its block reused
\* puts it on the list while it is downloaded, or gives its offset to another one.
WaitsServed ==
    /\ panicked \subseteq astray
    /\ "disk" \notin m.fails =>
        \A h \in Handles : \A b \in Held(h) \ astray :
           \/ blk[b].id = -1 \/ blk[b].state # "empty" \/ \E it \in items : it.b = b
           \/ At(h, "made") /\ Top(h).b = b
=============================================================================
