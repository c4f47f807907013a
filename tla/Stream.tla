------------------------------- MODULE Stream -------------------------------
(***************************************************************************)
(* Files without a disk cache: the stream component (component/stream),    *)
(* which keeps blocks of open files in memory, on top of the writes of the *)
(* storage back ends (BlockBlob, S3Client).  The calls that the file cache *)
(* and the block cache make of a back end are here as well; mount.top says *)
(* which component is mounted above the storage:                           *)
(*   "read"    stream, read only          (read.go),                       *)
(*   "handle"  stream, a cache per handle (read_write.go),                 *)
(*   "name"    stream, a cache per file   (read_write_filename.go),        *)
(*   "direct"  stream without any buffer,                                  *)
(*   "file"    the file cache, which uploads whole files,                  *)
(*   "block"   the block cache, which stages blocks and commits lists.     *)
(*                                                                         *)
(* There is one file.  The calls of the kernel come one at a time, and so  *)
(* do the calls of a back end for one object.                              *)
(***************************************************************************)
EXTENDS BlobStore

CONSTANTS
  Handles,   \* the handles of the file
  MaxSize,   \* bound: the length of a file
  Mounts     \* the configurations, see MCStream

ASSUME MaxSizeIsNatural == MaxSize \in Nat

VARIABLES
  mount,    \* the configuration
  exists,   \* the object exists
  store,    \* the object, see BlobStore
  handles,  \* handlemap.Handle: open, cache (its slot, 0 for none), size, dirty
  caches,   \* handlemap.Cache in slots: bl, lru, streamOnly, size, count
  named,    \* rw.fileCache: the slot of the file's buffer, 0 for none
  cachedObjects,  \* CachedObjects
  others,   \* how many of them belong to other files
  opens,    \* how often the file was opened
  changes,  \* how many calls changed it
  view,     \* the file as its users see it
  may,      \* what each byte of the object may be: a failed write leaves two
  said,     \* the blocks that the block cache staged, by id
  unsent,   \* "cached": the last request of a flush failed, the one that
            \* makes its blocks the object, and no flush has succeeded since;
            \* "left": what a failed flush sent is in the service, and the
            \* cache it came from is gone
  last      \* the last answer

vars == <<mount, exists, store, handles, caches, named, cachedObjects, others,
          opens, changes, view, may, said, unsent, last>>

Az == INSTANCE BlockBlob
S3 == INSTANCE S3Client

Slots == 1 .. Cardinality(Handles)

NoCache == [bl |-> <<>>, lru |-> <<>>, streamOnly |-> TRUE, size |-> 0, count |-> 0]

Closed == [open |-> FALSE, cache |-> 0, size |-> 0, dirty |-> FALSE]

NoFault == [call |-> "none", nth |-> 0]

Quiet == [kind |-> "none"]

SomeOpen == \E h \in Handles : handles[h].open

Exactly(data) == [i \in DOMAIN data |-> {data[i]}]

Init ==
  /\ mount \in Mounts
  /\ exists = mount.exists
  /\ store = mount.start
  /\ handles = [h \in Handles |-> Closed]
  /\ caches = [c \in Slots |-> NoCache]
  /\ named = 0
  /\ cachedObjects = mount.others /\ others = mount.others
  /\ opens = 0 /\ changes = 0
  /\ view = mount.start.data
  /\ may = Exactly(mount.start.data)
  /\ said = [i \in IdsOf(mount.start.ids) |-> Latest(mount.start, i)]
  /\ unsent = "none"
  /\ last = Quiet

-----------------------------------------------------------------------------
(* The storage components: each call goes to the mounted back end.         *)

Azure == mount.service = "azure"

StorageWrite(s, offset, data, f) ==
  IF Azure THEN Az!Write(mount, s, offset, data, f)
  ELSE S3!Write(mount, s, offset, data, f)

StorageTruncate(s, size, blockSize, f) ==
  IF Azure THEN Az!TruncateFile(mount, s, size, blockSize, f)
  ELSE S3!TruncateFile(mount, s, size, f)

StorageBlocks(s) ==
  IF Azure THEN Az!GetFileBlockOffsets(s) ELSE S3!GetFileBlockOffsets(mount, s)

(* FlushFile stores the block list of a cache.                             *)
StorageFlush(s, bl, f) ==
  IF Azure THEN Az!StageAndCommit(s, bl, FALSE, f)
  ELSE S3!StageAndCommit(mount, s, bl, f)

(* ReadInBuffer into n bytes, within the size that the handle remembers.   *)
StorageRead(s, size, offset, n, f) ==
  LET length == Lesser(n, size - offset)
      got    == IF Azure THEN Az!ReadInBuffer(s, offset, length, n, f)
                ELSE S3!ReadInBuffer(s, offset, length, n, f)
  IN CASE offset > size -> [ok |-> FALSE, data |-> Zeros(n), length |-> 0]
       [] offset = size \/ n = 0 -> [ok |-> TRUE, data |-> Zeros(n), length |-> 0]
       [] OTHER -> [ok |-> got.ok, data |-> got.data, length |-> length]

-----------------------------------------------------------------------------
(* cache_policy.LRUCache: lru holds the starts of the cached blocks, the   *)
(* most recently used first.  A cached block is a block of the list with   *)
(* its data in memory.                                                     *)

At(bl, start) == CHOOSE k \in DOMAIN bl : bl[k].start = start

Occupied(c) ==
  Fold(LAMBDA n, key : n + Size(c.bl[At(c.bl, key)]), 0, c.lru)

Touch(c, key) == [c EXCEPT !.lru = <<key>> \o SelectSeq(@, LAMBDA x : x # key)]

Drop(c, key) ==
  [c EXCEPT !.lru = SelectSeq(@, LAMBDA x : x # key),
            !.bl[At(c.bl, key)].data = <<>>]

(* The clean blocks among the cached ones, in the order of the list.       *)
Clean(c) == SelectSeq(c.lru, LAMBDA key : ~c.bl[At(c.bl, key)].dirty)

(* Mutant: the least recently used block goes, dirty or not.               *)
evictAny(c) == Drop(c, c.lru[Len(c.lru)])

evict(c) == Drop(c, Clean(c)[Len(Clean(c))])

Put(c, key) ==
  CASE Occupied(c) < mount.buffer -> [ok |-> TRUE, c |-> Touch(c, key)]
    [] Occupied(c) >= mount.buffer /\ Clean(c) # <<>> ->
         [ok |-> TRUE, c |-> Touch(evict(c), key)]
    [] OTHER -> [ok |-> FALSE, c |-> c]

Purge(c) ==
  [c EXCEPT !.lru = <<>>, !.streamOnly = TRUE,
            !.bl = [k \in DOMAIN c.bl |->
                      IF c.bl[k].start \in ToSet(c.lru)
                        THEN [c.bl[k] EXCEPT !.data = <<>>] ELSE c.bl[k]]]

-----------------------------------------------------------------------------
(* The blocks of a cache.  A result r holds the cache c, the store s, the  *)
(* size the handle remembers and ok.                                       *)

Result(c, s, size, ok) == [c |-> c, s |-> s, size |-> size, ok |-> ok]

(* A cache that is full of dirty blocks is flushed to make room.           *)
AfterFlush(c, size, key, w) ==
  LET full == [c EXCEPT !.bl = w.bl]
  IN IF w.ok THEN Result(Put(full, key).c, w.s, size, Put(full, key).ok)
     ELSE Result(full, w.s, size, FALSE)

putBlock(c, s, size, key, f) ==
  IF Put(c, key).ok THEN Result(Put(c, key).c, s, size, TRUE)
  ELSE AfterFlush(c, size, key, StorageFlush(s, c.bl, f))

(* The k-th block is put into the cache before its bytes are read.         *)
Filled(r, k, got) ==
  Result(IF got.ok THEN [r.c EXCEPT !.bl[k].data = got.data] ELSE r.c,
         r.s, r.size, got.ok)

Fetched(r, k, f) ==
  LET b == r.c.bl[k]
  IN IF ~r.ok \/ Size(b) = 0 THEN r
     ELSE Filled(r, k, StorageRead(r.s, r.size, b.start, Size(b), f))

getBlock(c, s, size, k, f) ==
  LET b == c.bl[k]
  IN IF b.start \in ToSet(c.lru) THEN Result(Touch(c, b.start), s, size, TRUE)
     ELSE Fetched(putBlock([c EXCEPT !.bl[k].data = Zeros(Size(b))], s, size,
                           b.start, f), k, f)

(* The part of a read or a write that lies within the block list.  acc is  *)
(* a result with the offset at, the number of bytes done, and got, the     *)
(* bytes that were read.  g is what getBlock gave for the k-th block.      *)
CopyBlock(acc, g, k, length, data, write) ==
  LET b    == g.c.bl[k]
      from == acc.at - b.start
      n    == Lesser(length - acc.done, Len(b.data) - from)
      new  == Over(b.data, from, SubSeq(data, acc.done + 1, acc.done + n))
  IN IF ~g.ok THEN [acc EXCEPT !.c = g.c, !.s = g.s, !.ok = FALSE]
     ELSE [acc EXCEPT
             !.c    = IF write
                        THEN [g.c EXCEPT !.bl[k] = [@ EXCEPT !.data = new,
                                                             !.dirty = TRUE]]
                        ELSE g.c,
             !.s    = g.s,
             !.at   = @ + n,
             !.done = @ + n,
             !.got  = @ \o Bytes(b.data, from, from + n)]

InBlocks(acc0, met, length, data, write, f) ==
  LET Step(acc, k) ==
        IF ~acc.ok \/ acc.done = length THEN acc
        ELSE CopyBlock(acc, getBlock(acc.c, acc.s, acc.size, k, f), k, length, data, write)
  IN Fold(Step, acc0, met)

(* A write beyond the end grows the last block up to BlockSize, or adds a  *)
(* block that covers the gap and the data.                                 *)
Grown(g, gap, rest, end) ==
  LET n == Len(g.c.bl)
  IN IF ~g.ok THEN g
     ELSE Result([g.c EXCEPT !.bl[n] = [@ EXCEPT !.data = @ \o Zeros(gap) \o rest,
                                                 !.end = end, !.dirty = TRUE]],
                 g.s, end, TRUE)

Added(p, end) == IF p.ok THEN [p EXCEPT !.size = end] ELSE p

AppendBlock(acc, rest, f) ==
  LET n   == Len(acc.c.bl)
      b   == acc.c.bl[n]
      gap == acc.at - b.end
      id  == FreshIds(UsedIds(acc.s, acc.c.bl), 1)[1]
      blk == createBlockFromBuffer(id, b.end, Zeros(gap) \o rest)
  IN IF Size(b) + gap + Len(rest) <= mount.blockSize \/ b.end = 0
       THEN Grown(getBlock(acc.c, acc.s, acc.size, n, f), gap, rest, acc.at + Len(rest))
       ELSE Added(putBlock([acc.c EXCEPT !.bl = Append(@, blk)], acc.s, acc.size,
                           b.end, f), acc.at + Len(rest))

Started(c, s, size, offset) ==
  [c |-> c, s |-> s, size |-> size, ok |-> TRUE, at |-> offset, done |-> 0,
   got |-> <<>>]

ReadBlocks(c, s, size, offset, length, f) ==
  InBlocks(Started(c, s, size, offset), FindBlocks(c.bl, offset, length), length,
           Zeros(length), FALSE, f)

BeyondBlocks(r, data, f) ==
  IF r.ok /\ r.done < Len(data)
    THEN AppendBlock(r, SubSeq(data, r.done + 1, Len(data)), f)
    ELSE Result(r.c, r.s, r.size, r.ok)

readWriteBlocks(c, s, size, offset, data, f) ==
  BeyondBlocks(InBlocks(Started(c, s, size, offset), FindBlocks(c.bl, offset, Len(data)),
                        Len(data), data, TRUE, f), data, f)

(* A new cache object for a file of this size; a file without blocks is    *)
(* one block, and all of it is read.                                       *)
NewCache(s, size, bl, f) ==
  LET id == FreshIds(UsedIds(s, <<>>), 1)[1]
      c  == [bl |-> bl, lru |-> <<>>, streamOnly |-> FALSE, size |-> size, count |-> 0]
  IN IF bl # <<>> THEN Result(c, s, size, TRUE)
     ELSE getBlock([c EXCEPT !.bl = <<Block(id, 0, size, <<>>)>>], s, size, 1, f)

-----------------------------------------------------------------------------
(* How a handle gets its cache.  An attachment a says in which slot it is, *)
(* what the slot holds and what became of the shared state.                *)

Attachment(slot, r, name, objects) ==
  [slot |-> slot, c |-> r.c, s |-> r.s, ok |-> r.ok, named |-> name, objects |-> objects]

FreeSlot(h) ==
  CHOOSE c \in Slots : c # named /\ \A g \in Handles \ {h} : handles[g].cache # c

(* At the limit a handle streams without a cache, for now.                 *)
StreamOnlyOn(h, s, size) ==
  Attachment(FreeSlot(h), Result(NoCache, s, size, TRUE), named, cachedObjects)

CachedOn(h, r) ==
  Attachment(FreeSlot(h), r, named, cachedObjects + (IF r.ok THEN 1 ELSE 0))

createHandleCache(h, s, size, f) ==
  IF cachedObjects >= mount.limit THEN StreamOnlyOn(h, s, size)
  ELSE CachedOn(h, NewCache(s, size, IF size = 0 THEN <<>> ELSE StorageBlocks(s), f))

createFileCache(h, s, size, f) ==
  LET r == NewCache(s, size, StorageBlocks(s), f)
  IN CASE named # 0 /\ ~caches[named].streamOnly ->
            Attachment(named, Result([caches[named] EXCEPT !.count = @ + 1], s, size, TRUE),
                       named, cachedObjects)
       [] (named = 0 \/ caches[named].streamOnly) /\ cachedObjects >= mount.limit ->
            StreamOnlyOn(h, s, size)
       [] OTHER ->
            Attachment(FreeSlot(h), [r EXCEPT !.c.count = 1], FreeSlot(h),
                       cachedObjects + 1)

(* ReadCache: the blocks are cut at multiples of BlockSize and the first   *)
(* one is read at once.                                                    *)
createReadCache(h, s, size, f) ==
  LET at == IF size = 0 THEN <<0>> ELSE Starts(0, size, mount.blockSize)
      bl == [k \in DOMAIN at |->
               Block(k, at[k], Lesser(at[k] + mount.blockSize, size), <<>>)]
      r  == getBlock([NoCache EXCEPT !.bl = bl, !.streamOnly = FALSE], s, size, 1, f)
  IN IF cachedObjects >= mount.limit THEN StreamOnlyOn(h, s, size)
     ELSE Attachment(FreeSlot(h), r, named, cachedObjects + 1)

Attach(h, s, size, f) ==
  CASE mount.top = "handle" -> createHandleCache(h, s, size, f)
    [] mount.top = "name"   -> createFileCache(h, s, size, f)
    [] mount.top = "read"   -> createReadCache(h, s, size, f)
    [] mount.top = "direct" -> Attachment(0, Result(NoCache, s, size, TRUE), 0, 0)

(* A read or a write first tries again to get a cache for a handle that    *)
(* has none.                                                               *)
Ready(h, f) ==
  IF mount.top \in {"handle", "name"} /\ caches[handles[h].cache].streamOnly
    THEN Attach(h, store, handles[h].size, f)
    ELSE Attachment(handles[h].cache,
                    Result(IF handles[h].cache = 0 THEN NoCache
                           ELSE caches[handles[h].cache], store, handles[h].size, TRUE),
                    named, cachedObjects)

SetCache(slot, c) == IF slot = 0 THEN caches ELSE [caches EXCEPT ![slot] = c]

-----------------------------------------------------------------------------
(* What users ask of the file, as POSIX has it.                            *)

Written(old, offset, data) ==
  [i \in 1 .. (IF offset + Len(data) > Len(old) THEN offset + Len(data) ELSE Len(old)) |->
     CASE i > offset /\ i <= offset + Len(data) -> data[i - offset]
       [] i <= Len(old) /\ ~(i > offset /\ i <= offset + Len(data)) -> old[i]
       [] OTHER -> 0]

(* What a write that succeeds, and one that fails, leaves of the choices   *)
(* for each byte.                                                          *)
Surely(sets, offset, data) ==
  [i \in 1 .. Len(Written(sets, offset, data)) |->
     CASE i > offset /\ i <= offset + Len(data) -> {data[i - offset]}
       [] i <= Len(sets) /\ ~(i > offset /\ i <= offset + Len(data)) -> sets[i]
       [] OTHER -> {0}]

Perhaps(sets, offset, data) ==
  [i \in DOMAIN sets |->
     IF i > offset /\ i <= offset + Len(data) THEN sets[i] \cup {data[i - offset]}
     ELSE sets[i]]

Chosen(sets) == [i \in DOMAIN sets |-> CHOOSE x \in sets[i] : TRUE]

Resized(sets, size) ==
  [i \in 1 .. size |-> IF i <= Len(sets) THEN sets[i] ELSE {0}]

(* The bytes of a write: a pattern in which neighbours differ.             *)
Data(v, n) == Listed([i \in 1 .. n |-> v + (i % 2)])

(* What a reader was given, against the file as its users see it.          *)
ReadAnswer(offset, n, got) ==
  [kind |-> "read", right |-> got = Bytes(view, offset, offset + n)]

(* What failed flushes have left behind when the file is looked at anew.   *)
Remains(s) == IF s.staged = NoneStaged THEN "none" ELSE "left"

Allowed(op) == op \in mount.ops

(* A call that changes the file; their number is bounded.                  *)
Change(op) == Allowed(op) /\ changes < mount.changes /\ changes' = changes + 1

Fault == mount.faults

-----------------------------------------------------------------------------
(* Opening.                                                                *)

Opened(h, s, size, a) ==
  /\ h \in mount.handles /\ ~handles[h].open /\ opens < mount.opens
  /\ opens' = opens + 1
  /\ store' = a.s
  /\ IF a.ok
       THEN /\ handles' = [handles EXCEPT ![h] = [open |-> TRUE, cache |-> a.slot,
                                                  size |-> size, dirty |-> FALSE]]
            /\ caches' = SetCache(a.slot, a.c)
            /\ named' = a.named /\ cachedObjects' = a.objects
            /\ view' = IF a.slot = named /\ named # 0 THEN view ELSE s.data
            /\ unsent' = IF a.slot = named /\ named # 0 THEN unsent ELSE Remains(s)
       ELSE UNCHANGED <<handles, caches, named, cachedObjects, view, unsent>>
  /\ last' = Quiet
  /\ UNCHANGED <<mount, changes, others, said>>

(* The file is created empty in the storage before the handle is made.     *)
CreateFile(h) ==
  /\ Allowed("create") /\ ~exists
  /\ exists' = TRUE /\ may' = <<>>
  /\ \E f \in Fault : Opened(h, PutWhole(mount, store, <<>>), 0,
                              Attach(h, PutWhole(mount, store, <<>>), 0, f))

OpenFile(h) ==
  /\ Allowed("open") /\ exists
  /\ UNCHANGED <<exists, may>>
  /\ \E f \in Fault : Opened(h, store, Len(store.data),
                              Attach(h, store, Len(store.data), f))

-----------------------------------------------------------------------------
(* Reading and writing.                                                    *)

(* A handle without a cache reads the storage.                             *)
ReadThrough(a, offset, n, d) ==
  /\ caches' = SetCache(a.slot, a.c)
  /\ last' = IF a.ok /\ d.ok THEN ReadAnswer(offset, n, SubSeq(d.data, 1, d.length))
             ELSE [kind |-> "failed"]
  /\ UNCHANGED <<store, may>>

ReadFromCache(a, offset, n, r) ==
  /\ caches' = SetCache(a.slot, r.c)
  /\ store' = r.s /\ may' = Exactly(r.s.data)
  /\ last' = IF a.ok /\ r.ok THEN ReadAnswer(offset, n, r.got) ELSE [kind |-> "failed"]

(* An empty file is not looked up.                                         *)
CachedSize(h, a) == IF mount.top = "name" THEN a.c.size ELSE handles[h].size

ReadWith(h, a, offset, n, f) ==
  /\ CASE a.c.streamOnly ->
            ReadThrough(a, offset, n, StorageRead(store, handles[h].size, offset, n, f))
       [] ~a.c.streamOnly /\ CachedSize(h, a) = 0 ->
            ReadFromCache(a, offset, n, Started(a.c, a.s, 0, offset))
       [] OTHER ->
            ReadFromCache(a, offset, n, ReadBlocks(a.c, a.s, handles[h].size, offset, n, f))
  /\ handles' = [handles EXCEPT ![h].cache = a.slot]
  /\ named' = a.named /\ cachedObjects' = a.objects

ReadInBuffer(h) ==
  /\ Allowed("read") /\ handles[h].open
  /\ \E offset \in 0 .. MaxSize - 1, n \in mount.lengths, f \in Fault :
       ReadWith(h, Ready(h, f), offset, n, f)
  /\ UNCHANGED <<mount, changes, exists, others, opens, view, said, unsent>>

(* A handle without a cache writes to the storage at once.                 *)
WriteThrough(h, a, offset, data, o) ==
  /\ store' = o.s
  /\ view' = IF o.ok THEN Written(view, offset, data) ELSE view
  /\ may' = IF o.ok THEN Surely(may, offset, data) ELSE Perhaps(may, offset, data)
  /\ caches' = SetCache(a.slot, a.c)
  /\ handles' = [handles EXCEPT ![h].cache = a.slot]
  /\ last' = IF o.ok THEN Quiet ELSE [kind |-> "failed"]

WriteToCache(h, a, offset, data, r) ==
  LET c == IF r.size # handles[h].size THEN [r.c EXCEPT !.size = r.size] ELSE r.c
  IN /\ store' = r.s
     /\ view' = IF r.ok THEN Written(view, offset, data) ELSE view
     /\ caches' = SetCache(a.slot, c)
     /\ handles' = [handles EXCEPT ![h] = [@ EXCEPT !.cache = a.slot, !.size = r.size,
                                                   !.dirty = TRUE]]
     /\ may' = Exactly(r.s.data)
     /\ last' = IF r.ok THEN Quiet ELSE [kind |-> "failed"]

WriteWith(h, a, offset, data, f) ==
  /\ IF a.c.streamOnly
       THEN WriteThrough(h, a, offset, data, StorageWrite(store, offset, data, f))
       ELSE WriteToCache(h, a, offset, data,
                         readWriteBlocks(a.c, a.s, handles[h].size, offset, data, f))
  /\ named' = a.named /\ cachedObjects' = a.objects

WriteFile(h) ==
  /\ Change("write") /\ handles[h].open /\ mount.top # "read"
  /\ \E offset \in 0 .. MaxSize - 1, n \in mount.lengths, v \in mount.values, f \in Fault :
       /\ offset + n <= MaxSize
       /\ \/ offset <= Len(view)
          \/ mount.gaps = "always"
          \/ mount.gaps = "nonempty" /\ view # <<>>
       /\ WriteWith(h, Ready(h, f), offset, Data(v, n), f)
  /\ UNCHANGED <<mount, exists, others, opens, said, unsent>>

-----------------------------------------------------------------------------
(* Flushing and closing.                                                   *)

(* A handle whose cache is gone has nothing to flush, except in the mode   *)
(* that keeps caches by name, which does not ask.                          *)
Flushes(h) ==
  /\ handles[h].dirty
  /\ mount.top = "handle" => ~caches[handles[h].cache].streamOnly

FlushOutcome(h, f) == StorageFlush(store, caches[handles[h].cache].bl, f)

(* The flags of the blocks are cleared before the last request is made; a  *)
(* flush that then finds nothing dirty makes no request and succeeds.      *)
Sends(h) == \E k \in DOMAIN caches[handles[h].cache].bl : caches[handles[h].cache].bl[k].dirty

Unsent(h, f, o) ==
  CASE Sends(h) /\ o.ok /\ unsent = "cached" -> "none"
    [] Sends(h) /\ f.call = "commit" /\ unsent = "none" -> "cached"
    [] OTHER -> unsent

(* When the handle's cache is given up, what was sent may stay.            *)
GivenUp(u) ==
  CASE named' # 0 -> u
    [] named' = 0 /\ u # "none" -> "left"
    [] OTHER -> Remains(store')

FlushedWith(h, o) ==
  /\ store' = o.s /\ may' = Exactly(o.s.data)
  /\ caches' = [caches EXCEPT ![handles[h].cache].bl = o.bl]
  /\ handles' = [handles EXCEPT ![h].dirty = ~o.ok]
  /\ last' = [kind |-> IF o.ok THEN "stored" ELSE "failed"]

FlushFile(h) ==
  /\ Allowed("flush") /\ handles[h].open /\ Flushes(h)
  /\ \E f \in Fault : /\ FlushedWith(h, FlushOutcome(h, f))
                       /\ unsent' = Unsent(h, f, FlushOutcome(h, f))
  /\ UNCHANGED <<mount, changes, exists, named, cachedObjects, others, opens, view, said>>

(* ReadWriteCache.purge and the end of ReadCache.ReleaseFile.              *)
PurgeHandle(slot, bl) ==
  /\ caches' = [caches EXCEPT ![slot] = Purge([@ EXCEPT !.bl = bl])]
  /\ cachedObjects' = cachedObjects - (IF caches[slot].streamOnly THEN 0 ELSE 1)
  /\ UNCHANGED named

(* ReadWriteFilenameCache.purge: the last handle to close takes the buffer *)
(* along, and so does whatever changes the file under its name.            *)
purge(cs, closeOp) ==
  LET left == IF closeOp THEN cs[named].count - 1 ELSE cs[named].count
      gone == left <= 0 \/ ~closeOp
  IN IF named = 0
       THEN caches' = cs /\ UNCHANGED <<named, cachedObjects>>
       ELSE /\ caches' = [cs EXCEPT ![named] =
                            [(IF gone THEN Purge(@) ELSE @) EXCEPT !.count = left]]
            /\ named' = IF gone THEN 0 ELSE named
            /\ cachedObjects' = cachedObjects - (IF gone THEN 1 ELSE 0)

(* A release flushes again, and gives nothing back when that fails.        *)
Released(h, slot, o) ==
  /\ store' = o.s
  /\ may' = IF Flushes(h) THEN Exactly(o.s.data) ELSE may
  /\ CASE slot = 0 -> UNCHANGED <<caches, named, cachedObjects>>
       [] slot # 0 /\ ~o.ok ->
            /\ caches' = [caches EXCEPT ![slot].bl = o.bl]
            /\ UNCHANGED <<named, cachedObjects>>
       [] slot # 0 /\ o.ok /\ mount.top = "name" ->
            purge([caches EXCEPT ![slot].bl = o.bl], TRUE)
       [] OTHER -> PurgeHandle(slot, o.bl)
  /\ last' = CASE ~o.ok -> [kind |-> "failed"]
               [] o.ok /\ Flushes(h) -> [kind |-> "stored"]
               [] OTHER -> Quiet

ReleaseFile(h) ==
  /\ Allowed("release") /\ handles[h].open
  /\ handles' = [handles EXCEPT ![h] = Closed]
  /\ LET slot == handles[h].cache
     IN IF Flushes(h)
          THEN \E f \in Fault : /\ Released(h, slot, FlushOutcome(h, f))
                               /\ unsent' = GivenUp(Unsent(h, f, FlushOutcome(h, f)))
          ELSE /\ Released(h, slot, Outcome(store, IF slot = 0 THEN <<>> ELSE caches[slot].bl,
                                            TRUE))
               /\ unsent' = GivenUp(unsent)
  /\ UNCHANGED <<mount, changes, exists, others, opens, view, said>>

(* The size that users see of a file that is cached by name.               *)
GetAttr ==
  /\ Allowed("getattr") /\ exists
  /\ last' = [kind |-> "size",
              size |-> IF mount.top = "name" /\ named # 0 THEN caches[named].size
                       ELSE Len(store.data)]
  /\ UNCHANGED <<mount, changes, exists, store, handles, caches, named, cachedObjects, others,
                 opens, view, may, said, unsent>>

-----------------------------------------------------------------------------
(* Calls that name the file.  The stream only passes them on, or drops the *)
(* buffer that it keeps under the name; they come here while the file is   *)
(* closed.                                                                 *)

DropNamed ==
  IF mount.top = "name" THEN purge(caches, FALSE)
  ELSE UNCHANGED <<caches, named, cachedObjects>>

(* The block cache passes its block size along, the others pass none.      *)
Granted == IF mount.top = "block" THEN mount.blockSize ELSE 0

Truncated(size, o) ==
  /\ store' = o.s
  /\ may' = IF o.ok THEN Resized(may, size) ELSE may
  /\ view' = IF o.ok THEN o.s.data ELSE view
  /\ IF o.ok THEN DropNamed ELSE UNCHANGED <<caches, named, cachedObjects>>
  /\ unsent' = IF o.ok THEN Remains(o.s) ELSE unsent
  /\ said' = IF o.ok /\ mount.top = "block"
             THEN [i \in IdsOf(o.s.ids) |-> Latest([o.s EXCEPT !.data = Chosen(may')], i)]
             ELSE said
  /\ last' = IF o.ok THEN Quiet ELSE [kind |-> "failed"]

TruncateFile ==
  /\ Change("truncate") /\ exists /\ ~SomeOpen
  /\ \E size \in 0 .. MaxSize, f \in Fault :
       Truncated(size, StorageTruncate(store, size, Granted, f))
  /\ UNCHANGED <<mount, exists, handles, others, opens>>

Gone ==
  /\ exists /\ ~SomeOpen
  /\ exists' = FALSE
  /\ store' = [data |-> <<>>, ids |-> <<>>, staged |-> NoneStaged]
  /\ view' = <<>> /\ may' = <<>>
  /\ said' = [i \in {} |-> <<>>]
  /\ unsent' = "none"
  /\ last' = Quiet
  /\ UNCHANGED <<mount, changes, handles, others, opens>>

DeleteFile == Allowed("delete") /\ Gone /\ DropNamed

RenameFile == Allowed("rename") /\ Gone /\ DropNamed

(* For a directory the buffers below it are dropped first, whether or not  *)
(* the storage then succeeds.                                              *)
DirectoryGone ==
  /\ DropNamed
  /\ \/ Gone
     \/ /\ exists /\ ~SomeOpen
        /\ last' = [kind |-> "failed"] /\ view' = store.data
        /\ unsent' = Remains(store)
        /\ UNCHANGED <<mount, changes, exists, store, handles, others, opens, may, said>>

DeleteDirectory == Allowed("rmdir") /\ DirectoryGone

RenameDirectory == Allowed("mvdir") /\ DirectoryGone

(* Another file takes or gives back a place among the cached objects.      *)
OtherFile ==
  /\ Allowed("others")
  /\ \E n \in {-1, 1} :
       /\ others + n \in 0 .. 1
       /\ n = 1 => cachedObjects < mount.limit
       /\ others' = others + n
       /\ cachedObjects' = cachedObjects + n
  /\ last' = Quiet
  /\ UNCHANGED <<mount, changes, exists, store, handles, caches, named, opens, view, may, said, unsent>>

(* Unmounting purges every cache that is left.                             *)
Stop ==
  /\ Allowed("stop") /\ ~SomeOpen
  /\ caches' = [c \in Slots |-> Purge(caches[c])]
  /\ cachedObjects' = cachedObjects - Cardinality({c \in Slots : ~caches[c].streamOnly})
  /\ named' = 0
  /\ last' = Quiet
  /\ opens' = mount.opens
  /\ UNCHANGED <<mount, changes, exists, store, handles, others, view, may, said, unsent>>

-----------------------------------------------------------------------------
(* The file cache replaces the object by a local file, and reads it whole. *)

CopyFromFile ==
  /\ Change("upload")
  /\ \E n \in 0 .. MaxSize, v \in mount.values, f \in Fault :
       LET o == IF Azure THEN Az!WriteFromFile(mount, store, Data(v, n), f)
                ELSE S3!WriteFromFile(mount, store, Data(v, n), f)
       IN /\ store' = o.s
          /\ may' = IF o.ok THEN Exactly(Data(v, n)) ELSE may
          /\ view' = o.s.data
          /\ exists' = (exists \/ o.ok)
          /\ last' = IF o.ok THEN Quiet ELSE [kind |-> "failed"]
  /\ UNCHANGED <<mount, handles, caches, named, cachedObjects, others, opens, said, unsent>>

CopyToFile ==
  /\ Allowed("download") /\ exists
  /\ \E f \in Fault :
       LET r == IF Azure THEN Az!ReadToFile(store, f) ELSE S3!ReadToFile(store, f)
       IN last' = IF r.ok THEN ReadAnswer(0, MaxSize, r.data) ELSE [kind |-> "failed"]
  /\ UNCHANGED <<mount, changes, exists, store, handles, caches, named, cachedObjects, others,
                 opens, view, may, said, unsent>>

(* The block cache stages a block under an id of its own.                  *)
StageData ==
  /\ Change("stage")
  /\ \E n \in 1 .. mount.blockSize, v \in mount.values, f \in Fault :
       LET id == FreshIds(DOMAIN said \cup UsedIds(store, <<>>), 1)[1]
           o  == IF Azure THEN Az!StageBlock(store, id, Data(v, n), f)
                 ELSE S3!StageBlock(store, id, Data(v, n))
       IN /\ id <= mount.blocks
          /\ store' = o.s
          /\ said' = IF o.ok THEN [i \in {id} \cup DOMAIN said |->
                                    IF i = id THEN Data(v, n) ELSE said[i]]
                     ELSE said
          /\ last' = IF o.ok THEN Quiet ELSE [kind |-> "failed"]
  /\ UNCHANGED <<mount, exists, handles, caches, named, cachedObjects, others, opens,
                 view, may, unsent>>

(* It keeps the ids of blocks that did not change and replaces or adds the *)
(* ones that did.                                                          *)
CommitData ==
  /\ Change("commit")
  /\ \E list \in UNION {[1 .. n -> DOMAIN said] : n \in 0 .. mount.blocks}, f \in Fault :
       LET o == IF Azure THEN Az!CommitBlocks(mount, store, list, f)
                ELSE S3!CommitBlocks(mount, store, list, f)
       IN /\ IsInjective(list)
          /\ store' = o.s
          /\ may' = IF o.ok THEN Exactly(Joined([k \in DOMAIN list |-> said[list[k]]]))
                    ELSE may
          /\ said' = [i \in DOMAIN said \cap (IdsOf(o.s.ids) \cup DOMAIN o.s.staged) |-> said[i]]
          /\ view' = o.s.data
          /\ exists' = (exists \/ o.ok)
          /\ last' = IF o.ok THEN Quiet ELSE [kind |-> "failed"]
  /\ UNCHANGED <<mount, handles, caches, named, cachedObjects, others, opens, unsent>>

(* When it opens a file it asks for the list of blocks; a file in one      *)
(* piece has none.                                                         *)
ListAnswer(list) ==
  LET at == StartOf([k \in DOMAIN list |-> list[k].size], Len(list) + 1)
  IN [kind |-> "read", right |-> list = <<>> \/ at = Len(view)]

GetCommittedBlockList ==
  /\ Allowed("list") /\ exists
  /\ last' = ListAnswer(IF Azure THEN Az!GetCommittedBlockList(store)
                        ELSE S3!GetCommittedBlockList(mount, store))
  /\ UNCHANGED <<mount, changes, exists, store, handles, caches, named, cachedObjects, others,
                 opens, view, may, said, unsent>>

Next ==
  \/ \E h \in Handles : \/ CreateFile(h) \/ OpenFile(h) \/ ReadInBuffer(h)
                        \/ WriteFile(h) \/ FlushFile(h) \/ ReleaseFile(h)
  \/ GetAttr \/ TruncateFile \/ DeleteFile \/ RenameFile \/ DeleteDirectory
  \/ RenameDirectory \/ OtherFile \/ Stop
  \/ CopyFromFile \/ CopyToFile \/ StageData \/ CommitData \/ GetCommittedBlockList

Spec == Init /\ [][Next]_vars

-----------------------------------------------------------------------------
(* The object holds what was asked for: after writes at any offset, larger *)
(* and smaller sizes, uploads and committed block lists, every byte of it  *)
(* is the last one written there, zero where nothing was written, or, for  *)
(* a write that failed, one or the other.  (The splitting of writes over   *)
(* blocks and parts in BlockBlob::Write, Client::Write, TruncateFile.)     *)
StoredAsAsked ==
  mount.top \in {"direct", "file", "block"} =>
    /\ Len(store.data) = Len(may)
    /\ \A i \in DOMAIN may : store.data[i] \in may[i]

(* What a user reads through a cached handle is the file as it was opened  *)
(* with every write since, whatever was evicted, flushed or loaded again   *)
(* in between; a file cached by name has the size it was written to, also  *)
(* after a flush that failed.  Once that flush's cache is given up, what   *)
(* it sent to Azure waits there for the next list, and nothing is claimed  *)
(* until the file is opened again without it.                              *)
ReadsOwn ==
  unsent # "left" =>
    /\ last.kind = "read" => last.right
    /\ last.kind = "size" /\ mount.top = "name" => last.size = Len(view)

(* A flush or a close of a written file that reports success has stored    *)
(* all of it, also when an earlier attempt failed while it staged blocks   *)
(* or uploaded parts, or when a later write is sent along with what a      *)
(* failed attempt left.  Left out is the flush that finds nothing dirty    *)
(* after the last request of an earlier one failed: StageAndCommit has     *)
(* cleared the flags by then (block_blob.go:2082, client.go:1286).         *)
FlushedStored == last.kind = "stored" /\ unsent = "none" => store.data = view

(* The same with that flush: the second one, which a release makes to be   *)
(* sure (read_write.go:273), stores what the first could not.              *)
SecondFlushStores == last.kind = "stored" => store.data = view
=============================================================================
