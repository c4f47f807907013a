----------------------------- MODULE BlockBlob -----------------------------
(***************************************************************************)
(* The operations of azstorage/block_blob.go on one blob (see BlobStore).  *)
(* The SDK puts a blob of at most m.whole bytes in one call and stages a   *)
(* longer one in blocks of m.part bytes.  The limits on the number and the *)
(* size of blocks are far away, and a call to the service that fails has   *)
(* changed nothing.                                                        *)
(***************************************************************************)
EXTENDS BlobStore

(* UploadBuffer and UploadFile of the SDK.  Blocks that it staged before a *)
(* failure are left out: no list ever names their random ids.              *)
Upload(m, s, data, f) ==
  LET at  == Starts(0, Len(data), m.part)
      ids == FreshIds(UsedIds(s, <<>>), Len(at))
      Put(t, k) == Stage(t, ids[k], Bytes(data, at[k], at[k] + m.part))
  IN CASE f.call \in {"put", "stage", "commit"} -> Outcome(s, <<>>, FALSE)
       [] f.call \notin {"put", "stage", "commit"} /\ Len(data) <= m.whole ->
            Outcome(PutWhole(m, s, data), <<>>, TRUE)
       [] OTHER ->
            Outcome(CommitBlockList(Fold(Put, s, [k \in DOMAIN at |-> k]), ids),
                    <<>>, TRUE)

WriteFromBuffer(m, s, data, f) == Upload(m, s, data, f)

WriteFromFile(m, s, file, f) == Upload(m, s, file, f)

(* The whole blob, or an error.                                            *)
ReadToFile(s, f) == [ok |-> f.call # "read", data |-> s.data]

(* ReadBuffer returns a buffer of zeros with its error.                    *)
ReadBuffer(s, f) == IF f.call = "read" THEN Zeros(Len(s.data)) ELSE s.data

(* A read into a buffer of n bytes.  A range that starts beyond the blob   *)
(* is an error, one that ends beyond it leaves the rest of the buffer.     *)
ReadInBuffer(s, offset, length, n, f) ==
  [ok   |-> f.call # "read" /\ offset < Len(s.data),
   data |-> Buffer(n, IF f.call = "read" THEN <<>>
                      ELSE Bytes(s.data, offset, offset + length))]

GetFileBlockOffsets(s) ==
  LET sizes == [k \in DOMAIN s.ids |-> s.ids[k].len]
  IN Listed([k \in DOMAIN s.ids |->
               Block(s.ids[k].id, StartOf(sizes, k), StartOf(sizes, k + 1), <<>>)])

(* The blocks that the block cache finds, as [id, offset, size].           *)
GetCommittedBlockList(s) ==
  LET sizes == [k \in DOMAIN s.ids |-> s.ids[k].len]
  IN [k \in DOMAIN s.ids |->
        [id |-> s.ids[k].id, offset |-> StartOf(sizes, k), size |-> sizes[k]]]

-----------------------------------------------------------------------------
createNewBlocks(m, s, bl, offset, length) ==
  NewBlocks(m.part, UsedIds(s, bl), bl[Len(bl)].end, offset + length)

(* Mutant: the flags go before the blocks are staged, failure or not.      *)
StageDirtyClearingAll(s, bl, f) ==
  LET Nth(k) == Cardinality({j \in 1 .. k : bl[j].dirty})
      bad    == {k \in DOMAIN bl :
                   f.call = "stage" /\ bl[k].dirty /\ Nth(k) = f.nth}
      Done(k) == bl[k].dirty /\ \A j \in bad : k < j
      Put(t, k) == IF Done(k) THEN Stage(t, bl[k].id, Holds(bl[k])) ELSE t
  IN Outcome(Fold(Put, s, [k \in DOMAIN bl |-> k]),
             Listed([k \in DOMAIN bl |->
                       [bl[k] EXCEPT !.dirty = FALSE,
                                     !.trunc = @ /\ \E j \in bad : j < k]]),
             bad = {})

(* The dirty blocks are staged in order until a call fails; then the flags *)
(* of the ones that are staged are gone and the rest keep theirs.          *)
StageDirty(s, bl, f) ==
  LET Nth(k) == Cardinality({j \in 1 .. k : bl[j].dirty})
      bad    == {k \in DOMAIN bl :
                   f.call = "stage" /\ bl[k].dirty /\ Nth(k) = f.nth}
      Done(k) == bl[k].dirty /\ \A j \in bad : k < j
      Put(t, k) == IF Done(k) THEN Stage(t, bl[k].id, Holds(bl[k])) ELSE t
  IN Outcome(Fold(Put, s, [k \in DOMAIN bl |-> k]),
             Listed([k \in DOMAIN bl |->
                       [bl[k] EXCEPT !.dirty = @ /\ ~Done(k),
                                     !.trunc = @ /\ \E j \in bad : j < k]]),
             bad = {})

CommitIds(s, bl, f) ==
  LET list == Listed([k \in DOMAIN bl |-> bl[k].id])
  IN IF f.call # "commit" /\ CanCommit(s, list)
       THEN Outcome(CommitBlockList(s, list), bl, TRUE)
       ELSE Outcome(s, bl, FALSE)

stageAndCommitModifiedBlocks(s, buf, bl, f) ==
  LET t == StageDirty(s, Slices(bl, buf), f)
  IN IF t.ok THEN CommitIds(t.s, bl, f) ELSE Outcome(t.s, bl, FALSE)

(* The flags of the staged blocks are cleared before the list is committed. *)
StageAndCommit(s, bl, modified, f) ==
  LET t == StageDirty(s, bl, f)
  IN CASE ~t.ok -> t
       [] t.ok /\ (modified \/ \E k \in DOMAIN bl : bl[k].dirty) ->
            CommitIds(t.s, t.bl, f)
       [] OTHER -> t

WriteToBlocks(m, s, all, w, offset, data, f) ==
  LET at    == all[w.index + 1].start
      total == w.size + (all[Len(all)].end - w.bl[Len(w.bl)].end)
      old   == IF w.appendOnly THEN Zeros(total)
               ELSE ReadInBuffer(s, at, w.size, total, f).data
  IN stageAndCommitModifiedBlocks(s, Over(old, offset - at, data), all, f)

WriteOver(m, s, w, offset, data, f) ==
  WriteToBlocks(m, s,
                IF w.exceeds THEN w.bl \o createNewBlocks(m, s, w.bl, offset, Len(data))
                ELSE w.bl, w, offset, data, f)

Write(m, s, offset, data, f) ==
  LET bl == GetFileBlockOffsets(s)
  IN IF bl = <<>>
       THEN WriteFromBuffer(m, s, SmallWrite(ReadBuffer(s, f), offset, data), f)
       ELSE WriteOver(m, s, FindBlocksToModify(bl, offset, Len(data)), offset, data, f)

-----------------------------------------------------------------------------
(* Growing: with a block size of the caller the last block is filled up,   *)
(* under a new id, before zero blocks follow it.                           *)
createNewBlocksTruncate(m, s, bl, newSize, blockSize, f) ==
  LET size == IF blockSize = 0 THEN m.part ELSE blockSize
      n    == Len(bl)
      id   == FreshIds(UsedIds(s, bl), 1)[1]
      last == bl[n]
      end  == Lesser(last.start + size, newSize)
      got  == ReadInBuffer(s, last.start, end - last.start, end - last.start, f)
      fill == blockSize # 0 /\ n > 0 /\ Size(last) < size
      old  == IF fill
                THEN [bl EXCEPT ![n] = [@ EXCEPT !.id = id, !.end = end,
                                                 !.data = got.data, !.dirty = TRUE]]
                ELSE bl
      from == IF n = 0 THEN 0 ELSE old[n].end
      used == UsedIds(s, bl) \cup {id}
  IN Outcome(s, old \o NewBlocks(size, used, from, newSize), ~fill \/ got.ok)

(* Mutant: the block that is cut keeps its id.                             *)
removeBlocksKeepingId(s, bl, newSize, f) ==
  LET n   == Cardinality({k \in DOMAIN bl : bl[k].start < newSize})
      b   == bl[n]
      got == ReadInBuffer(s, b.start, newSize - b.start, newSize - b.start, f)
      cut == [b EXCEPT !.end = newSize,
                       !.data = got.data, !.dirty = TRUE]
  IN CASE bl = <<>> -> Outcome(s, bl, FALSE)
       [] bl # <<>> /\ b.end > newSize ->
            Outcome(s, Append(SubSeq(bl, 1, n - 1), cut), got.ok)
       [] OTHER -> Outcome(s, SubSeq(bl, 1, n), TRUE)

(* Shrinking: the block that the new end cuts is kept under a new id.      *)
removeBlocksTruncate(s, bl, newSize, f) ==
  LET n   == Cardinality({k \in DOMAIN bl : bl[k].start < newSize})
      b   == bl[n]
      got == ReadInBuffer(s, b.start, newSize - b.start, newSize - b.start, f)
      cut == [b EXCEPT !.id = FreshIds(UsedIds(s, bl), 1)[1], !.end = newSize,
                       !.data = got.data, !.dirty = TRUE]
  IN CASE bl = <<>> -> Outcome(s, bl, FALSE)
       [] bl # <<>> /\ b.end > newSize ->
            Outcome(s, Append(SubSeq(bl, 1, n - 1), cut), got.ok)
       [] OTHER -> Outcome(s, SubSeq(bl, 1, n), TRUE)

TruncateFileWithoutBlocks(m, s, newSize, f) ==
  LET old == Len(s.data)
      got == ReadInBuffer(s, 0, Lesser(newSize, old), newSize, f)
  IN IF old > 0 /\ ~got.ok THEN Outcome(s, <<>>, FALSE)
     ELSE WriteFromBuffer(m, s, got.data, f)

(* The blocks of a blob without blocks are only made when the caller gives *)
(* no block size.                                                          *)
TruncateFileUsingBlocks(m, s, newSize, blockSize, f) ==
  LET oldSize == Len(s.data)
      stored  == GetFileBlockOffsets(s)
      whole   == stored = <<>> /\ oldSize > 0
      got     == ReadInBuffer(s, 0, oldSize, oldSize, f)
      at      == Starts(0, oldSize, m.part)
      ids     == FreshIds(UsedIds(s, <<>>), Len(at))
      bl      == IF whole /\ blockSize = 0
                   THEN [k \in DOMAIN at |->
                           createBlockFromBuffer(ids[k], at[k],
                             Bytes(got.data, at[k], at[k] + m.part))]
                   ELSE stored
      t       == IF newSize < oldSize
                   THEN removeBlocksTruncate(s, bl, newSize, f)
                   ELSE createNewBlocksTruncate(m, s, bl, newSize, blockSize, f)
  IN IF \/ whole /\ (oldSize > m.whole \/ ~got.ok)
        \/ ~whole /\ ~ValidateBlockListAgainstFileSize(stored, oldSize)
        \/ ~t.ok
       THEN Outcome(s, <<>>, FALSE)
       ELSE StageAndCommit(s, t.bl, TRUE, f)

TruncateFile(m, s, newSize, blockSize, f) ==
  CASE newSize = Len(s.data) -> Outcome(s, <<>>, TRUE)
    [] newSize # Len(s.data) /\ newSize = 0 -> WriteFromBuffer(m, s, <<>>, f)
    [] newSize \notin {0, Len(s.data)} /\ newSize <= m.whole /\ blockSize = 0 ->
         TruncateFileWithoutBlocks(m, s, newSize, f)
    [] OTHER -> TruncateFileUsingBlocks(m, s, newSize, blockSize, f)

-----------------------------------------------------------------------------
(* The block cache stages blocks under ids of its own and commits lists.   *)
StageBlock(s, id, data, f) ==
  IF f.call = "stage" THEN Outcome(s, <<>>, FALSE)
  ELSE Outcome(Stage(s, id, data), <<>>, TRUE)

CommitBlocks(m, s, list, f) ==
  IF f.call = "commit" \/ ~CanCommit(s, list) THEN Outcome(s, <<>>, FALSE)
  ELSE Outcome(CommitBlockList(s, list), <<>>, TRUE)
=============================================================================
