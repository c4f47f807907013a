------------------------------ MODULE S3Client ------------------------------
(***************************************************************************)
(* The operations of s3storage/client.go on one object (see BlobStore).    *)
(* An object has no blocks of its own: from m.whole bytes on, the client   *)
(* treats it as parts of m.part bytes.  A part is uploaded or copied from  *)
(* the object as it is; completing the upload replaces the object.         *)
(***************************************************************************)
EXTENDS BlobStore

(* PutObject, or a multipart upload of a large object.                     *)
WriteFromBuffer(m, s, data, f) ==
  IF f.call = "put" THEN Outcome(s, <<>>, FALSE)
  ELSE Outcome(PutWhole(m, s, data), <<>>, TRUE)

WriteFromFile(m, s, file, f) == WriteFromBuffer(m, s, file, f)

ReadToFile(s, f) == [ok |-> f.call # "read", data |-> s.data]

(* ReadBuffer returns nothing with its error.                              *)
ReadBuffer(s, f) == IF f.call = "read" THEN <<>> ELSE s.data

ReadInBuffer(s, offset, length, n, f) ==
  [ok   |-> f.call # "read" /\ offset < Len(s.data),
   data |-> Buffer(n, IF f.call = "read" THEN <<>>
                      ELSE Bytes(s.data, offset, offset + length))]

(* The parts of an object of this size; none below the cutoff.             *)
GetFileBlockOffsets(m, s) ==
  LET size == Len(s.data)
      at   == IF size = 0 THEN <<0>> ELSE Starts(0, size, m.part)
      ids  == FreshIds({}, Len(at))
  IN IF size < m.whole THEN <<>>
     ELSE Listed([k \in DOMAIN at |->
                    Block(ids[k], at[k], Lesser(at[k] + m.part, size), <<>>)])

(* The same parts for the block cache, under ids that were never staged.   *)
GetCommittedBlockList(m, s) ==
  LET bl  == GetFileBlockOffsets(m, s)
      ids == FreshIds(DOMAIN s.staged, Len(bl))
  IN [k \in DOMAIN bl |->
        [id |-> ids[k], offset |-> bl[k].start, size |-> Size(bl[k])]]

createNewBlocks(m, bl, offset, length) ==
  NewBlocks(m.part, IdsOf(bl), bl[Len(bl)].end, offset + length)

-----------------------------------------------------------------------------
(* Inner blocks that are too small are joined with what follows, reading   *)
(* what is not in memory from the object.                                  *)
combineSmallBlocks(m, s, bl, f) ==
  LET Fetched(b) == IF b.data = <<>> /\ ~b.trunc
                      THEN Bytes(s.data, b.start, b.end) ELSE b.data
      Join(acc, k) ==
        LET b    == bl[k]
            n    == Len(acc.bl)
            copy == acc.begin /\ Size(b) >= m.minPart
            new  == CASE copy -> b
                      [] ~copy /\ acc.begin ->
                           [Block(b.id, b.start, b.end, Fetched(b))
                              EXCEPT !.dirty = TRUE]
                      [] OTHER -> [acc.bl[n] EXCEPT !.data = @ \o Fetched(b),
                                                    !.end = b.end]
            list == IF acc.begin THEN Append(acc.bl, new)
                    ELSE [acc.bl EXCEPT ![n] = new]
        IN [bl |-> list, begin |-> Size(new) >= m.minPart,
            read |-> acc.read \/ (~copy /\ b.data = <<>> /\ ~b.trunc)]
      r == Fold(Join, [bl |-> <<>>, begin |-> TRUE, read |-> FALSE],
                    [k \in DOMAIN bl |-> k])
  IN Outcome(s, r.bl, ~(r.read /\ f.call = "read"))

(* Every part is uploaded again when its bytes are at hand, and copied     *)
(* from the object otherwise.  Flags are cleared part by part.             *)
Complete(m, s, bl, parts, ok) ==
  IF ok /\ CanComplete(m, parts) THEN Outcome(PutWhole(m, s, Joined(parts)), bl, TRUE)
  ELSE Outcome(s, bl, FALSE)

UploadParts(m, s, bl, f) ==
  LET stop  == IF f.call = "stage" /\ f.nth <= Len(bl) THEN f.nth ELSE Len(bl) + 1
      up(k) == bl[k].dirty \/ Holds(bl[k]) # <<>>
      parts == Listed([k \in DOMAIN bl |->
                         IF up(k) THEN Holds(bl[k])
                         ELSE Bytes(s.data, bl[k].start, bl[k].end)])
      after == Listed([k \in DOMAIN bl |->
                         [bl[k] EXCEPT !.dirty = @ /\ k >= stop, !.trunc = @ /\ k > stop]])
  IN Complete(m, s, after, parts, stop > Len(bl) /\ f.call # "commit")

UploadCombined(m, s, list, c, f) ==
  IF c.ok THEN UploadParts(m, s, c.bl, f) ELSE Outcome(s, list, FALSE)

StageAndCommit(m, s, list, f) ==
  LET few == \E k \in 1 .. Len(list) - 1 : Len(list[k].data) < m.minPart
  IN IF \E k \in DOMAIN list : list[k].dirty
       THEN UploadCombined(m, s, list, IF few THEN combineSmallBlocks(m, s, list, f)
                                       ELSE Outcome(s, list, TRUE), f)
       ELSE Outcome(s, list, TRUE)

stageAndCommitModifiedBlocks(m, s, buf, bl, f) ==
  StageAndCommit(m, s, Slices(bl, buf), f)

WriteToBlocks(m, s, all, w, offset, data, f) ==
  LET at    == all[w.index + 1].start
      total == w.size + (all[Len(all)].end - w.bl[Len(w.bl)].end)
      old   == IF w.appendOnly THEN Zeros(total)
               ELSE ReadInBuffer(s, at, w.size, total, f).data
  IN stageAndCommitModifiedBlocks(m, s, Over(old, offset - at, data), all, f)

WriteOver(m, s, w, offset, data, f) ==
  WriteToBlocks(m, s,
                IF w.exceeds THEN w.bl \o createNewBlocks(m, w.bl, offset, Len(data))
                ELSE w.bl, w, offset, data, f)

Write(m, s, offset, data, f) ==
  LET bl == GetFileBlockOffsets(m, s)
  IN IF bl = <<>>
       THEN WriteFromBuffer(m, s, SmallWrite(ReadBuffer(s, f), offset, data), f)
       ELSE WriteOver(m, s, FindBlocksToModify(bl, offset, Len(data)), offset, data, f)

(* The whole object is read, cut or padded, and put back.                  *)
TruncateFile(m, s, size, f) ==
  IF f.call = "read" THEN Outcome(s, <<>>, FALSE)
  ELSE WriteFromBuffer(m, s, Buffer(size, s.data), f)

-----------------------------------------------------------------------------
(* The block cache stages in the client's memory, under the object's name. *)
StageBlock(s, id, data) == Outcome(Stage(s, id, data), <<>>, TRUE)

cleanupStagedBlocks(s) == [s EXCEPT !.staged = NoneStaged]

(* An id that is not staged aborts the upload; a part that fails, or is    *)
(* too small and not the last, only ends it: what came before is completed. *)
CommitBlocks(m, s, list, f) ==
  LET Small(k) == Len(s.staged[list[k]]) < m.minPart /\ k < Len(list)
      Ends(k)  == \/ list[k] \notin DOMAIN s.staged
                  \/ Small(k)
                  \/ f.call = "stage" /\ f.nth = k
      n        == IF \E k \in DOMAIN list : Ends(k)
                    THEN CHOOSE k \in DOMAIN list :
                           Ends(k) /\ \A j \in 1 .. k - 1 : ~Ends(j)
                    ELSE Len(list) + 1
      unknown  == n <= Len(list) /\ list[n] \notin DOMAIN s.staged
      clean    == cleanupStagedBlocks(s)
  IN CASE DOMAIN s.staged = {} /\ list = <<>> -> WriteFromBuffer(m, s, <<>>, f)
       [] DOMAIN s.staged = {} /\ list # <<>> -> Outcome(s, <<>>, FALSE)
       [] DOMAIN s.staged # {} /\ (unknown \/ f.call = "commit" \/ n = 1) ->
            Outcome(clean, <<>>, FALSE)
       [] OTHER ->
            Outcome(PutWhole(m, clean, Joined([k \in 1 .. n - 1 |->
                                                     s.staged[list[k]]])), <<>>, TRUE)
=============================================================================
