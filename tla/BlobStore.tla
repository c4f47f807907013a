----------------------------- MODULE BlobStore -----------------------------
(***************************************************************************)
(* How the two storage back ends write a part of an object, truncate it    *)
(* and replace it (azstorage/block_blob.go, s3storage/client.go), on top   *)
(* of services that only store whole blocks or whole objects.              *)
(*                                                                         *)
(* A store s holds one object:                                             *)
(*   data    its bytes,                                                    *)
(*   ids     Azure: the committed blocks, as [id, len] in order; <<>> is   *)
(*           an object stored in one piece (and every object of S3),       *)
(*   staged  the blocks that are staged and not committed, by id: in the   *)
(*           service (Azure), or in the client's map (S3, StageBlock).     *)
(* m holds the settings: service, part (block-size, part-size), whole      *)
(* (Azure: up to which size an object is put in one call; S3: the upload   *)
(* cutoff) and minPart (the smallest inner part that S3 accepts).          *)
(*                                                                         *)
(* An operation is an operator from a store to an outcome [s, bl, ok].     *)
(* f says which of its calls to the service fails, without an effect:      *)
(* [call |-> "none" | "read" | "put" | "stage" | "commit", nth], where nth *)
(* counts the staging calls.                                               *)
(***************************************************************************)
EXTENDS BlockOffsets

Outcome(s, bl, ok) == [s |-> s, bl |-> bl, ok |-> ok]

IdsOf(bl) == {bl[k].id : k \in DOMAIN bl}

UsedIds(s, bl) == IdsOf(s.ids) \cup DOMAIN s.staged \cup IdsOf(bl)

NoneStaged == [i \in {} |-> <<>>]

Joined(seqs) == Fold(\o, <<>>, seqs)

(* The byte at which the k-th block of a list with lengths starts.         *)
StartOf(sizes, k) == Fold(+, 0, SubSeq(sizes, 1, k - 1))

-----------------------------------------------------------------------------
(* The services, as the clients use them.                                  *)

(* Put Blob, PutObject: the object is replaced and staged blocks go.       *)
PutWhole(m, s, data) ==
  [data   |-> data,
   ids    |-> <<>>,
   staged |-> IF m.service = "azure" THEN NoneStaged ELSE s.staged]

(* The block that an id stands for: the staged one before the committed.   *)
Latest(s, id) ==
  IF id \in DOMAIN s.staged THEN s.staged[id]
  ELSE LET k == CHOOSE j \in DOMAIN s.ids : s.ids[j].id = id
           at == StartOf([j \in DOMAIN s.ids |-> s.ids[j].len], k)
       IN Bytes(s.data, at, at + s.ids[k].len)

Stage(s, id, data) ==
  [s EXCEPT !.staged = [i \in {id} \cup DOMAIN s.staged |->
                          IF i = id THEN data ELSE s.staged[i]]]

CanCommit(s, list) == ToSet(list) \subseteq IdsOf(s.ids) \cup DOMAIN s.staged

CommitBlockList(s, list) ==
  LET parts == Listed([k \in DOMAIN list |-> Latest(s, list[k])])
  IN [data   |-> Joined(parts),
      ids    |-> Listed([k \in DOMAIN list |->
                           [id |-> list[k], len |-> Len(parts[k])]]),
      staged |-> NoneStaged]

(* CompleteMultipartUpload refuses an inner part below the least size.     *)
CanComplete(m, parts) ==
  \A k \in 1 .. Len(parts) - 1 : Len(parts[k]) >= m.minPart

-----------------------------------------------------------------------------
(* Steps that both back ends take in the same way.                         *)

(* A write to an object without blocks: the bytes that replace the object. *)
SmallWrite(old, offset, data) ==
  LET length == Len(data)
  IN CASE Len(old) >= offset + length -> Over(old, offset, data)
       [] Len(old) < offset + length /\ old # <<>> ->
            Over(Buffer(offset + length, IF offset # 0 THEN old ELSE <<>>),
                 offset, data)
       [] OTHER -> data

(* createNewBlocks: blocks from the end of the list up to the write's end. *)
NewBlocks(size, used, from, to) ==
  LET at  == Starts(from, to, size)
      ids == FreshIds(used, Len(at))
  IN Listed([k \in DOMAIN at |->
               createBlock(ids[k], at[k], Lesser(size, to - at[k]))])

(* The dirty blocks of bl share buf in order, which covers all of them;    *)
(* a block that holds data is not one of zeros any more.                   *)
Slices(bl, buf) ==
  LET sizes == Listed([k \in DOMAIN bl |-> IF bl[k].dirty THEN Size(bl[k]) ELSE 0])
  IN Listed([k \in DOMAIN bl |->
               IF bl[k].dirty
                 THEN [bl[k] EXCEPT !.data = Bytes(buf, StartOf(sizes, k),
                                                   StartOf(sizes, k + 1)),
                                    !.trunc = FALSE]
                 ELSE bl[k]])

(* What a block of the list holds when it is staged.                       *)
Holds(b) == IF b.trunc THEN Zeros(Size(b)) ELSE b.data

=============================================================================
