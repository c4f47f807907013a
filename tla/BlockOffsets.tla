---------------------------- MODULE BlockOffsets ----------------------------
(***************************************************************************)
(* The block lists that the stream component and both storage back ends    *)
(* share (common/types.go).  A file is a sequence of cells, a cell is a    *)
(* small number and 0 stands for a zero byte; offsets are counted from 0,  *)
(* as in the code.  A block of a list covers [start, end) of the file and  *)
(* data is <<>> while its bytes are not in memory.                         *)
(***************************************************************************)
EXTENDS Integers, FiniteSets, Sequences, SequencesExt

(* op(...op(op(base, seq[1]), seq[2])..., seq[n])                           *)
Fold(op(_, _), base, seq) ==
  LET upTo[n \in 0 .. Len(seq)] ==
        IF n = 0 THEN base ELSE op(upTo[n - 1], seq[n])
  IN upTo[Len(seq)]

(* A sequence itself; written out, so that TLC evaluates each element once. *)
Listed(s) == SubSeq(s, 1, Len(s))

Lesser(a, b) == IF a < b THEN a ELSE b

Zeros(n) == Listed([i \in 1 .. n |-> 0])

(* The bytes [from, to) of s, as far as s reaches.                         *)
Bytes(s, from, to) == SubSeq(s, from + 1, Lesser(to, Len(s)))

(* Go's copy(old[off:], new).                                              *)
Over(old, off, new) ==
  Listed([i \in 1 .. Len(old) |->
            IF i > off /\ i <= off + Len(new) THEN new[i - off] ELSE old[i]])

(* A buffer of n bytes that starts with s.                                 *)
Buffer(n, s) == Over(Zeros(n), 0, s)

Block(id, start, end, data) ==
  [id |-> id, start |-> start, end |-> end, data |-> data,
   dirty |-> FALSE, trunc |-> FALSE]

Size(b) == b.end - b.start

(* A block that truncating created: it holds zeros and is not stored yet.  *)
createBlock(id, start, size) ==
  [Block(id, start, start + size, <<>>) EXCEPT !.dirty = TRUE, !.trunc = TRUE]

(* A new block that holds data.                                            *)
createBlockFromBuffer(id, start, data) ==
  [Block(id, start, start + Len(data), data) EXCEPT !.dirty = TRUE]

(* The n smallest numbers outside used: random identifiers never collide.  *)
FreshIds(used, n) ==
  Listed([k \in 1 .. n |->
            CHOOSE i \in (1 .. Cardinality(used) + n) \ used :
              Cardinality((1 .. i - 1) \ used) = k - 1])

(* for i := from; i < to; i += size: where the pieces start.               *)
Starts(from, to, size) ==
  Listed([k \in 1 .. (to - from + size - 1) \div size |-> from + (k - 1) * size])

BinarySearch(bl, offset) ==
  LET n == Len(bl)
      Look[lo \in 0 .. n, hi \in -1 .. n] ==
        LET mid == (lo + hi) \div 2
        IN CASE lo > hi                     -> [found |-> FALSE, index |-> n]
             [] lo <= hi /\ bl[mid + 1].end <= offset  -> Look[mid + 1, hi]
             [] lo <= hi /\ bl[mid + 1].start > offset -> Look[lo, mid - 1]
             [] OTHER                       -> [found |-> TRUE, index |-> mid]
  IN Look[0, n - 1]

(* The positions in bl of the blocks that [offset, offset+length] meets.   *)
BlocksFrom(bl, s, offset, length) ==
  LET Take(acc, k) ==
        IF /\ acc.at >= bl[k].start /\ acc.at < bl[k].end
           /\ acc.at <= offset + length
          THEN [at |-> bl[k].end, met |-> Append(acc.met, k)]
          ELSE acc
  IN IF ~s.found THEN <<>>
     ELSE Fold(Take, [at |-> offset, met |-> <<>>],
                   [k \in 1 .. Len(bl) - s.index |-> s.index + k]).met

FindBlocks(bl, offset, length) ==
  BlocksFrom(bl, BinarySearch(bl, offset), offset, length)

(* What a write to [offset, offset+length) has to do with a block list.    *)
ToModify(bl, s, met, end) ==
  [index      |-> s.index,
   bl         |-> Listed([k \in DOMAIN bl |->
                            [bl[k] EXCEPT !.dirty = @ \/ k \in ToSet(met)]]),
   size       |-> Fold(LAMBDA n, k : n + Size(bl[k]), 0, met),
   exceeds    |-> ~s.found \/ end >= bl[Len(bl)].end,
   appendOnly |-> ~s.found]

FindBlocksToModify(bl, offset, length) ==
  ToModify(bl, BinarySearch(bl, offset), FindBlocks(bl, offset, length), offset + length)

ValidateBlockListAgainstFileSize(bl, size) ==
  IF bl = <<>> THEN size = 0 ELSE bl[Len(bl)].end = size
=============================================================================
