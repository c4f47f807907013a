--------------------------- MODULE MCBlockCache ---------------------------
(* Instances of BlockCache for TLC.                                        *)
EXTENDS BlockCache, TLC

CONSTANTS h1, h2

TwoHandles == {h1, h2}

\* One user writes and reads a file of one and a half blocks, with no prefetch.
Writing == [
    blocks |-> 2, disk |-> FALSE, prefetch |-> 0, prefetchOnOpen |-> FALSE, lazyWrite |-> FALSE,
    cells |-> 3, users |-> {h1}, calls |-> {"rdwr", "read", "write", "flush"},
    truncOpen |-> FALSE,
    writes |-> "near", versions |-> 2, random |-> FALSE, fails |-> {}, preempt |-> FALSE]

\* The same with prefetch.
Prefetching == [Writing EXCEPT !.prefetch = 3]

\* A file is read sequentially and at random.
Reading == [Prefetching EXCEPT !.cells = 6, !.random = TRUE, !.calls = {"rdonly", "read"}]

\* Two readers and a disk cache; blocks are prefetched when the file is opened.
DiskReading == [Reading EXCEPT !.disk = TRUE, !.random = FALSE, !.prefetchOnOpen = TRUE, !.users = TwoHandles,
                               !.calls = {"rdonly", "read", "evict"}, !.cells = 3]

DiskWriting == [Writing EXCEPT !.disk = TRUE, !.calls = {"rdwr", "read", "write", "flush", "evict", "delete"},
                               !.versions = 1]

\* The cloud fails.
Failing == [Writing EXCEPT !.fails = {"read", "stage", "commit"}, !.versions = 1]

\* The disk fails.
DiskFailing == [DiskReading EXCEPT !.fails = {"disk"}, !.users = {h1}]

\* Files are made, truncated and written with gaps.
Creating == [Writing EXCEPT !.cells = 0, !.calls = {"create", "trunc", "write", "sync", "delete"},
                            !.lazyWrite = TRUE, !.writes = "any"]
Gaps == [Writing EXCEPT !.cells = 2, !.calls = {"rdwr", "read", "write", "flush"}, !.writes = "any",
                        !.versions = 1]
WriteOnly == [Writing EXCEPT !.cells = 1, !.calls = {"wronly", "write", "flush"}, !.versions = 1]

\* Whole blocks are appended while workers pause.
Appending == [Prefetching EXCEPT !.cells = 2, !.calls = {"rdwr", "read", "write", "flush"},
                                 !.writes = "append", !.preempt = TRUE]

\* A block that was staged and is gone from memory is written again.
Rewriting == [Writing EXCEPT !.cells = 0, !.calls = {"create", "write"}, !.writes = "whole",
                             !.versions = 4, !.fails = {"commit"}]

Truncating == [Writing EXCEPT !.cells = 2, !.calls = {"rdwr", "read", "truncate"}]

Sharing == [Writing EXCEPT !.users = TwoHandles, !.cells = 2, !.calls = {"rdwr", "read", "write"},
                           !.writes = "append", !.versions = 1]

\* A file that ends within a block grows after its blocks were read in turn, each into
\* the buffer of the one before.
Growing == [Writing EXCEPT !.prefetch = 1, !.calls = {"rdwr", "read", "write", "flush"}, !.writes = "any", !.versions = 1]

\* A read prefetches a block that is staged only, while its own block is short: the
\* commit stages that one again, and the prefetch reuses it.
Nested == [Writing EXCEPT !.blocks = 3, !.prefetch = 2, !.cells = 1, !.calls = {"rdwr", "read", "write"},
                          !.writes = "first"]

AllMounts == {Writing, Prefetching, Reading, DiskReading, DiskWriting, Failing, DiskFailing,
              Creating, Gaps, WriteOnly, Appending, Truncating, Sharing,
              Rewriting, Growing, Nested}

\* Three such writes: what is staged grows before it is committed.
SparseMounts == {[Nested EXCEPT !.versions = 3]}
=============================================================================
