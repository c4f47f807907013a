------------------------------ MODULE MCStream ------------------------------
(* Small mounts of the storage back ends and of what is mounted on them.   *)
EXTENDS Stream

CONSTANTS h1, h2

MCHandles == {h1, h2}

Calls(names) == {NoFault} \cup {[call |-> c, nth |-> 1] : c \in names}

StageFails == {[call |-> "stage", nth |-> 1], [call |-> "stage", nth |-> 2]}

\* Objects to start from: in one piece, and in committed blocks.
Whole(data) == [data |-> data, ids |-> <<>>, staged |-> NoneStaged]

InBlocksOf(data, ids) == [data |-> data, ids |-> ids, staged |-> NoneStaged]

Blk(i, n) == [id |-> i, len |-> n]

\* Azure without a buffer: writes at any offset and truncations of a blob in
\* three blocks, while calls to the service fail.
Direct ==
  [top |-> "direct", service |-> "azure", part |-> 2, whole |-> 3, minPart |-> 1,
   blockSize |-> 2, buffer |-> 0, limit |-> 0, others |-> 0, blocks |-> 0,
   exists |-> TRUE, start |-> InBlocksOf(<<1, 2, 1, 2, 1>>, <<Blk(1, 2), Blk(2, 2), Blk(3, 1)>>),
   handles |-> {h1}, opens |-> 1, changes |-> 3, gaps |-> "nonempty",
   values |-> {3}, lengths |-> 1 .. 3,
   ops |-> {"open", "write", "release", "truncate"}, faults |-> Calls({})]

DirectFaulty ==
  [Direct EXCEPT !.start = InBlocksOf(<<1, 2, 1, 2>>, <<Blk(1, 2), Blk(2, 2)>>),
                 !.gaps = "never", !.lengths = {1, 3},
                 !.faults = Calls({"put", "commit"}) \cup StageFails]

\* The same for S3, where the parts have a least size.
DirectS3 == [Direct EXCEPT !.service = "s3", !.minPart = 2, !.start = Whole(<<1, 2, 1>>)]

DirectS3Faulty == [DirectS3 EXCEPT !.gaps = "never", !.lengths = {1, 3},
                                   !.faults = Calls({"put", "commit"}) \cup StageFails]

\* Whole files, as the file cache uploads them; reads fail as well.
Files == [Direct EXCEPT !.top = "file", !.values = {3, 5}, !.ops = {"upload", "download", "truncate", "delete"},
                        !.faults = Calls({"read", "put", "commit"})]

FilesS3 == [Files EXCEPT !.service = "s3", !.start = Whole(<<1, 2>>)]

\* Block lists, as the block cache commits them, and truncations by it.
Blocks == [Direct EXCEPT !.top = "block", !.ops = {"stage", "commit", "list", "truncate", "delete"},
                         !.blocks = 4, !.faults = Calls({"stage", "commit", "read"})]

BlocksS3 == [Blocks EXCEPT !.service = "s3", !.start = Whole(<<>>), !.exists = FALSE,
                           !.ops = {"stage", "commit", "list", "delete"}, !.changes = 4,
                           !.faults = Calls({"commit"})]

\* A cache for each handle: two blocks fit, dirty ones are flushed to make room.
Handle ==
  [Direct EXCEPT !.top = "handle", !.buffer = 3, !.limit = 1, !.opens = 2,
                 !.changes = 3, !.lengths = {1, 3}, !.gaps = "always",
                 !.ops = {"open", "read", "write", "flush", "release"}]

HandleNew == [Handle EXCEPT !.exists = FALSE, !.start = Whole(<<>>), !.opens = 1,
                            !.ops = {"create", "read", "write", "flush", "release"}]

HandleFaulty == [Handle EXCEPT !.buffer = 9, !.faults = Calls({"commit"}) \cup StageFails,
                               !.opens = 1, !.ops = {"open", "write", "flush", "release"}]

HandleS3 == [Handle EXCEPT !.service = "s3", !.start = Whole(<<1, 2, 1, 2>>), !.buffer = 9,
                           !.opens = 1, !.faults = Calls({"stage", "commit"})]

\* One buffer for all handles of the file.
Name == [Handle EXCEPT !.changes = 2, !.top = "name", !.handles = {h1, h2}, !.buffer = 9, !.lengths = {2},
                       !.ops = {"open", "read", "write", "flush", "release", "getattr"}]

NameS3 == [Name EXCEPT !.lengths = {3}, !.service = "s3", !.start = Whole(<<1, 2, 1, 2>>)]

\* The same with evictions, and with calls that drop the buffer which a
\* failed release left behind.
NameAlone == [Name EXCEPT !.lengths = {1, 3}, !.handles = {h1}, !.buffer = 3,
                          !.ops = {"open", "read", "write", "release", "getattr", "stop"}]

NameFaulty == [Name EXCEPT !.lengths = {1, 3}, !.handles = {h1}, !.blockSize = 6, !.faults = Calls({"stage", "commit"}),
                           !.ops = {"create", "open", "write", "release", "getattr", "truncate",
                                    "delete", "rename", "rmdir", "mvdir"}]

\* The buffer that a failed flush leaves, and the handles that come after it.
NameRetries == [Name EXCEPT !.lengths = {1, 3}, !.handles = {h1}, !.faults = Calls({"commit"}),
                            !.ops = {"open", "read", "write", "flush", "release", "getattr"}]

\* Read only, while other files take the places in memory.
Reading == [Handle EXCEPT !.top = "read", !.handles = {h1, h2}, !.buffer = 2,
                          !.ops = {"open", "read", "release", "others", "stop"}]

ReadingS3 == [Reading EXCEPT !.top = "handle", !.service = "s3", !.start = Whole(<<1, 2, 1, 2, 1>>)]

AllMounts == {Direct, DirectFaulty, DirectS3, DirectS3Faulty, Files, FilesS3, Blocks, BlocksS3,
              Handle, HandleNew, HandleFaulty, HandleS3, Name, NameAlone, NameFaulty, NameRetries,
              NameS3, Reading, ReadingS3}

FaultyMounts == {HandleFaulty, HandleS3, NameRetries}
=============================================================================
