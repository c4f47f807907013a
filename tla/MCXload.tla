------------------------------ MODULE MCXload ------------------------------
(* Instances of Xload for TLC.                                             *)
EXTENDS Xload, TLC

CONSTANTS root, d, a, b, z, l1, s1, s2, w1, w2, u1, u2

\* A file of two blocks in the root, one of one block and an empty one in d.
MCAbove == (d :> root) @@ (a :> root) @@ (b :> d) @@ (z :> d)
MCBlocks == (a :> 2) @@ (b :> 1) @@ (z :> 0)
MCDirs == {d}
MCFiles == {a, b, z}
MCListers == {l1}
MCSplitters == {s1, s2}
MCWorkers == {w1, w2}
MCUsers == {u1, u2}

\* One user, one worker of each kind, a block in reserve.
Plain == [files |-> {a, b, z}, dirs |-> {d}, splitters |-> {s1}, users |-> {u1}, workers |-> {w1},
          urgent |-> {}, pool |-> 2, reserved |-> 1, room |-> 1, versions |-> 1, md5 |-> FALSE,
          fails |-> {}, faults |-> 0, stops |-> FALSE]

\* A pool of one block for a splitter and two users, who wait for each other.
Scarce == [Plain EXCEPT !.files = {a}, !.dirs = {}, !.users = {u1, u2}, !.pool = 1, !.reserved = 0]

\* Two splitters and two data workers, one of them for users.
Wide == [Plain EXCEPT !.files = {a, b}, !.splitters = {s1, s2}, !.workers = {w1, w2}, !.urgent = {w1}]

\* Requests and local calls fail.
Faulty == [Plain EXCEPT !.files = {a}, !.dirs = {}, !.faults = 2, !.fails = {"attr", "truncate", "read", "write", "open"},
                        !.pool = 1, !.reserved = 0]
FaultyDir == [Plain EXCEPT !.files = {b, z}, !.faults = 1, !.fails = {"list", "mkdir", "create", "read"}]

\* Answers come out of order, and some of them fail.
FaultyWide == [Faulty EXCEPT !.workers = {w1, w2}, !.pool = 2, !.fails = {"read", "write"}]

\* Files change while they are read, and checksums are compared.
Changing == [Plain EXCEPT !.files = {a}, !.dirs = {}, !.versions = 2, !.md5 = TRUE]

\* The mount is taken down.
Stopping == [Plain EXCEPT !.files = {b}, !.stops = TRUE]

AllMounts == {Plain, Scarce, Wide, Faulty, FaultyDir, FaultyWide, Changing, Stopping}
=============================================================================
