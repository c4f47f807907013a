---------------------------- MODULE MCDirectory ----------------------------
(* The mounts on which Directory is checked.                               *)
EXTENDS Directory

Files(S) == {<<1, n>> : n \in S}
Plain == [n \in Names |-> "file"]
Lister ==
    [top |-> "none", store |-> "s3", kind |-> Plain, count |-> 2, limit |-> 4,
     short |-> FALSE, rooms |-> {1, 3}, files |-> Files(Names), dirs |-> {1},
     cached |-> {}, writes |-> {}, handles |-> {1}, ops |-> {"other"}, moves |-> {}, apart |-> FALSE,
     known |-> FALSE, negative |-> FALSE, undo |-> FALSE, missed |-> {}, changes |-> 2]

\* Listing alone: pages of each store, another client changing the directory.
ListS3 == [Lister EXCEPT !.kind = [Plain EXCEPT ![2] = "virtual"], !.dirs = {1},
                         !.ops = @ \cup {"outage"}]
ListS3NoMarker == [Lister EXCEPT !.dirs = {}, !.count = 3]
ListBlob == [Lister EXCEPT !.store = "blob", !.short = TRUE, !.rooms = {2},
                           !.kind = [n \in Names |-> IF n = 1 THEN "marked"
                                                     ELSE IF n = 2 THEN "virtual"
                                                     ELSE IF n = 3 THEN "bare" ELSE "file"]]
ListDataLake == [Lister EXCEPT !.store = "hns", !.kind = [Plain EXCEPT ![1] = "virtual"], !.limit = 3]
\* entry_cache keeps the pages of a read-only mount.
ListEntry == [Lister EXCEPT !.top = "entry", !.handles = Handles, !.rooms = {5},
                            !.files = Files({1, 2, 3}), !.changes = 2]
\* file_cache adds the names that only it has.
ListFile == [Lister EXCEPT !.top = "file", !.files = Files(Names \ {2}), !.rooms = {2, 5},
                           !.cached = Files({1, 4}), !.writes = Files({2, 4}),
                           !.ops = {"write", "evict"}, !.changes = 3]

\* Directories made, filled, renamed and removed around outages.
Folders ==
    [Lister EXCEPT !.top = "file", !.store = "blob", !.handles = {}, !.ops = {"mkdir", "rmdir", "rename", "write", "outage"},
                   !.files = {<<1, 1>>}, !.dirs = {1}, !.cached = {<<1, 1>>}, !.apart = TRUE,
                   !.writes = {<<1, 1>>, <<1, 2>>, <<2, 2>>},
                   !.moves = {<<1, 2>>, <<2, 1>>}, !.known = TRUE, !.negative = TRUE, !.changes = 7]
\* From nothing.  Without rmdir: a queued deletion of the destination outlives a
\* rename onto it and removes what was renamed.
FoldersNew == [Folders EXCEPT !.files = {}, !.cached = {}, !.dirs = {},
                              !.ops = @ \ {"rmdir"}]
FoldersUnknown == [Folders EXCEPT !.known = FALSE, !.cached = {}]
\* A rename beside the uploader, where every file is in the cloud and in the cache.
Beside == [Folders EXCEPT !.apart = FALSE, !.files = Files({1, 2}), !.cached = Files({1, 2}),
                          !.writes = Files({1, 2}), !.moves = {<<1, 2>>},
                          !.ops = {"rename", "write"}, !.changes = 4]
\* The same, with the directory that sorts later as the source.
BesideLater == [Beside EXCEPT !.files = {<<2, 1>>}, !.cached = {<<2, 1>>}, !.dirs = {2},
                              !.writes = {<<2, 1>>}, !.moves = {<<2, 1>>}]

\* A directory that is made and removed offline.
Undone == [FoldersNew EXCEPT !.undo = TRUE, !.ops = {"mkdir", "rmdir", "outage"}]
\* Another client has written a file since the attribute cache listed the directory.
Missed == [Folders EXCEPT !.cached = {}, !.missed = {<<1, 1>>}, !.ops = {"rmdir", "outage"}]

AllMounts == {ListS3, ListS3NoMarker, ListBlob, ListDataLake, ListEntry, ListFile,
              Folders, FoldersNew, FoldersUnknown, Beside}
LaterMounts == {BesideLater}
UndoMounts == {Undone}
MissedMounts == {Missed}
=============================================================================
