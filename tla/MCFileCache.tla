---------------------------- MODULE MCFileCache ----------------------------
(* Instances of FileCache for TLC: the mounts the runs consider.           *)
EXTENDS FileCache, TLC

CONSTANTS f1, f2, h1, h2

TwoFiles == {f1, f2}
TwoHandles == {h1, h2}
OneFile == {f1}
OneHandle == {h1}

\* One handle slot on one file, the default configuration, a faultless cloud.
Base == [
    offlineAccess |-> TRUE, createEmptyFile |-> FALSE, lazyWrite |-> FALSE,
    refreshSec |-> FALSE, scheduled |-> FALSE,
    objects |-> {f1}, mayOpen |-> (h1 :> {f1}) @@ (h2 :> {}),
    deletes |-> {f1}, renames |-> {}, truncates |-> {}, evictable |-> {},
    cloudErrors |-> {}, losses |-> 0, sharedHandles |-> FALSE, races |-> FALSE]

\* Online: evictions, refreshes, truncations, failing uploads and downloads.
Online == [Base EXCEPT !.evictable = {f1}, !.refreshSec = TRUE,
    !.truncates = {"zero", "nonzero"}, !.cloudErrors = {"data"}, !.races = TRUE]

\* Two handles on one file, without evictions.
SameFile == [Base EXCEPT !.mayOpen = (h1 :> {f1}) @@ (h2 :> {f1}),
    !.refreshSec = TRUE, !.cloudErrors = {"data"}, !.races = TRUE]

\* Uploads in windows only, empty objects made by create.
Scheduled == [Base EXCEPT !.scheduled = TRUE, !.createEmptyFile = TRUE,
    !.truncates = {"zero", "nonzero"}, !.cloudErrors = {"data"}, !.races = TRUE]

\* Uploads on close and connection losses; nothing is deleted.
Offline == [Base EXCEPT !.lazyWrite = TRUE, !.losses = 2, !.deletes = {},
    !.mayOpen = (h1 :> {f1}) @@ (h2 :> {f1})]
OfflineBlocked == [Offline EXCEPT !.offlineAccess = FALSE]

\* Files are renamed to another name, and uploaded in windows.
Renaming == [Base EXCEPT !.objects = {f1, f2}, !.renames = {<<f1, f2>>},
    !.scheduled = TRUE, !.deletes = {}]

\* A new file is written and renamed over another one, which may be cached.
Saving == [Base EXCEPT !.objects = {f2}, !.renames = {<<f1, f2>>}, !.deletes = {},
    !.mayOpen = (h1 :> {f1}) @@ (h2 :> {f2})]

SafeMounts == {Online, SameFile, Scheduled, Offline, OfflineBlocked, Renaming, Saving}

\* A file that is not cached is renamed over one that may be.
OverwriteMounts == {[Saving EXCEPT !.objects = {f1, f2}, !.mayOpen = (h1 :> {f2}) @@ (h2 :> {})]}

\* Deletions too happen offline or wait for an upload window.
DrainMounts == {[Base EXCEPT !.scheduled = TRUE, !.losses = 1,
    !.mayOpen = (h1 :> {f1})]}

\* Renames while opens and releases of the file are under way.
RaceMounts == {[Base EXCEPT !.objects = {f1, f2}, !.renames = {<<f1, f2>>},
    !.races = TRUE]}

\* Evictions while uploads wait for a window.
EvictMounts == {[Base EXCEPT !.scheduled = TRUE, !.evictable = {f1}]}

\* Evictions while a file is opened by two handles.
SharedEvictMounts == {[Base EXCEPT !.evictable = {f1},
    !.mayOpen = (h1 :> {f1}) @@ (h2 :> {f1})]}
=============================================================================
