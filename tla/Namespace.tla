----------------------------- MODULE Namespace -----------------------------
(***************************************************************************)
(* Names from the file system to the cloud: libfuse checks a call and      *)
(* passes it to attr_cache, whose handlers send requests to the storage    *)
(* component and then, under cacheLock, update the tree (attr_cache.go).   *)
(* Each request and each update is a step of its own, so that calls of     *)
(* several threads interleave between them.                                *)
(*                                                                         *)
(* The kernel and the FUSE library keep some calls apart: a call that adds *)
(* or removes an entry holds the mutex of the directory, lookups and       *)
(* readdir share it; unlink, rmdir and rename also exclude every call on a *)
(* path at or below the name they remove.                                  *)
(***************************************************************************)
EXTENDS AttrCache

CONSTANTS
    Threads,         \* threads of the FUSE library
    Mounts           \* configurations and workloads considered

Ops == {"getattr", "readdir", "mkdir", "rmdir", "create", "link", "unlink", "renamefile",
        "renamedir", "open", "download", "write", "truncate", "upload", "flush", "sync",
        "syncdir", "chmod"}

Mount == [
    provider : {"s3", "azure", "datalake"},
    markers : BOOLEAN,       \* directories get a marker object
    start : [Files -> 0 .. MaxSize],
    threads : SUBSET Threads,
    ops : SUBSET Ops,
    names : SUBSET Tree,     \* the names the calls are about
    other : BOOLEAN,         \* another client writes and deletes objects
    faults : Nat,            \* bound on requests that do not reach the cloud
    async : BOOLEAN,         \* azure: the server may copy in the background
    ticks : Nat]             \* bound on the ticks of the clock

ASSUME NamespaceAssumption ==
    /\ MaxTime \in Nat /\ Mounts \subseteq Mount
    /\ \A m \in Mounts : m.ticks <= MaxTime /\ (m.provider # "s3" => m.markers)

VARIABLES
    mount,
    cache,           \* ac.cache
    calls,           \* what each thread is doing
    now,             \* the clock, in cacheTimeouts
    faults,          \* requests that did not reach the cloud so far
    made,            \* history: directories made and not removed
    changed,         \* history: when each object last changed
    torn,            \* history: a rename failed half way
    misled,          \* history: the cache forgot a directory and then denied it, or a call
                     \* was about a name wrongly reported as missing
    inner,           \* history: files written to before their end
    renewed          \* history: files whose mode was changed

tracked == <<made, changed, torn, misled, inner, renewed>>
vars == <<storeVars, mount, cache, calls, now, faults, tracked>>

Nothing == [f \in Files |-> Absent]

\* A call: its arguments, the next step, the names still to look up, whether
\* its context is not cancelled, what the cloud answered, the objects a rename
\* has before it, what the server does with the copy it has begun and what the
\* rename knows of it (copyStatus).
Idle == [op |-> "idle", path |-> Root, dst |-> Root, size |-> 0, stage |-> "none", asks |-> <<>>,
         live |-> TRUE, got |-> Nothing, names |-> {}, todo |-> {}, more |-> FALSE,
         copy |-> "success", copyStatus |-> "success"]

Active(t) == calls[t].op # "idle"

\* What GetAttr answers now, from the cache or from the cloud.
Served(p) == LET a == Answer(cache, p, now) IN a.known /\ a.good
Seen(p) ==
    IF p = Root THEN TRUE
    ELSE IF Served(p) THEN Answer(cache, p, now).exists
    ELSE Has(objs, marks, p)

\* The name has an entry that is past its timeout, and is reported as missing
\* because the directory above it is fresh and has a complete listing.
Outlived(p) == Exists(cache, p) /\ cache[p].at < now /\ ~Answer(cache, p, now).exists

\* The kernel walks a path from the root, so the directories above a name
\* have been looked up before a call is about the name.
Walked(p) == \A a \in Ancestors(p) : a = Root \/ Exists(cache, a)

(***************************************************************************)
(* Which calls may run together                                            *)
(***************************************************************************)

Adds == {"create", "link", "mkdir"}
Removes == {"unlink", "rmdir"}
Renames == {"renamefile", "renamedir"}

Names(k) == IF k.op \in Renames THEN {k.path, k.dst} ELSE {k.path}

Mutexes(k) ==
    CASE k.op \in Adds -> {Parent(k.path)}
      [] k.op \in Removes \cup Renames -> Names(k) \cup {Parent(p) : p \in Names(k)}
      [] k.op \in {"write", "truncate", "upload", "flush", "sync", "chmod"} -> {k.path}
      [] OTHER -> {}
Shared(k) ==
    CASE k.op = "getattr" -> {Parent(k.path)}
      [] k.op \in {"readdir", "syncdir"} -> {k.path}
      [] OTHER -> {}
Visited(k) == UNION {Ancestors(p) \cup {p} : p \in Names(k)}
Pinned(k) == IF k.op \in Removes \cup Renames THEN Names(k) ELSE {}

Conflict(k, j) ==
    \/ Mutexes(k) \cap (Mutexes(j) \cup Shared(j)) # {}
    \/ Shared(k) \cap Mutexes(j) # {}
    \/ Pinned(k) \cap Visited(j) # {}
    \/ Visited(k) \cap Pinned(j) # {}

(***************************************************************************)
(* A call arrives                                                          *)
(***************************************************************************)

\* The first request of a call, once names have been looked up.
First(k) ==
    CASE k.op = "getattr" -> "done"
      [] k.op = "rmdir" /\ EmptyAnswer(cache, k.path, now) = "ask" -> "empty"
      [] k.op = "renamefile" /\ mount.provider # "datalake" -> "copy"
      [] k.op = "renamedir" /\ mount.provider # "datalake" -> "list"
      [] OTHER -> "request"

Free(t, op) == t \in mount.threads /\ ~Active(t) /\ op \in mount.ops

\* The call begins: names are those that libfuse or the handler looks up.
Begin(t, op, p, q, n, names) ==
    LET asks == SelectSeq(names, LAMBDA x : ~Served(x))
        k == [Idle EXCEPT !.op = op, !.path = p, !.dst = q, !.size = n, !.asks = asks,
                          !.live = up, !.todo = IF op = "renamefile" THEN {p} ELSE {}]
    IN  /\ Walked(p) /\ Walked(q)
        /\ \A u \in Threads : Active(u) => ~Conflict(k, calls[u])
        /\ calls' = [calls EXCEPT ![t] = [k EXCEPT !.stage = IF asks # <<>> THEN "ask" ELSE First(k)]]
        /\ misled' = (misled \/ \E x \in Visited(k) \ {Root} : Outlived(x))
        /\ UNCHANGED <<storeVars, mount, cache, now, faults, made, changed, torn, inner, renewed>>

Plain(t, op, p) == Begin(t, op, p, Root, 0, <<>>)

\* The guards say what the kernel and libfuse have found to be there.
Getattr(t, p) ==
    Free(t, "getattr") /\ p \in Paths /\ ~Served(p) /\ Begin(t, "getattr", p, Root, 0, <<p>>)
Readdir(t, d) ==
    /\ Free(t, "readdir") /\ d \in Dirs \cup {Root} /\ Seen(d) /\ ~ListServed(cache, d, now)
    /\ Plain(t, "readdir", d)
Mkdir(t, d) ==
    Free(t, "mkdir") /\ d \in Dirs /\ ~Seen(d) /\ Seen(Parent(d)) /\ Plain(t, "mkdir", d)
Rmdir(t, d) ==
    /\ Free(t, "rmdir") /\ d \in Dirs /\ Seen(d) /\ EmptyAnswer(cache, d, now) # "no"
    /\ Plain(t, "rmdir", d)
Create(t, f) ==
    Free(t, "create") /\ f \in Files /\ ~Seen(f) /\ Seen(Parent(f)) /\ Plain(t, "create", f)
Symlink(t, f) ==
    Free(t, "link") /\ f \in Files /\ ~Seen(f) /\ Seen(Parent(f)) /\ Plain(t, "link", f)
Unlink(t, f) == Free(t, "unlink") /\ f \in Files /\ Seen(f) /\ Plain(t, "unlink", f)
Open(t, f) == Free(t, "open") /\ f \in Files /\ Seen(f) /\ Plain(t, "open", f)
Download(t, f) == Free(t, "download") /\ f \in Files /\ Seen(f) /\ Plain(t, "download", f)
Fsync(t, f) == Free(t, "sync") /\ f \in Files /\ Seen(f) /\ Plain(t, "sync", f)
Fsyncdir(t, d) ==
    Free(t, "syncdir") /\ d \in Dirs \cup {Root} /\ Seen(d) /\ Plain(t, "syncdir", d)
SetMode(t, p) == Free(t, "chmod") /\ p \in Paths /\ Seen(p) /\ Plain(t, "chmod", p)

Write(t, f, n) ==
    Free(t, "write") /\ f \in Files /\ Seen(f) /\ Begin(t, "write", f, Root, n, <<f>>)
Truncate(t, f, n) ==
    Free(t, "truncate") /\ f \in Files /\ Seen(f) /\ Begin(t, "truncate", f, Root, n, <<>>)
Flush(t, f, n) ==
    Free(t, "flush") /\ f \in Files /\ Seen(f) /\ Begin(t, "flush", f, Root, n, <<>>)
Upload(t, f, n) ==
    Free(t, "upload") /\ f \in Files /\ Seen(Parent(f)) /\ Begin(t, "upload", f, Root, n, <<f>>)

\* Rename looks up the source, and the destination of a directory.
Rename(t, p, q) ==
    \/ /\ Free(t, "renamefile") /\ p \in Files /\ q \in Files \ {p} /\ Seen(p) /\ Seen(Parent(q))
       /\ Begin(t, "renamefile", p, q, 0, <<p>>)
    \/ /\ Free(t, "renamedir") /\ p \in Dirs /\ q \in Dirs /\ Seen(p) /\ ~Seen(q) /\ Seen(Parent(q))
       /\ ~IsPrefix(p, q) /\ ~IsPrefix(q, p)
       /\ \A x \in Below(p) : Moved(x, p, q) \in (IF x \in Files THEN Files ELSE Dirs)
       /\ Begin(t, "renamedir", p, q, 0, <<p, q>>)

Go(t, stage) == calls' = [calls EXCEPT ![t].stage = stage]
End(t) == calls' = [calls EXCEPT ![t] = Idle]
Return(t) == End(t) /\ UNCHANGED <<storeVars, mount, cache, now, faults, tracked>>

At(t, stage) == calls[t].stage = stage

(***************************************************************************)
(* Requests.  They succeed as long as the context of the call lives.       *)
(***************************************************************************)

\* An object or a marker changes.
Store(o, m) ==
    /\ objs' = o /\ marks' = m
    /\ changed' = [f \in Files |-> IF o[f] # objs[f] THEN now ELSE changed[f]]

Keep == UNCHANGED <<mount, cache, now, faults, made, torn, misled, inner, renewed>>

\* GetAttr of the storage component.
AskCloud(t) ==
    LET p == Head(calls[t].asks)
    IN  /\ At(t, "ask") /\ calls[t].live
        /\ calls' = [calls EXCEPT ![t].stage = "store", ![t].got = objs,
                                  ![t].names = {x \in {p} : Has(objs, marks, x)}]
        /\ Reached /\ UNCHANGED <<objs, marks, changed>> /\ Keep

\* IsDirEmpty of the storage component, for Rmdir.
EmptyInCloud(t) ==
    /\ At(t, "empty") /\ calls[t].live
    /\ IF List(objs, marks, calls[t].path) = {} THEN Go(t, "request") ELSE End(t)
    /\ Reached /\ UNCHANGED <<objs, marks, changed>> /\ Keep

\* StreamDir of the storage component.
ListCloud(t) ==
    /\ At(t, "request") /\ calls[t].live /\ calls[t].op = "readdir"
    /\ calls' = [calls EXCEPT ![t].stage = "attrs", ![t].got = objs,
                              ![t].names = List(objs, marks, calls[t].path)]
    /\ Reached /\ UNCHANGED <<objs, marks, changed>> /\ Keep

\* In a hierarchical namespace a file brings its directories with it.
WithParents(m, p) == IF mount.provider = "datalake" THEN m \cup (Ancestors(p) \ {Root}) ELSE m

\* The requests of the other handlers.  One that changes a file needs the file.
There(f) == objs[f] # Absent
Ask(t, op) == At(t, "request") /\ calls[t].live /\ calls[t].op = op /\ Reached /\ Keep

CreateDirectory(t) ==
    LET d == calls[t].path
    IN  /\ Ask(t, "mkdir") /\ mount.provider # "datalake"
        /\ Store(objs, IF mount.markers THEN marks \cup {d} ELSE marks) /\ Go(t, "update")

\* datalake reports a directory that is there.
CreatePath(t) ==
    LET d == calls[t].path
    IN  /\ Ask(t, "mkdir") /\ mount.provider = "datalake"
        /\ Store(objs, WithParents(marks, d) \cup {d})
        /\ calls' = [calls EXCEPT ![t].stage = "update", ![t].names = {x \in {d} : HasDir(objs, marks, x)}]

DeleteDirectory(t) ==
    Ask(t, "rmdir") /\ Store(objs, marks \ {calls[t].path}) /\ Go(t, "update")

CreateObject(t) ==
    LET f == calls[t].path
    IN  /\ Ask(t, "create") \/ Ask(t, "link")
        /\ Store(PutObject(objs, f, 1), WithParents(marks, f)) /\ Go(t, "update")

WriteFromFile(t) ==
    LET f == calls[t].path
    IN  /\ Ask(t, "upload") \/ Ask(t, "flush")
        /\ Store(PutObject(objs, f, calls[t].size), WithParents(marks, f)) /\ Go(t, "update")

\* A write ends at size, and the file may go on behind it.
ChangeObject(t) ==
    LET f == calls[t].path
        size == IF calls[t].op = "write" THEN Max({calls[t].size, objs[f]}) ELSE calls[t].size
    IN  /\ Ask(t, "write") \/ Ask(t, "truncate")
        /\ Store(IF There(f) THEN PutObject(objs, f, size) ELSE objs, marks)
        /\ IF There(f) THEN Go(t, "update") ELSE End(t)

RemoveObject(t) ==
    LET f == calls[t].path
    IN  /\ Ask(t, "unlink") /\ Store(DeleteObject(objs, f), marks)
        /\ IF There(f) THEN Go(t, "update") ELSE End(t)

\* OpenFile and CopyToFile update the cache when the file is gone.
ReadObject(t) ==
    /\ Ask(t, "open") \/ Ask(t, "download")
    /\ Store(objs, marks)
    /\ IF There(calls[t].path) THEN End(t) ELSE Go(t, "update")

NoRequest(t) ==
    /\ Ask(t, "sync") \/ Ask(t, "syncdir") \/ Ask(t, "chmod")
    /\ Store(objs, marks) /\ Go(t, "update")

(* RenameFile and RenameDirectory: objects are copied and then deleted, one *)
(* by one; a directory is listed page by page, and what fails is logged.    *)

MovedMarks(src, dst) ==
    LET sub == marks \cap (Below(src) \cup {src})
    IN  (marks \ sub) \cup {Moved(d, src, dst) : d \in sub}

NextObject(k, f) ==
    LET rest == k.todo \ {f}
    IN  [k EXCEPT !.todo = rest, !.copy = "success", !.copyStatus = "success",
                  !.stage = IF rest # {} THEN "copy"
                            ELSE IF k.op = "renamefile" THEN "update"
                            ELSE IF k.more THEN "list" ELSE "marker"]

RenameList(t) ==
    /\ At(t, "list") /\ calls[t].live
    /\ \E page \in Pages(objs, calls[t].path) :
        calls' = [calls EXCEPT ![t].todo = page, ![t].more = (page # Objects(objs, calls[t].path)),
                               ![t].names = @ \cup page,
                               ![t].stage = IF page = {} THEN "marker" ELSE "copy"]
    /\ Reached /\ UNCHANGED <<objs, marks, changed>> /\ Keep

\* Mutant: the object is deleted before it is copied.
RenameCopyDeletes(t) ==
    \E f \in calls[t].todo :
        /\ At(t, "copy") /\ calls[t].live /\ Reached /\ Keep
        /\ Store(DeleteObject(objs, f), marks)
        /\ calls' = [calls EXCEPT ![t].stage = "remove", ![t].asks = <<f>>]

Copy(t, f) ==
    /\ At(t, "copy") /\ calls[t].live /\ f \in calls[t].todo /\ Reached
    /\ Keep

RenameCopy(t) ==
    \E f \in calls[t].todo :
        /\ Copy(t, f) /\ There(f)
        /\ Store(CopyObject(objs, f, Moved(f, calls[t].path, calls[t].dst)), marks)
        /\ calls' = [calls EXCEPT ![t].stage = "remove", ![t].asks = <<f>>]

\* The copy has only begun (CopyStatusTypePending): until it is done there is
\* nothing to read under the new name.
RenamePending(t) ==
    \E f \in calls[t].todo :
        /\ Copy(t, f) /\ There(f) /\ mount.provider = "azure" /\ mount.async
        /\ Store(DeleteObject(objs, Moved(f, calls[t].path, calls[t].dst)), marks)
        /\ calls' = [calls EXCEPT ![t].stage = "poll", ![t].asks = <<f>>,
                                  ![t].copy = "pending", ![t].copyStatus = "pending"]

\* The server ends the copy as long as it has the source, or gives it up.
CopyEnds(t) ==
    LET k == calls[t]
        f == Head(k.asks)
    IN  /\ k.stage \in {"poll", "remove"} /\ k.copy = "pending"
        /\ \/ /\ There(f) /\ Store(CopyObject(objs, f, Moved(f, k.path, k.dst)), marks)
              /\ calls' = [calls EXCEPT ![t].copy = "success"]
           \/ Store(objs, marks) /\ calls' = [calls EXCEPT ![t].copy = "failed"]
        /\ UNCHANGED up /\ Keep

\* The loop of RenameFile ends once the copy is no longer pending; the rename
\* goes on to delete the source whatever has become of the copy.
RenamePoll(t) ==
    /\ At(t, "poll") /\ calls[t].live /\ calls[t].copy # "pending" /\ Reached
    /\ calls' = [calls EXCEPT ![t].stage = "remove", ![t].copyStatus = calls[t].copy]
    /\ torn' = (torn \/ calls[t].copy = "failed")
    /\ UNCHANGED <<objs, marks, mount, cache, now, faults, made, changed, misled, inner, renewed>>

\* Somebody else has deleted the object.
RenameMissing(t) ==
    \E f \in calls[t].todo :
        /\ Copy(t, f) /\ ~There(f)
        /\ Store(objs, marks)
        /\ calls' = [calls EXCEPT ![t] = IF @.op = "renamefile" THEN Idle ELSE NextObject(@, f)]

RenameRemove(t) ==
    LET k == calls[t]
        f == Head(k.asks)
    IN  /\ At(t, "remove") /\ k.live /\ Reached /\ Keep
        /\ Store(DeleteObject(objs, f), marks)
        /\ calls' = [calls EXCEPT ![t] = NextObject([k EXCEPT !.asks = <<>>], f)]

RenameMarker(t) ==
    LET k == calls[t]
    IN  /\ At(t, "marker") /\ k.live /\ mount.provider = "s3" /\ Reached /\ Keep
        /\ Store(objs, MovedMarks(k.path, k.dst)) /\ Go(t, "update")

\* azstorage reports a directory that has neither objects nor a marker.
RenameMarkerBlob(t) ==
    LET k == calls[t]
        some == k.names # {} \/ k.path \in marks
    IN  /\ At(t, "marker") /\ k.live /\ mount.provider = "azure" /\ Reached /\ Keep
        /\ Store(objs, IF some THEN MovedMarks(k.path, k.dst) ELSE marks)
        /\ IF some THEN Go(t, "update") ELSE End(t)

\* Datalake renames in one request.
RenamePath(t) ==
    LET k == calls[t]
        sub == {f \in Files : IsPrefix(k.path, f) /\ objs[f] # Absent}
        from(g) == {f \in sub : Moved(f, k.path, k.dst) = g}
    IN  /\ At(t, "request") /\ k.live /\ k.op \in Renames /\ Reached /\ Keep
        /\ IF Has(objs, marks, k.path)
           THEN /\ Store([g \in Files |-> IF from(g) # {} THEN objs[CHOOSE f \in from(g) : TRUE]
                                          ELSE IF g \in sub THEN Absent ELSE objs[g]],
                         MovedMarks(k.path, k.dst))
                /\ Go(t, "update")
           ELSE Store(objs, marks) /\ End(t)

(* Requests that do not reach the cloud, or whose context is cancelled.     *)

Lost(t) ==
    /\ calls[t].live => up /\ faults < mount.faults
    /\ faults' = IF calls[t].live THEN faults + 1 ELSE faults
    /\ UNCHANGED <<objs, mount, cache, now, made, changed, misled, inner, renewed>>

\* What RenameDirectory logs and forgets: that an object, or with S3 the
\* marker, could not be moved.  Nor does an error end the loop of polls.
Swallowed(k) ==
    \/ k.op = "renamedir" /\ k.stage \in {"copy", "remove"}
    \/ k.stage = "marker" /\ mount.provider = "s3"
    \/ k.stage = "poll"

\* The handler returns the error.  The component goes offline and cancels all
\* calls, unless the call was cancelled itself.
Fail(t) ==
    LET k == calls[t]
        cut == [u \in Threads |-> [calls[u] EXCEPT !.live = @ /\ ~(k.live /\ Active(u))]]
    IN  /\ k.stage \in {"ask", "empty", "request", "list", "copy", "remove", "marker"}
        /\ k.op \notin {"sync", "syncdir", "chmod"} /\ ~Swallowed(k)
        /\ Lost(t) /\ UNCHANGED marks
        /\ IF k.live THEN Unreached ELSE UNCHANGED up
        /\ calls' = [cut EXCEPT ![t] = Idle]
        /\ torn' = (torn \/ k.op \in Renames)

\* An object stays behind, or stays beside its copy, and the next one follows.
RenameFails(t) ==
    LET k == calls[t]
    IN  /\ k.op = "renamedir" /\ k.stage \in {"copy", "remove"}
        /\ Lost(t) /\ torn' = TRUE /\ UNCHANGED <<up, marks>>
        /\ \E f \in IF k.stage = "copy" THEN k.todo ELSE {Head(k.asks)} :
              calls' = [calls EXCEPT ![t] = NextObject([k EXCEPT !.asks = <<>>], f)]

\* GetProperties fails: copyStatus is nil, which is not pending.
RenamePollFails(t) ==
    /\ At(t, "poll") /\ Lost(t) /\ torn' = TRUE /\ UNCHANGED <<up, marks>>
    /\ calls' = [calls EXCEPT ![t].stage = "remove", ![t].copyStatus = "nil"]

\* Some markers stay behind, or beside their copies.  With S3 a rename reports
\* success even when it was cancelled, and the component takes that for an
\* answer of the cloud; with azure the marker of the directory itself counts.
RenameMarkersFail(t) ==
    LET k == calls[t]
        sub == marks \cap (Below(k.path) \cup {k.path})
    IN  /\ At(t, "marker") /\ Lost(t) /\ torn' = TRUE /\ Reached /\ Go(t, "update")
        /\ \E lost \in SUBSET sub : \E both \in SUBSET lost :
              /\ mount.provider = "azure" => k.live /\ sub # {} /\ k.path \notin lost
              /\ IF k.live THEN lost # {} ELSE lost = sub /\ both = {}
              /\ marks' = (marks \ (sub \ lost))
                           \cup {Moved(d, k.path, k.dst) : d \in (sub \ lost) \cup both}

(***************************************************************************)
(* Updates of the tree, under cacheLock                                    *)
(***************************************************************************)

\* The second half of GetAttr.
StoreAttr(c, k) ==
    LET p == Head(k.asks)
    IN  IF p \in k.names
        THEN markAncestorsInCloud(insert(c, p, TRUE, IF p \in Files THEN k.got[p] ELSE 0, now, FALSE),
                                  Parent(p), now)
        ELSE insert(c, p, FALSE, 0, now, FALSE)

CreateDir(c, k) ==
    LET c1 == insert(c, k.path, TRUE, 0, now, FALSE)
        c2 == [markInCloud(c1, k.path, FALSE) EXCEPT ![k.path].complete = TRUE]
    IN  IF Exists(c, k.path) THEN c
        ELSE IF k.path \in k.names THEN c2        \* EEXIST from the cloud
        ELSE touchParentDirTimes(c2, k.path, now)

DeleteDir(c, k) ==
    IF ~Exists(c, k.path) THEN c
    ELSE touchParentDirTimes(
            updateAncestorsInCloud(markDeleted(c, k.path, now), Parent(k.path), now), k.path, now)

CreateFile(c, k) ==
    touchParentDirTimes(
        insert(markAncestorsInCloud(c, Parent(k.path), now), k.path, TRUE, 1, now, FALSE), k.path, now)

CreateLink(c, k) ==
    touchParentDirTimes(
        markAncestorsInCloud(insert(c, k.path, TRUE, 1, now, FALSE), Parent(k.path), now), k.path, now)

DeleteFile(c, k) ==
    LET c1 == IF Valid(c, k.path) THEN c ELSE insert(c, k.path, TRUE, 0, now, FALSE)
    IN  touchParentDirTimes(
            updateAncestorsInCloud(markDeleted(c1, k.path, now), Parent(k.path), now), k.path, now)

TouchBoth(c, k) ==
    LET c1 == touchParentDirTimes(c, k.path, now)
    IN  IF Parent(k.path) = Parent(k.dst) THEN c1 ELSE touchParentDirTimes(c1, k.dst, now)

RenameFile(c, k) ==
    LET c1 == updateAncestorsInCloud(moveCachedItem(c, k.path, k.dst, now), Parent(k.path), now)
    IN  IF Exists(c, k.path) THEN TouchBoth(markAncestorsInCloud(c1, Parent(k.dst), now), k) ELSE c

RenameDir(c, k) ==
    IF Exists(c, k.dst) \/ ~Exists(c, k.path) THEN c
    ELSE TouchBoth(moveCachedItem(c, k.path, k.dst, now), k)

OpenFile(c, k) ==
    updateAncestorsInCloud(IF Exists(c, k.path) THEN markDeleted(c, k.path, now) ELSE c,
                           Parent(k.path), now)

CopyToFile(c, k) == IF Exists(c, k.path) THEN invalidate(c, k.path) ELSE c

WriteFile(c, k) ==
    setSize(IF Exists(c, k.path) THEN c ELSE insert(c, k.path, TRUE, k.size, now, FALSE),
            k.path, k.size, now)
TruncateFile(c, k) ==
    setSize(IF Exists(c, k.path) THEN c ELSE insert(c, k.path, TRUE, k.size, now, FALSE),
            k.path, k.size, now)

CopyFromFile(c, k, stat) ==
    LET c1 == markAncestorsInCloud(c, Parent(k.path), now)
    IN  IF stat THEN insert(c1, k.path, TRUE, k.size, now, FALSE) ELSE Forget(c1, k.path)

FlushFile(c, k) == markAncestorsInCloud(Forget(c, k.path), Parent(k.path), now)
SyncFile(c, k) == IF c[k.path].found THEN invalidate(c, k.path) ELSE c
SyncDir(c, k) == invalidateDirectory(c, k.path)
Chmod(c, k) == IF Exists(c, k.path) THEN Touch(c, k.path, now) ELSE c

\* The directories there are once a call has ended.
MadeBy(k) ==
    CASE k.op = "mkdir" -> made \cup {k.path}
      [] k.op = "rmdir" -> made \ {k.path}
      [] k.op = "renamedir" ->
            {IF IsPrefix(k.path, d) THEN Moved(d, k.path, k.dst) ELSE d : d \in made}
      [] OTHER -> made

\* What renames do to a history of files.
Followed(h, k) ==
    IF k.op \in Renames
    THEN h \cup {Moved(f, k.path, k.dst) : f \in {g \in h : IsPrefix(k.path, g)}} ELSE h

StoreAnswer(t) ==
    LET k == calls[t]
        p == Head(k.asks)
        rest == Tail(k.asks)
        gone == k.op \in Renames /\ p = k.path /\ p \notin k.names
    IN  /\ At(t, "store")
        /\ cache' = StoreAttr(cache, k)
        /\ calls' = [calls EXCEPT ![t] =
                IF k.op = "getattr" \/ gone THEN Idle
                ELSE [k EXCEPT !.asks = rest, !.names = {}, !.got = Nothing,
                               !.stage = IF rest # <<>> THEN "ask" ELSE First(k)]]
        /\ misled' = (misled \/ (p \notin k.names /\ ~cache[Parent(p)].found))
        /\ UNCHANGED <<storeVars, mount, now, faults, made, changed, torn, inner, renewed>>

Update(t) ==
    LET k == calls[t]
        c(op, new) == k.op = op /\ cache' = new
    IN  /\ At(t, "update")
        /\ \/ c("mkdir", CreateDir(cache, k))
           \/ c("rmdir", DeleteDir(cache, k))
           \/ c("create", CreateFile(cache, k))
           \/ c("link", CreateLink(cache, k))
           \/ c("unlink", DeleteFile(cache, k))
           \/ c("renamefile", RenameFile(cache, k))
           \/ c("renamedir", RenameDir(cache, k))
           \/ c("open", OpenFile(cache, k))
           \/ c("download", CopyToFile(cache, k))
           \/ c("write", WriteFile(cache, k))
           \/ c("truncate", TruncateFile(cache, k))
           \/ \E stat \in BOOLEAN : c("upload", CopyFromFile(cache, k, stat))
           \/ c("flush", FlushFile(cache, k))
           \/ c("sync", SyncFile(cache, k))
           \/ c("syncdir", SyncDir(cache, k))
           \/ c("chmod", Chmod(cache, k))
        /\ made' = MadeBy(k)
        /\ inner' = Followed(inner, k) \cup
                       {f \in Files : k.op = "write" /\ f = k.path /\ k.size < objs[f]}
        /\ renewed' = Followed(renewed, k) \cup {f \in Files : k.op = "chmod" /\ f = k.path}
        /\ End(t)
        /\ UNCHANGED <<storeVars, mount, now, faults, changed, torn, misled>>

\* StreamDir after the cloud has answered: five times under the lock.
StreamDir(t) ==
    LET k == calls[t]
        step(from, c, to) == At(t, from) /\ cache' = c /\ Go(t, to)
    IN  /\ k.op = "readdir"
        /\ \/ step("attrs", cacheAttributes(cache, k.path, k.names,
                        [p \in Tree |-> IF p \in Files THEN k.got[p] ELSE 0], now), "mark")
           \/ step("mark", IF k.names = {} THEN cache
                           ELSE markAncestorsInCloud(cache, k.path, now), "merge")
           \/ /\ At(t, "merge") /\ UNCHANGED cache
              /\ calls' = [calls EXCEPT ![t].stage = "segment", ![t].got = Nothing,
                                        ![t].names = @ \cup NotInCloud(cache, k.path)]
           \/ step("segment", cacheListSegment(cache, k.path, k.names, now), "complete")
           \/ /\ At(t, "complete") /\ cache' = markListingComplete(cache, k.path, now) /\ End(t)
        /\ UNCHANGED <<storeVars, mount, now, faults, tracked>>

(***************************************************************************)
(* The rest of the world                                                   *)
(***************************************************************************)

\* backgroundCleanup, unless the component knows that it is offline.
Cleanup ==
    /\ up /\ cache' = cleanupExpiredEntries(cache, now) /\ cache' # cache
    /\ UNCHANGED <<storeVars, mount, calls, now, faults, tracked>>

\* A cacheTimeout passes.  No call takes that long.
Tick ==
    /\ now < mount.ticks /\ \A t \in Threads : ~Active(t)
    /\ now' = now + 1
    /\ UNCHANGED <<storeVars, mount, cache, calls, faults, tracked>>

HealthCheck == Reconnect /\ UNCHANGED <<mount, cache, calls, now, faults, tracked>>

\* Another client of the bucket.
Other(f, size) ==
    /\ mount.other /\ objs[f] # size
    /\ Store([objs EXCEPT ![f] = size], WithParents(marks, f))
    /\ UNCHANGED <<up, mount, cache, calls, now, faults, made, torn, misled, inner, renewed>>

Init ==
    /\ mount \in Mounts
    /\ objs = mount.start
    /\ marks = IF mount.provider = "datalake"
               THEN UNION {Ancestors(f) : f \in {g \in Files : objs[g] # Absent}} \ {Root} ELSE {}
    /\ made = UNION {Ancestors(f) : f \in {g \in Files : objs[g] # Absent}} \ {Root}
    /\ up = TRUE
    /\ cache = newCacheTreeMap
    /\ calls = [t \in Threads |-> Idle]
    /\ now = 0 /\ faults = 0 /\ torn = FALSE /\ misled = FALSE /\ inner = {} /\ renewed = {}
    /\ changed = [f \in Files |-> 0]

Next ==
    \/ \E t \in Threads, p \in mount.names :
        \/ Getattr(t, p) \/ Readdir(t, p) \/ Mkdir(t, p) \/ Rmdir(t, p) \/ Create(t, p)
        \/ Symlink(t, p) \/ Unlink(t, p) \/ Open(t, p) \/ Download(t, p) \/ Fsync(t, p)
        \/ Fsyncdir(t, p) \/ SetMode(t, p)
        \/ \E n \in Sizes : Write(t, p, n) \/ Truncate(t, p, n) \/ Flush(t, p, n) \/ Upload(t, p, n)
        \/ \E q \in mount.names \ {Root} : Rename(t, p, q)
    \/ \E t \in Threads :
        \/ AskCloud(t) \/ EmptyInCloud(t) \/ ListCloud(t)
        \/ CreateDirectory(t) \/ CreatePath(t) \/ DeleteDirectory(t) \/ CreateObject(t)
        \/ WriteFromFile(t) \/ ChangeObject(t) \/ RemoveObject(t) \/ ReadObject(t) \/ NoRequest(t)
        \/ RenameList(t) \/ RenameCopy(t) \/ RenamePending(t) \/ CopyEnds(t) \/ RenamePoll(t)
        \/ RenameMissing(t) \/ RenameRemove(t) \/ RenameMarker(t) \/ RenameMarkerBlob(t) \/ RenamePath(t)
        \/ Fail(t) \/ RenameFails(t) \/ RenamePollFails(t) \/ RenameMarkersFail(t)
        \/ StoreAnswer(t) \/ Update(t) \/ StreamDir(t)
    \/ Cleanup \/ Tick \/ HealthCheck
    \/ \E f \in Files \cap mount.names, size \in Sizes \cup {Absent} : Other(f, size)

Spec == Init /\ [][Next]_vars

(***************************************************************************)
(* Properties                                                              *)
(***************************************************************************)

\* No call under way is about p, or about a name above or below it.
Settled(p) ==
    \A t \in Threads : Active(t) =>
        \A x \in Names(calls[t]) : ~IsPrefix(x, p) /\ ~IsPrefix(p, x)

\* No client but this one, no rename that failed half way, and no call that was
\* misled by what the code does about entries past their timeout: GetAttr denies
\* a name that has one (see EntriesAnswered), and storing that a file is missing
\* denies its directory when the clean-up has just forgotten it.  Where names
\* are renamed, only as long as nothing is past its timeout: what was denied
\* below the new name may outlive the rename.
Alone ==
    /\ ~mount.other /\ ~torn /\ ~misled
    /\ now > 0 => mount.ops \cap Renames = {}

IsThere(p) == IF p \in Files THEN There(p) ELSE p \in made \/ Has(objs, marks, p)

\* A directory of which the store has nothing lives only in the cache, as long
\* as its entry.
Fleeting(p) == p \in made /\ now > 0 /\ ~Has(objs, marks, p)

\* What the cache answers is what this client has done: a name is reported as
\* missing only if it is, and a file with the size it has (GetAttr,
\* attr_cache.go 1110).  A write before the end of a file is left out: its end
\* becomes the size that is answered.
OwnChangesSeen ==
    \A p \in Paths :
        LET a == Answer(cache, p, now)
        IN  Alone /\ Settled(p) /\ Walked(p) /\ ~Outlived(p) /\ ~Fleeting(p) /\ a.known /\ a.good =>
                /\ a.exists <=> IsThere(p)
                /\ a.exists /\ p \in Files \ inner => a.size = objs[p]

\* A name is reported as missing on account of the directory above it only
\* when it has no entry (GetAttr: "Remember, we have no entry for
\* options.Name").
EntriesAnswered == \A p \in Paths : Walked(p) /\ Answer(cache, p, now).good => ~Outlived(p)

\* A listing, from the cache or merged from the cloud and the directories that
\* are not there, has all names and no others, and an empty directory is one
\* that is (StreamDir, IsDirEmpty).  Left out are directories that only the
\* cache has, once their entries are past their timeout.
ListingsTrue ==
    \A d \in Dirs \cup {Root} :
        LET kids == {p \in Paths : Parent(p) = d /\ IsThere(p)}
        IN  Alone /\ Settled(d) /\ (d = Root \/ IsThere(d))
              /\ {p \in Dirs : Fleeting(p) /\ (p = d \/ Parent(p) = d)} = {} =>
                /\ kids = IF ListServed(cache, d, now) THEN cache[d].list.names
                          ELSE List(objs, marks, d) \cup NotInCloud(cache, d)
                /\ EmptyAnswer(cache, d, now) = "yes" => kids = {}
                /\ EmptyAnswer(cache, d, now) = "no" => kids # {}

\* An answer that a file is there, or a listing, is not older than a
\* cacheTimeout, whatever other clients do (timeout-sec).  Not so for a file
\* whose mode was changed: setMode makes the whole entry as new as the change,
\* though nobody has asked the cloud.
TimeoutHonoured ==
    \A f \in Files :
        Settled(Parent(f)) /\ ~torn =>
            /\ /\ Exists(cache, f) /\ cache[f].at >= now /\ cache[f].size # objs[f]
               /\ f \notin renewed \cup inner
               => changed[f] = now
            /\ ListServed(cache, Parent(f), now)
                  /\ (f \in cache[Parent(f)].list.names) # (objs[f] # Absent) => changed[f] = now

\* A step of a rename that removes an object leaves its copy.
LeavesCopy(k) ==
    \A f \in Files : objs[f] # Absent /\ objs'[f] = Absent /\ IsPrefix(k.path, f) =>
        objs'[Moved(f, k.path, k.dst)] = objs[f]

\* A rename removes an object only when its copy is there, whatever fails in
\* between, unless another client is at work (renameObject, RenameFile).  Left
\* out is the one case in which the code does not look: a copy in the
\* background that the server has given up, or whose status could not be had.
RenameKeeps ==
    [][\A t \in Threads :
        /\ ~mount.other /\ calls[t].op \in Renames /\ calls'[t] # calls[t]
        /\ calls[t].copyStatus \in {"success", "pending"}
        => LeavesCopy(calls[t])]_vars

\* The same without that exception (block_blob.go: "Copy of the file is done so
\* now delete the older file").
CopyDone ==
    [][\A t \in Threads :
        ~mount.other /\ calls[t].op \in Renames /\ calls'[t] # calls[t] => LeavesCopy(calls[t])]_vars
=============================================================================
