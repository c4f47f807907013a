----------------------------- MODULE Directory -----------------------------
(***************************************************************************)
(* Directories as a process sees them: opendir and readdir in libfuse,     *)
(* which keep a window of the listing in the directory handle; the pages   *)
(* of S3, Azure Blob and Data Lake below; entry_cache or file_cache in     *)
(* between; and the directory calls of file_cache, with an uploader that   *)
(* brings to the cloud what was changed offline.                           *)
(*                                                                         *)
(* Directories 1 and 2 hold files, Names in the order of the listing; the  *)
(* directory itself is the object <<d, 0>>.  Directory 1 is the one that   *)
(* is listed.  A name may stand for a subdirectory there (mount.kind).     *)
(***************************************************************************)
EXTENDS Integers, Sequences, FiniteSets, SequencesExt, FiniteSetsExt

CONSTANTS
    Names,      \* names in a directory, numbers from 1 in listing order
    Handles,    \* directory handles
    MaxVer,     \* versions of a file
    Mounts      \* the mounts checked

Dirs == {1, 2}
Listed == 1
Paths == Dirs \X Names
Objects == Dirs \X (Names \cup {0})

ASSUME NamesAssumption == Names \subseteq Nat \ {0} /\ IsFiniteSet(Names) /\ Names # {}
ASSUME MaxVerAssumption == MaxVer \in Nat \ {0}

VARIABLES
    mount,      \* configuration and environment of this behaviour
    cloud,      \* version of each file in cloud storage, 0 when absent
    cdirs,      \* directories with an object of their own in cloud storage
    local,      \* version of each file in file_cache's directory, 0 when absent
    ldirs,      \* directories that exist in file_cache's directory
    pending,    \* pendingOps: "none", "create" or "delete"
    svc,        \* servicePendingOps: entry handed to updateObject, and its stage
    move,       \* a RenameDir that is under way
    up,         \* the cloud answers
    view,       \* what the calls that returned success have made of the files
    vdirs,      \* ... and of the directories
    pages,      \* entry_cache: the cached page of each token
    stale,      \* names changed since entry_cache cached its oldest page
    dc,         \* dirChildCache of each directory handle
    rd,         \* the kernel's pass over the directory, and the Readdir call
    left        \* changes the environment may still make

cacheVars == <<cloud, cdirs, local, ldirs, pending>>
viewVars == <<view, vdirs>>
listVars == <<pages, dc>>
vars == <<mount, cloud, cdirs, local, ldirs, pending, svc, move, up, view, vdirs,
          pages, stale, dc, rd, left>>

-----------------------------------------------------------------------------
(* State                                                                   *)

Beyond == 2 * Max(Names) + 2            \* a token after every key
Tokens == {0} \cup 2 .. Beyond          \* 0 is the empty token
Dots == <<-1, -2>>                      \* "." and ".."

\* NewHandle, with the empty dirChildCache of Opendir.
NoCache == [sIndex |-> 0, children |-> <<>>, token |-> 0, lastPage |-> FALSE]
NoPass ==
    [st |-> "closed", off |-> 0, start |-> 0, room |-> 0, got |-> <<>>, token |-> 0,
     want |-> 0, names |-> <<>>, steady |-> {}, absent |-> {}]
NoMove == [st |-> "idle", src |-> 1, dst |-> 2, cloudObjects |-> {}, localObjects |-> {},
           locks |-> {}]
Idle == [st |-> "idle", obj |-> <<1, 0>>, flags |-> "none", ver |-> 0]
NoPage == [children |-> <<>>, next |-> 0]

TypeOK ==
    /\ cloud \in [Paths -> 0 .. MaxVer] /\ local \in [Paths -> 0 .. MaxVer]
    /\ cdirs \subseteq Dirs /\ ldirs \subseteq Dirs
    /\ pending \in [Objects -> {"none", "create", "delete"}]
    /\ svc.obj \in Objects /\ move.locks \subseteq Paths
    /\ view \in [Paths -> 0 .. MaxVer] /\ vdirs \subseteq Dirs
    /\ \A h \in Handles : dc[h].token \in Tokens /\ rd[h].token \in Tokens

Init ==
    /\ mount \in Mounts
    /\ cloud = [p \in Paths |-> IF p \in mount.files THEN 1 ELSE 0]
    /\ cdirs = mount.dirs
    /\ local = [p \in Paths |-> IF p \in mount.cached THEN 1 ELSE 0]
    /\ ldirs = {p[1] : p \in mount.cached}
    /\ pending = [o \in Objects |-> "none"]
    /\ svc = Idle /\ move = NoMove /\ up = TRUE
    /\ view = cloud /\ vdirs = cdirs \cup {p[1] : p \in mount.files}
    /\ pages = [t \in Tokens |-> NoPage] /\ stale = {}
    /\ dc = [h \in Handles |-> NoCache]
    /\ rd = [h \in Handles |-> NoPass]
    /\ left = mount.changes

\* A name that changed while a pass over the directory runs may be in it or not.
Touch(S) ==
    /\ rd' = [h \in Handles |-> [rd[h] EXCEPT !.steady = @ \ S, !.absent = @ \ S]]
    /\ stale' = IF /\ \A t \in Tokens : pages[t] = NoPage
                   /\ \A h \in Handles : rd[h].st # "fetch"
                THEN {} ELSE stale \cup S

Change(S) == left > 0 /\ left' = left - 1 /\ Touch(S)
InListed(S) == {p[2] : p \in {q \in S : q[1] = Listed}}

-----------------------------------------------------------------------------
(* Pages of cloud storage                                                  *)

\* The keys of a name, in the service's order: 2n is an object of that name,
\* 2n + 1 a common prefix.  A directory of S3 and of Data Lake is a prefix; one
\* of Azure Blob may have a marker blob, children, or both.
Keys(n) ==
    CASE mount.kind[n] = "file" -> {2 * n}
      [] mount.store # "blob" -> {2 * n + 1}
      [] mount.kind[n] = "bare" -> {2 * n}
      [] mount.kind[n] = "virtual" -> {2 * n + 1}
      [] mount.kind[n] = "marked" -> {2 * n, 2 * n + 1}
Present == {n \in Names : cloud[<<Listed, n>>] > 0}

\* S3 returns the directory's own object first when it is asked without a token.
MaxKeys(token) ==
    IF mount.store = "s3" /\ token = 0
    THEN mount.count + 1 - (IF Listed \in cdirs THEN 1 ELSE 0)
    ELSE mount.count

\* The service's answers to a list request: keys from the token on, and the token
\* of the next page.  Azure may return fewer than asked for, and a token with
\* nothing behind it.
Answers(token) ==
    LET rest == {k \in UNION {Keys(n) : n \in Present} : k >= token}
        most == Min({MaxKeys(token), Cardinality(rest)})
        first(c) == {k \in rest : Cardinality({j \in rest : j <= k}) <= c}
        after(c) == rest \ first(c)
    IN  UNION {[keys : {first(c)},
                next : IF after(c) # {} THEN {Min(after(c))}
                       ELSE IF mount.short THEN {0, Beyond} ELSE {0}] :
               c \in IF mount.short THEN 0 .. most ELSE {most}}

Ascending(S) == SetToSortSeq(S, <)

\* processBlobItems: the blobs of the page, marker blobs of directories included.
processBlobItems(keys) == {k \div 2 : k \in {j \in keys : j % 2 = 0}}

\* getAttrUsingRest: the marker blob of a directory is there.
getAttrUsingRest(n) == mount.kind[n] \in {"bare", "marked"} /\ n \in Present

\* processBlobPrefixes: directories that the page's markers do not name.  Data Lake
\* has their properties; Azure Blob lists only those that have no marker, since the
\* marker of the others is in another page.
processBlobPrefixes(keys) ==
    {n \in {k \div 2 : k \in {j \in keys : j % 2 = 1 /\ (j - 1) \notin keys}} :
        mount.store = "blob" => ~getAttrUsingRest(n)}

List(keys) ==
    IF mount.store = "s3" THEN Ascending({k \div 2 : k \in keys})
    ELSE Ascending(processBlobItems(keys)) \o Ascending(processBlobPrefixes(keys))

-----------------------------------------------------------------------------
(* file_cache: StreamDir and GetAttr                                       *)

InCloud(o) ==
    IF o[2] = 0 THEN o[1] \in cdirs \/ \E n \in Names : cloud[<<o[1], n>>] > 0
    ELSE cloud[o] > 0
InCache(o) == IF o[2] = 0 THEN o[1] \in ldirs ELSE local[o] > 0

\* checkCloud: offline, the attribute cache knows or it does not.
CloudStateKnown == up \/ mount.known
notInCloud(o) == CloudStateKnown /\ ~InCloud(o)

\* A cached name that the cloud has and this page has not: should it be here?
BelongsInPage(n, list, first, last) ==
    IF list = <<>> THEN last
    ELSE \/ first /\ n < Head(list)
         \/ n > Head(list) /\ n < Last(list)
         \/ last /\ n > Last(list)

\* StreamDir: the page, and the names of the cache that it lacks, in order.
Adds(n, list, first, last) ==
    IF CloudStateKnown /\ InCloud(<<Listed, n>>) THEN BelongsInPage(n, list, first, last) ELSE last
StreamDir(list, first, last) ==
    LET cached == {n \in Names : local[<<Listed, n>>] > 0} \ Range(list)
    IN  IF mount.top # "file" THEN list
        ELSE Ascending(Range(list) \cup {n \in cached : Adds(n, list, first, last)})

\* GetAttr: the local cache and the cloud, or what the attribute cache knows of it.
GetAttr(o) ==
    CASE up \/ mount.known -> IF InCloud(o) \/ InCache(o) THEN "found" ELSE "ENOENT"
      [] OTHER -> IF InCache(o) THEN "found" ELSE "error"

-----------------------------------------------------------------------------
(* libfuse: Opendir, Readdir, Releasedir                                   *)

eIndex(h) == dc[h].sIndex + Len(dc[h].children)
CallEnds(h) == [rd[h] EXCEPT !.st = IF rd[h].start = rd[h].off THEN "done" ELSE "open",
                             !.off = rd[h].start]

Opendir(h) ==
    /\ h \in mount.handles /\ rd[h].st = "closed"
    /\ dc' = [dc EXCEPT ![h] = NoCache]
    /\ rd' = [rd EXCEPT ![h] = [NoPass EXCEPT !.st = "open"]]
    /\ UNCHANGED <<mount, cacheVars, svc, move, up, viewVars, pages, stale, left>>

Releasedir(h) ==
    /\ rd[h].st \in {"open", "done", "failed"} /\ rd[h].names # <<>>
    /\ dc' = [dc EXCEPT ![h] = NoCache]
    /\ rd' = [rd EXCEPT ![h] = NoPass]
    /\ UNCHANGED <<mount, cacheVars, svc, move, up, viewVars, pages, stale, left>>

\* Readdir: the kernel starts at offset 0 (opendir, rewinddir), which caches the
\* dots, or goes on after the last entry that it took.
\* Mutant: a rewind keeps the token of the last page.
cacheDotsKeepingToken(c) == [c EXCEPT !.sIndex = 0, !.children = Dots, !.lastPage = FALSE]
cacheDots(c) == [sIndex |-> 0, children |-> Dots, token |-> 0, lastPage |-> FALSE]
Readdir(h, offset, room) ==
    /\ \/ rd[h].st = "open" /\ offset = rd[h].off
       \/ rd[h].st \in {"open", "done", "failed"} /\ offset = 0 /\ left > 0
    /\ left' = IF rd[h].st = "open" /\ offset = rd[h].off THEN left ELSE left - 1
    /\ LET here == {n \in Names : view[<<Listed, n>>] > 0}
       IN  rd' = [rd EXCEPT ![h] =
                   IF offset = 0
                   THEN [NoPass EXCEPT !.st = "loop", !.room = room,
                                       !.steady = here \ stale,
                                       !.absent = (Names \ here) \ stale]
                   ELSE [@ EXCEPT !.st = "loop", !.start = offset, !.room = room]]
    /\ dc' = IF offset = 0 THEN [dc EXCEPT ![h] = cacheDots(dc[h])] ELSE dc
    /\ UNCHANGED <<mount, cacheVars, svc, move, up, viewVars, pages, stale>>

\* The end of the listing was reached in an earlier call.
EndOfStream(h) ==
    /\ rd[h].st = "loop" /\ dc[h].lastPage /\ rd[h].start >= eIndex(h)
    /\ rd' = [rd EXCEPT ![h] = CallEnds(h)]
    /\ UNCHANGED <<mount, cacheVars, svc, move, up, viewVars, listVars, stale, left>>

\* populateDirChildCache, with the page the next component returned.
populateDirChildCache(c, start, list, next) ==
    LET replaceCache == Len(c.children) + Len(list) > mount.limit
    IN  [sIndex |-> IF replaceCache THEN start ELSE c.sIndex,
         children |-> IF replaceCache THEN list ELSE c.children \o list,
         token |-> next,
         lastPage |-> next = 0]

Fetches(h) ==
    /\ rd[h].st = "loop" /\ ~(dc[h].lastPage /\ rd[h].start >= eIndex(h))
    /\ ~(rd[h].start >= dc[h].sIndex /\ rd[h].start < eIndex(h))

\* entry_cache answers from its page of this token, or the request goes to storage.
PageKey(token) == token
StreamsCached(h) ==
    /\ Fetches(h) /\ mount.top = "entry"
    /\ LET page == pages[PageKey(dc[h].token)]
       IN  /\ page # NoPage
           /\ dc' = [dc EXCEPT ![h] = populateDirChildCache(@, rd[h].start, page.children, page.next)]
    /\ rd' = [rd EXCEPT ![h].st = "serve"]
    /\ UNCHANGED <<mount, cacheVars, svc, move, up, viewVars, pages, stale, left>>
Requests(h) ==
    /\ Fetches(h)
    /\ mount.top = "entry" => pages[PageKey(dc[h].token)] = NoPage
    /\ rd' = [rd EXCEPT ![h].st = "fetch", ![h].token = dc[h].token, ![h].got = <<>>,
                        ![h].want = mount.count]
    /\ UNCHANGED <<mount, cacheVars, svc, move, up, viewVars, listVars, stale, left>>

\* entry_cache keeps a page that is not empty.
CachesPage(token, list, next) ==
    IF mount.top = "entry" /\ list # <<>>
    THEN [pages EXCEPT ![PageKey(token)] = [children |-> list, next |-> next]]
    ELSE pages

StreamEnds(h, list, next) ==
    LET page == StreamDir(list, dc[h].token = 0, next = 0)
    IN  /\ dc' = [dc EXCEPT ![h] = populateDirChildCache(@, rd[h].start, page, next)]
        /\ rd' = [rd EXCEPT ![h].st = "serve", ![h].got = <<>>]
        /\ pages' = CachesPage(dc[h].token, page, next)
StreamGoesOn(h, list, next) ==
    /\ rd' = [rd EXCEPT ![h].token = next, ![h].got = list, ![h].want = @ - Len(list) + Len(rd[h].got)]
    /\ UNCHANGED listVars

\* azstorage StreamDir: an empty page with a marker is asked for again from there.
Retries(list, next) == next # 0 /\ list = <<>>
AzStreamDir(h) ==
    /\ rd[h].st = "fetch" /\ up /\ mount.store # "s3"
    /\ \E a \in Answers(rd[h].token) :
        LET list == List(a.keys)
        IN  IF Retries(list, a.next) THEN StreamGoesOn(h, list, a.next)
                                     ELSE StreamEnds(h, list, a.next)
    /\ UNCHANGED <<mount, cacheVars, svc, move, up, viewVars, stale, left>>

\* s3storage StreamDir: more list requests until it has what was asked for.
S3Goes(h, list, next) ==
    LET remaining == rd[h].want - Len(list)
    IN  next # 0 /\ list # <<>> /\ remaining > 0 /\ ~(remaining = 1 /\ dc[h].token = 0)
S3StreamDir(h) ==
    /\ rd[h].st = "fetch" /\ up /\ mount.store = "s3"
    /\ \E a \in Answers(rd[h].token) :
        LET list == List(a.keys)
        IN  IF S3Goes(h, list, a.next) THEN StreamGoesOn(h, rd[h].got \o list, a.next)
                                       ELSE StreamEnds(h, rd[h].got \o list, a.next)
    /\ UNCHANGED <<mount, cacheVars, svc, move, up, viewVars, stale, left>>

\* The list request fails: Readdir returns the error.
StreamFails(h) ==
    /\ rd[h].st = "fetch" /\ ~up
    /\ rd' = [rd EXCEPT ![h].st = "failed", ![h].got = <<>>]
    /\ UNCHANGED <<mount, cacheVars, svc, move, up, viewVars, listVars, stale, left>>

\* serveCachedEntries fills the kernel's buffer; the entry that it refuses is
\* asked for again by the next call.
serveCachedEntries(h) ==
    /\ \/ rd[h].st = "serve"
       \/ rd[h].st = "loop" /\ rd[h].start >= dc[h].sIndex /\ rd[h].start < eIndex(h)
    /\ LET at == rd[h].start - dc[h].sIndex
           n == Min({Len(dc[h].children) - at, rd[h].room})
           done == n < Len(dc[h].children) - at \/ dc[h].lastPage
           served == [rd[h] EXCEPT !.names = @ \o SubSeq(dc[h].children, at + 1, at + n),
                                   !.start = @ + n, !.room = @ - n, !.st = "loop"]
       IN  rd' = [rd EXCEPT ![h] =
                   IF at >= Len(dc[h].children) THEN CallEnds(h)
                   ELSE IF done THEN [served EXCEPT !.off = served.start, !.st = "open"]
                   ELSE served]
    /\ UNCHANGED <<mount, cacheVars, svc, move, up, viewVars, listVars, stale, left>>

\* pathEvict: a cached page has expired.
pathEvict(t) ==
    /\ mount.top = "entry" /\ pages[t] # NoPage /\ left > 0 /\ left' = left - 1
    /\ pages' = [pages EXCEPT ![t] = NoPage]
    /\ UNCHANGED <<mount, cacheVars, svc, move, up, viewVars, stale, dc, rd>>

-----------------------------------------------------------------------------
(* Files, in one step each: FileCache has their calls in detail            *)

\* Another client writes or removes a file of the listed directory.
OtherClient(n) ==
    /\ "other" \in mount.ops /\ move.st = "idle"
    /\ LET p == <<Listed, n>>
       IN  /\ local[p] = 0
           /\ cloud' = [cloud EXCEPT ![p] = 1 - @]
           /\ view' = cloud'
           /\ Change({n})
    /\ UNCHANGED <<mount, cdirs, local, ldirs, pending, svc, move, up, vdirs, listVars>>

\* A file is created or rewritten through the file cache.  It is uploaded at once,
\* or queued: offline, where a new name must be known not to be in the cloud, or
\* because uploads are scheduled.
Write(p, queued) ==
    /\ "write" \in mount.ops /\ p[1] \in vdirs /\ view[p] < MaxVer /\ p \in mount.writes
    /\ p \notin move.locks /\ (move.st # "idle" => p[1] \notin {move.src, move.dst})
    /\ ~(svc.st = "busy" /\ svc.obj = p)
    /\ IF up THEN TRUE ELSE queued /\ (view[p] = 0 => notInCloud(p)) /\ (view[p] > 0 => local[p] > 0)
    /\ local' = [local EXCEPT ![p] = view[p] + 1]
    /\ ldirs' = ldirs \cup {p[1]}
    /\ cloud' = IF queued THEN cloud ELSE [cloud EXCEPT ![p] = view[p] + 1]
    /\ pending' = [pending EXCEPT ![p] = IF queued THEN "create" ELSE "none"]
    /\ view' = [view EXCEPT ![p] = @ + 1]
    /\ Change(InListed({p}))
    /\ UNCHANGED <<mount, cdirs, svc, move, up, vdirs, listVars>>

\* The eviction policy removes a cached file that is not in use or pending.
Evict(p) ==
    /\ "evict" \in mount.ops /\ local[p] > 0 /\ pending[p] = "none" /\ cloud[p] = local[p]
    /\ p \notin move.locks /\ ~(svc.st = "busy" /\ svc.obj = p)
    /\ local' = [local EXCEPT ![p] = 0]
    /\ left > 0 /\ left' = left - 1
    /\ UNCHANGED <<mount, cloud, cdirs, ldirs, pending, svc, move, up, viewVars, listVars,
                   stale, rd>>

-----------------------------------------------------------------------------
(* file_cache: directories                                                 *)

NoRename(d) == move.st = "idle" \/ d \notin {move.src, move.dst}
Apart(d) == mount.apart => ~(svc.st # "idle" /\ svc.obj[1] = d)

\* CreateDir: in the cloud and in the cache; offline in the cache alone, and only
\* when the cloud is known not to have the directory.
CreateDir(d) ==
    /\ "mkdir" \in mount.ops /\ NoRename(d) /\ GetAttr(<<d, 0>>) = "ENOENT"
    /\ IF up THEN /\ cdirs' = cdirs \cup {d}
                  /\ ldirs' = ldirs \cup {d}
                  /\ UNCHANGED pending
             ELSE /\ notInCloud(<<d, 0>>) /\ d \notin ldirs
                  /\ ldirs' = ldirs \cup {d}
                  /\ pending' = [pending EXCEPT ![<<d, 0>>] = "create"]
                  /\ UNCHANGED cdirs
    /\ vdirs' = vdirs \cup {d}
    /\ Change({})
    /\ UNCHANGED <<mount, cloud, local, svc, move, up, view, listVars>>

\* deleteEmptyDirs removes the directory from the cache unless a file is in it.
LocallyEmpty(d) == \A n \in Names : local[<<d, n>>] = 0

\* IsDirEmpty.  Offline the attribute cache must have an entry of the directory (or
\* of its absence), list nothing in it, and answer with an expired entry for a name
\* that cannot exist.  It does not know what another client has put there since.
EmptyAtRemote(d) == \A n \in Names : cloud[<<d, n>>] = 0
EmptyInCache(d) ==
    /\ mount.known /\ (InCloud(<<d, 0>>) \/ mount.negative)
    /\ \A n \in Names : cloud[<<d, n>>] = 0 \/ <<d, n>> \in mount.missed
\* Mutant: only the cloud is asked.
IsDirEmptyRemote(d, expired) == up /\ EmptyAtRemote(d)
IsDirEmpty(d, expired) ==
    /\ LocallyEmpty(d)
    /\ IF up THEN EmptyAtRemote(d) ELSE expired /\ EmptyInCache(d)

\* Rmdir: IsDirEmpty, which has emptied the cache of d whatever it answers, and then
\* DeleteDir.  Offline the deletion is queued.  A refusal offline takes the cached
\* directory away from an operation that is queued for it, which then does nothing or
\* deletes it in the cloud: mount.undo tells whether that is looked at.
Rmdir(d, expired) ==
    /\ "rmdir" \in mount.ops /\ d \in vdirs /\ NoRename(d) /\ Apart(d)
    /\ GetAttr(<<d, 0>>) = "found"
    /\ mount.undo \/ up \/ pending[<<d, 0>>] = "none" \/ IsDirEmpty(d, expired)
    /\ ldirs' = IF LocallyEmpty(d) /\ (~up \/ EmptyAtRemote(d)) THEN ldirs \ {d} ELSE ldirs
    /\ IF IsDirEmpty(d, expired)
       THEN /\ cdirs' = IF up THEN cdirs \ {d} ELSE cdirs
            /\ pending' = IF up THEN pending ELSE [pending EXCEPT ![<<d, 0>>] = "delete"]
            /\ vdirs' = vdirs \ {d}
       ELSE UNCHANGED <<cdirs, pending, vdirs>>
    /\ Change({})
    /\ UNCHANGED <<mount, cloud, local, svc, move, up, view, listVars>>

\* combineLists, of sorted lists: it stops when one of the two is used up.
Before(p, q) == p[1] < q[1] \/ (p[1] = q[1] /\ p[2] < q[2])
UpTo(A, B) == {p \in A : \E q \in B : p = q \/ Before(p, q)}
combineLists(A, B) == UpTo(A, B) \cup UpTo(B, A)

\* isSubset, of sorted lists: an item that is passed over ends the walk; what is
\* left when the superset is used up is not looked at.
isSubset(A, B) == \A p \in UpTo(A, B) : p \in B

Moved(p, d) == <<d, p[2]>>
Below(S, d) == {p \in S : p[1] = d}
listCloudObjects(d) == {p \in Below(Paths, d) : cloud[p] > 0}
listCachedObjects(d) == {p \in Below(Paths, d) : local[p] > 0}

\* RenameDir lists the source in the cloud (offline: in the attribute cache) and in
\* the cache, and locks the names.
RenameLocks(s, t, A, B) ==
    LET src == combineLists(A, B)
    IN  combineLists(src, {Moved(p, t) : p \in src})
RenameDir(s, t) ==
    /\ "rename" \in mount.ops /\ <<s, t>> \in mount.moves
    /\ move.st = "idle" /\ s \in vdirs /\ t \notin vdirs
    /\ up \/ (mount.known /\ (InCloud(<<s, 0>>) \/ mount.negative))
    /\ mount.apart => svc.st = "idle" /\ (up \/ ~InCloud(<<s, 0>>))
    /\ LET A == listCloudObjects(s)
           B == listCachedObjects(s)
           L == RenameLocks(s, t, A, B)
       IN  /\ ~(svc.st = "busy" /\ svc.obj \in L)
           /\ move' = [st |-> "cloud", src |-> s, dst |-> t, cloudObjects |-> A,
                       localObjects |-> B, locks |-> L]
    /\ Change(InListed(Below(Paths, s) \cup Below(Paths, t)))
    /\ UNCHANGED <<mount, cacheVars, svc, up, viewVars, listVars>>

\* The rename in the cloud, which fails for a directory that is not there.
RenameRefused ==
    /\ move.st = "cloud"
    /\ IF up THEN ~InCloud(<<move.src, 0>>)
             ELSE ~(mount.known /\ isSubset(move.cloudObjects, move.localObjects))
    /\ move' = NoMove
    /\ UNCHANGED <<mount, cacheVars, svc, up, viewVars, listVars, stale, rd, left>>
Renamed(f, s, t) ==
    [p \in Paths |-> CASE p[1] = t /\ f[Moved(p, s)] > 0 -> f[Moved(p, s)]
                       [] p[1] = s -> 0
                       [] OTHER -> f[p]]
RenameInCloud ==
    /\ move.st = "cloud"
    /\ IF up THEN /\ InCloud(<<move.src, 0>>)
                  /\ cloud' = Renamed(cloud, move.src, move.dst)
                  /\ cdirs' = IF move.src \in cdirs
                              THEN (cdirs \ {move.src}) \cup {move.dst} ELSE cdirs
             ELSE /\ mount.known /\ isSubset(move.cloudObjects, move.localObjects)
                  /\ UNCHANGED <<cloud, cdirs>>
    /\ view' = Renamed(view, move.src, move.dst)
    /\ vdirs' = (vdirs \ {move.src}) \cup {move.dst}
    /\ move' = [move EXCEPT !.st = "local"]
    /\ UNCHANGED <<mount, local, ldirs, pending, svc, up, listVars, stale, rd, left>>

\* The walk over the cached source: renameLocalFile moves each file, and
\* renamePendingOp its pending operation; the directories are purged at the end.
WalkedObjects == Below({o \in Objects : InCache(o)}, move.src)
\* Mutant: the pending operation of the source is dropped.
renamePendingOpOnly(S, t) ==
    LET moved == {o \in S : pending[o] # "none"}
    IN  [o \in Objects |-> IF o \in moved THEN "delete" ELSE pending[o]]
renamePendingOp(S, t) ==
    LET moved == {o \in S : pending[o] # "none"}
    IN  [o \in Objects |->
            CASE o \in moved -> "delete"
              [] o[1] = t /\ Moved(o, move.src) \in moved -> pending[Moved(o, move.src)]
              [] OTHER -> pending[o]]
RenameLocal ==
    /\ move.st = "local"
    /\ local' = Renamed(local, move.src, move.dst)
    /\ ldirs' = IF move.src \in ldirs THEN (ldirs \ {move.src}) \cup {move.dst} ELSE ldirs
    /\ pending' = renamePendingOp(WalkedObjects, move.dst)
    /\ move' = NoMove
    /\ UNCHANGED <<mount, cloud, cdirs, svc, up, viewVars, listVars, stale, rd, left>>

-----------------------------------------------------------------------------
(* file_cache: servicePendingOps and updateObject                          *)

\* Range hands an entry with its flags to updateObject.
Pick(o) ==
    /\ svc.st = "idle" /\ up /\ pending[o] # "none"
    /\ mount.apart => move.st = "idle"
    /\ svc' = [st |-> "picked", obj |-> o, flags |-> pending[o], ver |-> 0]
    /\ UNCHANGED <<mount, cacheVars, move, up, viewVars, listVars, stale, rd, left>>

\* With the lock: nothing to do, because the operation is gone, there is nothing to
\* upload, or the cloud has nothing to delete.
Missing(o) == ~InCache(o)
UpdateSkipped ==
    /\ svc.st = "picked" /\ svc.obj \notin move.locks
    /\ \/ pending[svc.obj] = "none"
       \/ Missing(svc.obj) /\ svc.flags = "create"
       \/ Missing(svc.obj) /\ svc.flags = "delete" /\ notInCloud(svc.obj)
    /\ pending' = [pending EXCEPT ![svc.obj] = "none"]
    /\ svc' = Idle
    /\ UNCHANGED <<mount, cloud, cdirs, local, ldirs, move, up, viewVars, listVars, stale, rd, left>>
UpdateStarts ==
    /\ svc.st = "picked" /\ svc.obj \notin move.locks /\ pending[svc.obj] # "none"
    /\ ~(Missing(svc.obj) /\ (svc.flags = "create" \/ notInCloud(svc.obj)))
    /\ svc' = [svc EXCEPT !.st = "busy",
                          !.flags = IF Missing(svc.obj) THEN "delete" ELSE "create",
                          !.ver = IF svc.obj[2] = 0 THEN 0 ELSE local[svc.obj]]
    /\ UNCHANGED <<mount, cacheVars, move, up, viewVars, listVars, stale, rd, left>>

\* The request succeeds.  A directory that the attribute cache has already is created
\* again and the answer taken for a failure: its operation stays queued.
AlreadyExists(o) == o[2] = 0 /\ svc.flags = "create" /\ InCloud(o)
UpdateEnds ==
    /\ svc.st = "busy" /\ up
    /\ LET o == svc.obj
           create == svc.flags = "create"
       IN  /\ IF o[2] = 0
              THEN /\ cdirs' = IF create THEN cdirs \cup {o[1]} ELSE cdirs \ {o[1]}
                   /\ UNCHANGED cloud
              ELSE /\ cloud' = [cloud EXCEPT ![o] = IF create THEN svc.ver ELSE 0]
                   /\ UNCHANGED cdirs
           /\ pending' = IF AlreadyExists(o) THEN pending ELSE [pending EXCEPT ![o] = "none"]
           /\ Touch(InListed({o} \cap Paths))
    /\ svc' = Idle
    /\ UNCHANGED <<mount, local, ldirs, move, up, viewVars, listVars, left>>
UpdateFails ==
    /\ svc.st = "busy" /\ ~up
    /\ svc' = Idle
    /\ UNCHANGED <<mount, cacheVars, move, up, viewVars, listVars, stale, rd, left>>

-----------------------------------------------------------------------------
(* The cloud comes and goes                                                *)

Outage ==
    /\ "outage" \in mount.ops /\ up /\ left > 0 /\ left' = left - 1
    /\ mount.apart => move.st = "idle"
    /\ up' = FALSE
    /\ UNCHANGED <<mount, cacheVars, svc, move, viewVars, listVars, stale, rd>>
Reconnect ==
    /\ ~up /\ (mount.apart => move.st = "idle")
    /\ up' = TRUE
    /\ UNCHANGED <<mount, cacheVars, svc, move, viewVars, listVars, stale, rd, left>>

Next ==
    \/ \E h \in Handles :
        \/ Opendir(h) \/ Releasedir(h)
        \/ \E room \in mount.rooms, offset \in {0, rd[h].off} : Readdir(h, offset, room)
        \/ EndOfStream(h) \/ StreamsCached(h) \/ Requests(h)
        \/ AzStreamDir(h) \/ S3StreamDir(h) \/ StreamFails(h) \/ serveCachedEntries(h)
    \/ \E t \in Tokens : pathEvict(t)
    \/ \E n \in Names : OtherClient(n)
    \/ \E p \in Paths : Evict(p) \/ \E queued \in BOOLEAN : Write(p, queued)
    \/ \E d \in Dirs : CreateDir(d) \/ \E expired \in BOOLEAN : Rmdir(d, expired)
    \/ \E s, t \in Dirs : RenameDir(s, t)
    \/ RenameRefused \/ RenameInCloud \/ RenameLocal
    \/ \E o \in Objects : Pick(o)
    \/ UpdateSkipped \/ UpdateStarts \/ UpdateEnds \/ UpdateFails
    \/ Outage \/ Reconnect

Spec == Init /\ [][Next]_vars

-----------------------------------------------------------------------------
(* Properties                                                              *)

Times(x, seq) == Cardinality({i \in DOMAIN seq : seq[i] = x})

\* A process that reads a directory to its end gets each name that was there all
\* the time exactly once, the dots too, and no name that was never there: however
\* many entries its buffer takes (Readdir, serveCachedEntries), however the handle's
\* window is replaced (populateDirChildCache), however the service cuts the listing
\* into pages (StreamDir and List of azstorage and s3storage), and with names that
\* only the file cache has (FileCache.StreamDir) or pages that entry_cache has kept.
ListedOnce ==
    \A h \in Handles : rd[h].st = "done" =>
        /\ \A n \in rd[h].steady \cup {-1, -2} : Times(n, rd[h].names) = 1
        /\ \A n \in rd[h].absent : Times(n, rd[h].names) = 0

\* No call on a directory loses what is in it: the last version of every file is in
\* the cache, or in the cloud with no deletion queued against it, and the file
\* cache's GetAttr finds every file and directory, through mkdir, rmdir and rename
\* of directories, with and without the cloud, and while the queued operations run.
\* rmdir (IsDirEmpty) never removes a directory that still has a file.
Held(p) ==
    \/ local[p] = view[p]
    \/ cloud[p] = view[p] /\ ~(pending[p] = "delete" /\ local[p] = 0)
    \/ move.st = "local" /\ p[1] = move.dst /\ local[Moved(p, move.src)] = view[p]
DirectoriesFound ==
    move.st # "local" => \A d \in vdirs : GetAttr(<<d, 0>>) # "ENOENT"
FilesInDirectories == \A p \in Paths : view[p] > 0 => p[1] \in vdirs
DirectoryKept ==
    /\ TypeOK
    /\ FilesInDirectories /\ DirectoriesFound
    /\ \A p \in Paths : view[p] > 0 => Held(p) /\ (move.st # "local" => GetAttr(p) # "ENOENT")

\* Once the queue is empty the cloud is what the calls made: the files at their last
\* version, nothing left under a name that was renamed or removed, and the
\* directories (updateObject, renamePendingOp).  The creation of a directory that
\* the cloud has already does not count as queued.
Drained ==
    /\ svc.st = "idle" /\ move.st = "idle" /\ up
    /\ \A o \in Objects : pending[o] = "none" \/ (pending[o] = "create" /\ o[2] = 0 /\ o[1] \in cdirs)
CloudSettled ==
    Drained => /\ cloud = view
               /\ \A d \in Dirs : InCloud(<<d, 0>>) <=> d \in vdirs
=============================================================================
