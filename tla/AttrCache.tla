----------------------------- MODULE AttrCache -----------------------------
(***************************************************************************)
(* The tree of the attr_cache component (component/attr_cache/cacheMap.go  *)
(* and the helpers of attr_cache.go) and what it answers.  The handlers,   *)
(* which call the cloud first and update the tree afterwards, are in       *)
(* Namespace.                                                              *)
(*                                                                         *)
(* The code keeps a map from paths to items and links every item to its    *)
(* parent and to its children.  Inserting an item puts a new one in the    *)
(* map, with no children: the items below the old one stay in the map but  *)
(* hang on the old item, which nothing reaches any more.  "attached" says  *)
(* that an item is among the children of the item the map has for its      *)
(* parent; an update through the parent pointer of an item that is not     *)
(* attached has no effect that can be seen.                                *)
(*                                                                         *)
(* Every operator maps a cache c to the cache it leaves.  The cache never  *)
(* holds maxFiles items here.                                              *)
(***************************************************************************)
EXTENDS ObjectStore

CONSTANT MaxTime     \* bound on the ticks of the clock; a tick is a cacheTimeout

Times == 0 .. MaxTime
NoList == [at |-> -1, names |-> {}]

Item == [
    found : BOOLEAN,         \* the map has an item for the path
    valid : BOOLEAN,         \* AttrFlagValid
    exists : BOOLEAN,        \* AttrFlagExists
    inCloud : BOOLEAN,       \* not AttrFlagNotInCloud
    at : Times,              \* cachedAt
    size : 0 .. MaxSize,
    attached : BOOLEAN,
    list : [at : Times, names : SUBSET Paths] \cup {NoList},     \* listCache
    complete : BOOLEAN]      \* listingComplete

NoItem == [found |-> FALSE, valid |-> FALSE, exists |-> FALSE, inCloud |-> TRUE, at |-> 0,
           size |-> 0, attached |-> FALSE, list |-> NoList, complete |-> FALSE]

newAttrCacheItem(exists, size, at) ==
    [NoItem EXCEPT !.found = TRUE, !.valid = TRUE, !.exists = exists, !.at = at,
                   !.size = size, !.attached = TRUE]

newCacheTreeMap ==
    [p \in Tree |-> IF p = Root THEN newAttrCacheItem(TRUE, 0, 0) ELSE NoItem]

Valid(c, p) == c[p].found /\ c[p].valid
Exists(c, p) == Valid(c, p) /\ c[p].exists

\* Items reached from p through children that satisfy P, p included.
Reach(c, p, P(_)) ==
    {q \in Below(p) \cup {p} :
        \A r \in Tree : IsPrefix(p, r) /\ IsPrefix(r, q) => P(r) /\ (r # p => c[r].attached)}

ClearLists(c, D) == [p \in Tree |-> IF p \in D THEN [c[p] EXCEPT !.list = NoList] ELSE c[p]]

(***************************************************************************)
(* cacheMap.go                                                             *)
(***************************************************************************)

\* insertItem makes an item for the parent too when there is none, or when it
\* is deleted and the new item exists, and so on upwards.
Missing(c, a, exists) == ~c[a].found \/ (~Exists(c, a) /\ exists)

\* Mutant: the parent keeps its listing.
insertKeepsListing(c, p, exists, size, at, fromDirList) ==
    [q \in Tree |->
        CASE q = p -> newAttrCacheItem(exists, size, at)
          [] q # Root /\ Parent(q) = p -> [c[q] EXCEPT !.attached = FALSE]
          [] OTHER -> c[q]]

insert(c, p, exists, size, at, fromDirList) ==
    LET made == {a \in Ancestors(p) :
                    \A b \in Ancestors(p) : IsPrefix(a, b) => Missing(c, b, exists)}
        fresh == made \cup {p}
        cleared == IF fromDirList \/ ~exists THEN {} ELSE {Parent(q) : q \in fresh}
        item(q) ==
            CASE q \in fresh -> newAttrCacheItem(exists, IF q = p THEN size ELSE 0, at)
              [] q # Root /\ Parent(q) \in fresh /\ q \notin fresh -> [c[q] EXCEPT !.attached = FALSE]
              [] OTHER -> c[q]
    IN  IF p = Root THEN c ELSE ClearLists([q \in Tree |-> item(q)], cleared)

\* markDeleted: the item and what exists below it.
markDeleted(c, p, at) ==
    LET gone == IF p = Root THEN {} ELSE Reach(c, p, LAMBDA r : Exists(c, r))
        item(q) == IF q \in gone THEN [c[q] EXCEPT !.exists = FALSE, !.valid = TRUE, !.at = at] ELSE c[q]
    IN  ClearLists([q \in Tree |-> item(q)], {Parent(q) : q \in {r \in gone : c[r].attached}})

\* invalidate: the item and what is valid below it; a parent that exists
\* loses its listing.
invalidate(c, p) ==
    LET gone == IF p = Root THEN {} ELSE Reach(c, p, LAMBDA r : Valid(c, r))
        losers == {a \in {Parent(q) : q \in {r \in gone : c[r].attached}} : Exists(c, a)}
    IN  [q \in Tree |->
            [c[q] EXCEPT !.valid = @ /\ q \notin gone,
                         !.list = IF q \in losers THEN NoList ELSE @,
                         !.complete = @ /\ q \notin losers]]

markInCloud(c, d, inCloud) ==
    IF d \in Dirs \/ (d = Root /\ inCloud) THEN [c EXCEPT ![d].inCloud = inCloud] ELSE c

\* setMode, setSize, touchModifyAndChangeTimes: the item is as new as now.
Touch(c, p, at) == [c EXCEPT ![p].at = at]
setSize(c, p, size, at) == [c EXCEPT ![p].size = size, ![p].at = at]

(***************************************************************************)
(* Helpers of attr_cache.go                                                *)
(***************************************************************************)

Children(c, d) == {p \in Paths : Parent(p) = d /\ c[p].found /\ c[p].attached}

\* Directories from d upwards, the root excluded.
Upwards(d) == [i \in 1 .. Len(d) |-> SubSeq(d, 1, Len(d) + 1 - i)]

\* Record that the directory d and those above it are in the cloud, up to the
\* first that is known to be.
markAncestorsInCloud(c, d, at) ==
    LET step(acc, a) ==
            IF ~acc.go THEN acc
            ELSE IF ~Exists(acc.c, a)
            THEN [acc EXCEPT !.c = markInCloud(insert(acc.c, a, TRUE, 0, at, FALSE), a, TRUE)]
            ELSE IF acc.c[a].inCloud THEN [acc EXCEPT !.go = FALSE]
            ELSE [acc EXCEPT !.c = markInCloud(acc.c, a, TRUE)]
    IN  FoldLeft(step, [c |-> c, go |-> TRUE], Upwards(d)).c

\* Record from d upwards which directories still have something in the cloud,
\* as long as that changes.
updateAncestorsInCloud(c, d, at) ==
    LET step(acc, a) ==
            LET c1 == IF Exists(acc.c, a) THEN acc.c ELSE insert(acc.c, a, TRUE, 0, at, FALSE)
                some == \E p \in Children(c1, a) : Exists(c1, p) /\ (p \in Files \/ c1[p].inCloud)
            IN  IF ~acc.go THEN acc
                ELSE IF c1[a].inCloud # some THEN [acc EXCEPT !.c = markInCloud(c1, a, some)]
                ELSE [c |-> c1, go |-> FALSE]
    IN  FoldLeft(step, [c |-> c, go |-> TRUE], Upwards(d)).c

touchParentDirTimes(c, p, at) ==
    LET d == Parent(p)
        c1 == IF Exists(c, d) THEN c ELSE insert(c, d, TRUE, 0, at, FALSE)
    IN  IF Exists(c1, d) THEN Touch(c1, d, at) ELSE c1

\* Mutant: only the directory itself is moved.
moveCachedItemAlone(c, src, dst, at) ==
    [insert(c, dst, TRUE, c[src].size, c[src].at, FALSE) EXCEPT
        ![src].exists = FALSE, ![src].at = at, ![Parent(src)].list = NoList]

\* moveCachedItem: what exists at and below src is inserted at dst, parents
\* first, and marked deleted.
moveCachedItem(c, src, dst, at) ==
    LET moving == SetToSortSeq(Reach(c, src, LAMBDA r : Exists(c, r)), LAMBDA p, q : Len(p) < Len(q))
        step(acc, p) ==
            LET q == Moved(p, src, dst)
            IN  markInCloud(insert(acc, q, TRUE, c[p].size, c[p].at, FALSE), q, c[p].inCloud)
    IN  markDeleted(FoldLeft(step, c, moving), src, at)

\* invalidateDirectory: the files below d, through directories that are valid.
invalidateDirectory(c, d) ==
    FoldLeft(LAMBDA acc, f : invalidate(acc, f), c,
             SetToSeq({f \in Reach(c, d, LAMBDA r : r \in Files \/ Valid(c, r)) : f \in Files}))

\* What FlushFile, CommitData and a failed Stat after CopyFromFile forget.
Forget(c, p) ==
    IF c[p].found THEN invalidate(c, p)
    ELSE IF Exists(c, Parent(p))
    THEN [c EXCEPT ![Parent(p)].list = NoList, ![Parent(p)].complete = FALSE]
    ELSE c

\* cacheAttributes: the items of a listing.
cacheAttributes(c, d, names, size, at) ==
    LET c1 == IF names = {} THEN c ELSE markAncestorsInCloud(c, d, at)
    IN  FoldLeft(LAMBDA acc, p : insert(acc, p, TRUE, size[p], at, TRUE), c1, SetToSeq(names))

\* addDirsNotInCloudToListing
NotInCloud(c, d) ==
    IF Exists(c, d) THEN {p \in Children(c, d) : Exists(c, p) /\ p \in Dirs /\ ~c[p].inCloud} ELSE {}

cacheListSegment(c, d, names, at) ==
    IF c[d].found THEN [c EXCEPT ![d].list = [at |-> at, names |-> names]] ELSE c

markListingComplete(c, d, at) ==
    IF c[d].found THEN [c EXCEPT ![d].complete = TRUE, ![d].at = at] ELSE c

\* cleanupExpiredEntries: expired items, children before parents; an item that
\* keeps a child stays.
cleanupExpiredEntries(c, now) ==
    LET gone == {p \in Paths : /\ c[p].found
                               /\ \A q \in Reach(c, p, LAMBDA r : c[r].found) : c[q].at < now}
        losers == {a \in {Parent(p) : p \in {q \in gone : c[q].attached /\ Exists(c, q)}} : Exists(c, a)}
    IN  [q \in Tree |->
            IF q \in gone THEN NoItem
            ELSE [c[q] EXCEPT !.list = IF q \in losers THEN NoList ELSE @,
                              !.complete = @ /\ q \notin losers]]

(***************************************************************************)
(* Answers                                                                 *)
(***************************************************************************)

\* getCachedParent: the nearest valid item above p.
getCachedParent(c, p) ==
    CHOOSE a \in Ancestors(p) :
        /\ Valid(c, a)
        /\ \A b \in Ancestors(p) : Valid(c, b) => IsPrefix(b, a)

\* The first half of GetAttr: an answer that the cache gives for p at a time,
\* the size or Absent, and whether it is still good.
Answer(c, p, now) ==
    LET a == getCachedParent(c, p)
        own == Valid(c, p)
        parentSaysNo == ~c[a].exists \/ c[a].complete
        no == [known |-> TRUE, exists |-> FALSE, size |-> 0, good |-> c[a].at >= now]
    IN  IF own /\ (c[p].at >= now \/ ~parentSaysNo)
        THEN [known |-> TRUE, exists |-> c[p].exists, size |-> c[p].size, good |-> c[p].at >= now]
        ELSE IF parentSaysNo THEN no
        ELSE [known |-> FALSE, exists |-> FALSE, size |-> 0, good |-> FALSE]

\* Mutant: a listing is served whatever its age.
ListServedForEver(c, d, now) == c[d].found /\ c[d].list # NoList

\* fetchCachedDirList: the listing of d that may be served.
ListServed(c, d, now) == c[d].found /\ c[d].list # NoList /\ c[d].list.at >= now

\* The first half of IsDirEmpty: yes, no, or ask the cloud.
EmptyAnswer(c, d, now) ==
    IF ~Exists(c, d) THEN "ask"
    ELSE IF \E p \in Children(c, d) : Exists(c, p) THEN "no"
    ELSE IF c[d].complete /\ c[d].at >= now THEN "yes"
    ELSE "ask"
=============================================================================
