----------------------------- MODULE LruPolicy -----------------------------
(***************************************************************************)
(* The eviction policy of the file cache (component/file_cache/            *)
(* lru_policy.go): a doubly linked list of nodes with two markers, a map   *)
(* from file names to nodes, a thread that moves used nodes to the head    *)
(* (asyncCacheValid), a thread that evicts the nodes beyond the last       *)
(* marker (clearCache), and callers, some of which hold the file's lock.   *)
(* The list is modelled with its pointers, because its sections leave      *)
(* stale pointers in the nodes they take out.                              *)
(***************************************************************************)
EXTENDS Integers, FiniteSets, Sequences, SequencesExt

CONSTANTS
    Names,        \* local paths of files
    Nodes,        \* the node objects that can be alive: pairs of a name and a number
    Marker,       \* the "name" of the two markers and of Nil
    Callers,      \* handlers of the file cache
    Async,        \* the thread of asyncCacheValid
    Evictor,      \* the thread of clearCache
    None,         \* no thread
    maxEviction,  \* cachePolicyConfig.maxEviction
    Opened,       \* the files that are kept open
    Purged,       \* the files that are deleted or renamed
    Pends,        \* the files that callers leave in pendingOps
    Asked         \* the files for which callers call IsCached, holding their lock

Threads == Callers \cup {Async, Evictor}
currMarker == <<Marker, 1>>
lastMarker == <<Marker, 2>>
Nil == <<Marker, 0>>
Cells == Nodes \cup {currMarker, lastMarker}
NameOf(n) == n[1]

ASSUME LruAssumption ==
    /\ Marker \notin Names /\ Nodes \subseteq Names \X Nat /\ IsFiniteSet(Nodes)
    /\ maxEviction \in Nat \ {0}
    /\ Async # Evictor /\ {Async, Evictor, None} \cap Callers = {} /\ None \notin Threads
    /\ Opened \subseteq Names /\ Purged \subseteq Names /\ Pends \subseteq Names
    /\ Asked \subseteq Names

VARIABLES
    list,          \* next, prev (of every node object) and head
    deleted,       \* the nodes whose deleted flag is set
    nodeMap,       \* name to node, or Nil
    validateChan,  \* names sent to asyncCacheValid
    thread,        \* what each thread does, for which file and which node
    evict,         \* clearCache: "idle", "expire", "items", "delete"
    delItems,      \* nodes deleteExpiredNodes has still to look at
    item,          \* the node whose lock clearCache holds, or Nil
    flock,         \* holder of the lock of each file
    open,          \* files with handles (flock.Count() > 0)
    pending        \* files in pendingOps

vars == <<list, deleted, nodeMap, validateChan, thread, evict,
          delItems, item, flock, open, pending>>

Idle == [pc |-> "idle", name |-> Marker, node |-> Nil]

TypeOK ==
    /\ list \in [next : [Cells -> Cells \cup {Nil}],
                 prev : [Cells -> Cells \cup {Nil}], head : Cells \cup {Nil}]
    /\ deleted \subseteq Nodes
    /\ nodeMap \in [Names -> Nodes \cup {Nil}]
    /\ validateChan \subseteq Names
    /\ thread \in [Threads -> [
          pc : {"idle", "create", "restore", "link", "unlink", "rlock"},
          name : Names \cup {Marker}, node : Nodes \cup {Nil}]]
    /\ evict \in {"idle", "expire", "items", "delete"}
    /\ delItems \subseteq Nodes /\ item \in Nodes \cup {Nil}
    /\ flock \in [Names -> Callers \cup {Evictor, None}]
    /\ open \subseteq Names /\ pending \subseteq Names

\* Of the two markers, currMarker comes first.
TwoMarkers ==
    [next |-> [c \in Cells |-> IF c = currMarker THEN lastMarker ELSE Nil],
     prev |-> [c \in Cells |-> IF c = lastMarker THEN currMarker ELSE Nil],
     head |-> currMarker]

\* NewLRUPolicy and StartPolicy without a snapshot.
Init ==
    /\ list = TwoMarkers
    /\ deleted = {} /\ nodeMap = [f \in Names |-> Nil] /\ validateChan = {}
    /\ thread = [t \in Threads |-> Idle]
    /\ evict = "idle" /\ delItems = {} /\ item = Nil
    /\ flock = [f \in Names |-> None]
    /\ open = {} /\ pending = {}

-----------------------------------------------------------------------------
(* The linked list: extractNode, setHead, and the walks over it            *)

\* Mutant: the head is not moved when the head itself is taken out.
extractNodeKeepHead(L, n) ==
    LET nx == L.next[n]
        pv == L.prev[n]
        prev1 == IF nx = Nil THEN L.prev ELSE [L.prev EXCEPT ![nx] = pv]
        next1 == IF pv = Nil THEN L.next ELSE [L.next EXCEPT ![pv] = nx]
    IN [next |-> [next1 EXCEPT ![n] = Nil], prev |-> [prev1 EXCEPT ![n] = Nil],
        head |-> L.head]

\* node.next.prev = node.prev and node.prev.next = node.next, then clear node.
extractNode(L, n) ==
    LET nx == L.next[n]
        pv == L.prev[n]
        prev1 == IF nx = Nil THEN L.prev ELSE [L.prev EXCEPT ![nx] = pv]
        next1 == IF pv = Nil THEN L.next ELSE [L.next EXCEPT ![pv] = nx]
    IN [next |-> [next1 EXCEPT ![n] = Nil], prev |-> [prev1 EXCEPT ![n] = Nil],
        head |-> IF n = L.head THEN nx ELSE L.head]

setHead(L, n) ==
    [next |-> [L.next EXCEPT ![n] = L.head],
     prev |-> [L.prev EXCEPT ![n] = Nil, ![L.head] = n],
     head |-> n]

MoveToHead(L, n) == setHead(extractNode(L, n), n)

\* The cells met from c on by following next, at most as many as there are.
Chain(L, c) ==
    LET walk[i \in 0 .. Cardinality(Cells)] ==
          IF i = 0 THEN IF c = Nil THEN <<>> ELSE <<c>>
          ELSE LET s == walk[i - 1]
               IN IF s = <<>> \/ L.next[Last(s)] = Nil THEN s
                  ELSE Append(s, L.next[Last(s)])
    IN walk[Cardinality(Cells)]

\* An object that nothing refers to any more: the garbage collector reclaims it.
Referenced(n) ==
    \/ \E c \in Cells : c # n /\ n \in {list.next[c], list.prev[c]}
    \/ n = list.head \/ n = item \/ n \in delItems
    \/ \E f \in Names : nodeMap[f] = n
    \/ \E t \in Threads : thread[t].node = n

\* The bound on node objects: callers create a node for f only while one is left
\* for each thread that is about to create one.
NodesLeft(f) ==
    Cardinality({n \in Nodes : NameOf(n) = f /\ ~Referenced(n)})
      > Cardinality({t \in Threads : thread[t].pc = "create" /\ thread[t].name = f})

-----------------------------------------------------------------------------
(* CacheValid, cacheValidate, asyncCacheValid                              *)

\* The caller holds the file's lock, or has the file open (FileUsed) and does not.
CacheValid(c, f) ==
    /\ thread[c] = Idle
    /\ \/ f \in open /\ UNCHANGED flock
       \/ flock[f] = None /\ flock' = [flock EXCEPT ![f] = IF nodeMap[f] = Nil THEN c ELSE None]
    /\ IF nodeMap[f] # Nil
       THEN validateChan' = validateChan \cup {f} /\ UNCHANGED thread
       ELSE /\ NodesLeft(f)
            /\ thread' = [thread EXCEPT ![c] = [Idle EXCEPT !.pc = "create", !.name = f]]
            /\ UNCHANGED validateChan
    /\ UNCHANGED <<list, deleted, nodeMap, evict, delItems, item, open,
                   pending>>

\* cacheValidate with create: nodeMap.LoadOrStore.
LoadOrStore(t) ==
    LET f == thread[t].name
    IN /\ thread[t].pc = "create"
       /\ \E n \in Nodes :
            /\ NameOf(n) = f
            /\ \/ /\ nodeMap[f] = n /\ UNCHANGED <<list, deleted, nodeMap>>
               \/ /\ nodeMap[f] = Nil /\ ~Referenced(n)
                  /\ \A m \in Nodes : NameOf(m) = f /\ m[2] < n[2] => Referenced(m)
                  /\ nodeMap' = [nodeMap EXCEPT ![f] = n]
                  /\ deleted' = deleted \ {n}
                  /\ list' = [list EXCEPT !.next[n] = Nil, !.prev[n] = Nil]
            /\ thread' = [thread EXCEPT ![t] = [@ EXCEPT !.pc = "restore", !.node = n]]
       /\ UNCHANGED <<validateChan, evict, delItems, item, flock, open,
                      pending>>

\* asyncCacheValid takes a name and quits if it is not in nodeMap any more.
AsyncLoad(f) ==
    /\ thread[Async] = Idle /\ f \in validateChan
    /\ validateChan' = validateChan \ {f}
    /\ thread' = IF nodeMap[f] = Nil THEN thread
                 ELSE [thread EXCEPT ![Async] =
                         [pc |-> "restore", name |-> f, node |-> nodeMap[f]]]
    /\ UNCHANGED <<list, deleted, nodeMap, evict, delItems, item, flock,
                   open, pending>>

\* node.deleted.Store(false), without a lock.
Restore(t) ==
    /\ thread[t].pc = "restore"
    /\ deleted' = deleted \ {thread[t].node}
    /\ thread' = [thread EXCEPT ![t].pc = "link"]
    /\ UNCHANGED <<list, nodeMap, validateChan, evict, delItems, item,
                   flock, open, pending>>

\* The call ends, and the file lock that was held for it is released.
Unlocked(t) == [f \in Names |-> IF flock[f] = t THEN None ELSE flock[f]]

\* Under the lock of the policy: put the node at the head of the list.
Link(t) ==
    LET n == thread[t].node
    IN /\ thread[t].pc = "link" /\ list.head # Nil
       /\ list' = IF n = list.head THEN list ELSE MoveToHead(list, n)
       /\ thread' = [thread EXCEPT ![t] = Idle]
       /\ flock' = Unlocked(t) /\ item' = IF t = Evictor THEN Nil ELSE item
       /\ UNCHANGED <<deleted, nodeMap, validateChan, evict, delItems,
                      open, pending>>

-----------------------------------------------------------------------------
(* CachePurge, removeNode, IsCached: under the file's lock                 *)

CachePurge(c, f) ==
    /\ thread[c] = Idle /\ flock[f] = None /\ f \in Purged /\ nodeMap[f] # Nil
    /\ flock' = [flock EXCEPT ![f] = c]
    /\ nodeMap' = [nodeMap EXCEPT ![f] = Nil]
    /\ thread' = [thread EXCEPT ![c] = [pc |-> "unlink", name |-> f, node |-> nodeMap[f]]]
    /\ UNCHANGED <<list, deleted, validateChan, evict, delItems, item,
                   open, pending>>

\* The rest of removeNode, under the lock of the policy, and deleteFile.
Unlink(c) ==
    LET n == thread[c].node
    IN /\ thread[c].pc = "unlink"
       /\ deleted' = deleted \cup {n}
       /\ list' = extractNode(list, n)
       /\ thread' = [thread EXCEPT ![c] = Idle] /\ flock' = Unlocked(c)
       /\ UNCHANGED <<nodeMap, validateChan, evict, delItems, item, open,
                      pending>>

\* IsCached finds the node, and then locks it for reading.
IsCached(c, f) ==
    /\ f \in Asked /\ thread[c] = Idle /\ flock[f] = None /\ nodeMap[f] # Nil
    /\ flock' = [flock EXCEPT ![f] = c]
    /\ thread' = [thread EXCEPT ![c] = [pc |-> "rlock", name |-> f, node |-> nodeMap[f]]]
    /\ UNCHANGED <<list, deleted, nodeMap, validateChan, evict, delItems,
                   item, open, pending>>

IsCachedRead(c) ==
    /\ thread[c].pc = "rlock" /\ item # thread[c].node
    /\ thread' = [thread EXCEPT ![c] = Idle] /\ flock' = Unlocked(c)
    /\ UNCHANGED <<list, deleted, nodeMap, validateChan, evict, delItems,
                   item, open, pending>>

\* Handles are opened and closed, and operations queued and done, under the lock.
OpenClose(f) ==
    /\ flock[f] = None
    /\ \/ f \in open /\ open' = open \ {f}
       \/ f \in Opened \ open /\ nodeMap[f] # Nil /\ open' = open \cup {f}
    /\ UNCHANGED <<list, deleted, nodeMap, validateChan, thread, evict,
                   delItems, item, flock, pending>>

QueueDone(f) ==
    /\ flock[f] = None
    /\ \/ f \in pending /\ pending' = pending \ {f}
       \/ f \in Pends \ pending /\ nodeMap[f] # Nil /\ pending' = pending \cup {f}
    /\ UNCHANGED <<list, deleted, nodeMap, validateChan, thread, evict,
                   delItems, item, flock, open>>

-----------------------------------------------------------------------------
(* clearCache: updateMarker, deleteExpiredNodes, deleteItem                *)

\* The last marker is moved to the head and the two exchange their roles; since
\* the markers are named by their roles, the exchange renames them in the list.
updateMarker ==
    LET L == MoveToHead(list, lastMarker)
        Swap(c) == IF c = currMarker THEN lastMarker
                   ELSE IF c = lastMarker THEN currMarker ELSE c
    IN
    /\ evict = "idle"
    /\ list' = [next |-> [c \in Cells |-> Swap(L.next[Swap(c)])],
                prev |-> [c \in Cells |-> Swap(L.prev[Swap(c)])],
                head |-> Swap(L.head)]
    /\ evict' = "expire"
    /\ UNCHANGED <<deleted, nodeMap, validateChan, thread, delItems, item, flock, open,
                   pending>>

\* The nodes beyond the last marker.
Expired(L) == Chain(L, L.next[lastMarker])

\* How many of them deleteExpiredNodes passes before it reaches the end or has
\* maxEviction of them, skipping pending ones.
Taken(s, k) == {s[i] : i \in {j \in 1 .. k : NameOf(s[j]) \notin pending}}
Passed(s) ==
    CHOOSE k \in 0 .. Len(s) :
       /\ k < Len(s) => Cardinality(Taken(s, k)) = maxEviction
       /\ \A j \in 0 .. k - 1 : Cardinality(Taken(s, j)) < maxEviction

\* The section of deleteExpiredNodes: the nodes passed are cut out of the list.
MarkExpired ==
    LET s == Expired(list)
        k == Passed(s)
        first == list.next[lastMarker]
        rest == IF k < Len(s) THEN s[k + 1] ELSE Nil
        prev1 == [list.prev EXCEPT ![first] = Nil]
    IN /\ evict = "expire"
       /\ IF first = Nil
          THEN evict' = "idle" /\ UNCHANGED <<list, deleted, delItems>>
          ELSE /\ delItems' = Taken(s, k) /\ deleted' = deleted \cup Taken(s, k)
               /\ list' = [list EXCEPT
                    !.next[lastMarker] = rest,
                    !.prev = IF rest = Nil THEN prev1 ELSE [prev1 EXCEPT ![rest] = lastMarker]]
               /\ evict' = "items"
       /\ UNCHANGED <<nodeMap, validateChan, thread, item, flock, open,
                      pending>>

\* Mutant: the node stays in nodeMap while its file is deleted.
EvictItemMapped(n) ==
    /\ evict = "items" /\ thread[Evictor] = Idle /\ n \in delItems
    /\ delItems' = delItems \ {n}
    /\ IF n \in deleted THEN item' = n /\ evict' = "delete" ELSE UNCHANGED <<item, evict>>
    /\ UNCHANGED <<list, deleted, nodeMap, validateChan, thread, flock, open, pending>>

\* item.Lock(); a restored node is left alone, any other is dropped from nodeMap
\* by its name, and deleteItem is called with the node's lock held.
EvictItem(n) ==
    /\ evict = "items" /\ thread[Evictor] = Idle /\ n \in delItems
    /\ delItems' = delItems \ {n}
    /\ IF n \in deleted
       THEN /\ nodeMap' = [nodeMap EXCEPT ![NameOf(n)] = Nil]
            /\ item' = n /\ evict' = "delete"
       ELSE UNCHANGED <<nodeMap, item, evict>>
    /\ UNCHANGED <<list, deleted, validateChan, thread, flock, open,
                   pending>>

EvictDone ==
    /\ evict = "items" /\ thread[Evictor] = Idle /\ delItems = {}
    /\ evict' = "idle"
    /\ UNCHANGED <<list, deleted, nodeMap, validateChan, thread, delItems,
                   item, flock, open, pending>>

\* deleteItem, once it has the file's lock: a file that is valid again is left
\* alone, one that is open or pending goes back to CacheValid.
deleteItem ==
    LET f == NameOf(item)
        inUse == f \in open \/ f \in pending
    IN /\ evict = "delete" /\ flock[f] = None
       /\ evict' = "items"
       /\ IF nodeMap[f] = Nil /\ inUse
          THEN /\ thread' = [thread EXCEPT ![Evictor] =
                               [Idle EXCEPT !.pc = "create", !.name = f]]
               /\ flock' = [flock EXCEPT ![f] = Evictor]
               /\ UNCHANGED item
          ELSE item' = Nil /\ UNCHANGED <<thread, flock>>
       /\ UNCHANGED <<list, deleted, nodeMap, validateChan, delItems, open,
                      pending>>

-----------------------------------------------------------------------------
(* ShutdownPolicy, createSnapshot, StartPolicy, loadSnapshot               *)

Place(c, walk) == SelectInSeq(walk, LAMBDA d : d = c) - 1
NodesOf(walk) == RemoveFirst(RemoveFirst(walk, currMarker), lastMarker)

\* Mutant: the place of a marker does not count the other marker.
createSnapshotUncounted(L) ==
    LET walk == Chain(L, L.head)
    IN [nodeList |-> NodesOf(walk),
        currPos |-> Place(currMarker, walk), lastPos |-> Place(lastMarker, walk) - 1]

\* createSnapshot: the names in list order, and the places of the markers.
createSnapshot(L) ==
    LET walk == Chain(L, L.head)
    IN [nodeList |-> NodesOf(walk),
        currPos |-> Place(currMarker, walk), lastPos |-> Place(lastMarker, walk)]

\* loadSnapshot inserts the nodes one by one into the list of the two markers.
SkipMarker(st, pos) ==
    IF st.index = pos
    THEN [st EXCEPT !.nextNode = st.L.next[@], !.index = @ + 1] ELSE st

Insert(st0, n, ss) ==
    LET st == SkipMarker(SkipMarker(st0, ss.currPos), ss.lastPos)
        nx == st.nextNode
        pv == IF nx = Nil THEN st.tail ELSE st.L.prev[nx]
        prev1 == [st.L.prev EXCEPT ![n] = pv]
        next1 == [st.L.next EXCEPT ![n] = nx]
    IN [L |-> [next |-> IF pv = Nil THEN next1 ELSE [next1 EXCEPT ![pv] = n],
               prev |-> IF nx = Nil THEN prev1 ELSE [prev1 EXCEPT ![nx] = n],
               head |-> IF nx = st.L.head THEN n ELSE st.L.head],
        index |-> st.index + 1, nextNode |-> nx,
        tail |-> IF pv = st.tail THEN n ELSE st.tail]

loadSnapshot(ss) ==
    LET load[i \in 0 .. Len(ss.nodeList)] ==
          IF i = 0
          THEN [L |-> TwoMarkers, index |-> 0, nextNode |-> currMarker, tail |-> lastMarker]
          ELSE Insert(load[i - 1], ss.nodeList[i], ss)
    IN load[Len(ss.nodeList)].L

\* ShutdownPolicy has waited for the threads, and the file system is unmounted.
Stopped ==
    /\ evict = "idle" /\ \A t \in Threads : thread[t] = Idle
    /\ open = {} /\ \A f \in Names : flock[f] = None

\* The mount stops and starts again: the names still in validateChan are
\* lost, every node of the snapshot is fresh.
\* A name that occurs twice is mapped to its last node.
Restart ==
    LET ss == createSnapshot(list)
        at(f) == {i \in 1 .. Len(ss.nodeList) : NameOf(ss.nodeList[i]) = f}
    IN /\ Stopped
       /\ list' = loadSnapshot(ss)
       /\ deleted' = {} /\ validateChan' = {}
       /\ nodeMap' = [f \in Names |->
             IF at(f) = {} THEN Nil ELSE ss.nodeList[Max(at(f))]]
       /\ UNCHANGED <<thread, evict, delItems, item, flock, open, pending>>

Next ==
    \/ \E c \in Callers, f \in Names :
          CacheValid(c, f) \/ CachePurge(c, f) \/ IsCached(c, f)
    \/ \E c \in Callers : Unlink(c) \/ IsCachedRead(c)
    \/ \E t \in Threads : LoadOrStore(t) \/ Restore(t) \/ Link(t)
    \/ \E f \in Names : AsyncLoad(f) \/ OpenClose(f) \/ QueueDone(f)
    \/ \E n \in Nodes : EvictItem(n)
    \/ updateMarker \/ MarkExpired \/ EvictDone \/ deleteItem
    \/ Restart

Spec == Init /\ [][Next]_vars

\* The threads run, and a caller that holds a lock returns.  Go's mutexes are
\* handed over to their waiters, so clearCache gets a file's lock: SF.
Fairness ==
    /\ WF_vars(MarkExpired) /\ WF_vars(EvictDone) /\ SF_vars(deleteItem)
    /\ WF_vars(\E n \in Nodes : EvictItem(n))
    /\ \A c \in Callers : WF_vars(Unlink(c)) /\ WF_vars(IsCachedRead(c))
    /\ \A t \in Threads : WF_vars(LoadOrStore(t) \/ Restore(t) \/ Link(t))

FairSpec == Spec /\ Fairness

-----------------------------------------------------------------------------
(* Properties                                                              *)

Walk == Chain(list, list.head)

\* Whatever the callers, the validator and the evictor do to each other, the list
\* is a proper doubly linked list: it ends, prev mirrors next, and both markers
\* are on it, the current one before the last.  Its walks (createSnapshot,
\* deleteExpiredNodes, printNodes) end, and setHead never meets a nil head.
ListIntact ==
    /\ TypeOK
    /\ list.head # Nil /\ list.prev[list.head] = Nil
    /\ list.next[Last(Walk)] = Nil
    /\ \A i \in 1 .. Len(Walk) - 1 : list.prev[Walk[i + 1]] = Walk[i]
    /\ \E i, j \in 1 .. Len(Walk) : i < j /\ Walk[i] = currMarker /\ Walk[j] = lastMarker

\* No cached file is forgotten: every node of nodeMap is on the list, or held by
\* clearCache, or about to be linked by cacheValidate.  So it is in the next
\* snapshot and eviction can find it.  Not so a file with a pending operation,
\* which deleteExpiredNodes cuts out of the list together with the others.
CachedListed ==
    \A f \in Names \ Pends : nodeMap[f] # Nil =>
       \/ nodeMap[f] \in Range(Walk) \/ nodeMap[f] \in delItems
       \/ \E t \in Threads : thread[t].node = nodeMap[f]

\* An unmount and a mount keep the order of the list, the markers included:
\* loadSnapshot undoes createSnapshot.
SnapshotRestores ==
    LET L == loadSnapshot(createSnapshot(list))
    IN Stopped => Chain(L, L.head) = Walk

\* A pass of clearCache ends, so that ShutdownPolicy can stop it: no two threads
\* wait for each other's file lock and node lock.
EvictionEnds == (evict # "idle") ~> (evict = "idle")
=============================================================================
