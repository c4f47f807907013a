---------------------------- MODULE XloadProofs ----------------------------
(***************************************************************************)
(* Xload implements Preload.  A run of splitter.Process has the lock of    *)
(* its file, so there is one at a time, and each block it has asked for is *)
(* in one place: in a queue, with a data worker, in an answer, or written. *)
(***************************************************************************)
EXTENDS Xload, FiniteSetTheorems, TLAPS

Item == [job : Procs \cup {None}, file : Files, index : Nat]
Entry == [file : Files, version : 1 .. MaxVersion]
AnswerSet == [index : Nat, ok : BOOLEAN, block : BOOLEAN, version : Nat]
Visit == [dir : Dirs \cup {Root, None}, left : SUBSET (Dirs \cup Files),
          send : Entry \cup {None}, gone : BOOLEAN]
Job == [pc : {"idle", "lock", "attr", "create", "get", "send", "wait", "open", "gone"},
        file : Files \cup {None}, version : 0 .. MaxVersion, next : Nat \ {0}, got : Nat,
        ok : BOOLEAN, live : BOOLEAN]

TypeInv ==
    /\ mount \in Mounts
    /\ remote \in [Files -> 1 .. MaxVersion]
    /\ DOMAIN local = Files
    /\ locks \in [Files -> Procs \cup {None}]
    /\ listCh \in Seq(Dirs \cup {Root}) /\ splitCh \in Seq(Entry)
    /\ dataCh \in Seq(Item) /\ urgentCh \in Seq(Item)
    /\ listers \in [Listers -> Visit]
    /\ jobs \in [Procs -> Job]
    /\ answers \in [Procs -> SUBSET AnswerSet]
    /\ busy \in [Workers -> Item \cup {None, Gone}]
    /\ handle \in [Users -> Files \cup {None}]

Loads(p) == jobs[p].pc \in {"get", "send", "wait"}

\* Process, and a user before and after it, run under the lock of the file.
Locked ==
    \A p \in Procs :
        /\ jobs[p].pc \notin {"idle", "gone"} => jobs[p].file \in Files
        /\ jobs[p].pc \notin {"idle", "gone", "lock"} => locks[jobs[p].file] = p

\* A run of Process goes by a version of the remote file, and starts from the
\* first block.
Dated ==
    /\ \A f \in Files : remote[f] <= mount.versions
    /\ \A p \in Procs :
        /\ jobs[p].pc \in {"lock", "attr", "create"} => jobs[p].next = 1 /\ jobs[p].got = 0
        /\ p \in Splitters /\ jobs[p].pc = "lock" => jobs[p].version > 0
        /\ jobs[p].pc \in {"create", "get", "send", "wait"} => jobs[p].version > 0

\* Where the main loop is.
Progress ==
    \A p \in Procs : Loads(p) =>
        /\ Size(p) > 0
        /\ jobs[p].pc # "wait" => jobs[p].next <= Size(p)
        /\ jobs[p].pc = "wait" => jobs[p].next = Size(p) + 1

\* The blocks of p in a queue, with the data workers and in a set of answers,
\* and that none of them is there twice.
InQueue(q, p) == {q[k].index : k \in {k \in DOMAIN q : q[k].job = p}}
QueuedOnce(q, p) ==
    \A j, k \in DOMAIN q : q[j].job = p /\ q[k].job = p /\ q[j].index = q[k].index => j = k
WorksFor(b, w, p) == b[w] # None /\ b[w] # Gone /\ b[w].job = p
InHands(b, p) == {b[w].index : w \in {w \in Workers : WorksFor(b, w, p)}}
FetchedOnce(b, p) ==
    \A v, w \in Workers : WorksFor(b, v, p) /\ WorksFor(b, w, p) /\ b[v].index = b[w].index => v = w
InAnswers(s) == {a.index : a \in s}
AnsweredOnce(s) == \A a, b \in s : a.index = b.index => a = b

Queue(p) == IF Urgent(p) THEN urgentCh ELSE dataCh
Queued(p) == InQueue(Queue(p), p)
Fetched(p) == InHands(busy, p)
Answered(p) == InAnswers(answers[p])
Out(p) == Queued(p) \cup Fetched(p) \cup Answered(p)
Done(p) == (1 .. jobs[p].next - 1) \ Out(p)

\* Splitters and users have queues of their own.
Queues ==
    /\ \A k \in DOMAIN dataCh : dataCh[k].job \notin Users
    /\ \A k \in DOMAIN urgentCh : urgentCh[k].job \notin Splitters

\* A block is in one place, and only a run of Process that loads has any.
OnceFor(p) ==
    /\ QueuedOnce(Queue(p), p) /\ FetchedOnce(busy, p) /\ AnsweredOnce(answers[p])
    /\ Queued(p) \cap Fetched(p) = {} /\ Queued(p) \cap Answered(p) = {}
    /\ Fetched(p) \cap Answered(p) = {}
    /\ Out(p) \subseteq 1 .. jobs[p].next - 1
    /\ ~Loads(p) => Out(p) = {}
Once == \A p \in Procs : OnceFor(p)

\* What was read is a version of the remote file.
Genuine ==
    \A p \in Procs : \A a \in answers[p] : a.ok => a.version \in 1 .. mount.versions

\* While all is well the writer has counted and written what is not outstanding.
WrittenFor(p) ==
    Loads(p) /\ jobs[p].ok =>
        /\ jobs[p].got = Cardinality(Done(p))
        /\ local[File(p)] # None => \A i \in Done(p) : local[File(p)][i] \in 1 .. mount.versions
Written == \A p \in Procs : WrittenFor(p)

\* A file that nobody loads is whole or absent; one that is loaded has its size.
Whole ==
    \A f \in Files :
        /\ local[f] = None \/ local[f] \in [1 .. Blocks[f] -> Nat]
        /\ ~Loading(f) => local[f] = None \/ local[f] \in Versions(f)

\* An open file is there, nobody loads it, and its user has no other call.
Opened ==
    \A u \in Users : handle[u] # None =>
        /\ jobs[u].pc = "idle"
        /\ local[handle[u]] # None /\ ~Loading(handle[u])

XloadInv ==
    TypeInv /\ Locked /\ Dated /\ Progress /\ Queues /\ Once /\ Genuine /\ Written /\ Whole /\ Opened

-----------------------------------------------------------------------------
(* Queues, data workers and answers                                        *)

LEMMA Numbers ==
    Blocks \in [Files -> Nat] /\ MaxVersion \in Nat /\ NoJob \in Job
<1>1. Blocks \in [Files -> Nat] /\ MaxVersion \in Nat
  BY XloadAssumption
<1>2. NoJob \in Job
  BY <1>1 DEF NoJob, Job
<1> QED BY <1>1, <1>2

LEMMA Versioned ==
    ASSUME NEW m \in Mounts
    PROVE  m.versions \in 1 .. MaxVersion /\ (~m.md5 => m.versions = 1)
<1>1. m \in Mount /\ (m.versions > 1 => m.md5) /\ MaxVersion \in Nat
  BY XloadAssumption
<1>2. m.versions \in 1 .. MaxVersion /\ m.md5 \in BOOLEAN
  BY <1>1 DEF Mount
<1> QED BY <1>1, <1>2

LEMMA Distinct ==
    /\ None \notin Procs /\ None \notin Files /\ None \notin Item /\ Gone \notin Item
    /\ \A p \in Procs : Urgent(p) <=> p \notin Splitters
<1>1. None \notin Procs /\ None \notin Files /\ None \notin Item
  BY XloadAssumption DEF Procs, Item
<1>2. Gone \notin Item
  <2> SUFFICES ASSUME Gone \in Item PROVE FALSE
    OBVIOUS
  <2>1. "dir" \in DOMAIN Gone
    BY DEF Gone
  <2>2. "dir" \notin DOMAIN Gone
    BY DEF Item
  <2> QED BY <2>1, <2>2
<1>3. \A p \in Procs : Urgent(p) <=> p \notin Splitters
  BY XloadAssumption DEF Procs, Urgent
<1> QED BY <1>1, <1>2, <1>3

\* A block that is sent joins its queue.
LEMMA QueueAppend ==
    ASSUME NEW q \in Seq(Item), NEW e \in Item, NEW p \in Procs, QueuedOnce(q, p),
           e.job = p => e.index \notin InQueue(q, p)
    PROVE  /\ e.job = p => InQueue(Append(q, e), p) = InQueue(q, p) \cup {e.index}
           /\ e.job # p => InQueue(Append(q, e), p) = InQueue(q, p)
           /\ QueuedOnce(Append(q, e), p)
<1> DEFINE r == Append(q, e)
<1>1. /\ DOMAIN q = 1 .. Len(q) /\ Len(q) \in Nat /\ DOMAIN r = 1 .. Len(q) + 1
      /\ r[Len(q) + 1] = e
      /\ \A k \in DOMAIN q : r[k] = q[k]
      /\ \A k \in DOMAIN r : k \in DOMAIN q \/ k = Len(q) + 1
  OBVIOUS
<1> HIDE DEF r
<1>2. Len(q) + 1 \in DOMAIN r /\ \A k \in DOMAIN q : k \in DOMAIN r
  BY <1>1
<1>3. e.job = p => InQueue(r, p) = InQueue(q, p) \cup {e.index}
  BY <1>1, <1>2 DEF InQueue
<1>4. e.job # p => InQueue(r, p) = InQueue(q, p)
  BY <1>1, <1>2 DEF InQueue
<1>5. QueuedOnce(r, p)
  <2> SUFFICES ASSUME NEW j \in DOMAIN r, NEW k \in DOMAIN r, r[j].job = p, r[k].job = p,
                      r[j].index = r[k].index
               PROVE  j = k
    BY DEF QueuedOnce
  <2>1. CASE j \in DOMAIN q /\ k \in DOMAIN q
    BY <2>1, <1>1 DEF QueuedOnce
  <2>2. CASE j = Len(q) + 1 /\ k = Len(q) + 1
    BY <2>2
  <2>3. CASE j \in DOMAIN q /\ k = Len(q) + 1
    BY <2>3, <1>1 DEF InQueue
  <2>4. CASE j = Len(q) + 1 /\ k \in DOMAIN q
    BY <2>4, <1>1 DEF InQueue
  <2> QED BY <1>1, <2>1, <2>2, <2>3, <2>4
<1> QED BY <1>3, <1>4, <1>5 DEF r

\* A block that is taken leaves its queue.
LEMMA QueueTail ==
    ASSUME NEW q \in Seq(Item), q # <<>>, NEW p \in Procs, QueuedOnce(q, p)
    PROVE  /\ Head(q) \in Item /\ Tail(q) \in Seq(Item)
           /\ Head(q).job = p => /\ InQueue(Tail(q), p) = InQueue(q, p) \ {Head(q).index}
                                 /\ Head(q).index \in InQueue(q, p)
           /\ Head(q).job # p => InQueue(Tail(q), p) = InQueue(q, p)
           /\ QueuedOnce(Tail(q), p)
<1> DEFINE r == Tail(q)
<1> DEFINE h == Head(q)
<1>1. /\ DOMAIN q = 1 .. Len(q) /\ Len(q) \in Nat /\ Len(q) > 0 /\ DOMAIN r = 1 .. Len(q) - 1
      /\ h = q[1] /\ 1 \in DOMAIN q
      /\ \A k \in DOMAIN r : r[k] = q[k + 1] /\ k + 1 \in DOMAIN q
      /\ \A k \in DOMAIN q : k = 1 \/ (k - 1 \in DOMAIN r /\ r[k - 1] = q[k])
      /\ h \in Item /\ r \in Seq(Item)
  OBVIOUS
<1> HIDE DEF r, h
<1>2. h.job = p => h.index \in InQueue(q, p)
  BY <1>1 DEF InQueue
<1>3. InQueue(r, p) \subseteq InQueue(q, p)
  BY <1>1 DEF InQueue
<1>4. \A i \in InQueue(q, p) : i \in InQueue(r, p) \/ (h.job = p /\ i = h.index)
  <2> TAKE i \in InQueue(q, p)
  <2>1. PICK k \in DOMAIN q : q[k].job = p /\ q[k].index = i
    BY DEF InQueue
  <2> QED BY <2>1, <1>1 DEF InQueue
<1>5. h.job = p => h.index \notin InQueue(r, p)
  <2> SUFFICES ASSUME h.job = p, NEW k \in DOMAIN r, r[k].job = p, r[k].index = h.index PROVE FALSE
    BY DEF InQueue
  <2>1. k + 1 = 1
    BY <1>1 DEF QueuedOnce
  <2> QED BY <2>1, <1>1
<1>6. QueuedOnce(r, p)
  <2> SUFFICES ASSUME NEW j \in DOMAIN r, NEW k \in DOMAIN r, r[j].job = p, r[k].job = p,
                      r[j].index = r[k].index
               PROVE  j = k
    BY DEF QueuedOnce
  <2>1. j + 1 = k + 1
    BY <1>1 DEF QueuedOnce
  <2> QED BY <2>1, <1>1
<1> QED BY <1>1, <1>2, <1>3, <1>4, <1>5, <1>6 DEF r, h

\* When Process returns its blocks belong to nobody.
LEMMA OrphanedType ==
    ASSUME NEW q \in Seq(Item), NEW p \in Procs
    PROVE  /\ Orphaned(q, p) \in Seq(Item) /\ DOMAIN Orphaned(q, p) = DOMAIN q
           /\ \A k \in DOMAIN q :
                 /\ Orphaned(q, p)[k] \in Item /\ Orphaned(q, p)[k].index = q[k].index
                 /\ q[k].job = p => Orphaned(q, p)[k].job = None
                 /\ q[k].job # p => Orphaned(q, p)[k].job = q[k].job
<1> DEFINE s == Orphaned(q, p)
<1>1. /\ DOMAIN q = 1 .. Len(q) /\ Len(q) \in Nat
      /\ s = [k \in DOMAIN q |-> s[k]]
      /\ \A k \in DOMAIN q : q[k] \in Item
      /\ \A k \in DOMAIN q : s[k] = IF q[k].job = p THEN [q[k] EXCEPT !.job = None] ELSE q[k]
  BY DEF Orphaned
<1> HIDE DEF s
<1>2. \A k \in DOMAIN q : /\ s[k] \in Item /\ s[k].index = q[k].index
                          /\ q[k].job = p => s[k].job = None
                          /\ q[k].job # p => s[k].job = q[k].job
  BY <1>1 DEF Item
<1>3. s \in [1 .. Len(q) -> Item]
  BY <1>1, <1>2
<1>4. s \in Seq(Item) /\ DOMAIN s = DOMAIN q
  BY <1>1, <1>3
<1> QED BY <1>2, <1>4 DEF s

LEMMA QueueOrphaned ==
    ASSUME NEW q \in Seq(Item), NEW p \in Procs, NEW r \in Procs, QueuedOnce(q, r)
    PROVE  /\ Orphaned(q, p) \in Seq(Item)
           /\ r = p => InQueue(Orphaned(q, p), r) = {}
           /\ r # p => InQueue(Orphaned(q, p), r) = InQueue(q, r)
           /\ QueuedOnce(Orphaned(q, p), r)
<1> DEFINE s == Orphaned(q, p)
<1>1. /\ s \in Seq(Item) /\ DOMAIN s = DOMAIN q
      /\ \A k \in DOMAIN q : /\ s[k].index = q[k].index
                             /\ q[k].job = p => s[k].job = None
                             /\ q[k].job # p => s[k].job = q[k].job
  BY OrphanedType
<1> HIDE DEF s
<1>2. \A k \in DOMAIN q : s[k].job = r <=> r # p /\ q[k].job = r
  BY <1>1, Distinct
<1>3. r = p => InQueue(s, r) = {}
  BY <1>1, <1>2 DEF InQueue
<1>4. r # p => InQueue(s, r) = InQueue(q, r)
  BY <1>1, <1>2 DEF InQueue
<1>5. QueuedOnce(s, r)
  BY <1>1, <1>2 DEF QueuedOnce
<1> QED BY <1>1, <1>3, <1>4, <1>5 DEF s

\* A data worker takes a block, and is done with one.
LEMMA HandsTake ==
    ASSUME NEW b \in [Workers -> Item \cup {None, Gone}], NEW c \in [Workers -> Item \cup {None, Gone}],
           NEW w \in Workers, NEW e \in Item, NEW p \in Procs,
           b[w] = None, c[w] = e, \A v \in Workers : v # w => c[v] = b[v],
           FetchedOnce(b, p), e.job = p => e.index \notin InHands(b, p)
    PROVE  /\ e.job = p => InHands(c, p) = InHands(b, p) \cup {e.index}
           /\ e.job # p => InHands(c, p) = InHands(b, p)
           /\ FetchedOnce(c, p)
<1>1. c[w] = e /\ \A v \in Workers : v # w => c[v] = b[v]
  OBVIOUS
<1>2. \A v \in Workers : WorksFor(c, v, p) <=> IF v = w THEN e.job = p ELSE WorksFor(b, v, p)
  BY <1>1, Distinct DEF WorksFor
<1>3. ~WorksFor(b, w, p)
  BY DEF WorksFor
<1>4. e.job = p => InHands(c, p) = InHands(b, p) \cup {e.index}
  <2> SUFFICES ASSUME e.job = p PROVE InHands(c, p) = InHands(b, p) \cup {e.index}
    OBVIOUS
  <2>1. \A i \in InHands(c, p) : i \in InHands(b, p) \cup {e.index}
    <3> TAKE i \in InHands(c, p)
    <3>1. PICK v \in Workers : WorksFor(c, v, p) /\ c[v].index = i
      BY DEF InHands
    <3> QED BY <3>1, <1>1, <1>2 DEF InHands
  <2>2. e.index \in InHands(c, p)
    BY <1>1, <1>2 DEF InHands
  <2>3. \A i \in InHands(b, p) : i \in InHands(c, p)
    <3> TAKE i \in InHands(b, p)
    <3>1. PICK v \in Workers : WorksFor(b, v, p) /\ b[v].index = i
      BY DEF InHands
    <3>2. v # w
      BY <3>1, <1>3
    <3> QED BY <3>1, <3>2, <1>1, <1>2 DEF InHands
  <2> QED BY <2>1, <2>2, <2>3
<1>5. e.job # p => InHands(c, p) = InHands(b, p)
  BY <1>1, <1>2, <1>3 DEF InHands
<1>6. FetchedOnce(c, p)
  <2> SUFFICES ASSUME NEW u \in Workers, NEW v \in Workers, WorksFor(c, u, p), WorksFor(c, v, p),
                      c[u].index = c[v].index
               PROVE  u = v
    BY DEF FetchedOnce
  <2>1. CASE u # w /\ v # w
    BY <2>1, <1>1, <1>2 DEF FetchedOnce
  <2>2. CASE u = w /\ v # w
    <3>1. e.job = p /\ WorksFor(b, v, p) /\ b[v].index = e.index
      BY <2>2, <1>1, <1>2
    <3> QED BY <3>1 DEF InHands
  <2>3. CASE v = w /\ u # w
    <3>1. e.job = p /\ WorksFor(b, u, p) /\ b[u].index = e.index
      BY <2>3, <1>1, <1>2
    <3> QED BY <3>1 DEF InHands
  <2> QED BY <2>1, <2>2, <2>3
<1> QED BY <1>1, <1>4, <1>5, <1>6

LEMMA HandsClear ==
    ASSUME NEW b \in [Workers -> Item \cup {None, Gone}], NEW c \in [Workers -> Item \cup {None, Gone}],
           NEW w \in Workers, NEW p \in Procs,
           c[w] \in {None, Gone}, \A v \in Workers : v # w => c[v] = b[v], FetchedOnce(b, p)
    PROVE  /\ WorksFor(b, w, p) => /\ InHands(c, p) = InHands(b, p) \ {b[w].index}
                                   /\ b[w].index \in InHands(b, p)
           /\ ~WorksFor(b, w, p) => InHands(c, p) = InHands(b, p)
           /\ FetchedOnce(c, p)
<1>1. c[w] \in {None, Gone} /\ \A v \in Workers : v # w => c[v] = b[v]
  OBVIOUS
<1>2. \A v \in Workers : WorksFor(c, v, p) <=> v # w /\ WorksFor(b, v, p)
  BY <1>1 DEF WorksFor
<1>3. WorksFor(b, w, p) => b[w].index \in InHands(b, p)
  BY DEF InHands
<1>4. ~WorksFor(b, w, p) => InHands(c, p) = InHands(b, p)
  BY <1>1, <1>2 DEF InHands
<1>5. WorksFor(b, w, p) => InHands(c, p) = InHands(b, p) \ {b[w].index}
  <2> SUFFICES ASSUME WorksFor(b, w, p) PROVE InHands(c, p) = InHands(b, p) \ {b[w].index}
    OBVIOUS
  <2>1. \A i \in InHands(c, p) : i \in InHands(b, p) /\ i # b[w].index
    <3> TAKE i \in InHands(c, p)
    <3>1. PICK v \in Workers : WorksFor(c, v, p) /\ c[v].index = i
      BY DEF InHands
    <3>2. v # w /\ WorksFor(b, v, p) /\ b[v].index = i
      BY <3>1, <1>1, <1>2
    <3> QED BY <3>2 DEF InHands, FetchedOnce
  <2>2. \A i \in InHands(b, p) : i # b[w].index => i \in InHands(c, p)
    <3> TAKE i \in InHands(b, p)
    <3>1. PICK v \in Workers : WorksFor(b, v, p) /\ b[v].index = i
      BY DEF InHands
    <3> QED BY <3>1, <1>1, <1>2 DEF InHands
  <2> QED BY <2>1, <2>2
<1>6. FetchedOnce(c, p)
  BY <1>1, <1>2 DEF FetchedOnce
<1> QED BY <1>1, <1>3, <1>4, <1>5, <1>6

LEMMA HandsOrphaned ==
    ASSUME NEW b \in [Workers -> Item \cup {None, Gone}], NEW p \in Procs, NEW r \in Procs,
           FetchedOnce(b, r), NEW c,
           c = [w \in Workers |-> IF b[w] # None /\ b[w] # Gone /\ b[w].job = p
                                  THEN [b[w] EXCEPT !.job = None] ELSE b[w]]
    PROVE  /\ c \in [Workers -> Item \cup {None, Gone}]
           /\ r = p => InHands(c, r) = {}
           /\ r # p => InHands(c, r) = InHands(b, r)
           /\ FetchedOnce(c, r)
<1>1. \A w \in Workers :
         /\ WorksFor(b, w, p) => c[w] \in Item /\ c[w].job = None /\ c[w].index = b[w].index
         /\ ~WorksFor(b, w, p) => c[w] = b[w]
  <2> TAKE w \in Workers
  <2>1. b[w] \in Item \cup {None, Gone}
    OBVIOUS
  <2>2. CASE WorksFor(b, w, p)
    <3>1. b[w] \in Item /\ c[w] = [b[w] EXCEPT !.job = None]
      BY <2>1, <2>2 DEF WorksFor
    <3> QED BY <3>1, <2>2 DEF Item
  <2>3. CASE ~WorksFor(b, w, p)
    BY <2>3 DEF WorksFor
  <2> QED BY <2>2, <2>3
<1>2. c \in [Workers -> Item \cup {None, Gone}]
  <2>1. \A w \in Workers : c[w] \in Item \cup {None, Gone}
    BY <1>1
  <2> QED BY <2>1
<1>3. None # r /\ None # p
  BY Distinct
<1>4. \A w \in Workers : WorksFor(c, w, r) <=> r # p /\ WorksFor(b, w, r)
  <2> TAKE w \in Workers
  <2>1. CASE WorksFor(b, w, p)
    BY <2>1, <1>1, <1>3 DEF WorksFor
  <2>2. CASE ~WorksFor(b, w, p)
    BY <2>2, <1>1 DEF WorksFor
  <2> QED BY <2>1, <2>2
<1>5. r = p => InHands(c, r) = {}
  BY <1>4 DEF InHands
<1>6. \A w \in Workers : WorksFor(c, w, r) => c[w].index = b[w].index
  BY <1>1, <1>4
<1>7. r # p => InHands(c, r) = InHands(b, r)
  BY <1>4, <1>6 DEF InHands
<1>8. FetchedOnce(c, r)
  BY <1>4, <1>6 DEF FetchedOnce
<1> QED BY <1>2, <1>5, <1>7, <1>8

\* An answer comes, and is written.
LEMMA AnswersAdd ==
    ASSUME NEW s \in SUBSET AnswerSet, NEW e \in AnswerSet, AnsweredOnce(s), e.index \notin InAnswers(s)
    PROVE  InAnswers(s \cup {e}) = InAnswers(s) \cup {e.index} /\ AnsweredOnce(s \cup {e})
BY DEF InAnswers, AnsweredOnce

LEMMA AnswersRemove ==
    ASSUME NEW s \in SUBSET AnswerSet, NEW e \in s, AnsweredOnce(s)
    PROVE  /\ InAnswers(s \ {e}) = InAnswers(s) \ {e.index} /\ AnsweredOnce(s \ {e})
           /\ e.index \in InAnswers(s)
BY DEF InAnswers, AnsweredOnce

-----------------------------------------------------------------------------
(* What a step leaves alone                                                *)

Places == <<dataCh, urgentCh, busy, answers>>

LEMMA PlacesSame ==
    ASSUME UNCHANGED Places, NEW q \in Procs
    PROVE  /\ Queue(q)' = Queue(q) /\ Queued(q)' = Queued(q) /\ Fetched(q)' = Fetched(q)
           /\ Answered(q)' = Answered(q) /\ Out(q)' = Out(q)
<1>1. Queue(q)' = Queue(q)
  BY DEF Places, Queue
<1>2. Queued(q)' = Queued(q) /\ Fetched(q)' = Fetched(q) /\ Answered(q)' = Answered(q)
  BY <1>1 DEF Places, Queued, Fetched, Answered
<1> QED BY <1>1, <1>2 DEF Out

\* A process that has done nothing keeps its blocks, and what it has written.
LEMMA OnceKept ==
    ASSUME UNCHANGED Places, NEW q \in Procs, OnceFor(q), jobs'[q].next = jobs[q].next,
           Loads(q)' <=> Loads(q)
    PROVE  OnceFor(q)'
BY PlacesSame DEF OnceFor, Places

LEMMA OnceIdle ==
    ASSUME UNCHANGED Places, NEW q \in Procs, OnceFor(q), ~Loads(q), ~Loads(q)'
    PROVE  OnceFor(q)'
BY PlacesSame DEF OnceFor, Places

LEMMA WrittenKept ==
    ASSUME NEW q \in Procs, WrittenFor(q), jobs'[q] = jobs[q], Out(q)' = Out(q), mount' = mount,
           Loads(q) => local'[File(q)] = local[File(q)]
    PROVE  WrittenFor(q)'
<1>1. Done(q)' = Done(q) /\ File(q)' = File(q) /\ (Loads(q)' <=> Loads(q))
  BY DEF Done, File, Loads
<1> QED BY <1>1 DEF WrittenFor

\* Who loads a file.
LEMMA LoadingSame ==
    ASSUME \A q \in Procs : /\ Loads(q)' <=> Loads(q)
                            /\ Loads(q) => jobs'[q].file = jobs[q].file
    PROVE  \A f \in Files : Loading(f)' <=> Loading(f)
<1>1. \A f \in Files : Loading(f) <=> \E q \in Procs : jobs[q].file = f /\ Loads(q)
  BY DEF Loading, Loads
<1>2. \A f \in Files : Loading(f)' <=> \E q \in Procs : jobs'[q].file = f /\ Loads(q)'
  BY DEF Loading, Loads
<1> QED BY <1>1, <1>2

LEMMA OneLoader ==
    ASSUME Locked, NEW p \in Procs, jobs[p].pc \notin {"idle", "gone", "lock"}, NEW q \in Procs,
           jobs[q].file = jobs[p].file, jobs[q].pc \notin {"idle", "gone", "lock"}
    PROVE  q = p
BY DEF Locked

\* A step that leaves the preloading of files alone.
Core == <<mount, local, locks, Places, jobs, handle>>

LEMMA QuietStep ==
    ASSUME XloadInv, TypeInv', Dated', UNCHANGED Core
    PROVE  XloadInv'
<1> USE DEF XloadInv
<1>1. UNCHANGED Places
  BY DEF Core
<1>2. \A q \in Procs : /\ Loads(q)' <=> Loads(q)
                       /\ Loads(q) => jobs'[q].file = jobs[q].file
  BY DEF Core, Loads
<1>3. \A f \in Files : Loading(f)' <=> Loading(f)
  BY <1>2, LoadingSame
<1>4. Locked' /\ Progress'
  BY DEF Core, Locked, Progress, Loads, Size, File
<1>5. Queues' /\ Genuine'
  BY DEF Core, Places, Queues, Genuine
<1>6. Once'
  BY <1>1, <1>2, OnceKept DEF Once, Core
<1>7. Written'
  <2> SUFFICES ASSUME NEW q \in Procs PROVE WrittenFor(q)'
    BY DEF Written
  <2>1. Out(q)' = Out(q)
    BY <1>1, PlacesSame
  <2> QED BY <2>1, WrittenKept DEF Written, Core
<1>8. Whole' /\ Opened'
  BY DEF Core, Whole, Opened, Versions, Loading
<1> QED BY <1>4, <1>5, <1>6, <1>7, <1>8

\* A step of a process that does not load, before and after.
LEMMA IdleStep ==
    ASSUME XloadInv, TypeInv', NEW p \in Procs, ~Loads(p), ~Loads(p)',
           \A q \in Procs : q # p => jobs'[q] = jobs[q],
           UNCHANGED Places, mount' = mount
    PROVE  /\ Progress' /\ Queues' /\ Once' /\ Genuine'
           /\ \A f \in Files : Loading(f)' <=> Loading(f)
           /\ (\A q \in Procs : q # p /\ Loads(q) => local'[File(q)] = local[File(q)]) => Written'
<1> USE DEF XloadInv
<1>1. \A q \in Procs : /\ Loads(q)' <=> Loads(q)
                       /\ Loads(q) => jobs'[q].file = jobs[q].file
  BY DEF Loads
<1>2. \A f \in Files : Loading(f)' <=> Loading(f)
  BY <1>1, LoadingSame
<1>3. Progress'
  <2> SUFFICES ASSUME NEW q \in Procs, Loads(q)'
               PROVE  /\ Size(q)' > 0
                      /\ jobs'[q].pc # "wait" => jobs'[q].next <= Size(q)'
                      /\ jobs'[q].pc = "wait" => jobs'[q].next = Size(q)' + 1
    BY DEF Progress
  <2>1. jobs'[q] = jobs[q] /\ Loads(q)
    BY <1>1
  <2>2. Size(q)' = Size(q)
    BY <2>1 DEF Size, File
  <2> QED BY <2>1, <2>2 DEF Progress
<1>4. Queues' /\ Genuine'
  BY DEF Places, Queues, Genuine
<1>5. Once'
  <2> SUFFICES ASSUME NEW q \in Procs PROVE OnceFor(q)'
    BY DEF Once
  <2>1. OnceFor(q)
    BY DEF Once
  <2>2. CASE q = p
    BY <2>1, <2>2, OnceIdle
  <2>3. CASE q # p
    BY <2>1, <2>3, <1>1, OnceKept
  <2> QED BY <2>2, <2>3
<1>6. (\A q \in Procs : q # p /\ Loads(q) => local'[File(q)] = local[File(q)]) => Written'
  <2> SUFFICES ASSUME \A q \in Procs : q # p /\ Loads(q) => local'[File(q)] = local[File(q)],
                      NEW q \in Procs
               PROVE  WrittenFor(q)'
    BY DEF Written
  <2>1. WrittenFor(q) /\ Out(q)' = Out(q)
    BY PlacesSame DEF Written
  <2>2. CASE q = p
    BY <2>2 DEF WrittenFor
  <2>3. CASE q # p
    BY <2>1, <2>3, WrittenKept
  <2> QED BY <2>2, <2>3
<1> QED BY <1>2, <1>3, <1>4, <1>5, <1>6

\* Process returns.
LEMMA ReturnStep ==
    ASSUME XloadInv, NEW p \in Procs, jobs[p].pc \in {"create", "wait"}, NEW ok, Return(p, ok),
           mount' = mount, remote' = remote
    PROVE  /\ locks' \in [Files -> Procs \cup {None}] /\ jobs' \in [Procs -> Job]
           /\ dataCh' \in Seq(Item) /\ urgentCh' \in Seq(Item)
           /\ answers' \in [Procs -> SUBSET AnswerSet] /\ busy' \in [Workers -> Item \cup {None, Gone}]
           /\ ~Loads(p)' /\ \A q \in Procs : q # p => jobs'[q] = jobs[q] /\ Out(q)' = Out(q)
           /\ jobs'[p].pc \in {"idle", "open"} /\ (jobs'[p].pc = "idle" => jobs'[p] = NoJob)
           /\ Locked' /\ Dated' /\ Progress' /\ Queues' /\ Once' /\ Genuine'
<1> USE DEF XloadInv
<1>0. File(p) \in Files /\ locks[File(p)] = p /\ jobs[p].file = File(p)
  BY DEF Locked, File
<1>1. jobs \in [Procs -> Job] /\ locks \in [Files -> Procs \cup {None}] /\ dataCh \in Seq(Item)
      /\ urgentCh \in Seq(Item) /\ answers \in [Procs -> SUBSET AnswerSet]
      /\ busy \in [Workers -> Item \cup {None, Gone}]
  BY DEF TypeInv
<1>2. PICK j : /\ jobs' = [jobs EXCEPT ![p] = j] /\ j \in Job /\ j.pc \in {"idle", "open"}
               /\ j.pc = "idle" => j = NoJob /\ locks' = [locks EXCEPT ![File(p)] = None]
               /\ j.pc = "open" => j.file = File(p) /\ locks' = locks
  <2>1. CASE Urgent(p) /\ ok
    <3> DEFINE j == [NoJob EXCEPT !.pc = "open", !.file = File(p)]
    <3>1. jobs' = [jobs EXCEPT ![p] = j] /\ locks' = locks
      BY <2>1 DEF Return
    <3>2. j \in Job /\ j.pc = "open" /\ j.file = File(p)
      BY <1>0, Numbers DEF Job, NoJob
    <3> QED BY <3>1, <3>2
  <2>2. CASE ~(Urgent(p) /\ ok)
    <3>1. jobs' = [jobs EXCEPT ![p] = NoJob] /\ locks' = [locks EXCEPT ![File(p)] = None]
      BY <2>2 DEF Return
    <3>2. NoJob \in Job /\ NoJob.pc = "idle"
      BY Numbers DEF NoJob
    <3> QED BY <3>1, <3>2
  <2> QED BY <2>1, <2>2
<1>3. jobs'[p] = j /\ \A q \in Procs : q # p => jobs'[q] = jobs[q]
  BY <1>1, <1>2
<1>4. jobs' \in [Procs -> Job] /\ locks' \in [Files -> Procs \cup {None}]
  BY <1>1, <1>2
<1>5. ~Loads(p)'
  BY <1>2, <1>3 DEF Loads
<1>6. Locked'
  <2> SUFFICES ASSUME NEW q \in Procs
               PROVE  /\ jobs'[q].pc \notin {"idle", "gone"} => jobs'[q].file \in Files
                      /\ jobs'[q].pc \notin {"idle", "gone", "lock"} => locks'[jobs'[q].file] = q
    BY DEF Locked
  <2>1. CASE q = p
    BY <2>1, <1>0, <1>2, <1>3
  <2>2. CASE q # p
    <3>1. jobs'[q] = jobs[q]
      BY <2>2, <1>3
    <3>2. jobs[q].pc \notin {"idle", "gone", "lock"} => jobs[q].file # File(p)
      BY <2>2, <1>0 DEF Locked
    <3> QED BY <3>1, <3>2, <1>1, <1>2 DEF Locked
  <2> QED BY <2>1, <2>2
<1>7. Dated'
  BY <1>2, <1>3 DEF Dated
<1>8. Progress'
  <2> SUFFICES ASSUME NEW q \in Procs, Loads(q)'
               PROVE  /\ Size(q)' > 0
                      /\ jobs'[q].pc # "wait" => jobs'[q].next <= Size(q)'
                      /\ jobs'[q].pc = "wait" => jobs'[q].next = Size(q)' + 1
    BY DEF Progress
  <2>1. jobs'[q] = jobs[q] /\ Loads(q)
    BY <1>3, <1>5 DEF Loads
  <2>2. Size(q)' = Size(q)
    BY <2>1 DEF Size, File
  <2> QED BY <2>1, <2>2 DEF Progress
<1>9. answers' \in [Procs -> SUBSET AnswerSet] /\ answers'[p] = {}
      /\ \A q \in Procs : q # p => answers'[q] = answers[q]
  BY <1>1 DEF Return
<1>10. Genuine'
  BY <1>9 DEF Genuine
<1>11. dataCh' = Orphaned(dataCh, p) /\ urgentCh' = Orphaned(urgentCh, p)
       /\ busy' = [w \in Workers |-> IF busy[w] # None /\ busy[w] # Gone /\ busy[w].job = p
                                     THEN [busy[w] EXCEPT !.job = None] ELSE busy[w]]
  BY DEF Return, Busy
<1>12. ASSUME NEW q \in Procs
       PROVE  /\ Queue(q)' \in Seq(Item) /\ QueuedOnce(Queue(q)', q)
              /\ q = p => Queued(q)' = {}
              /\ q # p => Queued(q)' = Queued(q)
  <2>1. Queue(q) \in Seq(Item) /\ Queue(q)' = Orphaned(Queue(q), p)
    BY <1>1, <1>11 DEF Queue
  <2>2. QueuedOnce(Queue(q), q)
    BY DEF Once, OnceFor
  <2>3. /\ Orphaned(Queue(q), p) \in Seq(Item)
        /\ q = p => InQueue(Orphaned(Queue(q), p), q) = {}
        /\ q # p => InQueue(Orphaned(Queue(q), p), q) = InQueue(Queue(q), q)
        /\ QueuedOnce(Orphaned(Queue(q), p), q)
    BY <2>1, <2>2, QueueOrphaned
  <2> QED BY <2>1, <2>3 DEF Queued
<1>13. ASSUME NEW q \in Procs
       PROVE  /\ busy' \in [Workers -> Item \cup {None, Gone}] /\ FetchedOnce(busy', q)
              /\ q = p => Fetched(q)' = {}
              /\ q # p => Fetched(q)' = Fetched(q)
  <2>1. FetchedOnce(busy, q)
    BY DEF Once, OnceFor
  <2>2. /\ busy' \in [Workers -> Item \cup {None, Gone}]
        /\ q = p => InHands(busy', q) = {}
        /\ q # p => InHands(busy', q) = InHands(busy, q)
        /\ FetchedOnce(busy', q)
    BY <2>1, <1>1, <1>11, HandsOrphaned
  <2> QED BY <2>2 DEF Fetched
<1>14. \A q \in Procs : q # p => Answered(q)' = Answered(q)
  BY <1>9 DEF Answered
<1>15. \A q \in Procs : q # p => Out(q)' = Out(q)
  BY <1>12, <1>13, <1>14 DEF Out
<1>16. Once'
  <2> SUFFICES ASSUME NEW q \in Procs PROVE OnceFor(q)'
    BY DEF Once
  <2>0. OnceFor(q)
    BY DEF Once
  <2>1. QueuedOnce(Queue(q)', q) /\ FetchedOnce(busy', q)
    BY <1>12, <1>13
  <2>2. CASE q = p
    <3>1. Queued(q)' = {} /\ Fetched(q)' = {} /\ Answered(q)' = {} /\ answers'[q] = {}
      BY <2>2, <1>9, <1>12, <1>13 DEF Answered, InAnswers
    <3>2. AnsweredOnce(answers'[q])
      BY <3>1 DEF AnsweredOnce
    <3> QED BY <3>1, <3>2, <2>1 DEF OnceFor, Out
  <2>3. CASE q # p
    <3>1. Queued(q)' = Queued(q) /\ Fetched(q)' = Fetched(q) /\ Answered(q)' = Answered(q)
          /\ answers'[q] = answers[q] /\ jobs'[q] = jobs[q]
      BY <2>3, <1>3, <1>9, <1>12, <1>13 DEF Answered, InAnswers
    <3>2. Loads(q)' <=> Loads(q)
      BY <3>1 DEF Loads
    <3> QED BY <3>1, <3>2, <2>0, <2>1 DEF OnceFor, Out
  <2> QED BY <2>2, <2>3
<1>17. dataCh' \in Seq(Item) /\ urgentCh' \in Seq(Item) /\ Queues'
  <2>1. None \notin Procs
    BY Distinct
  <2>2. /\ dataCh' \in Seq(Item) /\ DOMAIN dataCh' = DOMAIN dataCh
        /\ \A k \in DOMAIN dataCh : dataCh'[k].job \in {dataCh[k].job, None}
    BY <1>1, <1>11, OrphanedType
  <2>3. /\ urgentCh' \in Seq(Item) /\ DOMAIN urgentCh' = DOMAIN urgentCh
        /\ \A k \in DOMAIN urgentCh : urgentCh'[k].job \in {urgentCh[k].job, None}
    BY <1>1, <1>11, OrphanedType
  <2> QED BY <2>1, <2>2, <2>3 DEF Queues, Procs
<1> QED BY <1>2, <1>3, <1>4, <1>5, <1>6, <1>7, <1>8, <1>9, <1>10, <1>13, <1>15, <1>16, <1>17

-----------------------------------------------------------------------------
(* The steps                                                               *)

\* Whole and open files when nobody begins or ends to load, and nothing is written.
LEMMA FilesKept ==
    ASSUME XloadInv, \A f \in Files : Loading(f)' <=> Loading(f), local' = local
    PROVE  /\ Whole'
           /\ (handle' = handle /\ \A u \in Users : handle[u] # None => jobs'[u] = jobs[u]) => Opened'
<1>1. Whole'
  <2> SUFFICES ASSUME NEW f \in Files
               PROVE  /\ local'[f] = None \/ local'[f] \in [1 .. Blocks[f] -> Nat]
                      /\ ~Loading(f)' => local'[f] = None \/ local'[f] \in Versions(f)
    BY DEF Whole, Versions
  <2> QED BY DEF XloadInv, Whole
<1>2. ASSUME handle' = handle, \A u \in Users : handle[u] # None => jobs'[u] = jobs[u]
      PROVE  Opened'
  <2>1. \A f \in Files : (\E p \in Procs : jobs'[p].file = f /\ jobs'[p].pc \in {"get", "send", "wait"})
                         <=> Loading(f)
    BY DEF Loading
  <2>2. \A u \in Users : handle[u] \in Files \cup {None}
    BY DEF XloadInv, TypeInv
  <2> SUFFICES ASSUME NEW u \in Users, handle'[u] # None
               PROVE  /\ jobs'[u].pc = "idle" /\ local'[handle'[u]] # None
                      /\ ~\E p \in Procs : jobs'[p].file = handle'[u] /\ jobs'[p].pc \in {"get", "send", "wait"}
    BY DEF Opened, Loading
  <2> QED BY <1>2, <2>1, <2>2 DEF XloadInv, Opened
<1> QED BY <1>1, <1>2

LEMMA ListerSteps ==
    ASSUME XloadInv, NEW l \in Listers, ListerStep(l) \/ ListFails(l)
    PROVE  XloadInv'
<1>0. TypeInv
  BY DEF XloadInv
<1>1. listers[l] \in Visit /\ NoDir \in Visit /\ Gone \in Visit
  BY <1>0 DEF TypeInv, Visit, NoDir, Gone
<1>2. UNCHANGED Core /\ UNCHANGED remote
  BY DEF ListerStep, ListDir, ListFails, ListEntry, SendFile, Listed, ListerLeaves, Core, Places, store,
         channels, threads, ending
<1>3. /\ listCh' \in Seq(Dirs \cup {Root}) /\ splitCh' \in Seq(Entry)
      /\ \E v \in Visit : listers' = [listers EXCEPT ![l] = v]
  <2>1. CASE ListDir(l)
    <3> DEFINE v == [NoDir EXCEPT !.dir = Head(listCh), !.left = Entries(Head(listCh))]
    <3>1. Head(listCh) \in Dirs \cup {Root} /\ listCh' \in Seq(Dirs \cup {Root})
      BY <2>1, <1>0 DEF ListDir, TypeInv
    <3>2. Entries(Head(listCh)) \subseteq Dirs \cup Files
      <4>1. mount.dirs \subseteq Dirs /\ mount.files \subseteq Files
        BY <1>0, XloadAssumption DEF TypeInv, Mount
      <4> QED BY <4>1 DEF Entries
    <3>3. v \in Visit
      BY <3>1, <3>2 DEF Visit, NoDir, Gone
    <3>4. listers' = [listers EXCEPT ![l] = v] /\ splitCh' = splitCh
      BY <2>1 DEF ListDir
    <3> QED BY <3>1, <3>3, <3>4, <1>0 DEF TypeInv
  <2>2. CASE ListFails(l) \/ Listed(l)
    BY <2>2, <1>0, <1>1 DEF ListFails, Listed, TypeInv, channels
  <2>3. CASE \E e \in listers[l].left : ListEntry(l, e)
    <3>1. PICK e \in listers[l].left : ListEntry(l, e)
      BY <2>3
    <3>2. e \in Dirs \cup Files /\ remote \in [Files -> 1 .. MaxVersion]
      BY <1>0, <1>1 DEF Visit, TypeInv
    <3> DEFINE v == IF e \in Dirs THEN [listers[l] EXCEPT !.left = @ \ {e}]
                    ELSE IF Stopped THEN NoDir
                    ELSE [listers[l] EXCEPT !.left = @ \ {e}, !.send = [file |-> e, version |-> remote[e]]]
    <3>3. splitCh' = splitCh /\ listCh' = listCh
      BY <3>1 DEF ListEntry, channels
    <3>7. listers' = [listers EXCEPT ![l] = v]
      BY <3>1 DEF ListEntry
    <3>4. [listers[l] EXCEPT !.left = @ \ {e}] \in Visit
      BY <1>1 DEF Visit
    <3>5. e \notin Dirs =>
             [listers[l] EXCEPT !.left = @ \ {e}, !.send = [file |-> e, version |-> remote[e]]] \in Visit
      BY <1>1, <3>2 DEF Visit, Entry
    <3>6. v \in Visit
      BY <3>4, <3>5, <1>1
    <3> QED BY <3>3, <3>6, <3>7, <1>0 DEF TypeInv
  <2>4. CASE SendFile(l)
    <3>1. listers[l].send \in Entry
      BY <2>4, <1>1 DEF SendFile, Visit
    <3>2. [listers[l] EXCEPT !.send = None] \in Visit
      BY <1>1 DEF Visit
    <3>3. listers' = [listers EXCEPT ![l] = [listers[l] EXCEPT !.send = None]] /\ listCh' = listCh
          /\ splitCh' = Append(splitCh, listers[l].send)
      BY <2>4, <1>0 DEF SendFile, TypeInv
    <3>4. splitCh \in Seq(Entry) /\ listCh \in Seq(Dirs \cup {Root})
      BY <1>0 DEF TypeInv
    <3>5. splitCh' \in Seq(Entry)
      BY <3>1, <3>3, <3>4
    <3> QED BY <3>2, <3>3, <3>4, <3>5
  <2>5. CASE ListerLeaves(l)
    BY <2>5, <1>0, <1>1 DEF ListerLeaves, TypeInv, channels
  <2> QED BY <2>1, <2>2, <2>3, <2>4, <2>5 DEF ListerStep
<1>4. listers' \in [Listers -> Visit]
  BY <1>0, <1>3 DEF TypeInv
<1>5. TypeInv'
  BY <1>0, <1>2, <1>3, <1>4 DEF TypeInv, Core, Places
<1>6. Dated'
  BY <1>2 DEF XloadInv, Dated, Core
<1> QED BY <1>2, <1>5, <1>6, QuietStep

LEMMA OtherQuietSteps ==
    ASSUME XloadInv,
           \/ \E d \in Dirs : Mkdir(d) \/ SendDir(d)
           \/ \E f \in Files : RemoteChange(f)
           \/ Cancel \/ CloseNext \/ UNCHANGED vars
    PROVE  XloadInv'
<1>0. TypeInv
  BY DEF XloadInv
<1>1. UNCHANGED Core
  BY DEF Mkdir, SendDir, RemoteChange, Cancel, CloseNext, vars, Core, Places, store, channels, threads, ending
<1>2. CASE \E f \in Files : RemoteChange(f)
  <2>1. PICK f \in Files : RemoteChange(f)
    BY <1>2
  <2>2. mount.versions \in 1 .. MaxVersion /\ remote[f] \in 1 .. MaxVersion /\ MaxVersion \in Nat
    <3>1. mount \in Mounts /\ remote \in [Files -> 1 .. MaxVersion]
      BY <1>0 DEF TypeInv
    <3>2. mount.versions \in 1 .. MaxVersion
      BY <3>1, Versioned
    <3>3. remote[f] \in 1 .. MaxVersion
      BY <3>1
    <3> QED BY <3>2, <3>3, Numbers
  <2>3. remote' \in [Files -> 1 .. MaxVersion] /\ \A g \in Files : remote'[g] <= mount.versions
    BY <2>1, <2>2, <1>0 DEF RemoteChange, TypeInv, XloadInv, Dated
  <2>4. TypeInv'
    BY <2>1, <2>3, <1>0 DEF RemoteChange, TypeInv, store, channels, threads
  <2>5. Dated'
    BY <2>3, <1>1 DEF XloadInv, Dated, Core
  <2> QED BY <1>1, <2>4, <2>5, QuietStep
<1>3. CASE ~\E f \in Files : RemoteChange(f)
  <2>1. remote' = remote /\ splitCh' = splitCh /\ listers' = listers
    BY <1>3 DEF Mkdir, SendDir, Cancel, CloseNext, vars, store, channels, threads, ending
  <2>2. listCh' \in Seq(Dirs \cup {Root})
    <3>1. CASE \E d \in Dirs : SendDir(d)
      <4>1. PICK d \in Dirs : SendDir(d)
        BY <3>1
      <4>2. listCh' = listCh \/ listCh' = Append(listCh, d)
        BY <4>1 DEF SendDir
      <4>3. listCh \in Seq(Dirs \cup {Root})
        BY <1>0 DEF TypeInv
      <4> QED BY <4>2, <4>3
    <3>2. CASE ~\E d \in Dirs : SendDir(d)
      BY <3>2, <1>0, <1>3 DEF Mkdir, Cancel, CloseNext, vars, channels, TypeInv
    <3> QED BY <3>1, <3>2
  <2>3. TypeInv'
    BY <1>0, <1>1, <2>1, <2>2 DEF TypeInv, Core, Places
  <2>4. Dated'
    BY <2>1, <1>1 DEF XloadInv, Dated, Core
  <2> QED BY <1>1, <2>3, <2>4, QuietStep
<1> QED BY <1>2, <1>3

\* A worker or a user begins: he asks for the lock of a file.
LEMMA BeginSteps ==
    ASSUME XloadInv, NEW p \in Procs, NEW j \in Job, jobs[p] = NoJob, jobs' = [jobs EXCEPT ![p] = j],
           j.pc \in {"lock", "gone"}, j.pc = "lock" => j.file \in Files,
           p \in Splitters /\ j.pc = "lock" => j.version > 0, j.next = 1 /\ j.got = 0,
           p \in Users => handle[p] = None,
           splitCh' \in Seq(Entry), UNCHANGED <<mount, remote, local, locks, listCh, listers, handle, Places>>
    PROVE  XloadInv'
<1> USE DEF XloadInv
<1>0. jobs[p].pc = "idle" /\ jobs \in [Procs -> Job]
  BY DEF NoJob, TypeInv
<1>1. jobs'[p] = j /\ jobs' \in [Procs -> Job] /\ \A q \in Procs : q # p => jobs'[q] = jobs[q]
  BY <1>0
<1>2. TypeInv'
  BY <1>1 DEF TypeInv, Places
<1>3. ~Loads(p) /\ ~Loads(p)'
  BY <1>0, <1>1 DEF Loads
<1>4. Locked'
  BY <1>1 DEF Locked
<1>5. Dated'
  BY <1>1 DEF Dated
<1>6. /\ Progress' /\ Queues' /\ Once' /\ Genuine' /\ Written'
      /\ \A f \in Files : Loading(f)' <=> Loading(f)
  <2>1. UNCHANGED Places /\ mount' = mount /\ local' = local
    OBVIOUS
  <2> QED BY <2>1, <1>1, <1>2, <1>3, IdleStep
<1>7. \A u \in Users : handle[u] # None => jobs'[u] = jobs[u]
  BY <1>1 DEF Procs
<1>8. Whole' /\ Opened'
  BY <1>6, <1>7, FilesKept
<1> QED BY <1>2, <1>4, <1>5, <1>6, <1>8

LEMMA TakeFileStep ==
    ASSUME XloadInv, NEW s \in Splitters, TakeFile(s)
    PROVE  XloadInv'
<1>1. s \in Procs /\ s \notin Users
  BY XloadAssumption DEF Procs
<1>2. Head(splitCh) \in Entry /\ splitCh' \in Seq(Entry)
  BY DEF XloadInv, TypeInv, TakeFile
<1>3. PICK e : e = Head(splitCh)
  OBVIOUS
<1>4. e.file \in Files /\ e.version \in 0 .. MaxVersion /\ e.version > 0
  BY <1>2, <1>3, Numbers DEF Entry
<1> DEFINE j == [NoJob EXCEPT !.pc = "lock", !.file = e.file, !.version = e.version]
<1>5. j \in Job /\ j.pc = "lock" /\ j.file \in Files /\ j.version > 0 /\ j.next = 1 /\ j.got = 0
  <2>1. PICK f \in Files, v \in 0 .. MaxVersion : f = e.file /\ v = e.version /\ v > 0
    BY <1>4
  <2>2. j = [NoJob EXCEPT !.pc = "lock", !.file = f, !.version = v]
    BY <2>1
  <2>3. NoJob \in Job /\ MaxVersion \in Nat
    BY Numbers
  <2>4. [NoJob EXCEPT !.pc = "lock", !.file = f, !.version = v] \in Job
    BY <2>3 DEF Job
  <2>5. j.pc = "lock" /\ j.file = f /\ j.version = v /\ j.next = 1 /\ j.got = 0
    BY <2>2 DEF NoJob
  <2> QED BY <2>1, <2>2, <2>4, <2>5
<1>6. jobs' = [jobs EXCEPT ![s] = j] /\ jobs[s] = NoJob
  BY <1>3 DEF TakeFile
<1>7. UNCHANGED <<mount, remote, local, locks, listCh, listers, handle, Places>>
  BY DEF TakeFile, Places, store
<1> HIDE DEF j
<1> QED BY <1>1, <1>2, <1>5, <1>6, <1>7, BeginSteps

LEMMA OpenFileStep ==
    ASSUME XloadInv, NEW u \in Users, NEW f \in Files, OpenFile(u, f)
    PROVE  XloadInv'
<1> DEFINE j == [NoJob EXCEPT !.pc = "lock", !.file = f]
<1>1. u \in Procs /\ u \notin Splitters
  BY XloadAssumption DEF Procs
<1>2. j \in Job /\ j.pc = "lock" /\ j.file \in Files /\ j.next = 1 /\ j.got = 0
  BY Numbers DEF Job, NoJob
<1>3. jobs' = [jobs EXCEPT ![u] = j] /\ jobs[u] = NoJob /\ handle[u] = None
  BY DEF OpenFile
<1>4. UNCHANGED <<mount, remote, local, locks, listCh, listers, handle, Places>> /\ splitCh' \in Seq(Entry)
  BY DEF OpenFile, Places, store, channels, XloadInv, TypeInv
<1> HIDE DEF j
<1> QED BY <1>1, <1>2, <1>3, <1>4, BeginSteps

LEMMA SplitterLeavesStep ==
    ASSUME XloadInv, NEW s \in Splitters, SplitterLeaves(s)
    PROVE  XloadInv'
<1> DEFINE j == [NoJob EXCEPT !.pc = "gone"]
<1>1. s \in Procs /\ s \notin Users
  BY XloadAssumption DEF Procs
<1>2. j \in Job /\ j.pc = "gone" /\ j.next = 1 /\ j.got = 0
  BY Numbers DEF Job, NoJob
<1>3. jobs' = [jobs EXCEPT ![s] = j] /\ jobs[s] = NoJob
  BY <1>1 DEF SplitterLeaves, XloadInv, TypeInv
<1>4. UNCHANGED <<mount, remote, local, locks, listCh, listers, handle, Places>> /\ splitCh' \in Seq(Entry)
  BY DEF SplitterLeaves, Places, store, channels, XloadInv, TypeInv
<1> HIDE DEF j
<1> QED BY <1>1, <1>2, <1>3, <1>4, BeginSteps

\* A process that holds no blocks goes on, with the lock or without.
LEMMA CallStep ==
    ASSUME XloadInv, NEW p \in Procs, NEW j \in Job, jobs' = [jobs EXCEPT ![p] = j],
           ~Loads(p), j.pc \notin {"get", "send", "wait", "lock"},
           j.pc \in {"attr", "create"} => j.next = 1 /\ j.got = 0,
           j.pc \in {"create"} => j.version > 0,
           j.pc \notin {"idle", "gone"} => j.file \in Files /\ locks'[j.file] = p,
           \A q \in Procs : q # p /\ jobs[q].pc \notin {"idle", "gone", "lock"} =>
                               locks'[jobs[q].file] = locks[jobs[q].file],
           locks' \in [Files -> Procs \cup {None}], handle' \in [Users -> Files \cup {None}],
           UNCHANGED <<mount, remote, local, splitCh, listCh, listers, Places>>
    PROVE  /\ TypeInv' /\ Locked' /\ Dated' /\ Progress' /\ Queues' /\ Once' /\ Genuine' /\ Written' /\ Whole'
           /\ (handle' = handle /\ (p \in Users => handle[p] = None)) => Opened'
           /\ \A f \in Files : Loading(f)' <=> Loading(f)
<1> USE DEF XloadInv
<1>0. jobs \in [Procs -> Job]
  BY DEF TypeInv
<1>1. jobs'[p] = j /\ jobs' \in [Procs -> Job] /\ \A q \in Procs : q # p => jobs'[q] = jobs[q]
  BY <1>0
<1>2. TypeInv'
  BY <1>1 DEF TypeInv, Places
<1>3. ~Loads(p)'
  BY <1>1 DEF Loads
<1>4. Locked'
  <2> SUFFICES ASSUME NEW q \in Procs
               PROVE  /\ jobs'[q].pc \notin {"idle", "gone"} => jobs'[q].file \in Files
                      /\ jobs'[q].pc \notin {"idle", "gone", "lock"} => locks'[jobs'[q].file] = q
    BY DEF Locked
  <2>1. CASE q = p
    BY <2>1, <1>1
  <2>2. CASE q # p
    BY <2>2, <1>1 DEF Locked
  <2> QED BY <2>1, <2>2
<1>5. Dated'
  BY <1>1 DEF Dated
<1>6. /\ Progress' /\ Queues' /\ Once' /\ Genuine' /\ Written'
      /\ \A f \in Files : Loading(f)' <=> Loading(f)
  <2>1. UNCHANGED Places /\ mount' = mount /\ local' = local
    OBVIOUS
  <2> QED BY <2>1, <1>1, <1>2, <1>3, IdleStep
<1>7. ASSUME p \in Users => handle[p] = None
      PROVE  \A u \in Users : handle[u] # None => jobs'[u] = jobs[u]
  BY <1>1, <1>7 DEF Procs
<1>8. Whole' /\ ((handle' = handle /\ (p \in Users => handle[p] = None)) => Opened')
  BY <1>6, <1>7, FilesKept
<1> QED BY <1>2, <1>4, <1>5, <1>6, <1>8

LEMMA LockStep ==
    ASSUME XloadInv, NEW p \in Procs, Lock(p)
    PROVE  XloadInv'
<1> USE DEF XloadInv
<1>0. /\ jobs \in [Procs -> Job] /\ locks \in [Files -> Procs \cup {None}] /\ jobs[p].pc = "lock"
      /\ jobs[p].file \in Files /\ jobs[p] \in Job /\ locks[jobs[p].file] = None
  BY DEF TypeInv, Lock, Locked, File
<1>1. PICK pc \in {"create", "open", "attr"} :
         /\ jobs' = [jobs EXCEPT ![p] = [jobs[p] EXCEPT !.pc = pc]]
         /\ pc = "create" => p \in Splitters
  <2>1. ~Urgent(p) => p \in Splitters
    BY Distinct
  <2> QED BY <2>1, <1>0 DEF Lock
<1> DEFINE j == [jobs[p] EXCEPT !.pc = pc]
<1>2. /\ j \in Job /\ j.pc = pc /\ j.file = jobs[p].file /\ j.version = jobs[p].version
      /\ j.next = 1 /\ j.got = 0
  <2>1. jobs[p].next = 1 /\ jobs[p].got = 0
    BY <1>0 DEF Dated
  <2> QED BY <2>1, <1>0 DEF Job
<1>3. locks' = [locks EXCEPT ![jobs[p].file] = p]
  BY DEF Lock, File
<1>4. locks' \in [Files -> Procs \cup {None}] /\ locks'[j.file] = p
  BY <1>0, <1>2, <1>3
<1>5. \A q \in Procs : q # p /\ jobs[q].pc \notin {"idle", "gone", "lock"} =>
                          locks'[jobs[q].file] = locks[jobs[q].file]
  BY <1>0, <1>3, Distinct DEF Locked
<1>6. UNCHANGED <<mount, remote, local, splitCh, listCh, listers, Places>> /\ handle' = handle
  BY DEF Lock, Places, channels
<1>7. ~Loads(p) /\ (p \in Users => handle[p] = None) /\ handle' \in [Users -> Files \cup {None}]
  BY <1>0, <1>6 DEF Loads, Opened, TypeInv
<1>8. pc = "create" => j.version > 0
  BY <1>0, <1>1, <1>2 DEF Dated
<1>9. jobs' = [jobs EXCEPT ![p] = j]
  BY <1>1
<1> HIDE DEF j
<1>10. j.pc \notin {"get", "send", "wait", "lock"} /\ (j.pc \in {"create"} => j.version > 0)
       /\ j.next = 1 /\ j.got = 0
       /\ (j.pc \notin {"idle", "gone"} => j.file \in Files /\ locks'[j.file] = p)
  BY <1>0, <1>2, <1>4, <1>8
<1> QED BY <1>2, <1>4, <1>5, <1>6, <1>7, <1>9, <1>10, CallStep

\* A process gives up the lock of its file and has nothing more to do.
LEMMA UnlockStep ==
    ASSUME XloadInv, NEW u \in Users, jobs[u].pc \in {"attr", "open"}, jobs' = [jobs EXCEPT ![u] = NoJob],
           locks' = [locks EXCEPT ![File(u)] = None], handle' \in [Users -> Files \cup {None}],
           UNCHANGED <<mount, remote, local, splitCh, listCh, listers, Places>>
    PROVE  /\ TypeInv' /\ Locked' /\ Dated' /\ Progress' /\ Queues' /\ Once' /\ Genuine' /\ Written' /\ Whole'
           /\ handle' = handle => Opened'
           /\ \A f \in Files : Loading(f)' <=> Loading(f)
<1> USE DEF XloadInv
<1>0. /\ u \in Procs /\ NoJob \in Job /\ NoJob.pc = "idle" /\ ~Loads(u) /\ handle[u] = None
      /\ File(u) = jobs[u].file
  BY Numbers DEF Procs, NoJob, Loads, Opened, File
<1>1. /\ locks \in [Files -> Procs \cup {None}] /\ jobs[u].file \in Files
      /\ locks[jobs[u].file] = u
  BY <1>0 DEF TypeInv, Locked
<1>2. locks' \in [Files -> Procs \cup {None}]
  BY <1>1
<1>3. \A q \in Procs : q # u /\ jobs[q].pc \notin {"idle", "gone", "lock"} =>
                          locks'[jobs[q].file] = locks[jobs[q].file]
  BY <1>0, <1>1 DEF Locked
<1> QED BY <1>0, <1>2, <1>3, CallStep

LEMMA DownloadFileStep ==
    ASSUME XloadInv, NEW u \in Users, DownloadFile(u)
    PROVE  XloadInv'
<1> USE DEF XloadInv
<1>0. /\ u \in Procs /\ jobs \in [Procs -> Job] /\ jobs[u] \in Job /\ jobs[u].pc = "attr"
      /\ jobs[u].file \in Files /\ locks[jobs[u].file] = u /\ File(u) = jobs[u].file
      /\ handle[u] = None /\ ~Loads(u)
  BY DEF Procs, TypeInv, DownloadFile, Locked, File, Opened, Loads
<1>1. UNCHANGED <<mount, remote, local, splitCh, listCh, listers, Places>> /\ handle' = handle
      /\ handle' \in [Users -> Files \cup {None}]
  BY DEF DownloadFile, Places, channels, TypeInv
<1>2. CASE jobs' = [jobs EXCEPT ![u] = NoJob] /\ locks' = [locks EXCEPT ![File(u)] = None]
  BY <1>0, <1>1, <1>2, UnlockStep
<1>3. CASE jobs' = [jobs EXCEPT ![u].pc = "create", ![u].version = remote[File(u)]] /\ locks' = locks
  <2>1. remote[File(u)] \in 1 .. MaxVersion /\ MaxVersion \in Nat
    BY <1>0, Numbers DEF TypeInv
  <2>2. PICK v \in 0 .. MaxVersion : v = remote[File(u)] /\ v > 0
    BY <2>1
  <2> DEFINE j == [jobs[u] EXCEPT !.pc = "create", !.version = v]
  <2>3. /\ j \in Job /\ j.pc = "create" /\ j.file = jobs[u].file /\ j.version > 0
        /\ j.next = 1 /\ j.got = 0
    <3>1. jobs[u].next = 1 /\ jobs[u].got = 0
      BY <1>0 DEF Dated
    <3> QED BY <3>1, <1>0, <2>2 DEF Job
  <2>4. jobs' = [jobs EXCEPT ![u] = j]
    BY <1>0, <1>3, <2>2
  <2>5. locks' \in [Files -> Procs \cup {None}] /\ locks'[j.file] = u
    BY <1>0, <1>3, <2>3 DEF TypeInv
  <2>6. \A q \in Procs : q # u /\ jobs[q].pc \notin {"idle", "gone", "lock"} =>
                            locks'[jobs[q].file] = locks[jobs[q].file]
    BY <1>3
  <2>7. UNCHANGED <<mount, remote, local, splitCh, listCh, listers, Places>>
    BY <1>1
  <2>8. ~Loads(u) /\ handle[u] = None /\ handle' = handle /\ handle' \in [Users -> Files \cup {None}]
    BY <1>0, <1>1
  <2> HIDE DEF j
  <2>9. j.pc \notin {"get", "send", "wait", "lock"} /\ (j.pc \in {"create"} => j.version > 0)
        /\ j.next = 1 /\ j.got = 0
        /\ (j.pc \notin {"idle", "gone"} => j.file \in Files /\ locks'[j.file] = u)
    BY <1>0, <2>3, <2>5
  <2> QED BY <1>0, <2>3, <2>4, <2>5, <2>6, <2>7, <2>8, <2>9, CallStep
<1> QED BY <1>2, <1>3 DEF DownloadFile

LEMMA OpenLocalStep ==
    ASSUME XloadInv, NEW u \in Users, OpenLocal(u)
    PROVE  XloadInv'
<1> USE DEF XloadInv
<1>0. /\ u \in Procs /\ jobs \in [Procs -> Job] /\ jobs[u].pc = "open"
      /\ jobs[u].file \in Files /\ File(u) = jobs[u].file
      /\ handle[u] = None /\ handle \in [Users -> Files \cup {None}]
      /\ jobs' = [jobs EXCEPT ![u] = NoJob] /\ locks' = [locks EXCEPT ![File(u)] = None]
  BY DEF Procs, TypeInv, OpenLocal, Locked, File, Opened
<1>1. UNCHANGED <<mount, remote, local, splitCh, listCh, listers, Places>>
  BY DEF OpenLocal, Places, channels
<1>2. handle' = handle \/ (local[File(u)] # None /\ handle' = [handle EXCEPT ![u] = File(u)])
  BY DEF OpenLocal
<1>3. handle' \in [Users -> Files \cup {None}]
  BY <1>0, <1>2
<1>4. /\ TypeInv' /\ Locked' /\ Dated' /\ Progress' /\ Queues' /\ Once' /\ Genuine' /\ Written' /\ Whole'
      /\ handle' = handle => Opened'
      /\ \A f \in Files : Loading(f)' <=> Loading(f)
  BY <1>0, <1>1, <1>3, UnlockStep
<1>5. CASE local[File(u)] # None /\ handle' = [handle EXCEPT ![u] = File(u)]
  <2>1. ~Loading(File(u))
    BY <1>0 DEF Loading, Locked
  <2>2. \A f \in Files : (\E p \in Procs : jobs'[p].file = f /\ jobs'[p].pc \in {"get", "send", "wait"})
                         <=> Loading(f)
    BY <1>4 DEF Loading
  <2>3. jobs'[u].pc = "idle" /\ \A v \in Users : v # u => jobs'[v] = jobs[v]
    BY <1>0 DEF Procs, NoJob
  <2> SUFFICES ASSUME NEW v \in Users, handle'[v] # None
               PROVE  /\ jobs'[v].pc = "idle" /\ local'[handle'[v]] # None
                      /\ ~\E p \in Procs : jobs'[p].file = handle'[v] /\ jobs'[p].pc \in {"get", "send", "wait"}
    BY <1>4 DEF Opened, Loading
  <2>4. handle'[v] \in Files
    BY <1>3
  <2>5. CASE v = u
    BY <2>1, <2>2, <2>3, <2>4, <2>5, <1>0, <1>1, <1>5
  <2>6. CASE v # u
    <3>1. handle'[v] = handle[v]
      BY <2>6, <1>0, <1>5
    <3> QED BY <3>1, <2>2, <2>3, <2>4, <2>6, <1>1 DEF Opened
  <2> QED BY <2>5, <2>6
<1> QED BY <1>2, <1>4, <1>5

LEMMA ReleaseFileStep ==
    ASSUME XloadInv, NEW u \in Users, ReleaseFile(u)
    PROVE  XloadInv'
<1> USE DEF XloadInv
<1>1. UNCHANGED <<mount, remote, local, locks, splitCh, listCh, listers, jobs, Places>>
      /\ handle' = [handle EXCEPT ![u] = None]
  BY DEF ReleaseFile, Places, store, channels, threads
<1>2. TypeInv'
  BY <1>1 DEF TypeInv, Places
<1>3. Locked' /\ Dated' /\ Progress' /\ Queues' /\ Genuine'
  BY <1>1 DEF Locked, Dated, Progress, Queues, Genuine, Loads, Size, File, Places
<1>4. UNCHANGED Places
  BY <1>1
<1>5. \A q \in Procs : Loads(q)' <=> Loads(q)
  BY <1>1 DEF Loads
<1>6. Once'
  BY <1>1, <1>4, <1>5, OnceKept DEF Once
<1>7. Written'
  <2> SUFFICES ASSUME NEW q \in Procs PROVE WrittenFor(q)'
    BY DEF Written
  <2>1. Out(q)' = Out(q)
    BY <1>4, PlacesSame
  <2> QED BY <2>1, <1>1, WrittenKept DEF Written
<1>8. Whole'
  BY <1>1 DEF Whole, Versions, Loading
<1>9. \A v \in Users : handle'[v] = None \/ handle'[v] = handle[v]
  BY <1>1 DEF TypeInv
<1>10. Opened'
  <2> SUFFICES ASSUME NEW v \in Users, handle'[v] # None
               PROVE  /\ jobs'[v].pc = "idle" /\ local'[handle'[v]] # None
                      /\ ~\E p \in Procs : jobs'[p].file = handle'[v] /\ jobs'[p].pc \in {"get", "send", "wait"}
    BY DEF Opened, Loading
  <2> QED BY <1>1, <1>9 DEF Opened, Loading
<1> QED BY <1>2, <1>3, <1>6, <1>7, <1>8, <1>10

LEMMA CleanupStep ==
    ASSUME XloadInv, Cleanup
    PROVE  XloadInv'
<1> USE DEF XloadInv
<1>1. UNCHANGED <<mount, remote, locks, splitCh, listCh, listers, jobs, Places>>
      /\ local' = [f \in Files |-> None] /\ handle' = [u \in Users |-> None]
  BY DEF Cleanup, Places, channels, threads
<1>2. TypeInv'
  BY <1>1 DEF TypeInv, Places
<1>3. Locked' /\ Dated' /\ Progress' /\ Queues' /\ Genuine'
  BY <1>1 DEF Locked, Dated, Progress, Queues, Genuine, Loads, Size, File, Places
<1>4. UNCHANGED Places
  BY <1>1
<1>5. \A q \in Procs : Loads(q)' <=> Loads(q)
  BY <1>1 DEF Loads
<1>6. Once'
  BY <1>1, <1>4, <1>5, OnceKept DEF Once
<1>7. Written'
  <2> SUFFICES ASSUME NEW q \in Procs PROVE WrittenFor(q)'
    BY DEF Written
  <2>1. Done(q)' = Done(q) /\ WrittenFor(q)
    BY <1>1, <1>4, PlacesSame DEF Done, Written
  <2>2. Loads(q)' => local'[File(q)'] = None
    BY <1>1, <1>5 DEF Loads, Locked, File
  <2> QED BY <2>1, <2>2, <1>1, <1>5 DEF WrittenFor
<1>8. Whole' /\ Opened'
  BY <1>1 DEF Whole, Opened
<1> QED BY <1>2, <1>3, <1>6, <1>7, <1>8

\* A block goes from one place to another.
LEMMA MoveStep ==
    ASSUME XloadInv, TypeInv', Queues', Once', Genuine', \A q \in Procs : Out(q)' = Out(q),
           UNCHANGED <<mount, remote, local, locks, jobs, handle>>
    PROVE  XloadInv'
<1> USE DEF XloadInv
<1>1. Locked' /\ Dated' /\ Progress'
  BY DEF Locked, Dated, Progress, Loads, Size, File
<1>2. Written'
  <2> SUFFICES ASSUME NEW q \in Procs PROVE WrittenFor(q)'
    BY DEF Written
  <2> QED BY WrittenKept DEF Written
<1>3. Whole' /\ Opened'
  BY DEF Whole, Opened, Versions, Loading
<1> QED BY <1>1, <1>2, <1>3

LEMMA TakeOne ==
    ASSUME XloadInv, NEW w \in Workers, busy[w] = None, NEW h \in Item, busy' = [busy EXCEPT ![w] = h],
           answers' = answers, jobs' = jobs, NEW q \in Procs,
           \/ Queue(q)' = Queue(q) /\ h.job # q
           \/ Queue(q) # <<>> /\ Queue(q)' = Tail(Queue(q)) /\ h = Head(Queue(q))
    PROVE  OnceFor(q)' /\ Out(q)' = Out(q) /\ busy' \in [Workers -> Item \cup {None, Gone}]
<1> USE DEF XloadInv
<1>0. OnceFor(q) /\ Queue(q) \in Seq(Item) /\ busy \in [Workers -> Item \cup {None, Gone}]
  BY DEF Once, TypeInv, Queue
<1>1. /\ h.job = q => Queued(q)' = Queued(q) \ {h.index} /\ h.index \in Queued(q)
      /\ h.job # q => Queued(q)' = Queued(q)
      /\ QueuedOnce(Queue(q)', q)
  <2>1. CASE Queue(q)' = Queue(q) /\ h.job # q
    BY <2>1, <1>0 DEF Queued, OnceFor
  <2>2. CASE Queue(q) # <<>> /\ Queue(q)' = Tail(Queue(q)) /\ h = Head(Queue(q))
    <3>1. QueuedOnce(Queue(q), q)
      BY <1>0 DEF OnceFor
    <3>2. /\ h.job = q => /\ InQueue(Tail(Queue(q)), q) = InQueue(Queue(q), q) \ {h.index}
                          /\ h.index \in InQueue(Queue(q), q)
          /\ h.job # q => InQueue(Tail(Queue(q)), q) = InQueue(Queue(q), q)
          /\ QueuedOnce(Tail(Queue(q)), q)
      BY <2>2, <3>1, <1>0, QueueTail
    <3> QED BY <2>2, <3>2 DEF Queued
  <2> QED BY <2>1, <2>2
<1>2. FetchedOnce(busy, q) /\ (h.job = q => h.index \notin InHands(busy, q))
  BY <1>0, <1>1 DEF OnceFor, Fetched
<1>3. /\ busy' \in [Workers -> Item \cup {None, Gone}]
      /\ h.job = q => Fetched(q)' = Fetched(q) \cup {h.index}
      /\ h.job # q => Fetched(q)' = Fetched(q)
      /\ FetchedOnce(busy', q)
  <2>1. /\ busy' \in [Workers -> Item \cup {None, Gone}]
        /\ h.job = q => InHands(busy', q) = InHands(busy, q) \cup {h.index}
        /\ h.job # q => InHands(busy', q) = InHands(busy, q)
        /\ FetchedOnce(busy', q)
    <3>1. PICK b : b = busy
      OBVIOUS
    <3>2. PICK c : c = busy'
      OBVIOUS
    <3>3. /\ b \in [Workers -> Item \cup {None, Gone}] /\ c \in [Workers -> Item \cup {None, Gone}]
          /\ b[w] = None /\ c[w] = h /\ \A v \in Workers : v # w => c[v] = b[v]
          /\ FetchedOnce(b, q) /\ (h.job = q => h.index \notin InHands(b, q))
      BY <3>1, <3>2, <1>0, <1>2
    <3>4. /\ h.job = q => InHands(c, q) = InHands(b, q) \cup {h.index}
          /\ h.job # q => InHands(c, q) = InHands(b, q)
          /\ FetchedOnce(c, q)
      BY <3>3, HandsTake
    <3> QED BY <3>1, <3>2, <3>3, <3>4
  <2> QED BY <2>1 DEF Fetched
<1>4. Answered(q)' = Answered(q) /\ (Loads(q)' <=> Loads(q))
  BY DEF Answered, Loads
<1>5. Out(q)' = Out(q)
  BY <1>1, <1>3, <1>4 DEF Out
<1>6. Queued(q)' \cap Fetched(q)' = {} /\ Queued(q)' \cap Answered(q)' = {} /\ Fetched(q)' \cap Answered(q)' = {}
  <2>1. Queued(q) \cap Fetched(q) = {} /\ Queued(q) \cap Answered(q) = {} /\ Fetched(q) \cap Answered(q) = {}
    BY <1>0 DEF OnceFor
  <2>2. CASE h.job = q
    BY <2>1, <2>2, <1>1, <1>3, <1>4
  <2>3. CASE h.job # q
    BY <2>1, <2>3, <1>1, <1>3, <1>4
  <2> QED BY <2>2, <2>3
<1> QED BY <1>0, <1>1, <1>3, <1>4, <1>5, <1>6 DEF OnceFor

LEMMA TakeBlockStep ==
    ASSUME XloadInv, NEW w \in Workers, TakeBlock(w)
    PROVE  XloadInv'
<1> USE DEF XloadInv
<1>0. dataCh \in Seq(Item) /\ urgentCh \in Seq(Item) /\ busy[w] = None
  BY DEF TypeInv, TakeBlock
<1>1. UNCHANGED <<mount, remote, local, locks, jobs, handle>>
      /\ UNCHANGED <<listCh, splitCh, listers, answers>>
  BY DEF TakeBlock, store
<1>2. PICK h \in Item :
         /\ busy' = [busy EXCEPT ![w] = h]
         /\ \/ urgentCh # <<>> /\ urgentCh' = Tail(urgentCh) /\ h = Head(urgentCh) /\ dataCh' = dataCh
            \/ dataCh # <<>> /\ dataCh' = Tail(dataCh) /\ h = Head(dataCh) /\ urgentCh' = urgentCh
  <2>1. CASE urgentCh # <<>> /\ busy' = [busy EXCEPT ![w] = Head(urgentCh)]
             /\ urgentCh' = Tail(urgentCh) /\ dataCh' = dataCh
    <3>1. Head(urgentCh) \in Item
      BY <2>1, <1>0
    <3> QED BY <2>1, <3>1
  <2>2. CASE dataCh # <<>> /\ busy' = [busy EXCEPT ![w] = Head(dataCh)]
             /\ dataCh' = Tail(dataCh) /\ urgentCh' = urgentCh
    <3>1. Head(dataCh) \in Item
      BY <2>2, <1>0
    <3> QED BY <2>2, <3>1
  <2> QED BY <2>1, <2>2 DEF TakeBlock
<1>3. dataCh' \in Seq(Item) /\ urgentCh' \in Seq(Item)
  <2>1. urgentCh # <<>> => Tail(urgentCh) \in Seq(Item)
    BY <1>0
  <2>2. dataCh # <<>> => Tail(dataCh) \in Seq(Item)
    BY <1>0
  <2> QED BY <2>1, <2>2, <1>0, <1>2
<1>4. Queues'
  <2>1. CASE urgentCh # <<>> /\ urgentCh' = Tail(urgentCh) /\ dataCh' = dataCh
    <3>1. \A k \in DOMAIN urgentCh' : k + 1 \in DOMAIN urgentCh /\ urgentCh'[k] = urgentCh[k + 1]
      BY <2>1, <1>0
    <3> QED BY <2>1, <3>1 DEF Queues
  <2>2. CASE dataCh # <<>> /\ dataCh' = Tail(dataCh) /\ urgentCh' = urgentCh
    <3>1. \A k \in DOMAIN dataCh' : k + 1 \in DOMAIN dataCh /\ dataCh'[k] = dataCh[k + 1]
      BY <2>2, <1>0
    <3> QED BY <2>2, <3>1 DEF Queues
  <2> QED BY <1>2, <2>1, <2>2
<1>5. ASSUME NEW q \in Procs
      PROVE  \/ Queue(q)' = Queue(q) /\ h.job # q
             \/ Queue(q) # <<>> /\ Queue(q)' = Tail(Queue(q)) /\ h = Head(Queue(q))
  <2>1. CASE urgentCh # <<>> /\ urgentCh' = Tail(urgentCh) /\ h = Head(urgentCh) /\ dataCh' = dataCh
    <3>1. h.job \notin Splitters
      <4>1. 1 \in DOMAIN urgentCh /\ h = urgentCh[1]
        BY <2>1, <1>0
      <4> QED BY <4>1 DEF Queues
    <3> QED BY <2>1, <3>1, Distinct DEF Queue
  <2>2. CASE dataCh # <<>> /\ dataCh' = Tail(dataCh) /\ h = Head(dataCh) /\ urgentCh' = urgentCh
    <3>1. h.job \notin Users
      <4>1. 1 \in DOMAIN dataCh /\ h = dataCh[1]
        BY <2>2, <1>0
      <4> QED BY <4>1 DEF Queues
    <3> QED BY <2>2, <3>1 DEF Queue, Urgent
  <2> QED BY <1>2, <2>1, <2>2
<1>6. \A q \in Procs : OnceFor(q)' /\ Out(q)' = Out(q)
  BY <1>0, <1>1, <1>2, <1>5, TakeOne
<1>7. busy' \in [Workers -> Item \cup {None, Gone}]
  BY <1>2 DEF TypeInv
<1>8. TypeInv' /\ Once' /\ Genuine'
  BY <1>1, <1>3, <1>6, <1>7 DEF TypeInv, Once, Genuine
<1> QED BY <1>1, <1>4, <1>6, <1>8, MoveStep

\* A data worker puts its block down: q has its answer, or is not concerned.
LEMMA PutOne ==
    ASSUME XloadInv, NEW w \in Workers, NEW x \in {None, Gone}, busy' = [busy EXCEPT ![w] = x],
           dataCh' = dataCh, urgentCh' = urgentCh, jobs' = jobs, NEW q \in Procs,
           \/ ~WorksFor(busy, w, q) /\ answers'[q] = answers[q]
           \/ /\ WorksFor(busy, w, q)
              /\ \E a \in AnswerSet : a.index = busy[w].index /\ answers'[q] = answers[q] \cup {a}
    PROVE  OnceFor(q)' /\ Out(q)' = Out(q)
<1> USE DEF XloadInv
<1>0. /\ OnceFor(q) /\ busy \in [Workers -> Item \cup {None, Gone}] /\ answers[q] \in SUBSET AnswerSet
      /\ FetchedOnce(busy, q) /\ AnsweredOnce(answers[q])
      /\ Queued(q) \cap Fetched(q) = {} /\ Queued(q) \cap Answered(q) = {} /\ Fetched(q) \cap Answered(q) = {}
  BY DEF Once, OnceFor, TypeInv
<1>1. Queue(q)' = Queue(q) /\ Queued(q)' = Queued(q) /\ (Loads(q)' <=> Loads(q))
  BY DEF Queue, Queued, Loads
<1>2. /\ WorksFor(busy, w, q) => /\ InHands(busy', q) = InHands(busy, q) \ {busy[w].index}
                                 /\ busy[w].index \in InHands(busy, q)
      /\ ~WorksFor(busy, w, q) => InHands(busy', q) = InHands(busy, q)
      /\ FetchedOnce(busy', q)
  <2>1. PICK b : b = busy
    OBVIOUS
  <2>2. PICK c : c = busy'
    OBVIOUS
  <2>3. /\ b \in [Workers -> Item \cup {None, Gone}] /\ c \in [Workers -> Item \cup {None, Gone}]
        /\ c[w] \in {None, Gone} /\ \A v \in Workers : v # w => c[v] = b[v]
        /\ FetchedOnce(b, q)
    BY <2>1, <2>2, <1>0
  <2>4. /\ WorksFor(b, w, q) => /\ InHands(c, q) = InHands(b, q) \ {b[w].index}
                                /\ b[w].index \in InHands(b, q)
        /\ ~WorksFor(b, w, q) => InHands(c, q) = InHands(b, q)
        /\ FetchedOnce(c, q)
    BY <2>3, HandsClear
  <2> QED BY <2>1, <2>2, <2>4
<1>3. CASE ~WorksFor(busy, w, q) /\ answers'[q] = answers[q]
  <2>1. Fetched(q)' = Fetched(q) /\ Answered(q)' = Answered(q)
    BY <1>2, <1>3 DEF Fetched, Answered
  <2> QED BY <2>1, <1>0, <1>1, <1>2, <1>3 DEF OnceFor, Out
<1>4. CASE /\ WorksFor(busy, w, q)
           /\ \E a \in AnswerSet : a.index = busy[w].index /\ answers'[q] = answers[q] \cup {a}
  <2>1. PICK a \in AnswerSet : a.index = busy[w].index /\ answers'[q] = answers[q] \cup {a}
    BY <1>4
  <2>2. a.index \in Fetched(q) /\ Fetched(q)' = Fetched(q) \ {a.index}
    BY <2>1, <1>2, <1>4 DEF Fetched
  <2>3. a.index \notin InAnswers(answers[q])
    BY <2>2, <1>0 DEF Answered
  <2>4. Answered(q)' = Answered(q) \cup {a.index} /\ AnsweredOnce(answers'[q])
    BY <2>1, <2>3, <1>0, AnswersAdd DEF Answered
  <2>5. Out(q)' = Out(q)
    BY <2>2, <2>4, <1>1 DEF Out
  <2>6. Queued(q)' \cap Fetched(q)' = {} /\ Queued(q)' \cap Answered(q)' = {} /\ Fetched(q)' \cap Answered(q)' = {}
    BY <2>2, <2>4, <1>0, <1>1
  <2> QED BY <2>4, <2>5, <2>6, <1>0, <1>1, <1>2 DEF OnceFor
<1> QED BY <1>3, <1>4

LEMMA WorkerLeavesStep ==
    ASSUME XloadInv, NEW w \in Workers, WorkerLeaves(w)
    PROVE  XloadInv'
<1> USE DEF XloadInv
<1>1. /\ UNCHANGED <<mount, remote, local, locks, jobs, handle>>
      /\ UNCHANGED <<listCh, splitCh, dataCh, urgentCh, listers, answers>>
      /\ busy[w] = None /\ busy' = [busy EXCEPT ![w] = Gone]
  BY DEF WorkerLeaves, store, channels
<1>2. \A q \in Procs : ~WorksFor(busy, w, q) /\ answers'[q] = answers[q]
  BY <1>1 DEF WorksFor
<1>3. \A q \in Procs : OnceFor(q)' /\ Out(q)' = Out(q)
  BY <1>1, <1>2, PutOne
<1>4. TypeInv' /\ Queues' /\ Once' /\ Genuine'
  BY <1>1, <1>3 DEF TypeInv, Queues, Once, Genuine
<1> QED BY <1>1, <1>3, <1>4, MoveStep

LEMMA ReadBlockStep ==
    ASSUME XloadInv, NEW w \in Workers, ReadBlock(w)
    PROVE  XloadInv'
<1> USE DEF XloadInv
<1>0. /\ answers \in [Procs -> SUBSET AnswerSet] /\ busy \in [Workers -> Item \cup {None, Gone}]
      /\ busy[w] # None /\ busy[w] # Gone /\ mount \in Mounts
  BY DEF TypeInv, ReadBlock, Busy
<1>1. /\ UNCHANGED <<mount, remote, local, locks, jobs, handle>>
      /\ UNCHANGED <<listCh, splitCh, dataCh, urgentCh, listers>>
      /\ busy' = [busy EXCEPT ![w] = None]
  BY DEF ReadBlock, store, channels
<1>2. PICK e \in Item : e = busy[w]
  BY <1>0
<1>3. e.job \in Procs \cup {None} /\ e.file \in Files /\ e.index \in Nat
  BY DEF Item
<1>4. remote[e.file] \in 1 .. mount.versions /\ remote[e.file] \in Nat
  <2>1. remote[e.file] \in 1 .. MaxVersion /\ remote[e.file] <= mount.versions
    BY <1>3 DEF TypeInv, Dated
  <2>2. mount.versions \in 1 .. MaxVersion
    BY <1>0, Versioned
  <2> QED BY <2>1, <2>2, Numbers
<1>5. CASE e.job = None
  <2>1. answers' = answers
    BY <1>2, <1>5 DEF ReadBlock
  <2>2. \A q \in Procs : ~WorksFor(busy, w, q) /\ answers'[q] = answers[q]
    BY <2>1, <1>2, <1>5, Distinct DEF WorksFor
  <2>3. \A q \in Procs : OnceFor(q)' /\ Out(q)' = Out(q)
    BY <2>2, <1>1, PutOne
  <2>4. TypeInv' /\ Queues' /\ Once' /\ Genuine'
    BY <2>1, <2>3, <1>1 DEF TypeInv, Queues, Once, Genuine
  <2> QED BY <2>3, <2>4, <1>1, MoveStep
<1>6. CASE e.job # None
  <2>0. PICK p \in Procs : p = e.job
    BY <1>3, <1>6
  <2>1. PICK a \in AnswerSet : /\ answers' = [answers EXCEPT ![p] = @ \cup {a}]
                               /\ a.index = e.index /\ (a.ok => a.version \in 1 .. mount.versions)
    <3> DEFINE An(ok) == Answer(e.index, ok, TRUE, IF ok THEN remote[e.file] ELSE 0)
    <3>1. \E ok \in BOOLEAN : answers' = [answers EXCEPT ![p] = @ \cup {An(ok)}]
      <4>1. jobs[p].live \in BOOLEAN
        BY DEF TypeInv, Job
      <4>2. answers' = [answers EXCEPT ![p] = @ \cup {An(jobs[p].live)}]
            \/ answers' = [answers EXCEPT ![p] = @ \cup {An(FALSE)}]
        <5>1. p # None /\ (p # None /\ jobs[p].live) = jobs[p].live
          BY <4>1, <2>0, <1>6
        <5> QED BY <5>1, <2>0, <1>2 DEF ReadBlock
      <4> QED BY <4>1, <4>2
    <3>2. PICK ok \in BOOLEAN : answers' = [answers EXCEPT ![p] = @ \cup {An(ok)}]
      BY <3>1
    <3>3. An(ok) \in AnswerSet /\ An(ok).index = e.index /\ (An(ok).ok => An(ok).version \in 1 .. mount.versions)
      <4>1. CASE ok = TRUE
        BY <4>1, <1>3, <1>4 DEF Answer, AnswerSet
      <4>2. CASE ok = FALSE
        BY <4>2, <1>3 DEF Answer, AnswerSet
      <4> QED BY <4>1, <4>2
    <3> QED BY <3>2, <3>3
  <2>2. /\ answers' \in [Procs -> SUBSET AnswerSet] /\ answers'[p] = answers[p] \cup {a}
        /\ \A q \in Procs : q # p => answers'[q] = answers[q]
    BY <2>1, <1>0
  <2>3. \A q \in Procs : WorksFor(busy, w, q) <=> q = p
    BY <2>0, <1>0, <1>2 DEF WorksFor
  <2>4. \A q \in Procs : OnceFor(q)' /\ Out(q)' = Out(q)
    <3> TAKE q \in Procs
    <3>1. \/ ~WorksFor(busy, w, q) /\ answers'[q] = answers[q]
          \/ /\ WorksFor(busy, w, q)
             /\ \E b \in AnswerSet : b.index = busy[w].index /\ answers'[q] = answers[q] \cup {b}
      BY <2>1, <2>2, <2>3, <1>2
    <3> QED BY <3>1, <1>1, PutOne
  <2>5. TypeInv' /\ Queues' /\ Once'
    BY <2>2, <2>4, <1>1 DEF TypeInv, Queues, Once
  <2>6. Genuine'
    BY <2>1, <2>2, <1>1 DEF Genuine
  <2> QED BY <2>4, <2>5, <2>6, <1>1, MoveStep
<1> QED BY <1>5, <1>6

\* A run of Process goes on to load its file.
LEMMA LoaderStep ==
    ASSUME XloadInv, NEW p \in Procs, NEW j \in Job, Loads(p), jobs' = [jobs EXCEPT ![p] = j],
           j.pc \in {"get", "send", "wait"}, j.file = jobs[p].file, j.version = jobs[p].version,
           \/ local' = local
           \/ /\ local[File(p)] # None
              /\ \E h \in [1 .. Size(p) -> Nat] : local' = [local EXCEPT ![File(p)] = h],
           dataCh' \in Seq(Item), urgentCh' \in Seq(Item), answers' \in [Procs -> SUBSET AnswerSet],
           UNCHANGED <<mount, remote, locks, listCh, splitCh, listers, busy, handle>>
    PROVE  /\ TypeInv' /\ Locked' /\ Dated' /\ Whole' /\ Opened'
           /\ jobs'[p] = j /\ File(p)' = File(p) /\ Loads(p)' /\ File(p) \in Files
           /\ \A q \in Procs : q # p => /\ jobs'[q] = jobs[q]
                                        /\ Loads(q) => local'[File(q)] = local[File(q)]
           /\ \A f \in Files : Loading(f)' <=> Loading(f)
<1> USE DEF XloadInv
<1>0. /\ jobs \in [Procs -> Job] /\ File(p) \in Files /\ File(p) = jobs[p].file /\ locks[File(p)] = p
      /\ DOMAIN local = Files /\ handle \in [Users -> Files \cup {None}]
  BY DEF TypeInv, Locked, File, Loads
<1>1. /\ jobs'[p] = j /\ jobs' \in [Procs -> Job] /\ File(p)' = File(p) /\ Loads(p)'
      /\ \A q \in Procs : q # p => jobs'[q] = jobs[q]
  BY <1>0 DEF File, Loads
<1>2. /\ DOMAIN local' = Files /\ \A f \in Files : f # File(p) => local'[f] = local[f]
      /\ local'[File(p)] = local[File(p)] \/ local'[File(p)] \in [1 .. Blocks[File(p)] -> Nat]
  BY <1>0 DEF Size
<1>3. \A q \in Procs : q # p /\ Loads(q) => File(q) # File(p) /\ File(q) \in Files
  BY <1>0 DEF Locked, Loads, File
<1>4. TypeInv'
  BY <1>1, <1>2 DEF TypeInv
<1>5. Locked'
  <2> SUFFICES ASSUME NEW q \in Procs
               PROVE  /\ jobs'[q].pc \notin {"idle", "gone"} => jobs'[q].file \in Files
                      /\ jobs'[q].pc \notin {"idle", "gone", "lock"} => locks'[jobs'[q].file] = q
    BY DEF Locked
  <2>1. CASE q = p
    BY <2>1, <1>0, <1>1
  <2>2. CASE q # p
    BY <2>2, <1>1 DEF Locked
  <2> QED BY <2>1, <2>2
<1>6. Dated'
  BY <1>1 DEF Dated, Loads
<1>7. \A f \in Files : Loading(f)' <=> Loading(f)
  <2>1. \A q \in Procs : /\ Loads(q)' <=> Loads(q)
                         /\ Loads(q) => jobs'[q].file = jobs[q].file
    BY <1>1 DEF Loads
  <2> QED BY <2>1, LoadingSame
<1>8. Loading(File(p))
  BY <1>0 DEF Loading, Loads
<1>9. Whole'
  <2> SUFFICES ASSUME NEW f \in Files
               PROVE  /\ local'[f] = None \/ local'[f] \in [1 .. Blocks[f] -> Nat]
                      /\ ~Loading(f)' => local'[f] = None \/ local'[f] \in Versions(f)
    BY DEF Whole, Versions
  <2>1. CASE f = File(p)
    BY <2>1, <1>2, <1>7, <1>8 DEF Whole
  <2>2. CASE f # File(p)
    BY <2>2, <1>2, <1>7 DEF Whole
  <2> QED BY <2>1, <2>2
<1>10. Opened'
  <2>1. \A f \in Files : (\E q \in Procs : jobs'[q].file = f /\ jobs'[q].pc \in {"get", "send", "wait"})
                         <=> Loading(f)
    BY <1>7 DEF Loading
  <2> SUFFICES ASSUME NEW u \in Users, handle[u] # None
               PROVE  /\ jobs'[u].pc = "idle" /\ local'[handle[u]] # None
                      /\ ~\E q \in Procs : jobs'[q].file = handle[u] /\ jobs'[q].pc \in {"get", "send", "wait"}
    BY DEF Opened, Loading
  <2>2. handle[u] \in Files /\ handle[u] # File(p) /\ u # p
    BY <1>0, <1>8 DEF Opened, Loads
  <2>3. jobs'[u] = jobs[u]
    BY <2>2, <1>1 DEF Procs
  <2> QED BY <2>1, <2>2, <2>3, <1>2 DEF Opened
<1> QED BY <1>0, <1>1, <1>2, <1>3, <1>4, <1>5, <1>6, <1>7, <1>9, <1>10

\* The other runs of Process meanwhile.
LEMMA OtherRuns ==
    ASSUME XloadInv, NEW p \in Procs, \A q \in Procs : q # p => jobs'[q] = jobs[q], mount' = mount
    PROVE  /\ (Loads(p)' => /\ Size(p)' > 0
                            /\ jobs'[p].pc # "wait" => jobs'[p].next <= Size(p)'
                            /\ jobs'[p].pc = "wait" => jobs'[p].next = Size(p)' + 1) => Progress'
           /\ (/\ WrittenFor(p)'
               /\ \A q \in Procs : q # p => /\ Out(q)' = Out(q)
                                            /\ Loads(q) => local'[File(q)] = local[File(q)]) => Written'
<1> USE DEF XloadInv
<1>1. ASSUME Loads(p)' => /\ Size(p)' > 0
                          /\ jobs'[p].pc # "wait" => jobs'[p].next <= Size(p)'
                          /\ jobs'[p].pc = "wait" => jobs'[p].next = Size(p)' + 1
      PROVE  Progress'
  <2> SUFFICES ASSUME NEW q \in Procs, Loads(q)', q # p
               PROVE  /\ Size(q)' > 0
                      /\ jobs'[q].pc # "wait" => jobs'[q].next <= Size(q)'
                      /\ jobs'[q].pc = "wait" => jobs'[q].next = Size(q)' + 1
    BY <1>1 DEF Progress
  <2>1. jobs'[q] = jobs[q]
    OBVIOUS
  <2>2. Size(q)' = Size(q) /\ Loads(q)
    BY <2>1 DEF Size, File, Loads
  <2> QED BY <2>1, <2>2 DEF Progress
<1>2. ASSUME WrittenFor(p)',
             \A q \in Procs : q # p => /\ Out(q)' = Out(q)
                                       /\ Loads(q) => local'[File(q)] = local[File(q)]
      PROVE  Written'
  <2> SUFFICES ASSUME NEW q \in Procs PROVE WrittenFor(q)'
    BY DEF Written
  <2>1. CASE q = p
    BY <2>1, <1>2
  <2>2. CASE q # p
    BY <2>2, <1>2, WrittenKept DEF Written
  <2> QED BY <2>1, <2>2
<1> QED BY <1>1, <1>2

\* The main loop goes on to the next block.
LEMMA Advances ==
    ASSUME XloadInv, NEW p \in Procs, jobs[p].pc \in {"get", "send"}, NEW j, j = Advance(jobs[p], jobs[p].next)
    PROVE  /\ j \in Job /\ j.pc \in {"get", "wait"} /\ j.file = jobs[p].file /\ j.version = jobs[p].version
           /\ j.next = jobs[p].next + 1 /\ j.got = jobs[p].got /\ j.ok = jobs[p].ok
           /\ j.pc = "wait" => jobs[p].next = Size(p)
           /\ j.pc = "get" => jobs[p].next < Size(p)
           /\ jobs[p].next \in 1 .. Size(p) /\ Size(p) \in Nat /\ File(p) \in Files
<1> USE DEF XloadInv
<1>1. jobs[p] \in Job /\ Loads(p) /\ jobs[p].pc # "wait"
  BY DEF TypeInv, Loads
<1>2. File(p) \in Files /\ Size(p) \in Nat /\ jobs[p].next \in Nat /\ jobs[p].next >= 1
  BY <1>1, Numbers DEF Locked, File, Size, Job
<1>3. jobs[p].next \in 1 .. Size(p)
  BY <1>1, <1>2 DEF Progress
<1>4. PICK pc \in {"get", "wait"} : /\ j = [jobs[p] EXCEPT !.next = jobs[p].next + 1, !.pc = pc]
                                    /\ pc = "wait" <=> jobs[p].next = Size(p)
  BY DEF Advance, Size, File
<1>5. /\ j \in Job /\ j.pc = pc /\ j.file = jobs[p].file /\ j.version = jobs[p].version
      /\ j.next = jobs[p].next + 1 /\ j.got = jobs[p].got /\ j.ok = jobs[p].ok
  <2>1. PICK n \in Nat \ {0} : n = jobs[p].next + 1
    BY <1>2
  <2>2. PICK r \in Job : r = jobs[p]
    BY <1>1
  <2>3. j = [r EXCEPT !.next = n, !.pc = pc]
    BY <2>1, <2>2, <1>4
  <2>4. j \in Job
    BY <2>3 DEF Job
  <2>5. j.pc = pc /\ j.file = r.file /\ j.version = r.version /\ j.next = n /\ j.got = r.got
    BY <2>3 DEF Job
  <2>6. j.ok = r.ok
    BY <2>3 DEF Job
  <2> QED BY <2>1, <2>2, <2>4, <2>5, <2>6
<1> QED BY <1>2, <1>3, <1>4, <1>5

\* The main loop has asked for the next block: it is outstanding.
LEMMA Asked ==
    ASSUME XloadInv, NEW p \in Procs, jobs[p].pc \in {"get", "send"},
           jobs' = [jobs EXCEPT ![p] = Advance(jobs[p], jobs[p].next)],
           UNCHANGED <<mount, remote, local, locks, listCh, splitCh, listers, busy, handle>>,
           dataCh' \in Seq(Item), urgentCh' \in Seq(Item), answers' \in [Procs -> SUBSET AnswerSet],
           \A q \in Procs : q # p => OnceFor(q)' /\ Out(q)' = Out(q),
           Out(p)' = Out(p) \cup {jobs[p].next},
           QueuedOnce(Queue(p)', p), FetchedOnce(busy', p), AnsweredOnce(answers'[p]),
           Queued(p)' \cap Fetched(p)' = {}, Queued(p)' \cap Answered(p)' = {},
           Fetched(p)' \cap Answered(p)' = {}, Queues', Genuine'
    PROVE  XloadInv'
<1> USE DEF XloadInv
<1> DEFINE j == Advance(jobs[p], jobs[p].next)
<1>0. /\ j \in Job /\ j.pc \in {"get", "wait"} /\ j.file = jobs[p].file /\ j.version = jobs[p].version
      /\ j.next = jobs[p].next + 1 /\ j.got = jobs[p].got /\ j.ok = jobs[p].ok
      /\ j.pc = "wait" => jobs[p].next = Size(p)
      /\ j.pc = "get" => jobs[p].next < Size(p)
      /\ jobs[p].next \in 1 .. Size(p) /\ Size(p) \in Nat /\ File(p) \in Files
  BY Advances
<1>1. Loads(p) /\ OnceFor(p) /\ WrittenFor(p) /\ jobs' = [jobs EXCEPT ![p] = j]
  BY DEF Loads, Once, Written
<1> HIDE DEF j
<1>2. /\ TypeInv' /\ Locked' /\ Dated' /\ Whole' /\ Opened'
      /\ jobs'[p] = j /\ File(p)' = File(p) /\ Loads(p)' /\ File(p) \in Files
      /\ \A q \in Procs : q # p => /\ jobs'[q] = jobs[q]
                                   /\ Loads(q) => local'[File(q)] = local[File(q)]
  <2>1. j.pc \in {"get", "send", "wait"} /\ j.file = jobs[p].file /\ j.version = jobs[p].version
    BY <1>0
  <2> QED BY <2>1, <1>0, <1>1, LoaderStep
<1>3. Size(p)' = Size(p)
  BY <1>2 DEF Size
<1>4. Out(p) \subseteq 1 .. jobs[p].next - 1
  BY <1>1 DEF OnceFor
<1>5. Out(p)' \subseteq 1 .. jobs'[p].next - 1 /\ Done(p)' = Done(p)
  <2>1. Done(p)' = (1 .. j.next - 1) \ Out(p)'
    BY <1>2 DEF Done
  <2> QED BY <2>1, <1>0, <1>2, <1>4 DEF Done
<1>6. Once'
  <2>1. OnceFor(p)'
    BY <1>2, <1>5 DEF OnceFor
  <2> QED BY <2>1 DEF Once
<1>7. WrittenFor(p)'
  BY <1>0, <1>1, <1>2, <1>5 DEF WrittenFor
<1>8. Progress' /\ Written'
  <2>1. Loads(p)' => /\ Size(p)' > 0
                     /\ jobs'[p].pc # "wait" => jobs'[p].next <= Size(p)'
                     /\ jobs'[p].pc = "wait" => jobs'[p].next = Size(p)' + 1
    BY <1>0, <1>2, <1>3
  <2> QED BY <2>1, <1>2, <1>7, OtherRuns
<1> QED BY <1>2, <1>6, <1>8

LEMMA GetBlockStep ==
    ASSUME XloadInv, NEW p \in Procs, GetBlock(p)
    PROVE  XloadInv'
<1> USE DEF XloadInv
<1>0. /\ jobs[p].pc = "get" /\ jobs[p] \in Job /\ jobs \in [Procs -> Job]
      /\ answers \in [Procs -> SUBSET AnswerSet] /\ Loads(p) /\ OnceFor(p) /\ WrittenFor(p)
  BY DEF GetBlock, TypeInv, Loads, Once, Written
<1>1. /\ UNCHANGED <<mount, remote, local, locks, listCh, splitCh, listers, busy, handle>>
      /\ UNCHANGED <<dataCh, urgentCh>>
  BY DEF GetBlock, store, channels
<1>2. dataCh' \in Seq(Item) /\ urgentCh' \in Seq(Item)
  BY <1>1 DEF TypeInv
<1>3. CASE jobs' = [jobs EXCEPT ![p].pc = "send"] /\ answers' = answers
  <2> DEFINE j == [jobs[p] EXCEPT !.pc = "send"]
  <2>1. /\ j \in Job /\ j.pc = "send" /\ j.file = jobs[p].file /\ j.version = jobs[p].version
        /\ j.next = jobs[p].next /\ j.got = jobs[p].got /\ j.ok = jobs[p].ok
    BY <1>0 DEF Job
  <2>2. jobs' = [jobs EXCEPT ![p] = j]
    BY <1>3
  <2> HIDE DEF j
  <2>3. /\ TypeInv' /\ Locked' /\ Dated' /\ Whole' /\ Opened'
        /\ jobs'[p] = j /\ File(p)' = File(p) /\ Loads(p)' /\ File(p) \in Files
        /\ \A q \in Procs : q # p => /\ jobs'[q] = jobs[q]
                                     /\ Loads(q) => local'[File(q)] = local[File(q)]
    <3>1. j.pc \in {"get", "send", "wait"} /\ answers' \in [Procs -> SUBSET AnswerSet] /\ local' = local
      BY <2>1, <1>0, <1>1, <1>3
    <3> QED BY <3>1, <2>1, <2>2, <1>0, <1>1, <1>2, LoaderStep
  <2>4. UNCHANGED Places
    BY <1>1, <1>3 DEF Places
  <2>5. \A q \in Procs : Out(q)' = Out(q)
    BY <2>4, PlacesSame
  <2>6. Once'
    <3> SUFFICES ASSUME NEW q \in Procs PROVE OnceFor(q)'
      BY DEF Once
    <3>1. jobs'[q].next = jobs[q].next /\ (Loads(q)' <=> Loads(q))
      BY <2>1, <2>3, <1>0 DEF Loads
    <3> QED BY <3>1, <2>4, OnceKept DEF Once
  <2>7. WrittenFor(p)'
    <3>1. Done(p)' = Done(p)
      BY <2>1, <2>3, <2>5 DEF Done
    <3> QED BY <3>1, <2>1, <2>3, <1>0, <1>1 DEF WrittenFor
  <2>8. Progress' /\ Written'
    <3>1. Loads(p)' => /\ Size(p)' > 0
                       /\ jobs'[p].pc # "wait" => jobs'[p].next <= Size(p)'
                       /\ jobs'[p].pc = "wait" => jobs'[p].next = Size(p)' + 1
      BY <2>1, <2>3, <1>0 DEF Progress, Size
    <3> QED BY <3>1, <2>3, <2>5, <2>7, <1>1, OtherRuns
  <2>9. Queues' /\ Genuine'
    BY <1>1, <1>3 DEF Queues, Genuine
  <2> QED BY <2>3, <2>6, <2>8, <2>9
<1>4. CASE /\ jobs' = [jobs EXCEPT ![p] = Advance(jobs[p], jobs[p].next)]
           /\ answers' = [answers EXCEPT ![p] = @ \cup {Answer(jobs[p].next, FALSE, FALSE, 0)}]
  <2>1. jobs[p].next \in Nat /\ Out(p) \subseteq 1 .. jobs[p].next - 1
    BY <1>0 DEF Job, OnceFor
  <2>2. PICK a \in AnswerSet : a.index = jobs[p].next /\ a.ok = FALSE
                               /\ answers' = [answers EXCEPT ![p] = @ \cup {a}]
    <3>1. Answer(jobs[p].next, FALSE, FALSE, 0) \in AnswerSet
      BY <2>1 DEF Answer, AnswerSet
    <3> QED BY <3>1, <1>4 DEF Answer
  <2>3. /\ answers' \in [Procs -> SUBSET AnswerSet] /\ answers'[p] = answers[p] \cup {a}
        /\ \A q \in Procs : q # p => answers'[q] = answers[q]
    BY <2>2, <1>0
  <2>4. a.index \notin Out(p)
    BY <2>1, <2>2
  <2>5. Answered(p)' = Answered(p) \cup {a.index} /\ AnsweredOnce(answers'[p])
    <3>1. a.index \notin InAnswers(answers[p]) /\ AnsweredOnce(answers[p]) /\ answers[p] \in SUBSET AnswerSet
      BY <2>4, <1>0 DEF Out, Answered, OnceFor
    <3> QED BY <3>1, <2>3, AnswersAdd DEF Answered
  <2>6. \A q \in Procs : Queue(q)' = Queue(q) /\ Queued(q)' = Queued(q) /\ Fetched(q)' = Fetched(q)
    BY <1>1 DEF Queue, Queued, Fetched
  <2>7. ASSUME NEW q \in Procs, q # p PROVE OnceFor(q)' /\ Out(q)' = Out(q)
    <3>1. Answered(q)' = Answered(q) /\ jobs'[q] = jobs[q]
      BY <2>3, <2>7, <1>0, <1>4 DEF Answered
    <3>2. Loads(q)' <=> Loads(q)
      BY <3>1 DEF Loads
    <3>3. OnceFor(q)
      BY DEF Once
    <3> QED BY <3>1, <3>2, <3>3, <2>3, <2>6, <2>7, <1>1 DEF OnceFor, Out
  <2>8. Out(p)' = Out(p) \cup {jobs[p].next}
    BY <2>2, <2>5, <2>6 DEF Out
  <2>9. /\ QueuedOnce(Queue(p)', p) /\ FetchedOnce(busy', p)
        /\ Queued(p)' \cap Fetched(p)' = {} /\ Queued(p)' \cap Answered(p)' = {}
        /\ Fetched(p)' \cap Answered(p)' = {}
    BY <2>4, <2>5, <2>6, <1>0, <1>1 DEF OnceFor, Out
  <2>10. Queues' /\ Genuine'
    BY <2>2, <2>3, <1>1 DEF Queues, Genuine
  <2>11. jobs[p].pc \in {"get", "send"}
    BY <1>0
  <2> QED BY <2>3, <2>5, <2>7, <2>8, <2>9, <2>10, <2>11, <1>1, <1>2, <1>4, Asked
<1> QED BY <1>3, <1>4 DEF GetBlock

LEMMA SendBlockStep ==
    ASSUME XloadInv, NEW p \in Procs, SendBlock(p)
    PROVE  XloadInv'
<1> USE DEF XloadInv
<1>0. /\ jobs[p].pc = "send" /\ jobs[p] \in Job /\ jobs \in [Procs -> Job]
      /\ answers \in [Procs -> SUBSET AnswerSet] /\ Loads(p) /\ OnceFor(p)
      /\ dataCh \in Seq(Item) /\ urgentCh \in Seq(Item) /\ File(p) \in Files
  BY DEF SendBlock, TypeInv, Loads, Once, Locked, File
<1>1. /\ UNCHANGED <<mount, remote, local, locks, listCh, splitCh, listers, busy, handle>>
      /\ answers' = answers /\ jobs' = [jobs EXCEPT ![p] = Advance(jobs[p], jobs[p].next)]
  BY DEF SendBlock, store
<1>2. jobs[p].next \in Nat /\ Out(p) \subseteq 1 .. jobs[p].next - 1
  BY <1>0 DEF Job, OnceFor
<1>3. PICK e \in Item :
         /\ e.job = p /\ e.index = jobs[p].next
         /\ \/ Urgent(p) /\ urgentCh' = Append(urgentCh, e) /\ dataCh' = dataCh
            \/ ~Urgent(p) /\ dataCh' = Append(dataCh, e) /\ urgentCh' = urgentCh
  <2>1. [job |-> p, file |-> File(p), index |-> jobs[p].next] \in Item
    BY <1>0, <1>2 DEF Item
  <2> QED BY <2>1 DEF SendBlock
<1>4. dataCh' \in Seq(Item) /\ urgentCh' \in Seq(Item)
  <2>1. Append(urgentCh, e) \in Seq(Item) /\ Append(dataCh, e) \in Seq(Item)
    BY <1>0
  <2> QED BY <2>1, <1>0, <1>3
<1>5. Queues'
  <2>1. CASE Urgent(p) /\ urgentCh' = Append(urgentCh, e) /\ dataCh' = dataCh
    <3>1. \A k \in DOMAIN urgentCh' : urgentCh'[k] = e \/ (k \in DOMAIN urgentCh /\ urgentCh'[k] = urgentCh[k])
      BY <2>1, <1>0
    <3> QED BY <3>1, <2>1, <1>3, Distinct DEF Queues
  <2>2. CASE ~Urgent(p) /\ dataCh' = Append(dataCh, e) /\ urgentCh' = urgentCh
    <3>1. \A k \in DOMAIN dataCh' : dataCh'[k] = e \/ (k \in DOMAIN dataCh /\ dataCh'[k] = dataCh[k])
      BY <2>2, <1>0
    <3> QED BY <3>1, <2>2, <1>3 DEF Queues, Urgent
  <2> QED BY <1>3, <2>1, <2>2
<1>6. Queue(p)' = Append(Queue(p), e) /\ Queue(p) \in Seq(Item)
  BY <1>0, <1>3 DEF Queue
<1>7. \A q \in Procs : q # p => Queue(q)' = Queue(q) \/ (Queue(q) \in Seq(Item) /\ Queue(q)' = Append(Queue(q), e))
  BY <1>0, <1>3 DEF Queue
<1>8. Queued(p)' = Queued(p) \cup {jobs[p].next} /\ QueuedOnce(Queue(p)', p)
  <2>1. QueuedOnce(Queue(p), p) /\ e.index \notin InQueue(Queue(p), p)
    BY <1>0, <1>2, <1>3 DEF OnceFor, Out, Queued
  <2>2. InQueue(Append(Queue(p), e), p) = InQueue(Queue(p), p) \cup {e.index}
        /\ QueuedOnce(Append(Queue(p), e), p)
    BY <2>1, <1>3, <1>6, QueueAppend
  <2> QED BY <2>2, <1>3, <1>6 DEF Queued
<1>9. ASSUME NEW q \in Procs, q # p PROVE Queued(q)' = Queued(q) /\ QueuedOnce(Queue(q)', q)
  <2>1. QueuedOnce(Queue(q), q)
    BY DEF Once, OnceFor
  <2>2. CASE Queue(q)' = Queue(q)
    BY <2>1, <2>2 DEF Queued
  <2>3. CASE Queue(q) \in Seq(Item) /\ Queue(q)' = Append(Queue(q), e)
    <3>1. InQueue(Append(Queue(q), e), q) = InQueue(Queue(q), q)
          /\ QueuedOnce(Append(Queue(q), e), q)
      BY <2>1, <2>3, <1>3, <1>9, QueueAppend
    <3> QED BY <3>1, <2>3 DEF Queued
  <2> QED BY <1>7, <1>9, <2>2, <2>3
<1>10. \A q \in Procs : Fetched(q)' = Fetched(q) /\ Answered(q)' = Answered(q)
  BY <1>1 DEF Fetched, Answered
<1>11. ASSUME NEW q \in Procs, q # p PROVE OnceFor(q)' /\ Out(q)' = Out(q)
  <2>1. jobs'[q] = jobs[q]
    BY <1>0, <1>1, <1>11
  <2>2. Loads(q)' <=> Loads(q)
    BY <2>1 DEF Loads
  <2>3. OnceFor(q)
    BY DEF Once
  <2>4. Queued(q)' = Queued(q) /\ QueuedOnce(Queue(q)', q)
    BY <1>9, <1>11
  <2> QED BY <2>1, <2>2, <2>3, <2>4, <1>1, <1>10 DEF OnceFor, Out
<1>12. Out(p)' = Out(p) \cup {jobs[p].next}
  BY <1>8, <1>10 DEF Out
<1>13. /\ FetchedOnce(busy', p) /\ AnsweredOnce(answers'[p])
       /\ Queued(p)' \cap Fetched(p)' = {} /\ Queued(p)' \cap Answered(p)' = {}
       /\ Fetched(p)' \cap Answered(p)' = {}
  <2>1. jobs[p].next \notin Out(p)
    BY <1>2
  <2> QED BY <2>1, <1>0, <1>1, <1>8, <1>10 DEF OnceFor, Out
<1>14. Genuine' /\ answers' \in [Procs -> SUBSET AnswerSet] /\ jobs[p].pc \in {"get", "send"}
  BY <1>0, <1>1 DEF Genuine
<1> QED BY <1>1, <1>4, <1>5, <1>8, <1>11, <1>12, <1>13, <1>14, Asked

\* The writer writes an answer and counts it.
LEMMA WriteAnswerStep ==
    ASSUME XloadInv, NEW p \in Procs, NEW a \in answers[p], WriteAnswer(p, a)
    PROVE  XloadInv'
<1> USE DEF XloadInv
<1>0. /\ Loads(p) /\ jobs[p] \in Job /\ jobs \in [Procs -> Job] /\ OnceFor(p) /\ WrittenFor(p)
      /\ answers \in [Procs -> SUBSET AnswerSet] /\ a \in AnswerSet
      /\ File(p) \in Files /\ File(p) = jobs[p].file /\ Size(p) = Blocks[File(p)] /\ Size(p) \in Nat
  <2>1. Loads(p)
    BY DEF WriteAnswer, Writing, Loads
  <2>2. File(p) \in Files /\ File(p) = jobs[p].file
    BY <2>1 DEF Locked, Loads, File
  <2> QED BY <2>1, <2>2, Numbers DEF TypeInv, Once, Written, Size
<1>1. /\ UNCHANGED <<mount, remote, locks, listCh, splitCh, listers, busy, handle>>
      /\ UNCHANGED <<dataCh, urgentCh>>
      /\ answers' = [answers EXCEPT ![p] = @ \ {a}]
  BY DEF WriteAnswer, channels
<1>2. dataCh' \in Seq(Item) /\ urgentCh' \in Seq(Item)
  BY <1>1 DEF TypeInv
<1>3. /\ answers' \in [Procs -> SUBSET AnswerSet] /\ answers'[p] = answers[p] \ {a}
      /\ \A q \in Procs : q # p => answers'[q] = answers[q]
  BY <1>0, <1>1
<1>4. PICK j \in Job :
         /\ jobs' = [jobs EXCEPT ![p] = j]
         /\ j.pc = jobs[p].pc /\ j.file = jobs[p].file /\ j.version = jobs[p].version
         /\ j.next = jobs[p].next /\ j.got = jobs[p].got + 1
         /\ \/ /\ a.ok /\ (j.ok => jobs[p].ok)
               /\ local' = IF local[File(p)] = None THEN local
                           ELSE [local EXCEPT ![File(p)][a.index] = a.version]
            \/ ~j.ok /\ local' = local
  <2>1. PICK r \in Job : r = jobs[p]
    BY <1>0
  <2>2. PICK n \in Nat : n = jobs[p].got + 1
    BY <2>1 DEF Job
  <2>3. CASE /\ a.ok
             /\ local' = IF local[File(p)] = None THEN local
                         ELSE [local EXCEPT ![File(p)][a.index] = a.version]
             /\ jobs' = [jobs EXCEPT ![p].got = @ + 1]
    <3> DEFINE j == [r EXCEPT !.got = n]
    <3>1. j \in Job
      BY DEF Job
    <3>2. j.pc = r.pc /\ j.file = r.file /\ j.version = r.version /\ j.next = r.next /\ j.got = n
      BY DEF Job
    <3>3. jobs' = [jobs EXCEPT ![p] = j]
      BY <2>1, <2>2, <2>3
    <3>4. j.ok => r.ok
      BY DEF Job
    <3> HIDE DEF j
    <3> QED BY <2>1, <2>2, <2>3, <3>1, <3>2, <3>3, <3>4
  <2>4. CASE local' = local /\ jobs' = [jobs EXCEPT ![p].got = @ + 1, ![p].ok = FALSE, ![p].live = FALSE]
    <3> DEFINE j == [r EXCEPT !.got = n, !.ok = FALSE, !.live = FALSE]
    <3>1. j \in Job
      BY DEF Job
    <3>2. j.pc = r.pc /\ j.file = r.file /\ j.version = r.version /\ j.next = r.next /\ j.got = n
      BY DEF Job
    <3>3. ~j.ok
      BY DEF Job
    <3>4. jobs' = [jobs EXCEPT ![p] = j]
      BY <2>1, <2>2, <2>4, <1>0
    <3> HIDE DEF j
    <3> QED BY <2>1, <2>2, <2>4, <3>1, <3>2, <3>3, <3>4
  <2> QED BY <2>3, <2>4 DEF WriteAnswer
<1>5. a.index \in 1 .. jobs[p].next - 1 /\ jobs[p].next - 1 <= Size(p) /\ jobs[p].next \in Nat
  <2>1. a.index \in Out(p)
    BY DEF Out, Answered, InAnswers
  <2>2. a.index \in 1 .. jobs[p].next - 1 /\ jobs[p].next \in Nat
    BY <2>1, <1>0 DEF OnceFor, Job
  <2> QED BY <2>2, <1>0 DEF Progress
<1>6. a.ok => a.version \in 1 .. mount.versions /\ a.version \in Nat
  BY <1>0 DEF Genuine, AnswerSet
<1>7. local[File(p)] # None => local[File(p)] \in [1 .. Size(p) -> Nat]
  BY <1>0 DEF Whole
<1>8. \/ local' = local
      \/ /\ local[File(p)] # None
         /\ \E h \in [1 .. Size(p) -> Nat] : local' = [local EXCEPT ![File(p)] = h]
  <2>1. CASE a.ok /\ local[File(p)] # None
    <3>1. local' = local \/ local' = [local EXCEPT ![File(p)] = [local[File(p)] EXCEPT ![a.index] = a.version]]
      BY <2>1, <1>4
    <3>2. [local[File(p)] EXCEPT ![a.index] = a.version] \in [1 .. Size(p) -> Nat]
      BY <2>1, <1>6, <1>7
    <3> QED BY <3>1, <3>2, <2>1
  <2>2. CASE ~(a.ok /\ local[File(p)] # None)
    BY <2>2, <1>4
  <2> QED BY <2>1, <2>2
<1>9. /\ TypeInv' /\ Locked' /\ Dated' /\ Whole' /\ Opened'
      /\ jobs'[p] = j /\ File(p)' = File(p) /\ Loads(p)' /\ File(p) \in Files
      /\ \A q \in Procs : q # p => /\ jobs'[q] = jobs[q]
                                   /\ Loads(q) => local'[File(q)] = local[File(q)]
  <2>1. j.pc \in {"get", "send", "wait"}
    BY <1>0, <1>4 DEF Loads
  <2> QED BY <2>1, <1>0, <1>1, <1>2, <1>3, <1>4, <1>8, LoaderStep
<1>10. \A q \in Procs : Queue(q)' = Queue(q) /\ Queued(q)' = Queued(q) /\ Fetched(q)' = Fetched(q)
  BY <1>1 DEF Queue, Queued, Fetched
<1>11. ASSUME NEW q \in Procs, q # p PROVE OnceFor(q)' /\ Out(q)' = Out(q)
  <2>1. Answered(q)' = Answered(q) /\ jobs'[q] = jobs[q]
    BY <1>3, <1>9, <1>11 DEF Answered
  <2>2. Loads(q)' <=> Loads(q)
    BY <2>1 DEF Loads
  <2>3. OnceFor(q)
    BY DEF Once
  <2> QED BY <2>1, <2>2, <2>3, <1>1, <1>3, <1>10, <1>11 DEF OnceFor, Out
<1>12. Answered(p)' = Answered(p) \ {a.index} /\ AnsweredOnce(answers'[p]) /\ a.index \in Answered(p)
  <2>1. answers[p] \in SUBSET AnswerSet /\ AnsweredOnce(answers[p])
    BY <1>0 DEF OnceFor
  <2>2. /\ InAnswers(answers[p] \ {a}) = InAnswers(answers[p]) \ {a.index}
        /\ AnsweredOnce(answers[p] \ {a}) /\ a.index \in InAnswers(answers[p])
    BY <2>1, AnswersRemove
  <2> QED BY <2>2, <1>3 DEF Answered
<1>13. /\ Queued(p) \cap Answered(p) = {} /\ Fetched(p) \cap Answered(p) = {}
       /\ Out(p) \subseteq 1 .. jobs[p].next - 1
  BY <1>0 DEF OnceFor
<1>14. Out(p)' = Out(p) \ {a.index}
  BY <1>10, <1>12, <1>13 DEF Out
<1>15. OnceFor(p)'
  BY <1>0, <1>1, <1>4, <1>9, <1>10, <1>12, <1>14 DEF OnceFor
<1>16. Once'
  BY <1>11, <1>15 DEF Once
<1>17. Genuine'
  BY <1>1, <1>3 DEF Genuine
<1>18. WrittenFor(p)'
  <2> SUFFICES ASSUME j.ok
               PROVE  /\ jobs'[p].got = Cardinality(Done(p)')
                      /\ local'[File(p)] # None =>
                           \A i \in Done(p)' : local'[File(p)][i] \in 1 .. mount.versions
    BY <1>1, <1>9 DEF WrittenFor
  <2>1. a.ok /\ local' = IF local[File(p)] = None THEN local
                         ELSE [local EXCEPT ![File(p)][a.index] = a.version]
    BY <1>4
  <2>2. Done(p)' = Done(p) \cup {a.index} /\ a.index \notin Done(p)
    <3>1. Done(p)' = (1 .. jobs[p].next - 1) \ (Out(p) \ {a.index})
      BY <1>4, <1>9, <1>14 DEF Done
    <3> QED BY <3>1, <1>5, <1>12 DEF Done, Out
  <2>3. IsFiniteSet(Done(p))
    <3>1. IsFiniteSet(1 .. jobs[p].next - 1)
      BY <1>5, FS_Interval
    <3> QED BY <3>1, FS_Subset DEF Done
  <2>4. jobs[p].ok
    BY <1>4
  <2>5. Cardinality(Done(p)') = jobs[p].got + 1
    <3>1. jobs[p].got = Cardinality(Done(p))
      BY <2>4, <1>0 DEF WrittenFor
    <3>2. PICK S, x : S = Done(p) /\ x = a.index
      OBVIOUS
    <3>3. IsFiniteSet(S) /\ x \notin S
      BY <3>2, <2>2, <2>3
    <3>4. Cardinality(S \cup {x}) = Cardinality(S) + 1
      BY <3>3, FS_AddElement
    <3>5. Done(p)' = S \cup {x}
      BY <3>2, <2>2
    <3> QED BY <3>1, <3>2, <3>4, <3>5
  <2>6. ASSUME local'[File(p)] # None, NEW i \in Done(p)'
        PROVE  local'[File(p)][i] \in 1 .. mount.versions
    <3>1. local[File(p)] # None
      BY <2>1, <2>6
    <3>2. local' = [local EXCEPT ![File(p)] = [local[File(p)] EXCEPT ![a.index] = a.version]]
      BY <2>1, <3>1
    <3>3. local'[File(p)] = [local[File(p)] EXCEPT ![a.index] = a.version]
      BY <3>2, <1>0 DEF TypeInv
    <3>4. local[File(p)] \in [1 .. Size(p) -> Nat] /\ a.index \in 1 .. Size(p)
      BY <3>1, <1>5, <1>7, <1>0
    <3>5. i \in Done(p) => local[File(p)][i] \in 1 .. mount.versions /\ i \in 1 .. Size(p)
      BY <2>4, <3>1, <1>0, <1>5 DEF WrittenFor, Done
    <3> QED BY <2>1, <2>2, <3>3, <3>4, <3>5, <1>6
  <2> QED BY <2>5, <2>6, <1>4, <1>9
<1>19. Progress' /\ Written'
  <2>1. Loads(p)' => /\ Size(p)' > 0
                     /\ jobs'[p].pc # "wait" => jobs'[p].next <= Size(p)'
                     /\ jobs'[p].pc = "wait" => jobs'[p].next = Size(p)' + 1
    BY <1>0, <1>4, <1>9 DEF Progress, Size
  <2> QED BY <2>1, <1>1, <1>9, <1>11, <1>18, OtherRuns
<1>20. Queues'
  BY <1>1 DEF Queues
<1> QED BY <1>9, <1>16, <1>17, <1>19, <1>20

LEMMA WriterLeavesStep ==
    ASSUME XloadInv, NEW p \in Procs, WriterLeaves(p)
    PROVE  XloadInv'
<1> USE DEF XloadInv
<1>0. /\ Loads(p) /\ jobs[p] \in Job /\ jobs \in [Procs -> Job]
      /\ File(p) \in Files /\ Size(p) \in Nat
  <2>1. Loads(p)
    BY DEF WriterLeaves, Writing, Loads
  <2>2. File(p) \in Files
    BY <2>1 DEF Locked, Loads, File
  <2> QED BY <2>1, <2>2, Numbers DEF TypeInv, Size
<1>1. /\ UNCHANGED <<mount, remote, local, locks, listCh, splitCh, listers, handle>> /\ UNCHANGED Places
      /\ jobs' = [jobs EXCEPT ![p].got = Size(p), ![p].ok = FALSE, ![p].live = FALSE]
  BY DEF WriterLeaves, Places, store, channels
<1> DEFINE j == [jobs[p] EXCEPT !.got = Size(p), !.ok = FALSE, !.live = FALSE]
<1>2. j \in Job /\ j.pc = jobs[p].pc /\ j.file = jobs[p].file /\ j.version = jobs[p].version
      /\ j.next = jobs[p].next
  BY <1>0 DEF Job
<1>3. j.ok = FALSE
  BY <1>0 DEF Job
<1>4. jobs' = [jobs EXCEPT ![p] = j]
  BY <1>0, <1>1
<1> HIDE DEF j
<1>5. /\ TypeInv' /\ Locked' /\ Dated' /\ Whole' /\ Opened'
      /\ jobs'[p] = j /\ File(p)' = File(p) /\ Loads(p)'
      /\ \A q \in Procs : q # p => /\ jobs'[q] = jobs[q]
                                   /\ Loads(q) => local'[File(q)] = local[File(q)]
  <2>1. j.pc \in {"get", "send", "wait"}
    BY <1>0, <1>2 DEF Loads
  <2>2. dataCh' \in Seq(Item) /\ urgentCh' \in Seq(Item) /\ answers' \in [Procs -> SUBSET AnswerSet]
        /\ busy' = busy
    BY <1>1 DEF TypeInv, Places
  <2>3. local' = local
    BY <1>1
  <2> QED BY <2>1, <2>2, <2>3, <1>0, <1>1, <1>2, <1>4, LoaderStep
<1>6. \A q \in Procs : Out(q)' = Out(q)
  BY <1>1, PlacesSame
<1>7. Once'
  <2> SUFFICES ASSUME NEW q \in Procs PROVE OnceFor(q)'
    BY DEF Once
  <2>1. jobs'[q].next = jobs[q].next /\ (Loads(q)' <=> Loads(q))
    BY <1>0, <1>2, <1>5 DEF Loads
  <2> QED BY <2>1, <1>1, OnceKept DEF Once
<1>8. WrittenFor(p)'
  BY <1>3, <1>5 DEF WrittenFor
<1>9. Progress' /\ Written'
  <2>1. Loads(p)' => /\ Size(p)' > 0
                     /\ jobs'[p].pc # "wait" => jobs'[p].next <= Size(p)'
                     /\ jobs'[p].pc = "wait" => jobs'[p].next = Size(p)' + 1
    BY <1>0, <1>2, <1>5 DEF Progress, Size
  <2> QED BY <2>1, <1>1, <1>5, <1>6, <1>8, OtherRuns
<1>10. Queues' /\ Genuine'
  BY <1>1 DEF Queues, Genuine, Places
<1> QED BY <1>5, <1>7, <1>9, <1>10

\* A run of Process is over and leaves its file whole or not at all.
LEMMA EndStep ==
    ASSUME XloadInv, NEW p \in Procs, jobs[p].pc \in {"create", "wait"}, NEW ok, Return(p, ok),
           UNCHANGED <<mount, remote, listCh, splitCh, listers, handle>>,
           DOMAIN local' = Files, \A f \in Files : f # File(p) => local'[f] = local[f],
           local'[File(p)] \in Versions(File(p)) \cup {None},
           \A u \in Users : handle[u] = File(p) => local' = local
    PROVE  /\ XloadInv'
           /\ \A f \in Files : f # File(p) => (Loading(f)' <=> Loading(f))
           /\ \A f \in Files : f = File(p) => ~Loading(f)'
<1> USE DEF XloadInv
<1>0. /\ File(p) \in Files /\ File(p) = jobs[p].file /\ locks[File(p)] = p
      /\ jobs[p].pc \notin {"idle", "gone", "lock"}
  BY DEF Locked, File
<1>1. /\ locks' \in [Files -> Procs \cup {None}] /\ jobs' \in [Procs -> Job]
      /\ dataCh' \in Seq(Item) /\ urgentCh' \in Seq(Item)
      /\ answers' \in [Procs -> SUBSET AnswerSet] /\ busy' \in [Workers -> Item \cup {None, Gone}]
      /\ ~Loads(p)' /\ \A q \in Procs : q # p => jobs'[q] = jobs[q] /\ Out(q)' = Out(q)
      /\ Locked' /\ Dated' /\ Progress' /\ Queues' /\ Once' /\ Genuine'
  BY ReturnStep
<1>2. TypeInv'
  BY <1>1 DEF TypeInv
<1>3. \A q \in Procs : q # p /\ jobs[q].pc \notin {"idle", "gone", "lock"} => File(q) # File(p) /\ File(q) \in Files
  BY <1>0 DEF Locked, File
<1>4. \A q \in Procs : q # p => (Loads(q)' <=> Loads(q)) /\ File(q)' = File(q)
  BY <1>1 DEF Loads, File
<1>5. \A f \in Files : Loading(f) <=> \E q \in Procs : File(q) = f /\ Loads(q)
  BY DEF Loading, Loads, File
<1>6. \A f \in Files : Loading(f)' <=> \E q \in Procs : File(q)' = f /\ Loads(q)'
  BY DEF Loading, Loads, File
<1>7. \A f \in Files : f # File(p) => (Loading(f)' <=> Loading(f))
  BY <1>1, <1>4, <1>5, <1>6
<1>8. \A f \in Files : f = File(p) => ~Loading(f)'
  <2> SUFFICES ASSUME NEW f \in Files, f = File(p) PROVE ~Loading(f)'
    OBVIOUS
  <2>1. \A q \in Procs : Loads(q) => jobs[q].pc \notin {"idle", "gone", "lock"}
    BY DEF Loads
  <2> QED BY <2>1, <1>0, <1>1, <1>3, <1>4, <1>6
<1>9. Written'
  <2> SUFFICES ASSUME NEW q \in Procs PROVE WrittenFor(q)'
    BY DEF Written
  <2>1. CASE q = p
    BY <2>1, <1>1 DEF WrittenFor
  <2>2. CASE q # p
    <3>1. Loads(q) => local'[File(q)] = local[File(q)]
      BY <2>2, <1>3 DEF Loads
    <3> QED BY <3>1, <2>2, <1>1, WrittenKept DEF Written
  <2> QED BY <2>1, <2>2
<1>10. Whole'
  <2> SUFFICES ASSUME NEW f \in Files
               PROVE  /\ local'[f] = None \/ local'[f] \in [1 .. Blocks[f] -> Nat]
                      /\ ~Loading(f)' => local'[f] = None \/ local'[f] \in Versions(f)
    BY DEF Whole, Versions
  <2>1. CASE f = File(p)
    <3>1. Versions(f) \subseteq [1 .. Blocks[f] -> Nat]
      BY Numbers DEF Versions
    <3> QED BY <3>1, <2>1
  <2>2. CASE f # File(p)
    BY <2>2, <1>7 DEF Whole
  <2> QED BY <2>1, <2>2
<1>11. Opened'
  <2>1. \A f \in Files : (\E q \in Procs : jobs'[q].file = f /\ jobs'[q].pc \in {"get", "send", "wait"})
                         <=> \E q \in Procs : File(q)' = f /\ Loads(q)'
    BY DEF Loads, File
  <2> SUFFICES ASSUME NEW u \in Users, handle[u] # None
               PROVE  /\ jobs'[u].pc = "idle" /\ local'[handle[u]] # None
                      /\ ~\E q \in Procs : jobs'[q].file = handle[u] /\ jobs'[q].pc \in {"get", "send", "wait"}
    BY DEF Opened, Loading
  <2>2. handle[u] \in Files /\ u # p /\ u \in Procs
    BY <1>0 DEF Opened, TypeInv, Procs
  <2>3. jobs'[u] = jobs[u]
    BY <2>2, <1>1
  <2>4. ~\E q \in Procs : File(q)' = handle[u] /\ Loads(q)'
    <3>1. ~\E q \in Procs : File(q) = handle[u] /\ Loads(q)
      BY <2>2, <1>5 DEF Opened
    <3> QED BY <3>1, <1>1, <1>4
  <2>5. local'[handle[u]] # None
    BY <2>2 DEF Opened
  <2> QED BY <2>1, <2>2, <2>3, <2>4, <2>5 DEF Opened
<1> QED BY <1>1, <1>2, <1>7, <1>8, <1>9, <1>10, <1>11

\* A file that is to be created is not there: what is there has its size.
LEMMA NotThere ==
    ASSUME XloadInv, NEW p \in Procs, jobs[p].pc = "create"
    PROVE  /\ File(p) \in Files /\ Size(p) = Blocks[File(p)] /\ Size(p) \in Nat /\ File(p) = jobs[p].file
           /\ ~Loading(File(p)) /\ local[File(p)] \in Versions(File(p)) \cup {None}
           /\ ~(local[File(p)] # None /\ Len(local[File(p)]) = Size(p)) =>
                 local[File(p)] = None /\ \A u \in Users : handle[u] # File(p)
<1> USE DEF XloadInv
<1>1. File(p) \in Files /\ File(p) = jobs[p].file /\ locks[File(p)] = p
  BY DEF Locked, File
<1>2. Size(p) = Blocks[File(p)] /\ Size(p) \in Nat
  BY <1>1, Numbers DEF Size
<1>3. ~Loading(File(p))
  BY <1>1 DEF Loading, Locked
<1>4. local[File(p)] \in Versions(File(p)) \cup {None}
  BY <1>1, <1>3 DEF Whole
<1>5. local[File(p)] # None => Len(local[File(p)]) = Size(p)
  <2> SUFFICES ASSUME local[File(p)] # None PROVE Len(local[File(p)]) = Size(p)
    OBVIOUS
  <2>1. PICK v : local[File(p)] = [i \in 1 .. Size(p) |-> v]
    BY <1>2, <1>4 DEF Versions
  <2> QED BY <2>1, <1>2
<1>6. local[File(p)] = None => \A u \in Users : handle[u] # File(p)
  BY <1>1, Distinct DEF Opened
<1> QED BY <1>1, <1>2, <1>3, <1>4, <1>5, <1>6

\* An empty file is whole when it is created.
LEMMA EmptyWhole ==
    ASSUME XloadInv, NEW f \in Files, Blocks[f] = 0
    PROVE  Hole(f) \in Versions(f)
<1>1. mount \in Mounts
  BY DEF XloadInv, TypeInv
<1>2. 1 \in 1 .. MaxVersion
  BY <1>1, Versioned, Numbers
<1>3. [i \in 1 .. Blocks[f] |-> 0] = [i \in 1 .. Blocks[f] |-> 1]
  <2>1. 1 .. Blocks[f] = {}
    OBVIOUS
  <2> QED BY <2>1
<1> QED BY <1>2, <1>3 DEF Hole, Versions

\* The writer is done and all is well: every block is written.
LEMMA FinishWhole ==
    ASSUME XloadInv, NEW p \in Procs, jobs[p].pc = "wait", ~Writing(p), jobs[p].ok, Consistent(p)
    PROVE  local[File(p)] \in Versions(File(p)) \cup {None}
<1> USE DEF XloadInv
<1>0. /\ Loads(p) /\ jobs[p] \in Job /\ WrittenFor(p) /\ OnceFor(p) /\ mount \in Mounts
      /\ File(p) \in Files /\ Size(p) = Blocks[File(p)] /\ Size(p) \in Nat
  <2>1. Loads(p)
    BY DEF Loads
  <2>2. File(p) \in Files
    BY DEF Locked, File
  <2> QED BY <2>1, <2>2, Numbers DEF TypeInv, Once, Written, Size
<1> SUFFICES ASSUME local[File(p)] # None PROVE local[File(p)] \in Versions(File(p))
  OBVIOUS
<1>1. local[File(p)] \in [1 .. Size(p) -> Nat]
  BY <1>0 DEF Whole
<1>2. jobs[p].next = Size(p) + 1 /\ jobs[p].got \in Nat /\ jobs[p].got >= Size(p)
  <2>1. jobs[p].got \in Nat
    BY <1>0 DEF Job
  <2> QED BY <2>1, <1>0 DEF Progress, Writing
<1>3. Done(p) = 1 .. Size(p)
  <2>1. PICK S : S = Done(p)
    OBVIOUS
  <2>2. PICK n \in Nat : n = Size(p)
    BY <1>0
  <2>3. S \subseteq 1 .. n
    BY <2>1, <2>2, <1>2 DEF Done
  <2>4. IsFiniteSet(1 .. n) /\ Cardinality(1 .. n) = n
    <3>1. Cardinality(1 .. n) = IF 1 > n THEN 0 ELSE n - 1 + 1
      BY FS_Interval
    <3> QED BY <3>1, FS_Interval
  <2>5. IsFiniteSet(S) /\ Cardinality(S) \in Nat /\ Cardinality(S) <= n
    BY <2>3, <2>4, FS_Subset, FS_CardinalityType
  <2>6. Cardinality(S) = jobs[p].got
    BY <2>1, <1>0 DEF WrittenFor
  <2>7. Cardinality(S) = Cardinality(1 .. n)
    BY <2>2, <2>4, <2>5, <2>6, <1>2
  <2>8. S = 1 .. n
    BY <2>3, <2>4, <2>7, FS_Subset
  <2> QED BY <2>1, <2>2, <2>8
<1>4. \A i \in 1 .. Size(p) : local[File(p)][i] \in 1 .. mount.versions
  BY <1>0, <1>3 DEF WrittenFor
<1>5. \E v \in 1 .. MaxVersion : \A i \in 1 .. Size(p) : local[File(p)][i] = v
  <2>1. CASE mount.md5
    <3>1. jobs[p].version \in 1 .. MaxVersion
      BY <1>0, Numbers DEF Dated, Job
    <3> QED BY <3>1, <2>1 DEF Consistent
  <2>2. CASE ~mount.md5
    <3>1. mount.versions = 1 /\ 1 \in 1 .. MaxVersion
      BY <2>2, <1>0, Versioned, Numbers
    <3> QED BY <3>1, <1>4
  <2> QED BY <2>1, <2>2
<1>6. PICK v \in 1 .. MaxVersion : \A i \in 1 .. Size(p) : local[File(p)][i] = v
  BY <1>5
<1>7. local[File(p)] = [i \in 1 .. Size(p) |-> v]
  BY <1>1, <1>6
<1> QED BY <1>0, <1>7 DEF Versions

LEMMA CreateStep ==
    ASSUME XloadInv, NEW p \in Procs, Create(p)
    PROVE  XloadInv'
<1> USE DEF XloadInv
<1>0. /\ UNCHANGED <<mount, remote, listCh, splitCh, listers, handle>>
      /\ jobs[p].pc = "create" /\ jobs[p].pc \in {"create", "wait"} /\ jobs[p] \in Job /\ DOMAIN local = Files
  BY DEF Create, TypeInv
<1>1. /\ File(p) \in Files /\ Size(p) = Blocks[File(p)] /\ Size(p) \in Nat /\ File(p) = jobs[p].file
      /\ ~Loading(File(p)) /\ local[File(p)] \in Versions(File(p)) \cup {None}
      /\ ~(local[File(p)] # None /\ Len(local[File(p)]) = Size(p)) =>
            local[File(p)] = None /\ \A u \in Users : handle[u] # File(p)
  BY <1>0, NotThere
<1>2. CASE (\E ok : Return(p, ok)) /\ local' = local
  BY <1>0, <1>1, <1>2, EndStep
<1>3. ASSUME ~(local[File(p)] # None /\ Len(local[File(p)]) = Size(p)), Size(p) = 0, Return(p, TRUE),
             local' = [local EXCEPT ![File(p)] = Hole(File(p))]
      PROVE  XloadInv'
  <2>1. Hole(File(p)) \in Versions(File(p))
    BY <1>1, <1>3, EmptyWhole
  <2>2. /\ DOMAIN local' = Files /\ \A f \in Files : f # File(p) => local'[f] = local[f]
        /\ local'[File(p)] \in Versions(File(p)) \cup {None}
        /\ \A u \in Users : handle[u] = File(p) => local' = local
    BY <2>1, <1>0, <1>1, <1>3
  <2> QED BY <2>2, <1>0, <1>3, EndStep
<1>4. ASSUME ~(local[File(p)] # None /\ Len(local[File(p)]) = Size(p)), Return(p, FALSE),
             local' = [local EXCEPT ![File(p)] = None]
      PROVE  XloadInv'
  <2>1. /\ DOMAIN local' = Files /\ \A f \in Files : f # File(p) => local'[f] = local[f]
        /\ local'[File(p)] \in Versions(File(p)) \cup {None}
        /\ \A u \in Users : handle[u] = File(p) => local' = local
    BY <1>0, <1>1, <1>4
  <2> QED BY <2>1, <1>0, <1>4, EndStep
<1>5. ASSUME ~(local[File(p)] # None /\ Len(local[File(p)]) = Size(p)), Size(p) # 0,
             jobs' = [jobs EXCEPT ![p].pc = "get"], UNCHANGED <<locks, Places>>,
             local' = [local EXCEPT ![File(p)] = Hole(File(p))]
      PROVE  XloadInv'
  <2> DEFINE j == [jobs[p] EXCEPT !.pc = "get"]
  <2>1. /\ j \in Job /\ j.pc = "get" /\ j.file = jobs[p].file /\ j.version = jobs[p].version
        /\ j.next = jobs[p].next /\ j.got = jobs[p].got
    BY <1>0 DEF Job
  <2>2. jobs' = [jobs EXCEPT ![p] = j]
    BY <1>5
  <2> HIDE DEF j
  <2>3. /\ jobs'[p] = j /\ jobs' \in [Procs -> Job] /\ \A q \in Procs : q # p => jobs'[q] = jobs[q]
    BY <2>1, <2>2 DEF TypeInv
  <2>4. /\ DOMAIN local' = Files /\ \A f \in Files : f # File(p) => local'[f] = local[f]
        /\ local'[File(p)] = Hole(File(p)) /\ Hole(File(p)) \in [1 .. Size(p) -> Nat]
    BY <1>0, <1>1, <1>5 DEF Hole
  <2>5. TypeInv'
    BY <2>3, <2>4, <1>0, <1>5 DEF TypeInv, Places
  <2>6. jobs[p].next = 1 /\ jobs[p].got = 0 /\ jobs[p].version > 0 /\ locks[File(p)] = p
    BY <1>0, <1>1 DEF Dated, Locked
  <2>7. Locked'
    <3> SUFFICES ASSUME NEW q \in Procs
                 PROVE  /\ jobs'[q].pc \notin {"idle", "gone"} => jobs'[q].file \in Files
                        /\ jobs'[q].pc \notin {"idle", "gone", "lock"} => locks'[jobs'[q].file] = q
      BY DEF Locked
    <3>1. CASE q = p
      BY <3>1, <2>1, <2>3, <2>6, <1>1, <1>5
    <3>2. CASE q # p
      BY <3>2, <2>3, <1>5 DEF Locked
    <3> QED BY <3>1, <3>2
  <2>8. Dated'
    BY <2>1, <2>3, <2>6, <1>0 DEF Dated
  <2>9. File(p)' = File(p) /\ Size(p)' = Size(p) /\ ~Loads(p) /\ Loads(p)'
    BY <2>1, <2>3, <1>0 DEF File, Size, Loads
  <2>10. UNCHANGED Places
    BY <1>5
  <2>11. \A q \in Procs : Out(q)' = Out(q)
    BY <2>10, PlacesSame
  <2>12. Out(p) = {} /\ OnceFor(p)
    BY <2>9 DEF Once, OnceFor
  <2>13. Done(p)' = {}
    BY <2>1, <2>3, <2>6 DEF Done
  <2>14. Once'
    <3> SUFFICES ASSUME NEW q \in Procs PROVE OnceFor(q)'
      BY DEF Once
    <3>1. CASE q = p
      <4>1. jobs'[p].next = jobs[p].next
        BY <2>1, <2>3
      <4> QED BY <3>1, <4>1, <2>9, <2>10, <2>12, PlacesSame DEF OnceFor, Places
    <3>2. CASE q # p
      <4>1. jobs'[q].next = jobs[q].next /\ (Loads(q)' <=> Loads(q))
        BY <3>2, <2>3 DEF Loads
      <4> QED BY <4>1, <2>10, OnceKept DEF Once
    <3> QED BY <3>1, <3>2
  <2>15. WrittenFor(p)'
    <3>1. Cardinality({}) = 0
      BY FS_EmptySet
    <3> QED BY <3>1, <2>1, <2>3, <2>6, <2>9, <2>13 DEF WrittenFor
  <2>16. \A q \in Procs : q # p /\ Loads(q) => local'[File(q)] = local[File(q)]
    <3>1. \A q \in Procs : q # p /\ Loads(q) => File(q) # File(p) /\ File(q) \in Files
      BY <2>6 DEF Locked, Loads, File
    <3> QED BY <3>1, <2>4
  <2>17. Progress' /\ Written'
    <3>1. Loads(p)' => /\ Size(p)' > 0
                       /\ jobs'[p].pc # "wait" => jobs'[p].next <= Size(p)'
                       /\ jobs'[p].pc = "wait" => jobs'[p].next = Size(p)' + 1
      BY <2>1, <2>3, <2>6, <2>9, <1>1, <1>5
    <3> QED BY <3>1, <2>3, <2>11, <2>15, <2>16, <1>0, OtherRuns
  <2>18. \A f \in Files : Loading(f)' <=> (Loading(f) \/ f = File(p))
    <3>1. \A f \in Files : Loading(f)' <=> \E q \in Procs : jobs'[q].file = f /\ Loads(q)'
      BY DEF Loading, Loads
    <3>2. \A f \in Files : Loading(f) <=> \E q \in Procs : jobs[q].file = f /\ Loads(q)
      BY DEF Loading, Loads
    <3>3. \A q \in Procs : q # p => (Loads(q)' <=> Loads(q)) /\ jobs'[q].file = jobs[q].file
      BY <2>3 DEF Loads
    <3>4. jobs'[p].file = File(p)
      BY <2>1, <2>3, <1>1
    <3> QED BY <3>1, <3>2, <3>3, <3>4, <2>9
  <2>19. Whole'
    <3> SUFFICES ASSUME NEW f \in Files
                 PROVE  /\ local'[f] = None \/ local'[f] \in [1 .. Blocks[f] -> Nat]
                        /\ ~Loading(f)' => local'[f] = None \/ local'[f] \in Versions(f)
      BY DEF Whole, Versions
    <3> QED BY <2>4, <2>18, <1>1 DEF Whole
  <2>20. Opened'
    <3>1. \A f \in Files : (\E q \in Procs : jobs'[q].file = f /\ jobs'[q].pc \in {"get", "send", "wait"})
                           <=> (Loading(f) \/ f = File(p))
      BY <2>18 DEF Loading
    <3> SUFFICES ASSUME NEW u \in Users, handle[u] # None
                 PROVE  /\ jobs'[u].pc = "idle" /\ local'[handle[u]] # None
                        /\ ~\E q \in Procs : jobs'[q].file = handle[u] /\ jobs'[q].pc \in {"get", "send", "wait"}
      BY <1>0 DEF Opened, Loading
    <3>2. handle[u] \in Files /\ u # p /\ u \in Procs /\ handle[u] # File(p)
      BY <1>0, <1>1, <1>5 DEF Opened, TypeInv, Procs
    <3>3. jobs'[u] = jobs[u]
      BY <3>2, <2>3
    <3> QED BY <3>1, <3>2, <3>3, <2>4 DEF Opened
  <2>21. Queues' /\ Genuine'
    BY <1>0, <1>5 DEF Queues, Genuine, Places
  <2> QED BY <2>5, <2>7, <2>8, <2>14, <2>17, <2>19, <2>20, <2>21
<1>6. CASE local[File(p)] # None /\ Len(local[File(p)]) = Size(p)
  BY <1>2, <1>6 DEF Create
<1>7. CASE ~(local[File(p)] # None /\ Len(local[File(p)]) = Size(p))
  <2>1. CASE Above[File(p)] \in dirs /\ local' = [local EXCEPT ![File(p)] = Hole(File(p))]
             /\ IF Size(p) = 0 THEN Return(p, TRUE)
                ELSE /\ jobs' = [jobs EXCEPT ![p].pc = "get"]
                     /\ UNCHANGED <<locks, answers, dataCh, urgentCh, busy>>
    BY <2>1, <1>3, <1>5, <1>7 DEF Places
  <2>2. CASE Return(p, FALSE) /\ local' = local
    BY <2>2, <1>2
  <2>3. CASE local' = [local EXCEPT ![File(p)] = None] /\ Return(p, FALSE)
    BY <2>3, <1>4, <1>7
  <2> QED BY <2>1, <2>2, <2>3, <1>7 DEF Create
<1> QED BY <1>6, <1>7

LEMMA FinishStep ==
    ASSUME XloadInv, NEW p \in Procs, Finish(p)
    PROVE  XloadInv'
<1> USE DEF XloadInv
<1>0. /\ UNCHANGED <<mount, remote, listCh, splitCh, listers, handle>>
      /\ jobs[p].pc = "wait" /\ jobs[p].pc \in {"create", "wait"} /\ DOMAIN local = Files /\ ~Writing(p)
      /\ File(p) \in Files /\ File(p) = jobs[p].file
  BY DEF Finish, TypeInv, Locked, File
<1>1. PICK ok : /\ ok = (jobs[p].ok /\ Consistent(p)) /\ Return(p, ok)
                /\ local' = IF ok THEN local ELSE [local EXCEPT ![File(p)] = None]
  BY DEF Finish
<1>2. local'[File(p)] \in Versions(File(p)) \cup {None}
  <2>1. CASE ok
    BY <2>1, <1>0, <1>1, FinishWhole
  <2>2. CASE ~ok
    BY <2>2, <1>0, <1>1
  <2> QED BY <2>1, <2>2
<1>3. DOMAIN local' = Files /\ \A f \in Files : f # File(p) => local'[f] = local[f]
  BY <1>0, <1>1
<1>4. \A u \in Users : handle[u] # File(p)
  <2>1. Loading(File(p))
    BY <1>0 DEF Loading
  <2> QED BY <2>1, <1>0, Distinct DEF Opened
<1> QED BY <1>0, <1>1, <1>2, <1>3, <1>4, EndStep

-----------------------------------------------------------------------------
(* The invariant                                                           *)

LEMMA InitInv == Init => XloadInv
<1> SUFFICES ASSUME Init PROVE XloadInv
  OBVIOUS
<1>1. /\ mount \in Mounts /\ MaxVersion \in Nat /\ mount.versions \in 1 .. MaxVersion
  BY Numbers, Versioned DEF Init
<1>2. NoJob \in Job /\ NoJob.pc = "idle" /\ Gone \in Visit /\ NoDir \in Visit
  BY Numbers DEF NoJob, Gone, NoDir, Visit
<1>3. /\ jobs \in [Procs -> Job] /\ answers = [p \in Procs |-> {}] /\ busy = [w \in Workers |-> None]
      /\ listers \in [Listers -> Visit] /\ dataCh = <<>> /\ urgentCh = <<>> /\ handle = [u \in Users |-> None]
      /\ local = [f \in Files |-> None] /\ \A p \in Procs : jobs[p] = NoJob
  BY <1>2 DEF Init
<1>4. TypeInv
  <2>1. remote \in [Files -> 1 .. MaxVersion]
    BY <1>1 DEF Init
  <2>2. listCh \in Seq(Dirs \cup {Root}) /\ splitCh \in Seq(Entry)
        /\ locks \in [Files -> Procs \cup {None}]
    BY DEF Init
  <2> QED BY <2>1, <2>2, <1>1, <1>3 DEF TypeInv
<1>5. \A p \in Procs : ~Loads(p)
  BY <1>2, <1>3 DEF Loads
<1>6. Locked /\ Progress /\ Queues /\ Genuine /\ Written
  BY <1>2, <1>3, <1>5 DEF Locked, Progress, Queues, Genuine, Written, WrittenFor
<1>7. Dated
  BY <1>1, <1>2, <1>3 DEF Dated, Init
<1>8. Once
  <2> SUFFICES ASSUME NEW p \in Procs PROVE OnceFor(p)
    BY DEF Once
  <2>1. Queue(p) = <<>> /\ answers[p] = {}
    BY <1>3 DEF Queue
  <2>2. Queued(p) = {} /\ QueuedOnce(Queue(p), p)
    BY <2>1 DEF Queued, InQueue, QueuedOnce
  <2>3. Fetched(p) = {} /\ FetchedOnce(busy, p)
    BY <1>3 DEF Fetched, InHands, FetchedOnce, WorksFor
  <2>4. Answered(p) = {} /\ AnsweredOnce(answers[p])
    BY <2>1 DEF Answered, InAnswers, AnsweredOnce
  <2> QED BY <2>2, <2>3, <2>4 DEF OnceFor, Out
<1>9. Whole /\ Opened
  BY <1>3 DEF Whole, Opened
<1> QED BY <1>4, <1>6, <1>7, <1>8, <1>9 DEF XloadInv

LEMMA Preserved == XloadInv /\ [Next]_vars => XloadInv'
<1> SUFFICES ASSUME XloadInv, [Next]_vars PROVE XloadInv'
  OBVIOUS
<1>1. ASSUME NEW l \in Listers, ListerStep(l) \/ ListFails(l) PROVE XloadInv'
  BY <1>1, ListerSteps
<1>2. ASSUME NEW d \in Dirs, Mkdir(d) \/ SendDir(d) PROVE XloadInv'
  BY <1>2, OtherQuietSteps
<1>3. ASSUME NEW s \in Splitters, TakeFile(s) \/ SplitterLeaves(s) PROVE XloadInv'
  BY <1>3, TakeFileStep, SplitterLeavesStep
<1>4. ASSUME NEW p \in Procs, Lock(p) PROVE XloadInv'
  BY <1>4, LockStep
<1>5. ASSUME NEW p \in Procs, SplitterStep(p) PROVE XloadInv'
  BY <1>5, CreateStep, GetBlockStep, SendBlockStep, FinishStep, WriteAnswerStep, WriterLeavesStep
     DEF SplitterStep
<1>6. ASSUME NEW w \in Workers, WorkerStep(w) PROVE XloadInv'
  BY <1>6, TakeBlockStep, ReadBlockStep, WorkerLeavesStep DEF WorkerStep
<1>7. ASSUME NEW u \in Users, DownloadFile(u) \/ OpenLocal(u) \/ ReleaseFile(u) PROVE XloadInv'
  BY <1>7, DownloadFileStep, OpenLocalStep, ReleaseFileStep
<1>8. ASSUME NEW u \in Users, NEW f \in Files, OpenFile(u, f) PROVE XloadInv'
  BY <1>8, OpenFileStep
<1>9. CASE (\E f \in Files : RemoteChange(f)) \/ Cancel \/ CloseNext \/ UNCHANGED vars
  BY <1>9, OtherQuietSteps
<1>10. CASE Cleanup
  BY <1>10, CleanupStep
<1> QED BY <1>1, <1>2, <1>3, <1>4, <1>5, <1>6, <1>7, <1>8, <1>9, <1>10 DEF Next

\* While a bucket is preloaded, a run of splitter.Process has the lock of its
\* file, each block of it is in one place, and what is whole stays whole.
THEOREM PreloadSafe == Spec => []XloadInv
<1> QED BY InitInv, Preserved, PTL DEF Spec

-----------------------------------------------------------------------------
(* The steps of Preload                                                    *)

\* Nothing happens to a user while the same files are loaded and only these
\* are written.
LEMMA SameData ==
    ASSUME XloadInv, \A f \in Files : (Loading(f)' <=> Loading(f)) /\ (local'[f] = local[f] \/ Loading(f)),
           handle' = handle, cleaned' = cleaned
    PROVE  UNCHANGED Promise!vars
<1>1. \A f \in Files : Data(f)' = Data(f)
  BY DEF Data
<1>2. \A u \in Users : handle[u] # None => handle[u] \in Files /\ ~Loading(handle[u])
  BY DEF XloadInv, Opened, TypeInv
<1>3. \A u \in Users : handle[u] # None => local'[handle[u]] = local[handle[u]]
  BY <1>2
<1> QED BY <1>1, <1>3 DEF Promise!vars

LEMMA SameLoads ==
    ASSUME XloadInv, NEW p \in Procs, \A q \in Procs : q # p => jobs'[q] = jobs[q],
           Loads(p)' <=> Loads(p), Loads(p) => jobs'[p].file = jobs[p].file,
           \A f \in Files : local'[f] = local[f] \/ Loading(f), handle' = handle, cleaned' = cleaned
    PROVE  UNCHANGED Promise!vars
<1>1. \A q \in Procs : /\ Loads(q)' <=> Loads(q)
                       /\ Loads(q) => jobs'[q].file = jobs[q].file
  BY DEF Loads
<1>2. \A f \in Files : Loading(f)' <=> Loading(f)
  BY <1>1, LoadingSame
<1> QED BY <1>2, SameData

LEMMA QuietMaps ==
    ASSUME XloadInv, UNCHANGED <<local, jobs, handle, cleaned>>
    PROVE  UNCHANGED Promise!vars
<1>1. \A f \in Files : Loading(f)' <=> Loading(f)
  BY DEF Loading
<1> QED BY <1>1, SameData

\* The record of an open file goes by what the file holds.
LEMMA HandlesSame ==
    ASSUME handle' = handle, \A u \in Users : handle[u] # None => local'[handle[u]] = local[handle[u]]
    PROVE  UNCHANGED [u \in Users |-> IF handle[u] = None THEN None
                                      ELSE [file |-> handle[u], data |-> local[handle[u]]]]
OBVIOUS

\* A file comes to the local disk whole.
LEMMA GetMaps ==
    ASSUME XloadInv, NEW f \in Files, Data(f) = None, Data(f)' \in Versions(f),
           \A g \in Files : g # f => Data(g)' = Data(g), handle' = handle, cleaned' = cleaned,
           \A u \in Users : handle[u] # None => local'[handle[u]] = local[handle[u]]
    PROVE  Promise!Get(f)
<1> DEFINE data == [g \in Files |-> Data(g)]
<1>1. data' = [data EXCEPT ![f] = Data(f)']
  OBVIOUS
<1>2. data[f] = None /\ \E c \in Versions(f) : data' = [data EXCEPT ![f] = c]
  BY <1>1
<1> QED BY <1>2, HandlesSame DEF Promise!Get

\* When a run of Process ends its file is whole or gone.
LEMMA EndMaps ==
    ASSUME XloadInv, NEW p \in Procs, jobs[p].pc \in {"create", "wait"}, NEW ok, Return(p, ok),
           UNCHANGED <<mount, remote, listCh, splitCh, listers, handle, cleaned>>,
           DOMAIN local' = Files, \A f \in Files : f # File(p) => local'[f] = local[f],
           local'[File(p)] \in Versions(File(p)) \cup {None},
           \A u \in Users : handle[u] = File(p) => local' = local,
           Loading(File(p)) \/ local[File(p)] = None \/ local' = local
    PROVE  [Promise!Next]_Promise!vars
<1>1. /\ \A f \in Files : f # File(p) => (Loading(f)' <=> Loading(f))
      /\ \A f \in Files : f = File(p) => ~Loading(f)'
  BY EndStep
<1>2. PICK f \in Files : f = File(p)
  BY DEF XloadInv, Locked, File
<1>3. \A g \in Files : g # f => Data(g)' = Data(g)
  BY <1>1, <1>2 DEF Data
<1>4. Data(f)' = local'[f]
  BY <1>1, <1>2 DEF Data
<1>5. \A u \in Users : handle[u] # None => local'[handle[u]] = local[handle[u]]
  BY <1>2 DEF XloadInv, TypeInv
<1>6. CASE Data(f)' = Data(f)
  <2>1. \A g \in Files : Data(g)' = Data(g)
    BY <1>3, <1>6
  <2>2. UNCHANGED Promise!vars
    BY <2>1, <1>5, HandlesSame DEF Promise!vars
  <2> QED BY <2>2
<1>7. CASE Data(f)' # Data(f)
  <2>1. Data(f) = None
    BY <1>2, <1>4, <1>7 DEF Data
  <2>2. Data(f)' \in Versions(f)
    BY <2>1, <1>2, <1>4, <1>7
  <2>3. Promise!Get(f)
    BY <2>1, <2>2, <1>3, <1>5, GetMaps
  <2> QED BY <2>3 DEF Promise!Next
<1> QED BY <1>6, <1>7

LEMMA CreateMaps ==
    ASSUME XloadInv, NEW p \in Procs, Create(p)
    PROVE  [Promise!Next]_Promise!vars
<1>0. /\ UNCHANGED <<mount, remote, listCh, splitCh, listers, handle>> /\ cleaned' = cleaned
      /\ jobs[p].pc = "create" /\ jobs[p].pc \in {"create", "wait"} /\ DOMAIN local = Files
      /\ jobs \in [Procs -> Job]
  BY DEF Create, ending, XloadInv, TypeInv
<1>1. /\ File(p) \in Files /\ Size(p) = Blocks[File(p)] /\ Size(p) \in Nat /\ File(p) = jobs[p].file
      /\ ~Loading(File(p)) /\ local[File(p)] \in Versions(File(p)) \cup {None}
      /\ ~(local[File(p)] # None /\ Len(local[File(p)]) = Size(p)) =>
            local[File(p)] = None /\ \A u \in Users : handle[u] # File(p)
  BY <1>0, NotThere
<1>2. CASE (\E ok : Return(p, ok)) /\ local' = local
  BY <1>0, <1>1, <1>2, EndMaps
<1>3. ASSUME local[File(p)] = None, \A u \in Users : handle[u] # File(p), NEW c \in Versions(File(p)) \cup {None},
             NEW ok, Return(p, ok), local' = [local EXCEPT ![File(p)] = c]
      PROVE  [Promise!Next]_Promise!vars
  <2>1. /\ DOMAIN local' = Files /\ \A f \in Files : f # File(p) => local'[f] = local[f]
        /\ local'[File(p)] \in Versions(File(p)) \cup {None}
        /\ \A u \in Users : handle[u] = File(p) => local' = local
    BY <1>0, <1>1, <1>3
  <2> QED BY <2>1, <1>0, <1>3, EndMaps
<1>4. ASSUME local[File(p)] = None, \A u \in Users : handle[u] # File(p),
             jobs' = [jobs EXCEPT ![p].pc = "get"], local' = [local EXCEPT ![File(p)] = Hole(File(p))]
      PROVE  [Promise!Next]_Promise!vars
  <2>1. jobs'[p].file = File(p) /\ Loads(p)' /\ ~Loads(p) /\ \A q \in Procs : q # p => jobs'[q] = jobs[q]
    BY <1>0, <1>1, <1>4 DEF Loads
  <2>2. \A f \in Files : Loading(f)' <=> (Loading(f) \/ f = File(p))
    <3>1. \A f \in Files : Loading(f)' <=> \E q \in Procs : jobs'[q].file = f /\ Loads(q)'
      BY DEF Loading, Loads
    <3>2. \A f \in Files : Loading(f) <=> \E q \in Procs : jobs[q].file = f /\ Loads(q)
      BY DEF Loading, Loads
    <3>3. \A q \in Procs : q # p => (Loads(q)' <=> Loads(q))
      BY <2>1 DEF Loads
    <3> QED BY <3>1, <3>2, <3>3, <2>1
  <2>3. \A f \in Files : Data(f)' = Data(f)
    BY <2>2, <1>0, <1>1, <1>4 DEF Data
  <2>4. \A u \in Users : handle[u] # None => local'[handle[u]] = local[handle[u]]
    BY <1>0, <1>4 DEF XloadInv, TypeInv
  <2>5. UNCHANGED Promise!vars
    BY <2>3, <2>4, <1>0, HandlesSame DEF Promise!vars
  <2> QED BY <2>5
<1>5. CASE local[File(p)] # None /\ Len(local[File(p)]) = Size(p)
  BY <1>2, <1>5 DEF Create
<1>6. CASE ~(local[File(p)] # None /\ Len(local[File(p)]) = Size(p))
  <2>1. local[File(p)] = None /\ \A u \in Users : handle[u] # File(p)
    BY <1>1, <1>6
  <2>2. CASE local' = [local EXCEPT ![File(p)] = Hole(File(p))] /\ Size(p) = 0 /\ Return(p, TRUE)
    <3>1. Hole(File(p)) \in Versions(File(p))
      BY <2>2, <1>1, EmptyWhole
    <3> QED BY <3>1, <2>1, <2>2, <1>3
  <2>3. CASE local' = [local EXCEPT ![File(p)] = Hole(File(p))] /\ jobs' = [jobs EXCEPT ![p].pc = "get"]
    BY <2>1, <2>3, <1>4
  <2>4. CASE Return(p, FALSE) /\ local' = local
    BY <2>4, <1>2
  <2>5. CASE local' = [local EXCEPT ![File(p)] = None] /\ Return(p, FALSE)
    BY <2>1, <2>5, <1>3
  <2> QED BY <2>2, <2>3, <2>4, <2>5, <1>6 DEF Create
<1> QED BY <1>5, <1>6

LEMMA FinishMaps ==
    ASSUME XloadInv, NEW p \in Procs, Finish(p)
    PROVE  [Promise!Next]_Promise!vars
<1>0. /\ UNCHANGED <<mount, remote, listCh, splitCh, listers, handle>> /\ cleaned' = cleaned
      /\ jobs[p].pc = "wait" /\ jobs[p].pc \in {"create", "wait"} /\ DOMAIN local = Files /\ ~Writing(p)
      /\ File(p) \in Files /\ File(p) = jobs[p].file
  BY DEF Finish, ending, XloadInv, TypeInv, Locked, File
<1>1. PICK ok : /\ ok = (jobs[p].ok /\ Consistent(p)) /\ Return(p, ok)
                /\ local' = IF ok THEN local ELSE [local EXCEPT ![File(p)] = None]
  BY DEF Finish
<1>2. local'[File(p)] \in Versions(File(p)) \cup {None}
  <2>1. CASE ok
    BY <2>1, <1>0, <1>1, FinishWhole
  <2>2. CASE ~ok
    BY <2>2, <1>0, <1>1
  <2> QED BY <2>1, <2>2
<1>3. DOMAIN local' = Files /\ \A f \in Files : f # File(p) => local'[f] = local[f]
  BY <1>0, <1>1
<1>4. Loading(File(p))
  BY <1>0 DEF Loading
<1>5. \A u \in Users : handle[u] # File(p)
  BY <1>0, <1>4, Distinct DEF XloadInv, Opened
<1> QED BY <1>0, <1>1, <1>2, <1>3, <1>4, <1>5, EndMaps

\* The main loop and the writer of a run of Process work on what nobody sees.
LEMMA LoadMaps ==
    ASSUME XloadInv, NEW p \in Procs, GetBlock(p) \/ SendBlock(p) \/ WriterLeaves(p) \/ \E a \in answers[p] : WriteAnswer(p, a)
    PROVE  UNCHANGED Promise!vars
<1>1. handle' = handle /\ cleaned' = cleaned
  BY DEF GetBlock, SendBlock, WriterLeaves, WriteAnswer, ending
<1>2. /\ jobs \in [Procs -> Job] /\ Loads(p) /\ jobs[p].file = File(p) /\ File(p) \in Files
  <2>1. Loads(p)
    BY DEF GetBlock, SendBlock, WriterLeaves, WriteAnswer, Writing, Loads
  <2> QED BY <2>1 DEF XloadInv, TypeInv, Locked, Loads, File
<1>3. /\ \A q \in Procs : q # p => jobs'[q] = jobs[q]
      /\ jobs'[p].file = File(p) /\ Loads(p)'
  <2>1. CASE GetBlock(p)
    <3>1. jobs' = [jobs EXCEPT ![p] = Advance(jobs[p], jobs[p].next)] \/ jobs' = [jobs EXCEPT ![p].pc = "send"]
      BY <2>1 DEF GetBlock
    <3>2. jobs[p].pc \in {"get", "send"}
      BY <2>1 DEF GetBlock
    <3>3. PICK j : j = Advance(jobs[p], jobs[p].next)
      OBVIOUS
    <3>4. j.pc \in {"get", "wait"} /\ j.file = jobs[p].file
      BY <3>2, <3>3, Advances
    <3>5. CASE jobs' = [jobs EXCEPT ![p] = j]
      BY <3>4, <3>5, <1>2 DEF Loads
    <3>6. CASE jobs' = [jobs EXCEPT ![p].pc = "send"]
      BY <3>6, <1>2 DEF Loads, Job
    <3> QED BY <3>1, <3>3, <3>5, <3>6
  <2>2. CASE SendBlock(p)
    <3>1. jobs' = [jobs EXCEPT ![p] = Advance(jobs[p], jobs[p].next)] /\ jobs[p].pc \in {"get", "send"}
      BY <2>2 DEF SendBlock
    <3>3. PICK j : j = Advance(jobs[p], jobs[p].next)
      OBVIOUS
    <3>4. j.pc \in {"get", "wait"} /\ j.file = jobs[p].file
      BY <3>1, <3>3, Advances
    <3> QED BY <3>1, <3>3, <3>4, <1>2 DEF Loads
  <2>3. CASE WriterLeaves(p)
    BY <2>3, <1>2 DEF WriterLeaves, Loads, Job
  <2>4. CASE \E a \in answers[p] : WriteAnswer(p, a)
    BY <2>4, <1>2 DEF WriteAnswer, Loads, Job
  <2> QED BY <2>1, <2>2, <2>3, <2>4
<1>4. \A f \in Files : local'[f] = local[f] \/ Loading(f)
  <2>1. Loading(File(p))
    BY <1>2 DEF Loading, Loads
  <2>2. local' = local \/ \E h : local' = [local EXCEPT ![File(p)] = h]
    <3>1. CASE GetBlock(p) \/ SendBlock(p) \/ WriterLeaves(p)
      BY <3>1 DEF GetBlock, SendBlock, WriterLeaves, store
    <3>2. CASE \E a \in answers[p] : WriteAnswer(p, a)
      BY <3>2 DEF WriteAnswer
    <3> QED BY <3>1, <3>2
  <2>3. DOMAIN local = Files
    BY DEF XloadInv, TypeInv
  <2> QED BY <2>1, <2>2, <2>3
<1> QED BY <1>1, <1>2, <1>3, <1>4, SameLoads

\* A process takes a file, or ends a call that it has not begun to load.
LEMMA CallMaps ==
    ASSUME XloadInv, NEW p \in Procs,
           \/ TakeFile(p) \/ SplitterLeaves(p) \/ Lock(p) \/ DownloadFile(p)
           \/ \E f \in Files : OpenFile(p, f)
    PROVE  UNCHANGED Promise!vars
<1>1. UNCHANGED <<local, handle, cleaned>>
  BY DEF TakeFile, SplitterLeaves, Lock, DownloadFile, OpenFile, store, ending
<1>2. jobs \in [Procs -> Job]
  BY DEF XloadInv, TypeInv
<1>3. ~Loads(p) /\ ~Loads(p)' /\ \A q \in Procs : q # p => jobs'[q] = jobs[q]
  <2>1. CASE TakeFile(p) \/ SplitterLeaves(p) \/ \E f \in Files : OpenFile(p, f)
    <3>1. jobs[p] = NoJob
      BY <2>1, <1>2 DEF TakeFile, SplitterLeaves, OpenFile
    <3>2. NoJob \in Job /\ ~Loads(p)
      BY <3>1, Numbers DEF Loads, NoJob
    <3>3. /\ \A q \in Procs : q # p => jobs'[q] = jobs[q]
          /\ jobs'[p].pc \in {"lock", "gone"}
      <4>1. CASE TakeFile(p)
        <5> DEFINE j == [NoJob EXCEPT !.pc = "lock", !.file = Head(splitCh).file, !.version = Head(splitCh).version]
        <5>1. j.pc = "lock"
          BY <3>2 DEF Job
        <5>2. jobs' = [jobs EXCEPT ![p] = j]
          BY <4>1 DEF TakeFile
        <5> HIDE DEF j
        <5> QED BY <5>1, <5>2, <1>2
      <4>2. CASE SplitterLeaves(p)
        <5> DEFINE j == [NoJob EXCEPT !.pc = "gone"]
        <5>1. j.pc = "gone"
          BY <3>2 DEF Job
        <5>2. jobs' = [jobs EXCEPT ![p] = j]
          BY <4>2, <3>1 DEF SplitterLeaves
        <5> HIDE DEF j
        <5> QED BY <5>1, <5>2, <1>2
      <4>3. CASE \E f \in Files : OpenFile(p, f)
        <5>1. PICK f \in Files : OpenFile(p, f)
          BY <4>3
        <5> DEFINE j == [NoJob EXCEPT !.pc = "lock", !.file = f]
        <5>2. j.pc = "lock"
          BY <3>2 DEF Job
        <5>3. jobs' = [jobs EXCEPT ![p] = j]
          BY <5>1 DEF OpenFile
        <5> HIDE DEF j
        <5> QED BY <5>2, <5>3, <1>2
      <4> QED BY <2>1, <4>1, <4>2, <4>3
    <3> QED BY <3>2, <3>3 DEF Loads
  <2>2. CASE Lock(p)
    BY <2>2, <1>2 DEF Lock, Loads, Job
  <2>3. CASE DownloadFile(p)
    BY <2>3, <1>2 DEF DownloadFile, Loads, Job, NoJob
  <2> QED BY <2>1, <2>2, <2>3
<1> QED BY <1>1, <1>3, SameLoads

LEMMA OpenLocalMaps ==
    ASSUME XloadInv, NEW u \in Users, OpenLocal(u)
    PROVE  [Promise!Next]_Promise!vars
<1>0. /\ u \in Procs /\ jobs \in [Procs -> Job] /\ jobs[u].pc = "open" /\ jobs[u].file = File(u)
      /\ File(u) \in Files /\ handle[u] = None /\ handle \in [Users -> Files \cup {None}]
      /\ UNCHANGED <<local, cleaned>> /\ jobs' = [jobs EXCEPT ![u] = NoJob]
  BY DEF Procs, XloadInv, TypeInv, OpenLocal, Locked, File, Opened, ending
<1>1. ~Loads(u) /\ ~Loads(u)' /\ \A q \in Procs : q # u => jobs'[q] = jobs[q]
  BY <1>0 DEF Loads, NoJob
<1>2. CASE handle' = handle
  BY <1>0, <1>1, <1>2, SameLoads
<1>3. CASE local[File(u)] # None /\ handle' = [handle EXCEPT ![u] = File(u)]
  <2>1. \A q \in Procs : /\ Loads(q)' <=> Loads(q)
                         /\ Loads(q) => jobs'[q].file = jobs[q].file
    BY <1>1 DEF Loads
  <2>2. \A f \in Files : Loading(f)' <=> Loading(f)
    BY <2>1, LoadingSame
  <2>3. \A f \in Files : Data(f)' = Data(f)
    BY <2>2, <1>0 DEF Data
  <2>4. PICK f \in Files : f = File(u) /\ f # None
    BY <1>0, Distinct
  <2>5. ~Loading(f)
    BY <2>4, <1>0, OneLoader DEF Loading, XloadInv
  <2>6. Data(f) = local[f] /\ Data(f) # None
    BY <2>4, <2>5, <1>3 DEF Data
  <2> DEFINE data == [g \in Files |-> Data(g)]
             reads == [v \in Users |-> IF handle[v] = None THEN None
                                       ELSE [file |-> handle[v], data |-> local[handle[v]]]]
  <2>7. data' = data /\ data[f] = local[f] /\ data[f] # None
    BY <2>3, <2>6
  <2>8. reads[u] = None /\ reads' = [reads EXCEPT ![u] = [file |-> f, data |-> data[f]]]
    BY <2>4, <2>6, <1>0, <1>3
  <2>9. Promise!Open(u, f)
    BY <2>7, <2>8, <1>0 DEF Promise!Open
  <2> QED BY <2>9 DEF Promise!Next
<1> QED BY <1>2, <1>3 DEF OpenLocal

LEMMA ReleaseFileMaps ==
    ASSUME XloadInv, NEW u \in Users, ReleaseFile(u)
    PROVE  [Promise!Next]_Promise!vars
<1>0. /\ UNCHANGED <<local, jobs, cleaned>> /\ handle[u] # None /\ handle' = [handle EXCEPT ![u] = None]
      /\ handle \in [Users -> Files \cup {None}]
  BY DEF ReleaseFile, store, threads, ending, XloadInv, TypeInv
<1>1. \A f \in Files : Data(f)' = Data(f)
  BY <1>0 DEF Data, Loading
<1> DEFINE data == [g \in Files |-> Data(g)]
           reads == [v \in Users |-> IF handle[v] = None THEN None
                                     ELSE [file |-> handle[v], data |-> local[handle[v]]]]
<1>2. data' = data
  BY <1>1
<1>3. reads' = [reads EXCEPT ![u] = None]
  BY <1>0
<1>4. CASE reads[u] = None
  <2>1. reads' = reads
    BY <1>3, <1>4
  <2>2. UNCHANGED Promise!vars
    BY <2>1, <1>0, <1>2 DEF Promise!vars
  <2> QED BY <2>2
<1>5. CASE reads[u] # None
  <2>1. Promise!Close(u)
    BY <1>0, <1>2, <1>3, <1>5 DEF Promise!Close
  <2> QED BY <2>1 DEF Promise!Next
<1> QED BY <1>4, <1>5

LEMMA CleanupMaps ==
    ASSUME XloadInv, Cleanup
    PROVE  Promise!Unmount
<1>1. /\ ~cleaned /\ cleaned' = TRUE /\ local' = [f \in Files |-> None] /\ handle' = [u \in Users |-> None]
  BY DEF Cleanup
<1>2. \A f \in Files : Data(f)' = None
  BY <1>1 DEF Data
<1>3. ~cleaned /\ (~cleaned)' = FALSE
  BY <1>1
<1> QED BY <1>1, <1>2, <1>3 DEF Promise!Unmount

LEMMA InitMaps == Init => Promise!Init
<1> SUFFICES ASSUME Init PROVE Promise!Init
  OBVIOUS
<1>1. \A f \in Files : Data(f) = None
  BY DEF Init, Data
<1>2. ~cleaned = TRUE /\ handle = [u \in Users |-> None]
  BY DEF Init
<1> QED BY <1>1, <1>2 DEF Promise!Init

LEMMA StepMaps == XloadInv /\ [Next]_vars => [Promise!Next]_Promise!vars
<1> SUFFICES ASSUME XloadInv, [Next]_vars PROVE [Promise!Next]_Promise!vars
  OBVIOUS
<1>1. ASSUME NEW l \in Listers, ListerStep(l) \/ ListFails(l) PROVE UNCHANGED Promise!vars
  <2>1. UNCHANGED <<local, jobs, handle, cleaned>>
    BY <1>1 DEF ListerStep, ListDir, ListFails, ListEntry, SendFile, Listed, ListerLeaves, store, threads, ending
  <2> QED BY <2>1, QuietMaps
<1>2. ASSUME \/ \E d \in Dirs : Mkdir(d) \/ SendDir(d)
             \/ \E f \in Files : RemoteChange(f)
             \/ Cancel \/ CloseNext \/ UNCHANGED vars
      PROVE  UNCHANGED Promise!vars
  <2>1. UNCHANGED <<local, jobs, handle, cleaned>>
    BY <1>2 DEF Mkdir, SendDir, RemoteChange, Cancel, CloseNext, vars, store, threads, ending
  <2> QED BY <2>1, QuietMaps
<1>3. ASSUME NEW s \in Splitters, TakeFile(s) \/ SplitterLeaves(s) PROVE UNCHANGED Promise!vars
  BY <1>3, CallMaps DEF Procs
<1>4. ASSUME NEW p \in Procs, Lock(p) PROVE UNCHANGED Promise!vars
  BY <1>4, CallMaps
<1>5. ASSUME NEW p \in Procs, SplitterStep(p) PROVE [Promise!Next]_Promise!vars
  <2>1. CASE Create(p)
    BY <2>1, CreateMaps
  <2>2. CASE Finish(p)
    BY <2>2, FinishMaps
  <2>3. CASE GetBlock(p) \/ SendBlock(p) \/ WriterLeaves(p) \/ \E a \in answers[p] : WriteAnswer(p, a)
    <3>1. UNCHANGED Promise!vars
      BY <2>3, LoadMaps
    <3> QED BY <3>1
  <2> QED BY <1>5, <2>1, <2>2, <2>3 DEF SplitterStep
<1>6. ASSUME NEW w \in Workers, WorkerStep(w) PROVE UNCHANGED Promise!vars
  <2>1. UNCHANGED <<local, jobs, handle, cleaned>>
    BY <1>6 DEF WorkerStep, TakeBlock, ReadBlock, WorkerLeaves, store, ending
  <2> QED BY <2>1, QuietMaps
<1>7. ASSUME NEW u \in Users, DownloadFile(u) \/ \E f \in Files : OpenFile(u, f) PROVE UNCHANGED Promise!vars
  BY <1>7, CallMaps DEF Procs
<1>8. ASSUME NEW u \in Users, OpenLocal(u) \/ ReleaseFile(u) PROVE [Promise!Next]_Promise!vars
  BY <1>8, OpenLocalMaps, ReleaseFileMaps
<1>9. ASSUME Cleanup PROVE [Promise!Next]_Promise!vars
  <2>1. Promise!Next
    BY <1>9, CleanupMaps DEF Promise!Next
  <2> QED BY <2>1
<1> QED BY <1>1, <1>2, <1>3, <1>4, <1>5, <1>6, <1>7, <1>8, <1>9 DEF Next

\* A file under its name is whole or absent, an open file is whole and stays
\* as it is, whatever fails and in whatever order the answers come (the lock
\* and the removal in splitter.Process, the counting of its writer).
THEOREM ImplementsPreload == Spec => FilesWhole
<1>1. Init => XloadInv
  BY InitInv
<1>2. XloadInv /\ [Next]_vars => XloadInv'
  BY Preserved
<1>3. Init => Promise!Init
  BY InitMaps
<1>4. XloadInv /\ [Next]_vars => [Promise!Next]_Promise!vars
  BY StepMaps
<1> QED BY <1>1, <1>2, <1>3, <1>4, PTL DEF Spec, FilesWhole, Promise!Spec
=============================================================================
