-------------------------- MODULE NamespaceProofs --------------------------
(***************************************************************************)
(* What a rename does to the objects, whatever the other calls, the cache  *)
(* and the connection do meanwhile: it removes an object only when its     *)
(* copy is there.                                                          *)
(***************************************************************************)
EXTENDS Namespace, TLAPS

-----------------------------------------------------------------------------
(* Names                                                                   *)

Elements == UNION {Range(p) : p \in Paths}

LEMMA TreeFacts ==
    /\ Files \subseteq Tree /\ Dirs \subseteq Tree /\ Root \in Tree
    /\ Tree \subseteq Seq(Elements)
<1>1. Paths \subseteq Seq(Elements)
  BY StoreAssumption DEF Elements
<1>2. <<>> \in Seq(Elements)
  OBVIOUS
<1> QED
  BY <1>1, <1>2 DEF Tree, Paths, Root

LEMMA PrefixFacts ==
    ASSUME NEW S, NEW s \in Seq(S), NEW t \in Seq(S)
    PROVE  IsPrefix(s, t) <=> Len(s) <= Len(t) /\ \A i \in 1 .. Len(s) : s[i] = t[i]
<1>1. Len(s) \in Nat /\ Len(t) \in Nat
  OBVIOUS
<1>2. SubSeq(s, 1, Len(s)) = [i \in 1 .. Len(s) |-> s[i]]
  BY <1>1
<1>3. ASSUME Len(s) <= Len(t) PROVE SubSeq(t, 1, Len(s)) = [i \in 1 .. Len(s) |-> t[i]]
  BY <1>1, <1>3
<1> QED
  BY <1>1, <1>2, <1>3 DEF IsPrefix

LEMMA PrefixSelf == ASSUME NEW p \in Tree PROVE IsPrefix(p, p)
<1>1. p \in Seq(Elements) /\ Len(p) \in Nat
  BY TreeFacts
<1> QED
  BY <1>1, PrefixFacts

\* Of two prefixes of a name one is a prefix of the other.
LEMMA PrefixesCompare ==
    ASSUME NEW s \in Tree, NEW t \in Tree, NEW f \in Tree, IsPrefix(s, f), IsPrefix(t, f)
    PROVE  IsPrefix(s, t) \/ IsPrefix(t, s)
<1>1. /\ s \in Seq(Elements) /\ t \in Seq(Elements) /\ f \in Seq(Elements)
      /\ Len(s) \in Nat /\ Len(t) \in Nat /\ Len(f) \in Nat
  BY TreeFacts
<1>2. /\ Len(s) <= Len(f) /\ \A i \in 1 .. Len(s) : s[i] = f[i]
      /\ Len(t) <= Len(f) /\ \A i \in 1 .. Len(t) : t[i] = f[i]
  BY <1>1, PrefixFacts
<1>3. CASE Len(s) <= Len(t)
  <2>1. \A i \in 1 .. Len(s) : s[i] = t[i]
    BY <1>1, <1>2, <1>3
  <2> QED
    BY <1>1, <1>3, <2>1, PrefixFacts
<1>4. CASE ~(Len(s) <= Len(t))
  <2>1. Len(t) <= Len(s) /\ \A i \in 1 .. Len(t) : t[i] = s[i]
    BY <1>1, <1>2, <1>4
  <2> QED
    BY <1>1, <2>1, PrefixFacts
<1> QED
  BY <1>3, <1>4

\* A name below p, moved below q.
LEMMA MovedFacts ==
    ASSUME NEW p \in Tree, NEW q \in Tree, NEW f \in Tree, IsPrefix(p, f)
    PROVE  /\ Moved(f, p, q) \in Seq(Elements)
           /\ Len(Moved(f, p, q)) = Len(q) + Len(f) - Len(p)
           /\ \A i \in 1 .. Len(q) : Moved(f, p, q)[i] = q[i]
           /\ \A i \in 1 .. Len(f) - Len(p) : Moved(f, p, q)[Len(q) + i] = f[Len(p) + i]
           /\ IsPrefix(q, Moved(f, p, q))
<1>1. /\ p \in Seq(Elements) /\ q \in Seq(Elements) /\ f \in Seq(Elements)
      /\ Len(p) \in Nat /\ Len(q) \in Nat /\ Len(f) \in Nat
  BY TreeFacts
<1>2. Len(p) <= Len(f)
  BY DEF IsPrefix
<1> DEFINE rest == SubSeq(f, Len(p) + 1, Len(f))
<1>3. /\ rest \in Seq(Elements) /\ Len(rest) = Len(f) - Len(p)
      /\ \A i \in 1 .. Len(f) - Len(p) : rest[i] = f[Len(p) + i]
  <2>1. Len(rest) = Len(f) - Len(p)
    BY <1>1, <1>2
  <2>2. \A i \in 1 .. Len(f) - Len(p) : rest[i] = f[Len(p) + i]
    BY <1>1, <1>2
  <2>3. \A i \in Len(p) + 1 .. Len(f) : f[i] \in Elements
    BY <1>1
  <2>4. rest \in Seq(Elements)
    BY <1>1, <2>3
  <2> QED
    BY <2>1, <2>2, <2>4
<1>4. Moved(f, p, q) = q \o rest
  BY DEF Moved
<1> HIDE DEF rest
<1> DEFINE m == q \o rest
<1>5. /\ m \in Seq(Elements) /\ Len(m) = Len(q) + Len(rest)
      /\ \A i \in 1 .. Len(q) : m[i] = q[i]
  <2>0. q \in Seq(Elements) /\ rest \in Seq(Elements)
    BY <1>1, <1>3
  <2>1. m \in Seq(Elements) /\ Len(m) = Len(q) + Len(rest)
    <3>1. m \in Seq(Elements)
      BY <2>0
    <3>2. Len(m) = Len(q) + Len(rest)
      BY <2>0
    <3> QED
      BY <3>1, <3>2
  <2>2. ASSUME NEW i \in 1 .. Len(q) PROVE m[i] = q[i]
    <3>1. Len(rest) \in Nat /\ i \in 1 .. Len(q) + Len(rest) /\ i <= Len(q)
      BY <1>1, <1>3, <2>2
    <3> QED
      BY <1>1, <1>3, <3>1
  <2> QED
    BY <2>1, <2>2
<1>6. \A i \in 1 .. Len(rest) : m[Len(q) + i] = rest[i]
  <2> SUFFICES ASSUME NEW i \in 1 .. Len(rest) PROVE m[Len(q) + i] = rest[i]
    OBVIOUS
  <2>1. Len(rest) \in Nat /\ Len(q) + i \in 1 .. Len(q) + Len(rest) /\ ~(Len(q) + i <= Len(q))
        /\ (Len(q) + i) - Len(q) = i
    BY <1>1, <1>3
  <2> QED
    BY <1>1, <1>3, <2>1
<1> HIDE DEF m
<1>7. IsPrefix(q, m)
  <2>1. Len(q) <= Len(m)
    BY <1>1, <1>2, <1>3, <1>5
  <2> QED
    BY <1>1, <1>5, <2>1, PrefixFacts
<1> QED
  BY <1>1, <1>2, <1>3, <1>4, <1>5, <1>6, <1>7 DEF m

LEMMA MovedApart ==
    ASSUME NEW p \in Tree, NEW q \in Tree, NEW f \in Tree, NEW g \in Tree,
           IsPrefix(p, f), IsPrefix(p, g), Moved(f, p, q) = Moved(g, p, q)
    PROVE  f = g
<1>1. /\ f \in Seq(Elements) /\ g \in Seq(Elements) /\ p \in Seq(Elements)
      /\ Len(p) \in Nat /\ Len(q) \in Nat /\ Len(f) \in Nat /\ Len(g) \in Nat
  BY TreeFacts
<1> DEFINE m == Moved(f, p, q)
<1>0. /\ Len(m) = Len(q) + Len(f) - Len(p)
      /\ \A i \in 1 .. Len(f) - Len(p) : m[Len(q) + i] = f[Len(p) + i]
  BY MovedFacts
<1>6. /\ Len(m) = Len(q) + Len(g) - Len(p)
      /\ \A i \in 1 .. Len(g) - Len(p) : m[Len(q) + i] = g[Len(p) + i]
  <2>1. /\ Len(Moved(g, p, q)) = Len(q) + Len(g) - Len(p)
        /\ \A i \in 1 .. Len(g) - Len(p) : Moved(g, p, q)[Len(q) + i] = g[Len(p) + i]
    BY MovedFacts
  <2> QED
    BY <2>1
<1> HIDE DEF m
<1>2. Len(f) = Len(g)
  BY <1>1, <1>0, <1>6
<1>3. \A i \in 1 .. Len(f) - Len(p) : f[Len(p) + i] = g[Len(p) + i]
  BY <1>2, <1>0, <1>6
<1>4. /\ Len(p) <= Len(f) /\ \A i \in 1 .. Len(p) : p[i] = f[i]
      /\ \A i \in 1 .. Len(p) : p[i] = g[i]
  BY <1>1, PrefixFacts
<1>5. ASSUME NEW i \in 1 .. Len(f) PROVE f[i] = g[i]
  <2>1. CASE i <= Len(p)
    BY <1>1, <1>4, <1>5, <2>1
  <2>2. CASE ~(i <= Len(p))
    <3>1. i - Len(p) \in 1 .. Len(f) - Len(p) /\ Len(p) + (i - Len(p)) = i
      BY <1>1, <1>5, <2>2
    <3> QED
      BY <1>3, <3>1
  <2> QED
    BY <2>1, <2>2
<1> QED
  BY <1>1, <1>2, <1>5

-----------------------------------------------------------------------------
(* The invariant                                                           *)

\* The record of a call; what the renames do not look at may have any value.
IsCall(k) ==
    k \in [op : Ops \cup {"idle"}, path : Tree, dst : Tree, size : Nat, todo : SUBSET Files,
           stage : {k.stage}, asks : {k.asks}, live : {k.live}, got : {k.got},
           names : {k.names}, more : {k.more}, copy : {k.copy}, copyStatus : {k.copyStatus}]

\* The files that a rename moves, and where to.
Sources(k) == {f \in Files : IsPrefix(k.path, f)}
Target(k, f) == Moved(f, k.path, k.dst)

\* The files whose objects a call may change.
Touched(k) ==
    IF k.op \in Renames THEN {f \in Files : \E x \in Names(k) : IsPrefix(x, f)} ELSE {k.path}

\* Between its requests for an object.
Holds(k) == k.stage \in {"poll", "remove"}

\* A rename has a place for every file that it moves, not among those files.
RenameTyped(k) ==
    /\ k.op \in Renames =>
          /\ \A f \in Sources(k) : Target(k, f) \in Files \ Sources(k)
          /\ k.todo \subseteq Sources(k)
    /\ k.stage \in {"list", "copy", "poll", "remove"} => k.op \in Renames
    /\ k.op = "idle" => k.stage = "none"
    /\ ~Holds(k) => k.copyStatus = "success"

Trusted == ~mount.other

\* What became of the copy: what the server has done as long as the rename
\* still asks, and then what the rename was told.
Fate(k) == IF k.stage = "poll" THEN k.copy ELSE k.copyStatus

\* Between its requests for a file a rename has the copy, when it is done.
Copies(k, o) ==
    Holds(k) =>
        /\ k.stage = "remove" => k.copyStatus # "pending"
        /\ \E f \in Sources(k) :
              k.asks = <<f>> /\ (Trusted /\ Fate(k) = "success" => o[Target(k, f)] = o[f])

\* The kernel and the FUSE library have kept the calls apart.
Apart(c) ==
    \A t, u \in Threads : t # u /\ c[t].op # "idle" /\ c[u].op # "idle" =>
        Pinned(c[t]) \cap Visited(c[u]) = {}

RenameInv ==
    /\ mount \in Mount /\ objs \in [Files -> Nat]
    /\ calls = [t \in Threads |-> calls[t]]
    /\ \A t \in Threads : IsCall(calls[t]) /\ RenameTyped(calls[t]) /\ Copies(calls[t], objs)
    /\ Apart(calls)

LEMMA CallFields ==
    ASSUME NEW k, IsCall(k)
    PROVE  k.op \in Ops \cup {"idle"} /\ k.path \in Tree /\ k.dst \in Tree /\ k.size \in Nat
           /\ k.todo \subseteq Files /\ Names(k) \subseteq Tree
  BY DEF IsCall, Names

\* Calls about the same names.
Alike(j, k) == j.op = k.op /\ j.path = k.path /\ j.dst = k.dst

\* Calls that differ at most in what a rename does not look at.
Same(j, k) ==
    /\ Alike(j, k) /\ j.stage = k.stage /\ j.asks = k.asks /\ j.todo = k.todo
    /\ j.copy = k.copy /\ j.copyStatus = k.copyStatus

LEMMA AlikeNames ==
    ASSUME NEW j, NEW k, Alike(j, k)
    PROVE  /\ Names(j) = Names(k) /\ Pinned(j) = Pinned(k) /\ Visited(j) = Visited(k)
           /\ Sources(j) = Sources(k) /\ Touched(j) = Touched(k)
           /\ \A f : Target(j, f) = Target(k, f)
<1>1. Names(j) = Names(k)
  BY DEF Alike, Names
<1> QED
  BY <1>1 DEF Alike, Pinned, Visited, Sources, Touched, Target

\* No call under way is at work on the files of a rename but the rename.
LEMMA Exclusive ==
    ASSUME RenameInv, NEW t \in Threads, NEW u \in Threads, t # u,
           calls[t].op \in Renames, Active(u), NEW f \in Files,
           NEW x \in Names(calls[t]), IsPrefix(x, f)
    PROVE  f \notin Touched(calls[u])
<1>1. /\ Names(calls[t]) \subseteq Tree /\ Names(calls[u]) \subseteq Tree /\ f \in Tree /\ x \in Tree
      /\ calls[u].path \in Names(calls[u])
  BY CallFields, TreeFacts DEF RenameInv, Names
<1>2. Pinned(calls[t]) = Names(calls[t]) /\ calls[t].op # "idle" /\ calls[u].op # "idle"
  BY DEF Pinned, Renames, Active
<1>3. Names(calls[t]) \cap Visited(calls[u]) = {} /\ Pinned(calls[u]) \cap Visited(calls[t]) = {}
  BY <1>2 DEF RenameInv, Apart
<1>4. \A y \in Tree, z \in Tree : IsPrefix(y, z) => y \in Ancestors(z) \cup {z}
  BY DEF Ancestors, IsStrictPrefix
<1>5. CASE calls[u].op \notin Renames
  <2> SUFFICES ASSUME f = calls[u].path PROVE FALSE
    BY <1>5 DEF Touched
  <2>1. x \in Visited(calls[u])
    BY <1>1, <1>4 DEF Visited
  <2> QED
    BY <1>3, <2>1
<1>6. CASE calls[u].op \in Renames
  <2> SUFFICES ASSUME NEW y \in Names(calls[u]), IsPrefix(y, f) PROVE FALSE
    BY <1>6 DEF Touched
  <2>1. y \in Tree /\ y \in Pinned(calls[u])
    BY <1>1, <1>6 DEF Pinned
  <2>2. CASE IsPrefix(x, y)
    <3>1. x \in Visited(calls[u])
      BY <1>1, <1>4, <2>1, <2>2 DEF Visited
    <3> QED
      BY <1>3, <3>1
  <2>3. CASE IsPrefix(y, x)
    <3>1. y \in Visited(calls[t])
      BY <1>1, <1>4, <2>1, <2>3 DEF Visited
    <3> QED
      BY <1>3, <2>1, <3>1
  <2> QED
    BY <1>1, <2>1, <2>2, <2>3, PrefixesCompare
<1> QED
  BY <1>5, <1>6

-----------------------------------------------------------------------------
(* What a step of a call does                                              *)

\* A rename that removes an object has its copy, if it knows what became of it.
KeepsCopies(k, o, o1) ==
    k.op \in Renames /\ Trusted /\ k.copyStatus \in {"success", "pending"} =>
        \A f \in Sources(k) : o[f] # Absent /\ o1[f] = Absent => o1[Target(k, f)] = o[f]

\* A step of t: it changes objects of its own, and of the calls of others at most
\* whether their contexts are alive, and that only when no object changes.
CallsStep(t) ==
    /\ calls' = [u \in Threads |-> calls'[u]]
    /\ \A u \in Threads : IsCall(calls'[u])
    /\ \A u \in Threads \ {t} : Same(calls'[u], calls[u])
    /\ calls'[t].op # "idle" => Alike(calls'[t], calls[t])
    /\ RenameTyped(calls'[t])
    /\ (objs' = objs \/ \A u \in Threads \ {t} : calls'[u] = calls[u])
ObjectsStep(t) ==
    /\ objs' \in [Files -> Nat]
    /\ \A f \in Files \ Touched(calls[t]) : objs'[f] = objs[f]
    /\ Copies(calls'[t], objs')
    /\ KeepsCopies(calls[t], objs, objs')
StepOf(t) == Active(t) /\ mount' = mount /\ CallsStep(t) /\ ObjectsStep(t)

LEMMA StepKeeps ==
    ASSUME RenameInv, NEW t \in Threads, StepOf(t)
    PROVE  RenameInv'
<1>1. \A u \in Threads : calls'[u].op # "idle" => Alike(calls'[u], calls[u])
  BY DEF StepOf, CallsStep, Same
<1>2. Apart(calls')
  <2> SUFFICES ASSUME NEW s \in Threads, NEW u \in Threads, s # u,
                      calls'[s].op # "idle", calls'[u].op # "idle"
               PROVE  Pinned(calls'[s]) \cap Visited(calls'[u]) = {}
    BY DEF Apart
  <2>1. Alike(calls'[s], calls[s]) /\ Alike(calls'[u], calls[u])
    BY <1>1
  <2>2. Pinned(calls'[s]) = Pinned(calls[s]) /\ Visited(calls'[u]) = Visited(calls[u])
    BY <2>1, AlikeNames
  <2> QED
    BY <2>1, <2>2 DEF RenameInv, Apart, Alike
<1>3. ASSUME NEW u \in Threads \ {t} PROVE RenameTyped(calls'[u]) /\ Copies(calls'[u], objs')
  <2>1. Same(calls'[u], calls[u]) /\ Alike(calls'[u], calls[u])
    BY DEF StepOf, CallsStep, Same
  <2>2. /\ Sources(calls'[u]) = Sources(calls[u])
        /\ \A f : Target(calls'[u], f) = Target(calls[u], f)
    BY <2>1, AlikeNames
  <2>3. RenameTyped(calls'[u])
    BY <2>1, <2>2 DEF RenameInv, RenameTyped, Alike, Same, Holds
  <2>4. ASSUME Holds(calls[u])
        PROVE  \E f \in Sources(calls[u]) :
                  /\ calls[u].asks = <<f>>
                  /\ Trusted /\ Fate(calls[u]) = "success" => objs'[Target(calls[u], f)] = objs'[f]
    <3>1. PICK f \in Sources(calls[u]) :
             /\ calls[u].asks = <<f>>
             /\ Trusted /\ Fate(calls[u]) = "success" => objs[Target(calls[u], f)] = objs[f]
      BY <2>4 DEF RenameInv, Copies
    <3>2. calls[u].op \in Renames /\ f \in Files /\ Target(calls[u], f) \in Files
      BY <2>4, <3>1 DEF RenameInv, RenameTyped, Sources, Holds
    <3>3. /\ calls[u].path \in Names(calls[u]) /\ calls[u].dst \in Names(calls[u])
          /\ IsPrefix(calls[u].path, f) /\ IsPrefix(calls[u].dst, Target(calls[u], f))
      <4>1. calls[u].path \in Tree /\ calls[u].dst \in Tree /\ f \in Tree /\ IsPrefix(calls[u].path, f)
        BY <3>1, CallFields, TreeFacts DEF RenameInv, Sources
      <4>2. IsPrefix(calls[u].dst, Target(calls[u], f))
        BY <4>1, MovedFacts DEF Target
      <4> QED
        BY <3>2, <4>1, <4>2 DEF Names
    <3>4. f \notin Touched(calls[t]) /\ Target(calls[u], f) \notin Touched(calls[t])
      BY <3>2, <3>3, Exclusive DEF StepOf
    <3> QED
      BY <3>1, <3>2, <3>4 DEF StepOf, ObjectsStep
  <2>5. Trusted' = Trusted
    BY DEF StepOf, Trusted
  <2>6. Copies(calls'[u], objs')
    BY <2>1, <2>2, <2>4, <2>5 DEF Copies, Same, Holds, Fate, RenameInv
  <2> QED
    BY <2>3, <2>6
<1> QED
  BY <1>2, <1>3 DEF RenameInv, StepOf, CallsStep, ObjectsStep, Copies, Holds, Fate, Trusted


\* A step that changes no object, and of the calls only the one of t.
LEMMA QuietStep ==
    ASSUME RenameInv, NEW t \in Threads, Active(t), mount' = mount, objs' = objs,
           calls' = [u \in Threads |-> calls'[u]],
           \A u \in Threads \ {t} : calls'[u] = calls[u],
           IsCall(calls'[t]), calls'[t].op # "idle" => Alike(calls'[t], calls[t]),
           RenameTyped(calls'[t]), ~Holds(calls'[t])
    PROVE  StepOf(t)
<1>1. CallsStep(t)
  BY DEF CallsStep, RenameInv, Alike, Same
<1>2. Copies(calls'[t], objs')
  BY DEF Copies
<1>3. KeepsCopies(calls[t], objs, objs')
  BY DEF KeepsCopies, Sources
<1> QED
  BY <1>1, <1>2, <1>3 DEF StepOf, ObjectsStep, RenameInv

\* The call of t becomes k.
LEMMA OneCall ==
    ASSUME RenameInv, NEW t \in Threads, NEW k, calls' = [calls EXCEPT ![t] = k]
    PROVE  /\ calls' = [u \in Threads |-> calls'[u]]
           /\ \A u \in Threads \ {t} : calls'[u] = calls[u]
           /\ calls'[t] = k
  BY DEF RenameInv

LEMMA IdleCall == IsCall(Idle) /\ RenameTyped(Idle) /\ ~Holds(Idle) /\ Idle.op = "idle"
  BY TreeFacts DEF IsCall, Idle, RenameTyped, Renames, Holds

\* A call goes on to a stage that is not one of a rename's requests.
Further(j, k) ==
    /\ k.op # "idle" /\ IsCall(j) /\ Alike(j, k) /\ j.todo \subseteq k.todo
    /\ j.stage \in {"list", "copy"} => k.op \in Renames
    /\ ~Holds(j) /\ j.copyStatus = "success"

LEMMA FurtherTyped ==
    ASSUME NEW j, NEW k, Further(j, k), RenameTyped(k)
    PROVE  RenameTyped(j)
<1>1. Sources(j) = Sources(k) /\ \A f : Target(j, f) = Target(k, f)
  BY AlikeNames DEF Further
<1> QED
  BY <1>1 DEF Further, RenameTyped, Alike, Holds

\* A step that changes no object and takes the call further, or ends it.
LEMMA FurtherStep ==
    ASSUME RenameInv, NEW t \in Threads, Active(t), mount' = mount, objs' = objs,
           NEW k, calls' = [calls EXCEPT ![t] = k], k = Idle \/ Further(k, calls[t])
    PROVE  StepOf(t)
<1>1. /\ calls' = [u \in Threads |-> calls'[u]]
      /\ \A u \in Threads \ {t} : calls'[u] = calls[u]
      /\ calls'[t] = k
  BY OneCall
<1>2. IsCall(k) /\ RenameTyped(k) /\ ~Holds(k) /\ (k.op # "idle" => Alike(k, calls[t]))
  <2>1. CASE k = Idle
    BY <2>1, IdleCall
  <2>2. CASE Further(k, calls[t])
    BY <2>2, FurtherTyped DEF RenameInv, Further
  <2> QED
    BY <2>1, <2>2
<1> QED
  BY <1>1, <1>2, QuietStep

\* The stage of a call changes, or what it has been told.
LEMMA StageFurther ==
    ASSUME NEW k, IsCall(k), k.op # "idle", k.copyStatus = "success",
           NEW stage, stage \notin {"list", "copy", "poll", "remove"}
    PROVE  Further([k EXCEPT !.stage = stage], k)
  BY DEF Further, IsCall, Alike, Holds

LEMMA ToldFurther ==
    ASSUME NEW k, IsCall(k), k.op # "idle", k.copyStatus = "success",
           NEW stage, stage \notin {"list", "copy", "poll", "remove"}, NEW got, NEW names
    PROVE  Further([k EXCEPT !.stage = stage, !.got = got, !.names = names], k)
  BY DEF Further, IsCall, Alike, Holds

\* The object of the call's own name changes.
LEMMA OwnStep ==
    ASSUME RenameInv, NEW t \in Threads, Active(t), mount' = mount, calls[t].op \notin Renames,
           NEW size \in Nat, objs' = [objs EXCEPT ![calls[t].path] = size],
           NEW k, calls' = [calls EXCEPT ![t] = k], k = Idle \/ Further(k, calls[t])
    PROVE  StepOf(t)
<1>1. /\ calls' = [u \in Threads |-> calls'[u]]
      /\ \A u \in Threads \ {t} : calls'[u] = calls[u]
      /\ calls'[t] = k
  BY OneCall
<1>2. IsCall(k) /\ RenameTyped(k) /\ ~Holds(k) /\ (k.op # "idle" => Alike(k, calls[t]))
  <2>1. CASE k = Idle
    BY <2>1, IdleCall
  <2>2. CASE Further(k, calls[t])
    BY <2>2, FurtherTyped DEF RenameInv, Further
  <2> QED
    BY <2>1, <2>2
<1>3. CallsStep(t)
  BY <1>1, <1>2 DEF CallsStep, RenameInv, Alike, Same
<1>4. Copies(calls'[t], objs')
  BY <1>1, <1>2 DEF Copies
<1>5. KeepsCopies(calls[t], objs, objs')
  BY DEF KeepsCopies
<1>6. objs' \in [Files -> Nat] /\ \A f \in Files \ {calls[t].path} : objs'[f] = objs[f]
  BY DEF RenameInv
<1> QED
  BY <1>3, <1>4, <1>5, <1>6 DEF StepOf, ObjectsStep, Touched


-----------------------------------------------------------------------------
(* The requests                                                            *)

\* A call at a stage is a call under way.
LEMMA StageActive ==
    ASSUME RenameInv, NEW t \in Threads, calls[t].stage # "none"
    PROVE  /\ Active(t) /\ IsCall(calls[t]) /\ RenameTyped(calls[t]) /\ calls[t].op # "idle"
           /\ ~Holds(calls[t]) => calls[t].copyStatus = "success"
  BY DEF RenameInv, RenameTyped, Active

\* Go and End, in one step with a store that changes no object.
LEMMA GoOrEnd ==
    ASSUME RenameInv, NEW t \in Threads, calls[t].stage # "none", ~Holds(calls[t]), mount' = mount, objs' = objs,
           NEW stage, stage \notin {"list", "copy", "poll", "remove"}, Go(t, stage) \/ End(t)
    PROVE  StepOf(t)
<1>1. Active(t) /\ IsCall(calls[t]) /\ calls[t].op # "idle" /\ calls[t].copyStatus = "success"
  BY StageActive
<1>2. CASE Go(t, stage)
  <2> DEFINE k == [calls[t] EXCEPT !.stage = stage]
  <2>1. calls' = [calls EXCEPT ![t] = k]
    BY <1>2 DEF Go
  <2>2. Further(k, calls[t])
    BY <1>1, StageFurther
  <2> HIDE DEF k
  <2> QED
    BY <1>1, <2>1, <2>2, FurtherStep
<1>3. CASE End(t)
  BY <1>1, <1>3, FurtherStep DEF End
<1> QED
  BY <1>2, <1>3

\* The same with a store that changes the object of the call's own name.
LEMMA OwnGoOrEnd ==
    ASSUME RenameInv, NEW t \in Threads, calls[t].stage # "none", ~Holds(calls[t]), mount' = mount,
           calls[t].op \notin Renames,
           NEW size \in Nat, objs' = [objs EXCEPT ![calls[t].path] = size],
           NEW stage, stage \notin {"list", "copy", "poll", "remove"}, Go(t, stage) \/ End(t)
    PROVE  StepOf(t)
<1>1. Active(t) /\ IsCall(calls[t]) /\ calls[t].op # "idle" /\ calls[t].copyStatus = "success"
  BY StageActive
<1>2. CASE Go(t, stage)
  <2> DEFINE k == [calls[t] EXCEPT !.stage = stage]
  <2>1. calls' = [calls EXCEPT ![t] = k]
    BY <1>2 DEF Go
  <2>2. Further(k, calls[t])
    BY <1>1, StageFurther
  <2> HIDE DEF k
  <2> QED
    BY <1>1, <2>1, <2>2, OwnStep
<1>3. CASE End(t)
  BY <1>1, <1>3, OwnStep DEF End
<1> QED
  BY <1>2, <1>3

LEMMA LargerSize ==
    ASSUME NEW m \in Nat, NEW n \in Nat
    PROVE  Max({m, n}) \in Nat
<1> DEFINE bound(x) == x \in {m, n} /\ \A y \in {m, n} : x >= y
<1>1. \E x : bound(x)
  BY m >= n \/ n >= m
<1>2. bound(CHOOSE x : bound(x))
  BY <1>1
<1>3. Max({m, n}) = CHOOSE x : bound(x)
  BY DEF Max
<1> QED
  BY <1>2, <1>3

LEMMA AskCloudStep ==
    ASSUME RenameInv, NEW t \in Threads, AskCloud(t)
    PROVE  StepOf(t)
<1>1. calls[t].stage # "none" /\ ~Holds(calls[t])
  BY DEF AskCloud, At, Holds
<1>2. Active(t) /\ IsCall(calls[t]) /\ calls[t].op # "idle" /\ calls[t].copyStatus = "success"
  BY <1>1, StageActive
<1>3. PICK got, names : calls' = [calls EXCEPT ![t] =
                            [calls[t] EXCEPT !.stage = "store", !.got = got, !.names = names]]
  BY DEF AskCloud
<1>4. Further([calls[t] EXCEPT !.stage = "store", !.got = got, !.names = names], calls[t])
  BY <1>2, ToldFurther
<1> QED
  BY <1>2, <1>3, <1>4, FurtherStep DEF AskCloud, Keep

LEMMA ListCloudStep ==
    ASSUME RenameInv, NEW t \in Threads, ListCloud(t)
    PROVE  StepOf(t)
<1>1. calls[t].stage # "none" /\ ~Holds(calls[t])
  BY DEF ListCloud, At, Holds
<1>2. Active(t) /\ IsCall(calls[t]) /\ calls[t].op # "idle" /\ calls[t].copyStatus = "success"
  BY <1>1, StageActive
<1>3. PICK got, names : calls' = [calls EXCEPT ![t] =
                            [calls[t] EXCEPT !.stage = "attrs", !.got = got, !.names = names]]
  BY DEF ListCloud
<1>4. Further([calls[t] EXCEPT !.stage = "attrs", !.got = got, !.names = names], calls[t])
  BY <1>2, ToldFurther
<1> QED
  BY <1>2, <1>3, <1>4, FurtherStep DEF ListCloud, Keep

LEMMA EmptyInCloudStep ==
    ASSUME RenameInv, NEW t \in Threads, EmptyInCloud(t)
    PROVE  StepOf(t)
<1>1. calls[t].stage # "none" /\ ~Holds(calls[t])
  BY DEF EmptyInCloud, At, Holds
<1> QED
  BY <1>1, GoOrEnd DEF EmptyInCloud, Keep

LEMMA CreatePathStep ==
    ASSUME RenameInv, NEW t \in Threads, CreatePath(t)
    PROVE  StepOf(t)
<1>1. calls[t].stage # "none" /\ ~Holds(calls[t])
  BY DEF CreatePath, Ask, At, Holds
<1>2. Active(t) /\ IsCall(calls[t]) /\ calls[t].op # "idle" /\ calls[t].copyStatus = "success"
  BY <1>1, StageActive
<1>3. PICK names : calls' = [calls EXCEPT ![t] =
                            [calls[t] EXCEPT !.stage = "update", !.names = names]]
  BY DEF CreatePath
<1>4. Further([calls[t] EXCEPT !.stage = "update", !.names = names], calls[t])
  BY <1>2 DEF Further, IsCall, Alike, Holds
<1> QED
  BY <1>2, <1>3, <1>4, FurtherStep DEF CreatePath, Ask, Store, Keep

\* Requests that change no object.
LEMMA MarkerSteps ==
    ASSUME RenameInv, NEW t \in Threads,
           CreateDirectory(t) \/ DeleteDirectory(t) \/ ReadObject(t) \/ NoRequest(t)
              \/ RenameMarker(t) \/ RenameMarkerBlob(t) \/ RenameMarkersFail(t)
    PROVE  StepOf(t)
<1>1. calls[t].stage # "none" /\ ~Holds(calls[t])
  BY DEF CreateDirectory, DeleteDirectory, ReadObject, NoRequest, RenameMarker, RenameMarkerBlob,
         RenameMarkersFail, Ask, At, Holds
<1>2. mount' = mount /\ objs' = objs /\ (Go(t, "update") \/ End(t))
  BY DEF CreateDirectory, DeleteDirectory, ReadObject, NoRequest, RenameMarker, RenameMarkerBlob,
         RenameMarkersFail, Lost, Ask, Store, Keep
<1> QED
  BY <1>1, <1>2, GoOrEnd

\* Requests that change the object of the call.
LEMMA ObjectSteps ==
    ASSUME RenameInv, NEW t \in Threads,
           CreateObject(t) \/ WriteFromFile(t) \/ ChangeObject(t) \/ RemoveObject(t)
    PROVE  StepOf(t)
<1>1. calls[t].stage # "none" /\ ~Holds(calls[t]) /\ calls[t].op \notin Renames
  BY DEF CreateObject, WriteFromFile, ChangeObject, RemoveObject, Ask, At, Renames, Holds
<1>2. mount' = mount /\ (Go(t, "update") \/ End(t))
  BY DEF CreateObject, WriteFromFile, ChangeObject, RemoveObject, Ask, Keep
<1>3. objs' = objs \/ \E size \in Nat : objs' = [objs EXCEPT ![calls[t].path] = size]
  <2>1. calls[t].size \in Nat /\ 1 \in Nat /\ Absent \in Nat
    BY CallFields DEF RenameInv, Absent
  <2>2. CASE CreateObject(t) \/ WriteFromFile(t) \/ RemoveObject(t)
    BY <2>1, <2>2 DEF CreateObject, WriteFromFile, RemoveObject, Store, PutObject, DeleteObject
  <2>3. CASE ChangeObject(t)
    <3> DEFINE size == IF calls[t].op = "write" THEN Max({calls[t].size, objs[calls[t].path]})
                       ELSE calls[t].size
    <3>1. \/ objs' = objs
          \/ There(calls[t].path) /\ objs' = [objs EXCEPT ![calls[t].path] = size]
      BY <2>3 DEF ChangeObject, Store, PutObject
    <3>2. ASSUME objs[calls[t].path] \in Nat PROVE size \in Nat
      BY <2>1, <3>2, LargerSize
    <3> HIDE DEF size
    <3>3. CASE calls[t].path \in Files
      BY <3>1, <3>2, <3>3 DEF RenameInv
    <3>4. CASE calls[t].path \notin Files
      <4>1. ASSUME objs' = [objs EXCEPT ![calls[t].path] = size] PROVE objs' = objs
        BY <3>4, <4>1 DEF RenameInv
      <4> QED
        BY <3>1, <4>1
    <3> QED
      BY <3>3, <3>4
  <2> QED
    BY <2>2, <2>3
<1> QED
  BY <1>1, <1>2, <1>3, GoOrEnd, OwnGoOrEnd


-----------------------------------------------------------------------------
(* The requests of a rename                                                *)

LEMMA RenameListStep ==
    ASSUME RenameInv, NEW t \in Threads, RenameList(t)
    PROVE  StepOf(t)
<1>1. calls[t].stage # "none" /\ calls[t].stage = "list"
  BY DEF RenameList, At
<1>2. /\ Active(t) /\ IsCall(calls[t]) /\ RenameTyped(calls[t]) /\ calls[t].op \in Renames
      /\ calls[t].copyStatus = "success"
  BY <1>1, StageActive DEF RenameTyped, Holds
<1>3. PICK page \in Pages(objs, calls[t].path) :
         calls' = [calls EXCEPT ![t].todo = page, ![t].more = (page # Objects(objs, calls[t].path)),
                                ![t].names = @ \cup page,
                                ![t].stage = IF page = {} THEN "marker" ELSE "copy"]
  BY DEF RenameList
<1>4. page \subseteq Sources(calls[t]) /\ page \subseteq Files
  <2>1. page \subseteq Objects(objs, calls[t].path)
    BY DEF Pages, kSubset
  <2> QED
    BY <2>1 DEF Objects, Below, Sources, IsStrictPrefix
<1>5. \A u \in Threads \ {t} : calls'[u] = calls[u]
  BY <1>3 DEF RenameInv
<1>6. calls' = [u \in Threads |-> calls'[u]]
  BY <1>3 DEF RenameInv
<1>7. PICK more, names, stage :
         /\ stage \in {"marker", "copy"}
         /\ calls'[t] = [calls[t] EXCEPT !.todo = page, !.more = more, !.names = names, !.stage = stage]
  BY <1>3 DEF RenameInv
<1>8. /\ IsCall(calls'[t]) /\ Alike(calls'[t], calls[t]) /\ calls'[t].todo = page
      /\ calls'[t].stage \in {"marker", "copy"} /\ calls'[t].copyStatus = "success"
  <2>1. IsCall(calls'[t])
    BY <1>2, <1>4, <1>7 DEF IsCall
  <2>2. Alike(calls'[t], calls[t]) /\ calls'[t].todo = page /\ calls'[t].stage = stage
    BY <1>2, <1>7 DEF IsCall, Alike
  <2>3. calls'[t].copyStatus = calls[t].copyStatus
    BY <1>2, <1>7 DEF IsCall
  <2> QED
    BY <1>2, <1>7, <2>1, <2>2, <2>3
<1>9. RenameTyped(calls'[t])
  <2>1. /\ Sources(calls'[t]) = Sources(calls[t])
        /\ \A f : Target(calls'[t], f) = Target(calls[t], f)
    BY <1>8, AlikeNames
  <2> QED
    BY <1>2, <1>4, <1>8, <2>1 DEF RenameTyped, Alike, Renames, Holds
<1>10. ~Holds(calls'[t])
  BY <1>8 DEF Holds
<1> QED
  BY <1>2, <1>5, <1>6, <1>8, <1>9, <1>10, QuietStep DEF RenameList, Keep

\* The call between its requests for f.
LEMMA HeldCall ==
    ASSUME RenameInv, NEW t \in Threads, calls[t].stage \in {"copy", "poll", "remove"},
           NEW k, calls' = [calls EXCEPT ![t] = k],
           IsCall(k), Alike(k, calls[t]), k.todo = calls[t].todo, Holds(k)
    PROVE  CallsStep(t) /\ Active(t) /\ calls'[t] = k
<1>1. Active(t) /\ IsCall(calls[t]) /\ RenameTyped(calls[t]) /\ calls[t].op \in Renames
  BY StageActive DEF RenameTyped
<1>2. /\ calls' = [u \in Threads |-> calls'[u]]
      /\ \A u \in Threads \ {t} : calls'[u] = calls[u]
      /\ calls'[t] = k
  BY OneCall
<1>3. RenameTyped(k)
  <2>1. Sources(k) = Sources(calls[t]) /\ \A g : Target(k, g) = Target(calls[t], g)
    BY AlikeNames
  <2> QED
    BY <1>1, <2>1 DEF RenameTyped, Alike, Renames
<1> QED
  BY <1>1, <1>2, <1>3 DEF CallsStep, RenameInv, Alike, Same

\* What it is about.
LEMMA HeldFile ==
    ASSUME RenameInv, NEW t \in Threads, calls[t].stage \in {"copy", "poll", "remove"},
           NEW f, f \in calls[t].todo \/ f \in Sources(calls[t])
    PROVE  /\ calls[t].op \in Renames /\ IsCall(calls[t])
           /\ f \in Sources(calls[t]) /\ f \in Files
           /\ Target(calls[t], f) \in Files \ Sources(calls[t])
           /\ Target(calls[t], f) \in Touched(calls[t])
<1>1. /\ IsCall(calls[t]) /\ RenameTyped(calls[t]) /\ calls[t].op \in Renames
      /\ f \in Sources(calls[t]) /\ f \in Files /\ Target(calls[t], f) \in Files \ Sources(calls[t])
  BY StageActive DEF RenameTyped, Sources
<1>2. calls[t].path \in Tree /\ calls[t].dst \in Tree /\ f \in Tree /\ IsPrefix(calls[t].path, f)
  BY <1>1, CallFields, TreeFacts DEF Sources
<1>3. IsPrefix(calls[t].dst, Target(calls[t], f))
  BY <1>2, MovedFacts DEF Target
<1> QED
  BY <1>1, <1>3 DEF Touched, Names

\* A step that writes at most the copy of f, or what is to become its copy.
LEMMA HeldStep ==
    ASSUME RenameInv, NEW t \in Threads, calls[t].stage \in {"copy", "poll", "remove"},
           mount' = mount, NEW f, f \in calls[t].todo \/ f \in Sources(calls[t]),
           NEW k, calls' = [calls EXCEPT ![t] = k],
           IsCall(k), Alike(k, calls[t]), k.todo = calls[t].todo, k.asks = <<f>>, Holds(k),
           k.stage = "remove" => k.copyStatus # "pending",
           NEW size \in Nat,
           objs' = objs \/ objs' = [objs EXCEPT ![Target(calls[t], f)] = size],
           Trusted /\ Fate(k) = "success" => objs'[Target(calls[t], f)] = objs[f]
    PROVE  StepOf(t)
<1>1. CallsStep(t) /\ Active(t) /\ calls'[t] = k
  BY HeldCall
<1>2. /\ calls[t].op \in Renames /\ f \in Sources(calls[t]) /\ f \in Files
      /\ Target(calls[t], f) \in Files \ Sources(calls[t])
      /\ Target(calls[t], f) \in Touched(calls[t])
  BY HeldFile
<1>3. /\ objs' \in [Files -> Nat]
      /\ \A g \in Files : g # Target(calls[t], f) => objs'[g] = objs[g]
  BY <1>2 DEF RenameInv
<1>4. Copies(calls'[t], objs')
  <2>1. Sources(k) = Sources(calls[t]) /\ \A g : Target(k, g) = Target(calls[t], g)
    BY AlikeNames
  <2>2. objs'[f] = objs[f] /\ Trusted' = Trusted
    BY <1>2, <1>3 DEF Trusted
  <2> QED
    BY <1>1, <1>2, <2>1, <2>2 DEF Copies
<1>5. KeepsCopies(calls[t], objs, objs')
  <2>1. \A g \in Sources(calls[t]) : objs'[g] = objs[g]
    BY <1>2, <1>3 DEF Sources
  <2> QED
    BY <2>1 DEF KeepsCopies
<1> QED
  BY <1>1, <1>2, <1>3, <1>4, <1>5 DEF StepOf, ObjectsStep

LEMMA RenameCopyStep ==
    ASSUME RenameInv, NEW t \in Threads, RenameCopy(t)
    PROVE  StepOf(t)
<1>1. PICK f \in calls[t].todo :
         /\ Copy(t, f) /\ Store(CopyObject(objs, f, Target(calls[t], f)), marks)
         /\ calls' = [calls EXCEPT ![t].stage = "remove", ![t].asks = <<f>>]
  BY DEF RenameCopy, Target
<1>2. calls[t].stage = "copy" /\ mount' = mount
  BY <1>1 DEF Copy, At, Keep
<1>3. /\ IsCall(calls[t]) /\ f \in Files /\ Target(calls[t], f) \in Files
      /\ calls[t].copyStatus = "success"
  BY <1>2, HeldFile, StageActive DEF Holds
<1> DEFINE k == [calls[t] EXCEPT !.stage = "remove", !.asks = <<f>>]
<1>4. calls' = [calls EXCEPT ![t] = k]
  BY <1>1 DEF RenameInv
<1>5. /\ IsCall(k) /\ Alike(k, calls[t]) /\ k.todo = calls[t].todo /\ k.asks = <<f>> /\ Holds(k)
      /\ k.copyStatus # "pending"
  BY <1>3 DEF IsCall, Alike, Holds
<1> HIDE DEF k
<1>6. /\ objs[f] \in Nat /\ objs' = [objs EXCEPT ![Target(calls[t], f)] = objs[f]]
      /\ objs'[Target(calls[t], f)] = objs[f]
  BY <1>1, <1>3 DEF Store, CopyObject, RenameInv
<1> QED
  BY <1>2, <1>4, <1>5, <1>6, HeldStep

LEMMA RenamePendingStep ==
    ASSUME RenameInv, NEW t \in Threads, RenamePending(t)
    PROVE  StepOf(t)
<1>1. PICK f \in calls[t].todo :
         /\ Copy(t, f) /\ Store(DeleteObject(objs, Target(calls[t], f)), marks)
         /\ calls' = [calls EXCEPT ![t].stage = "poll", ![t].asks = <<f>>,
                                   ![t].copy = "pending", ![t].copyStatus = "pending"]
  BY DEF RenamePending, Target
<1>2. calls[t].stage = "copy" /\ mount' = mount
  BY <1>1 DEF Copy, At, Keep
<1>3. IsCall(calls[t])
  BY <1>2, HeldFile
<1> DEFINE k == [calls[t] EXCEPT !.stage = "poll", !.asks = <<f>>, !.copy = "pending",
                                 !.copyStatus = "pending"]
<1>4. calls' = [calls EXCEPT ![t] = k]
  BY <1>1 DEF RenameInv
<1>5. /\ IsCall(k) /\ Alike(k, calls[t]) /\ k.todo = calls[t].todo /\ k.asks = <<f>> /\ Holds(k)
      /\ k.stage # "remove" /\ Fate(k) # "success"
  BY <1>3 DEF IsCall, Alike, Holds, Fate
<1> HIDE DEF k
<1>6. Absent \in Nat /\ objs' = [objs EXCEPT ![Target(calls[t], f)] = Absent]
  BY <1>1 DEF Store, DeleteObject, Absent
<1> QED
  BY <1>2, <1>4, <1>5, <1>6, HeldStep

\* The file that a call holds.
LEMMA Held ==
    ASSUME RenameInv, NEW t \in Threads, Holds(calls[t])
    PROVE  \E f \in Sources(calls[t]) :
              /\ calls[t].asks = <<f>> /\ Head(calls[t].asks) = f
              /\ Trusted /\ Fate(calls[t]) = "success" => objs[Target(calls[t], f)] = objs[f]
<1>1. PICK f \in Sources(calls[t]) :
         /\ calls[t].asks = <<f>>
         /\ Trusted /\ Fate(calls[t]) = "success" => objs[Target(calls[t], f)] = objs[f]
  BY DEF RenameInv, Copies
<1>2. Head(calls[t].asks) = f
  BY <1>1
<1> QED
  BY <1>1, <1>2

LEMMA CopyEndsStep ==
    ASSUME RenameInv, NEW t \in Threads, CopyEnds(t)
    PROVE  StepOf(t)
<1>1. Holds(calls[t]) /\ calls[t].stage \in {"poll", "remove"} /\ mount' = mount
  BY DEF CopyEnds, Holds, Keep
<1>2. PICK f \in Sources(calls[t]) :
         /\ calls[t].asks = <<f>> /\ Head(calls[t].asks) = f
         /\ Trusted /\ Fate(calls[t]) = "success" => objs[Target(calls[t], f)] = objs[f]
  BY <1>1, Held
<1>3. /\ IsCall(calls[t]) /\ f \in Files /\ Target(calls[t], f) \in Files
      /\ calls[t].stage = "remove" => calls[t].copyStatus # "pending"
  BY <1>1, HeldFile DEF RenameInv, Copies
<1>4. objs[f] \in Nat
  BY <1>3 DEF RenameInv
<1>5. \A copy : LET k == [calls[t] EXCEPT !.copy = copy]
                IN  /\ IsCall(k) /\ Alike(k, calls[t]) /\ k.todo = calls[t].todo
                    /\ k.asks = <<f>> /\ Holds(k) /\ k.stage = calls[t].stage
                    /\ k.copyStatus = calls[t].copyStatus
                    /\ Fate(k) = IF calls[t].stage = "poll" THEN copy ELSE calls[t].copyStatus
  BY <1>1, <1>2, <1>3 DEF IsCall, Alike, Holds, Fate
<1>6. CASE /\ Store(CopyObject(objs, f, Target(calls[t], f)), marks)
           /\ calls' = [calls EXCEPT ![t].copy = "success"]
  <2> DEFINE k == [calls[t] EXCEPT !.copy = "success"]
  <2>1. calls' = [calls EXCEPT ![t] = k]
    BY <1>6 DEF RenameInv
  <2>2. /\ objs' = [objs EXCEPT ![Target(calls[t], f)] = objs[f]]
        /\ objs'[Target(calls[t], f)] = objs[f]
    BY <1>3, <1>6 DEF Store, CopyObject, RenameInv
  <2>3. /\ IsCall(k) /\ Alike(k, calls[t]) /\ k.todo = calls[t].todo /\ k.asks = <<f>> /\ Holds(k)
        /\ k.stage = "remove" => k.copyStatus # "pending"
    BY <1>3, <1>5
  <2> HIDE DEF k
  <2> QED
    BY <1>1, <1>4, <2>1, <2>2, <2>3, HeldStep
<1>7. CASE Store(objs, marks) /\ calls' = [calls EXCEPT ![t].copy = "failed"]
  <2> DEFINE k == [calls[t] EXCEPT !.copy = "failed"]
  <2>1. calls' = [calls EXCEPT ![t] = k] /\ objs' = objs
    BY <1>7 DEF RenameInv, Store
  <2>2. /\ IsCall(k) /\ Alike(k, calls[t]) /\ k.todo = calls[t].todo /\ k.asks = <<f>> /\ Holds(k)
        /\ k.stage = "remove" => k.copyStatus # "pending"
        /\ Trusted /\ Fate(k) = "success" => objs'[Target(calls[t], f)] = objs[f]
    BY <1>1, <1>2, <1>3, <1>5, <2>1 DEF Fate
  <2> HIDE DEF k
  <2> QED
    BY <1>1, <1>4, <2>1, <2>2, HeldStep
<1> QED
  BY <1>2, <1>6, <1>7 DEF CopyEnds, Target

\* The loop of polls ends, and the rename knows the status of the copy or not.
LEMMA RenamePollStep ==
    ASSUME RenameInv, NEW t \in Threads, RenamePoll(t) \/ RenamePollFails(t)
    PROVE  StepOf(t)
<1>1. calls[t].stage = "poll" /\ Holds(calls[t]) /\ mount' = mount /\ objs' = objs
  BY DEF RenamePoll, RenamePollFails, At, Holds, Lost
<1>2. PICK f \in Sources(calls[t]) :
         /\ calls[t].asks = <<f>> /\ Head(calls[t].asks) = f
         /\ Trusted /\ Fate(calls[t]) = "success" => objs[Target(calls[t], f)] = objs[f]
  BY <1>1, Held
<1>3. IsCall(calls[t]) /\ f \in Files
  BY <1>1, HeldFile
<1>4. PICK copyStatus :
         /\ calls' = [calls EXCEPT ![t].stage = "remove", ![t].copyStatus = copyStatus]
         /\ copyStatus # "pending" /\ (copyStatus = "success" => calls[t].copy = "success")
  BY DEF RenamePoll, RenamePollFails
<1> DEFINE k == [calls[t] EXCEPT !.stage = "remove", !.copyStatus = copyStatus]
<1>5. calls' = [calls EXCEPT ![t] = k]
  BY <1>4 DEF RenameInv
<1>6. /\ IsCall(k) /\ Alike(k, calls[t]) /\ k.todo = calls[t].todo /\ k.asks = <<f>> /\ Holds(k)
      /\ k.stage = "remove" /\ k.copyStatus = copyStatus
  BY <1>2, <1>3 DEF IsCall, Alike, Holds
<1> HIDE DEF k
<1>7. Trusted /\ Fate(k) = "success" => objs'[Target(calls[t], f)] = objs[f]
  BY <1>1, <1>2, <1>4, <1>6 DEF Fate
<1>8. objs[f] \in Nat
  BY <1>3 DEF RenameInv
<1> QED
  BY <1>1, <1>4, <1>5, <1>6, <1>7, <1>8, HeldStep

\* What is left to do after an object.
LEMMA NextObjectCall ==
    ASSUME NEW k, IsCall(k), RenameTyped(k), k.op \in Renames, NEW f
    PROVE  Further(NextObject([k EXCEPT !.asks = <<>>], f), k) /\ Further(NextObject(k, f), k)
<1>1. k.op # "idle"
  BY DEF Renames
<1>2. ASSUME NEW j, IsCall(j), Alike(j, k), j.todo = k.todo
      PROVE  Further(NextObject(j, f), k)
  <2>1. PICK stage :
           /\ NextObject(j, f) = [j EXCEPT !.todo = j.todo \ {f}, !.copy = "success",
                                           !.copyStatus = "success", !.stage = stage]
           /\ stage \in {"copy", "update", "list", "marker"}
    BY DEF NextObject
  <2> DEFINE i == [j EXCEPT !.todo = j.todo \ {f}, !.copy = "success",
                            !.copyStatus = "success", !.stage = stage]
  <2>2. IsCall(i)
    BY <1>2 DEF IsCall
  <2>3. /\ i.op = j.op /\ i.path = j.path /\ i.dst = j.dst /\ i.todo = j.todo \ {f}
        /\ i.stage = stage /\ i.copyStatus = "success"
    BY <1>2 DEF IsCall
  <2> HIDE DEF i
  <2> QED
    BY <1>1, <1>2, <2>1, <2>2, <2>3 DEF i, Further, Alike, Holds
<1> DEFINE h == [k EXCEPT !.asks = <<>>]
<1>3. IsCall(h) /\ Alike(h, k) /\ h.todo = k.todo
  BY DEF IsCall, Alike
<1>4. Alike(k, k)
  BY DEF Alike
<1> HIDE DEF h
<1>5. Further(NextObject(h, f), k)
  BY <1>2, <1>3
<1>6. Further(NextObject(k, f), k)
  BY <1>2, <1>4
<1> QED
  BY <1>5, <1>6 DEF h

LEMMA RenameMissingStep ==
    ASSUME RenameInv, NEW t \in Threads, RenameMissing(t)
    PROVE  StepOf(t)
<1>1. PICK f \in calls[t].todo :
         /\ calls[t].stage = "copy" /\ mount' = mount /\ objs' = objs
         /\ calls' = [calls EXCEPT ![t] = IF @.op = "renamefile" THEN Idle ELSE NextObject(@, f)]
  BY DEF RenameMissing, Copy, At, Store, Keep
<1>2. Active(t) /\ IsCall(calls[t]) /\ RenameTyped(calls[t]) /\ calls[t].op \in Renames
  BY <1>1, StageActive DEF RenameTyped
<1> DEFINE k == IF calls[t].op = "renamefile" THEN Idle ELSE NextObject(calls[t], f)
<1>3. calls' = [calls EXCEPT ![t] = k]
  BY <1>1 DEF RenameInv
<1>4. k = Idle \/ Further(k, calls[t])
  BY <1>2, NextObjectCall
<1> HIDE DEF k
<1> QED
  BY <1>1, <1>2, <1>3, <1>4, FurtherStep

LEMMA RenameRemoveStep ==
    ASSUME RenameInv, NEW t \in Threads, RenameRemove(t)
    PROVE  StepOf(t)
<1>1. calls[t].stage = "remove" /\ mount' = mount
  BY DEF RenameRemove, At, Keep
<1>2. Active(t) /\ IsCall(calls[t]) /\ RenameTyped(calls[t]) /\ calls[t].op \in Renames
  BY <1>1, StageActive DEF RenameTyped
<1>3. /\ calls[t].copyStatus # "pending"
      /\ \E f \in Sources(calls[t]) :
            /\ calls[t].asks = <<f>>
            /\ Trusted /\ calls[t].copyStatus = "success" => objs[Target(calls[t], f)] = objs[f]
  BY <1>1 DEF RenameInv, Copies, Holds, Fate
<1>0. PICK f \in Sources(calls[t]) :
         /\ calls[t].asks = <<f>>
         /\ Trusted /\ calls[t].copyStatus = "success" => objs[Target(calls[t], f)] = objs[f]
  BY <1>3
<1>4. Head(calls[t].asks) = f /\ f \in Files /\ Target(calls[t], f) \in Files /\ Target(calls[t], f) # f
  BY <1>0, <1>2 DEF RenameTyped, Sources
<1> DEFINE k == NextObject([calls[t] EXCEPT !.asks = <<>>], f)
<1>5. objs' = [objs EXCEPT ![f] = Absent] /\ calls' = [calls EXCEPT ![t] = k]
  BY <1>4 DEF RenameRemove, Store, DeleteObject
<1>6. Further(k, calls[t])
  BY <1>2, NextObjectCall
<1> HIDE DEF k
<1>7. /\ calls' = [u \in Threads |-> calls'[u]]
      /\ \A u \in Threads \ {t} : calls'[u] = calls[u]
      /\ calls'[t] = k
  BY <1>5, OneCall
<1>8. CallsStep(t)
  <2>1. IsCall(k) /\ RenameTyped(k) /\ Alike(k, calls[t])
    BY <1>2, <1>6, FurtherTyped DEF Further
  <2> QED
    BY <1>7, <2>1 DEF CallsStep, RenameInv, Alike, Same
<1>9. /\ objs' \in [Files -> Nat] /\ \A g \in Files : g # f => objs'[g] = objs[g]
  BY <1>5 DEF RenameInv, Absent
<1>10. f \in Touched(calls[t])
  BY <1>0, <1>2, <1>4 DEF Touched, Names, Sources
<1>11. Copies(calls'[t], objs')
  BY <1>6, <1>7 DEF Copies, Further
<1>12. KeepsCopies(calls[t], objs, objs')
  BY <1>0, <1>3, <1>4, <1>9 DEF KeepsCopies, Sources
<1> QED
  BY <1>1, <1>2, <1>8, <1>9, <1>10, <1>11, <1>12 DEF StepOf, ObjectsStep


\* A store with a hierarchical namespace moves all objects at once.
LEMMA RenamePathStep ==
    ASSUME RenameInv, NEW t \in Threads, RenamePath(t)
    PROVE  StepOf(t)
<1>1. calls[t].stage # "none" /\ ~Holds(calls[t]) /\ calls[t].op \in Renames /\ mount' = mount
  BY DEF RenamePath, At, Keep, Holds
<1>2. Active(t) /\ IsCall(calls[t]) /\ RenameTyped(calls[t]) /\ calls[t].copyStatus = "success"
  BY <1>1, StageActive
<1>3. CASE ~Has(objs, marks, calls[t].path)
  BY <1>1, <1>3, GoOrEnd DEF RenamePath, Store
<1>4. CASE Has(objs, marks, calls[t].path)
  <2> DEFINE k == [calls[t] EXCEPT !.stage = "update"]
             sub == {f \in Files : IsPrefix(calls[t].path, f) /\ objs[f] # Absent}
             from(g) == {f \in sub : Moved(f, calls[t].path, calls[t].dst) = g}
  <2>1. /\ calls' = [calls EXCEPT ![t] = k]
        /\ objs' = [g \in Files |-> IF from(g) # {} THEN objs[CHOOSE f \in from(g) : TRUE]
                                    ELSE IF g \in sub THEN Absent ELSE objs[g]]
    BY <1>4 DEF RenamePath, Store, Go
  <2>2. Further(k, calls[t])
    BY <1>1, <1>2, StageFurther DEF Renames
  <2> HIDE DEF k
  <2>3. /\ calls' = [u \in Threads |-> calls'[u]]
        /\ \A u \in Threads \ {t} : calls'[u] = calls[u]
        /\ calls'[t] = k
    BY <2>1, OneCall
  <2>4. CallsStep(t)
    <3>1. IsCall(k) /\ RenameTyped(k) /\ Alike(k, calls[t])
      BY <1>2, <2>2, FurtherTyped DEF Further
    <3> QED
      BY <2>3, <3>1 DEF CallsStep, RenameInv, Alike, Same
  <2>5. Copies(calls'[t], objs')
    BY <2>2, <2>3 DEF Copies, Further
  <2>6. calls[t].path \in Tree /\ calls[t].dst \in Tree /\ sub \subseteq Tree /\ sub \subseteq Files
    BY <1>2, CallFields, TreeFacts
  <2>7. \A g \in Files : from(g) # {} =>
           (CHOOSE f \in from(g) : TRUE) \in Files /\ IsPrefix(calls[t].dst, g)
    <3> SUFFICES ASSUME NEW g \in Files, NEW f \in from(g)
                 PROVE  (CHOOSE h \in from(g) : TRUE) \in Files /\ IsPrefix(calls[t].dst, g)
      OBVIOUS
    <3>1. (CHOOSE h \in from(g) : TRUE) \in from(g)
      OBVIOUS
    <3>2. IsPrefix(calls[t].dst, Moved(f, calls[t].path, calls[t].dst))
      BY <2>6, MovedFacts
    <3> QED
      BY <3>1, <3>2
  <2>8. objs' \in [Files -> Nat]
    <3>1. ASSUME NEW g \in Files
          PROVE  (IF from(g) # {} THEN objs[CHOOSE f \in from(g) : TRUE]
                  ELSE IF g \in sub THEN Absent ELSE objs[g]) \in Nat
      <4> HIDE DEF from, sub
      <4> QED
        BY <2>7, <3>1 DEF RenameInv, Absent
    <3> HIDE DEF from, sub
    <3> QED
      BY <2>1, <3>1
  <2>9. \A g \in Files \ Touched(calls[t]) : objs'[g] = objs[g]
    <3> SUFFICES ASSUME NEW g \in Files, g \notin Touched(calls[t]) PROVE objs'[g] = objs[g]
      OBVIOUS
    <3>1. ~IsPrefix(calls[t].path, g) /\ ~IsPrefix(calls[t].dst, g)
      BY <1>1 DEF Touched, Names
    <3>2. from(g) = {}
      <4> HIDE DEF from
      <4> QED
        BY <2>7, <3>1
    <3>3. g \notin sub
      BY <3>1
    <3> HIDE DEF from, sub
    <3> QED
      BY <2>1, <3>2, <3>3
  <2>10. KeepsCopies(calls[t], objs, objs')
    <3> SUFFICES ASSUME NEW f \in Sources(calls[t]), objs[f] # Absent
                 PROVE  objs'[Target(calls[t], f)] = objs[f]
      BY DEF KeepsCopies
    <3>1. f \in sub /\ Target(calls[t], f) \in Files
      BY <1>1, <1>2 DEF Sources, RenameTyped
    <3>2. f \in from(Target(calls[t], f))
      BY <3>1 DEF Target
    <3>3. \A g \in from(Target(calls[t], f)) : g = f
      <4> SUFFICES ASSUME NEW g \in sub, Moved(g, calls[t].path, calls[t].dst) = Target(calls[t], f)
                   PROVE  g = f
        OBVIOUS
      <4> QED
        BY <2>6, <3>1, MovedApart DEF Target
    <3>4. (CHOOSE g \in from(Target(calls[t], f)) : TRUE) = f
      BY <3>2, <3>3
    <3> HIDE DEF from, sub
    <3> QED
      BY <2>1, <3>1, <3>2, <3>4
  <2> QED
    BY <1>1, <1>2, <2>4, <2>5, <2>8, <2>9, <2>10 DEF StepOf, ObjectsStep
<1> QED
  BY <1>3, <1>4

\* A request fails, and every call loses its context.
LEMMA FailStep ==
    ASSUME RenameInv, NEW t \in Threads, Fail(t)
    PROVE  StepOf(t)
<1>1. calls[t].stage # "none" /\ mount' = mount /\ objs' = objs
  BY DEF Fail, Lost
<1>2. Active(t)
  BY <1>1, StageActive
<1> DEFINE others == [u \in Threads |->
                        [calls[u] EXCEPT !.live = @ /\ ~(calls[t].live /\ Active(u))]]
<1>3. calls' = [others EXCEPT ![t] = Idle]
  BY DEF Fail
<1>4. /\ calls' = [u \in Threads |-> calls'[u]]
      /\ \A u \in Threads \ {t} : calls'[u] = others[u]
      /\ calls'[t] = Idle
  BY <1>3
<1>5. \A u \in Threads : IsCall(others[u]) /\ Same(others[u], calls[u])
  <2> SUFFICES ASSUME NEW u \in Threads PROVE IsCall(others[u]) /\ Same(others[u], calls[u])
    OBVIOUS
  <2>1. IsCall(calls[u])
    BY DEF RenameInv
  <2>2. others[u] = [calls[u] EXCEPT !.live = @ /\ ~(calls[t].live /\ Active(u))]
    OBVIOUS
  <2> HIDE DEF others
  <2> QED
    BY <2>1, <2>2 DEF IsCall, Alike, Same
<1> HIDE DEF others
<1>6. CallsStep(t)
  BY <1>1, <1>4, <1>5, IdleCall DEF CallsStep
<1>7. Copies(calls'[t], objs')
  BY <1>4, IdleCall DEF Copies
<1>8. KeepsCopies(calls[t], objs, objs')
  BY <1>1 DEF KeepsCopies
<1> QED
  BY <1>1, <1>2, <1>6, <1>7, <1>8 DEF StepOf, ObjectsStep, RenameInv

\* A request of a rename fails for one object, and the rename goes on.
LEMMA RenameFailsStep ==
    ASSUME RenameInv, NEW t \in Threads, RenameFails(t)
    PROVE  StepOf(t)
<1>1. /\ calls[t].stage \in {"copy", "remove"} /\ calls[t].op \in Renames
      /\ mount' = mount /\ objs' = objs
  BY DEF RenameFails, Lost, Renames
<1>2. Active(t) /\ IsCall(calls[t]) /\ RenameTyped(calls[t])
  BY <1>1, StageActive
<1>3. PICK f : calls' = [calls EXCEPT ![t] = NextObject([calls[t] EXCEPT !.asks = <<>>], f)]
  BY DEF RenameFails
<1>4. Further(NextObject([calls[t] EXCEPT !.asks = <<>>], f), calls[t])
  BY <1>1, <1>2, NextObjectCall
<1> QED
  BY <1>1, <1>2, <1>3, <1>4, FurtherStep

-----------------------------------------------------------------------------
(* The updates, and the beginning of a call                                *)

LEMMA FirstStage ==
    ASSUME NEW k
    PROVE  /\ First(k) \in {"done", "empty", "copy", "list", "request"}
           /\ First(k) \in {"copy", "list"} => k.op \in Renames
  BY DEF First, Renames

LEMMA StoreAnswerStep ==
    ASSUME RenameInv, NEW t \in Threads, StoreAnswer(t)
    PROVE  StepOf(t)
<1>1. calls[t].stage # "none" /\ ~Holds(calls[t]) /\ mount' = mount /\ objs' = objs
  BY DEF StoreAnswer, At, Holds, storeVars
<1>2. Active(t) /\ IsCall(calls[t]) /\ calls[t].op # "idle" /\ calls[t].copyStatus = "success"
  BY <1>1, StageActive
<1> DEFINE rest == Tail(calls[t].asks)
           stage == IF rest # <<>> THEN "ask" ELSE First(calls[t])
           k == [calls[t] EXCEPT !.asks = rest, !.names = {}, !.got = Nothing, !.stage = stage]
<1>3. calls' = [calls EXCEPT ![t] = Idle] \/ calls' = [calls EXCEPT ![t] = k]
  BY DEF StoreAnswer
<1>4. stage \notin {"poll", "remove"} /\ (stage \in {"list", "copy"} => calls[t].op \in Renames)
  BY FirstStage
<1> HIDE DEF stage, rest
<1>5. Further(k, calls[t])
  BY <1>2, <1>4 DEF Further, IsCall, Alike, Holds
<1> HIDE DEF k
<1> QED
  BY <1>1, <1>2, <1>3, <1>5, FurtherStep

LEMMA UpdateStep ==
    ASSUME RenameInv, NEW t \in Threads, Update(t)
    PROVE  StepOf(t)
<1>1. calls[t].stage # "none" /\ ~Holds(calls[t]) /\ mount' = mount /\ objs' = objs /\ End(t)
  BY DEF Update, At, Holds, storeVars
<1> QED
  BY <1>1, GoOrEnd

LEMMA StreamDirStep ==
    ASSUME RenameInv, NEW t \in Threads, StreamDir(t)
    PROVE  StepOf(t)
<1>1. calls[t].stage # "none" /\ ~Holds(calls[t]) /\ mount' = mount /\ objs' = objs
  BY DEF StreamDir, At, Holds, storeVars
<1>2. Active(t) /\ IsCall(calls[t]) /\ calls[t].op # "idle" /\ calls[t].copyStatus = "success"
  BY <1>1, StageActive
<1>3. CASE Go(t, "mark") \/ Go(t, "merge") \/ Go(t, "complete") \/ End(t)
  BY <1>1, <1>3, GoOrEnd
<1>4. CASE \E names : calls' = [calls EXCEPT ![t] =
              [calls[t] EXCEPT !.stage = "segment", !.got = Nothing, !.names = names]]
  <2>1. PICK names : calls' = [calls EXCEPT ![t] =
              [calls[t] EXCEPT !.stage = "segment", !.got = Nothing, !.names = names]]
    BY <1>4
  <2>2. Further([calls[t] EXCEPT !.stage = "segment", !.got = Nothing, !.names = names], calls[t])
    BY <1>2, ToldFurther
  <2> QED
    BY <1>1, <1>2, <2>1, <2>2, FurtherStep
<1> QED
  BY <1>3, <1>4 DEF StreamDir


\* What the callers of Begin have checked.
Asked(op, p, q) ==
    /\ op = "renamefile" => p \in Files /\ q \in Files \ {p}
    /\ op = "renamedir" =>
          /\ p \in Dirs /\ q \in Dirs /\ ~IsPrefix(p, q) /\ ~IsPrefix(q, p)
          /\ \A x \in Below(p) : Moved(x, p, q) \in (IF x \in Files THEN Files ELSE Dirs)

LEMMA AskedTyped ==
    ASSUME NEW k, IsCall(k), Asked(k.op, k.path, k.dst), k.op # "idle",
           k.todo \subseteq {k.path}, k.op # "renamefile" => k.todo = {},
           k.stage \in {"ask", "done", "empty", "copy", "list", "request"},
           k.stage \in {"copy", "list"} => k.op \in Renames, k.copyStatus = "success"
    PROVE  RenameTyped(k)
<1> DEFINE p == k.path
           q == k.dst
<1>1. p \in Tree /\ q \in Tree
  BY CallFields
<1>2. CASE k.op = "renamefile"
  <2>1. p \in Files /\ q \in Files /\ q # p
    BY <1>2 DEF Asked
  <2>2. Sources(k) = {p}
    <3>1. p \in Sources(k)
      BY <1>1, <2>1, PrefixSelf DEF Sources
    <3>2. ASSUME NEW f \in Files, IsPrefix(p, f), f # p PROVE FALSE
      <4>1. f \in Paths /\ p \in Ancestors(f)
        BY <1>1, <2>1, <3>2, TreeFacts DEF Ancestors, IsStrictPrefix, Paths
      <4>2. p \in Dirs \cup {Root}
        BY <4>1, StoreAssumption
      <4> QED
        BY <2>1, <4>2, StoreAssumption DEF Paths
    <3> QED
      BY <3>1, <3>2 DEF Sources
  <2>3. Target(k, p) = q
    <3>1. p \in Seq(Elements) /\ q \in Seq(Elements) /\ Len(p) \in Nat /\ Len(q) \in Nat
      BY <1>1, TreeFacts
    <3>2. SubSeq(p, Len(p) + 1, Len(p)) = <<>>
      BY <3>1
    <3>3. q \o <<>> = q
      BY <3>1
    <3> QED
      BY <3>2, <3>3 DEF Target, Moved
  <2> QED
    BY <1>2, <2>1, <2>2, <2>3 DEF RenameTyped, Renames, Holds
<1>3. CASE k.op = "renamedir"
  <2>1. /\ p \in Dirs /\ ~IsPrefix(p, q) /\ ~IsPrefix(q, p)
        /\ \A x \in Below(p) : Moved(x, p, q) \in (IF x \in Files THEN Files ELSE Dirs)
    BY <1>3 DEF Asked
  <2>2. ASSUME NEW f \in Sources(k) PROVE Target(k, f) \in Files \ Sources(k)
    <3>1. f \in Files /\ f \in Tree /\ IsPrefix(p, f)
      BY TreeFacts DEF Sources
    <3>2. f # p
      BY <2>1, <3>1, StoreAssumption
    <3>3. f \in Below(p)
      BY <3>1, <3>2 DEF Below, IsStrictPrefix, Paths
    <3>4. Target(k, f) \in Files
      BY <2>1, <3>1, <3>3 DEF Target
    <3>5. IsPrefix(q, Target(k, f))
      BY <1>1, <3>1, MovedFacts DEF Target
    <3>6. ~IsPrefix(p, Target(k, f))
      BY <1>1, <2>1, <3>4, <3>5, PrefixesCompare, TreeFacts
    <3> QED
      BY <3>4, <3>6 DEF Sources
  <2> QED
    BY <1>3, <2>2 DEF RenameTyped, Renames, Holds
<1>4. CASE k.op \notin Renames
  BY <1>4 DEF RenameTyped, Holds
<1> QED
  BY <1>2, <1>3, <1>4 DEF Renames

LEMMA BeginKeeps ==
    ASSUME RenameInv, NEW t \in Threads, ~Active(t), NEW op \in Ops, NEW p \in Tree, NEW q \in Tree,
           NEW n \in Nat, NEW names, Asked(op, p, q), Begin(t, op, p, q, n, names)
    PROVE  RenameInv' /\ objs' = objs
<1> DEFINE asks == SelectSeq(names, LAMBDA x : ~Served(x))
           k == [Idle EXCEPT !.op = op, !.path = p, !.dst = q, !.size = n, !.asks = asks,
                             !.live = up, !.todo = IF op = "renamefile" THEN {p} ELSE {}]
           j == [k EXCEPT !.stage = IF asks # <<>> THEN "ask" ELSE First(k)]
<1>1. /\ calls' = [calls EXCEPT ![t] = j] /\ objs' = objs /\ mount' = mount
      /\ \A u \in Threads : Active(u) => ~Conflict(k, calls[u])
  BY DEF Begin, storeVars
<1> HIDE DEF asks
<1>2. /\ IsCall(k) /\ k.op = op /\ k.path = p /\ k.dst = q /\ k.copyStatus = "success"
      /\ k.todo = IF op = "renamefile" THEN {p} ELSE {}
  <2>1. p \in Files \/ op # "renamefile"
    BY DEF Asked
  <2> DEFINE todo == IF op = "renamefile" THEN {p} ELSE {}
  <2>2. todo \in SUBSET Files /\ op \in Ops \cup {"idle"}
    BY <2>1
  <2> HIDE DEF todo
  <2>3. k \in [op : Ops \cup {"idle"}, path : Tree, dst : Tree, size : Nat, todo : SUBSET Files,
               stage : {"none"}, asks : {asks}, live : {up}, got : {Nothing}, names : {{}},
               more : {FALSE}, copy : {"success"}, copyStatus : {"success"}]
    BY <2>2 DEF Idle, todo
  <2>4. k.op = op /\ k.path = p /\ k.dst = q /\ k.copyStatus = "success" /\ k.todo = todo
    BY DEF Idle, todo
  <2> HIDE DEF k
  <2>5. IsCall(k)
    BY <2>3 DEF IsCall
  <2> QED
    BY <2>4, <2>5 DEF todo
<1> HIDE DEF k
<1>3. /\ IsCall(j) /\ Alike(j, k) /\ j.todo = k.todo /\ j.copyStatus = "success"
      /\ j.stage = IF asks # <<>> THEN "ask" ELSE First(k)
  BY <1>2 DEF IsCall, Alike
<1>4. op # "idle"
  BY DEF Ops
<1> HIDE DEF j
<1>5. RenameTyped(j)
  <2>1. /\ First(k) \in {"done", "empty", "copy", "list", "request"}
        /\ First(k) \in {"copy", "list"} => k.op \in Renames
    BY FirstStage
  <2>2. /\ j.op = op /\ j.path = p /\ j.dst = q /\ j.todo = IF op = "renamefile" THEN {p} ELSE {}
    BY <1>2, <1>3 DEF Alike
  <2>3. /\ j.stage \in {"ask", "done", "empty", "copy", "list", "request"}
        /\ j.stage \in {"copy", "list"} => j.op \in Renames
    BY <1>2, <1>3, <2>1, <2>2
  <2>4. j.todo \subseteq {j.path} /\ (j.op # "renamefile" => j.todo = {})
    BY <2>2
  <2> QED
    BY <1>3, <1>4, <2>2, <2>3, <2>4, AskedTyped
<1>6. ~Holds(j)
  BY <1>3, FirstStage DEF Holds
<1>7. /\ calls' = [u \in Threads |-> calls'[u]]
      /\ \A u \in Threads \ {t} : calls'[u] = calls[u]
      /\ calls'[t] = j
  BY <1>1, OneCall
<1>8. Pinned(j) = Pinned(k) /\ Visited(j) = Visited(k)
  BY <1>3, AlikeNames
<1>9. Apart(calls')
  <2> SUFFICES ASSUME NEW s \in Threads, NEW u \in Threads, s # u,
                      calls'[s].op # "idle", calls'[u].op # "idle"
               PROVE  Pinned(calls'[s]) \cap Visited(calls'[u]) = {}
    BY DEF Apart
  <2>1. CASE s = t
    <3>1. calls'[u] = calls[u] /\ Active(u)
      BY <1>7, <2>1 DEF Active
    <3>2. Pinned(k) \cap Visited(calls[u]) = {}
      BY <1>1, <3>1 DEF Conflict
    <3> QED
      BY <1>7, <1>8, <2>1, <3>1, <3>2
  <2>2. CASE u = t
    <3>1. calls'[s] = calls[s] /\ Active(s)
      BY <1>7, <2>2 DEF Active
    <3>2. Visited(k) \cap Pinned(calls[s]) = {}
      BY <1>1, <3>1 DEF Conflict
    <3> QED
      BY <1>7, <1>8, <2>2, <3>1, <3>2
  <2>3. CASE s # t /\ u # t
    BY <1>7, <2>3 DEF RenameInv, Apart
  <2> QED
    BY <2>1, <2>2, <2>3
<1>10. \A u \in Threads : IsCall(calls'[u]) /\ RenameTyped(calls'[u]) /\ Copies(calls'[u], objs')
  <2>1. Copies(j, objs')
    BY <1>6 DEF Copies
  <2>2. \A u \in Threads : IsCall(calls[u]) /\ RenameTyped(calls[u]) /\ Copies(calls[u], objs')
    BY <1>1 DEF RenameInv
  <2> QED
    BY <1>3, <1>5, <1>7, <2>1, <2>2
<1> QED
  BY <1>1, <1>7, <1>9, <1>10 DEF RenameInv, Copies, Holds, Fate, Trusted

\* A call arrives.
Arrives(t, p) ==
    \/ Getattr(t, p) \/ Readdir(t, p) \/ Mkdir(t, p) \/ Rmdir(t, p) \/ Create(t, p)
    \/ Symlink(t, p) \/ Unlink(t, p) \/ Open(t, p) \/ Download(t, p) \/ Fsync(t, p)
    \/ Fsyncdir(t, p) \/ SetMode(t, p)
    \/ \E n \in Sizes : Write(t, p, n) \/ Truncate(t, p, n) \/ Flush(t, p, n) \/ Upload(t, p, n)
    \/ \E q \in mount.names \ {Root} : Rename(t, p, q)

LEMMA ArrivesKeeps ==
    ASSUME RenameInv, NEW t \in Threads, NEW p \in mount.names, Arrives(t, p)
    PROVE  RenameInv' /\ objs' = objs
<1>1. mount.names \subseteq Tree /\ Root \in Tree /\ 0 \in Nat /\ Sizes \subseteq Nat
  BY TreeFacts, StoreAssumption DEF RenameInv, Mount, Sizes
<1>2. ~Active(t)
  BY DEF Arrives, Getattr, Readdir, Mkdir, Rmdir, Create, Symlink, Unlink, Open, Download, Fsync, Fsyncdir,
         SetMode, Write, Truncate, Flush, Upload, Rename, Free
<1>3. CASE \/ Getattr(t, p) \/ Readdir(t, p) \/ Mkdir(t, p) \/ Rmdir(t, p) \/ Create(t, p)
           \/ Symlink(t, p) \/ Unlink(t, p) \/ Open(t, p) \/ Download(t, p) \/ Fsync(t, p)
           \/ Fsyncdir(t, p) \/ SetMode(t, p)
  <2>1. PICK op, names : op \in Ops \ Renames /\ Begin(t, op, p, Root, 0, names)
    BY <1>3 DEF Getattr, Readdir, Mkdir, Rmdir, Create, Symlink, Unlink, Open, Download, Fsync, Fsyncdir,
                SetMode, Plain, Ops, Renames
  <2>2. Asked(op, p, Root)
    BY <2>1 DEF Asked, Renames
  <2> QED
    BY <1>1, <1>2, <2>1, <2>2, BeginKeeps
<1>4. CASE \E n \in Sizes : Write(t, p, n) \/ Truncate(t, p, n) \/ Flush(t, p, n) \/ Upload(t, p, n)
  <2>1. PICK n, op, names : n \in Sizes /\ op \in Ops \ Renames /\ Begin(t, op, p, Root, n, names)
    BY <1>4 DEF Write, Truncate, Flush, Upload, Ops, Renames
  <2>2. Asked(op, p, Root)
    BY <2>1 DEF Asked, Renames
  <2> QED
    BY <1>1, <1>2, <2>1, <2>2, BeginKeeps
<1>5. CASE \E q \in mount.names \ {Root} : Rename(t, p, q)
  <2>1. PICK q, op, names :
           q \in mount.names /\ op \in Renames /\ Begin(t, op, p, q, 0, names) /\ Asked(op, p, q)
    BY <1>5 DEF Rename, Renames, Asked
  <2>2. op \in Ops /\ q \in Tree
    BY <1>1, <2>1 DEF Ops, Renames
  <2> QED
    BY <1>1, <1>2, <2>1, <2>2, BeginKeeps
<1> QED
  BY <1>3, <1>4, <1>5 DEF Arrives

-----------------------------------------------------------------------------
(* The theorem                                                             *)

LEMMA InitKeeps == Init => RenameInv
<1> SUFFICES ASSUME Init PROVE RenameInv
  OBVIOUS
<1>1. mount \in Mount /\ mount.start \in [Files -> 0 .. MaxSize]
  BY NamespaceAssumption DEF Init, Mount
<1>2. objs \in [Files -> Nat]
  BY <1>1, StoreAssumption DEF Init
<1>3. calls = [t \in Threads |-> Idle]
  BY DEF Init
<1>4. \A t \in Threads : calls[t] = Idle
  BY <1>3
<1>5. Apart(calls)
  BY <1>4, IdleCall DEF Apart
<1> QED
  BY <1>1, <1>2, <1>3, <1>4, <1>5, IdleCall DEF RenameInv, Copies

\* A step of a call under way.
Works(t) ==
    \/ AskCloud(t) \/ EmptyInCloud(t) \/ ListCloud(t)
    \/ CreateDirectory(t) \/ CreatePath(t) \/ DeleteDirectory(t) \/ CreateObject(t)
    \/ WriteFromFile(t) \/ ChangeObject(t) \/ RemoveObject(t) \/ ReadObject(t) \/ NoRequest(t)
    \/ RenameList(t) \/ RenameCopy(t) \/ RenamePending(t) \/ CopyEnds(t) \/ RenamePoll(t)
    \/ RenameMissing(t) \/ RenameRemove(t) \/ RenameMarker(t) \/ RenameMarkerBlob(t) \/ RenamePath(t)
    \/ Fail(t) \/ RenameFails(t) \/ RenamePollFails(t) \/ RenameMarkersFail(t)
    \/ StoreAnswer(t) \/ Update(t) \/ StreamDir(t)

LEMMA WorksSteps ==
    ASSUME RenameInv, NEW t \in Threads, Works(t)
    PROVE  StepOf(t)
  BY AskCloudStep, EmptyInCloudStep, ListCloudStep, MarkerSteps, CreatePathStep, ObjectSteps,
     RenameListStep, RenameCopyStep, RenamePendingStep, CopyEndsStep, RenamePollStep,
     RenameMissingStep, RenameRemoveStep, RenamePathStep, FailStep, RenameFailsStep, StoreAnswerStep, UpdateStep, StreamDirStep DEF Works

\* Steps of no call.
Elsewhere ==
    \/ Cleanup \/ Tick \/ HealthCheck
    \/ \E f \in Files \cap mount.names, size \in Sizes \cup {Absent} : Other(f, size)

LEMMA ElsewhereKeeps ==
    ASSUME RenameInv, Elsewhere
    PROVE  RenameInv' /\ calls' = calls /\ mount' = mount /\ (objs' = objs \/ mount.other)
<1>1. CASE Cleanup \/ Tick \/ HealthCheck
  <2>1. calls' = calls /\ mount' = mount /\ objs' = objs
    BY <1>1 DEF Cleanup, Tick, HealthCheck, Reconnect, storeVars
  <2> QED
    BY <2>1 DEF RenameInv, Apart, Copies, Holds, Fate, Trusted
<1>2. CASE \E f \in Files \cap mount.names, size \in Sizes \cup {Absent} : Other(f, size)
  <2>1. PICK f \in Files, size \in Nat : Other(f, size)
    BY <1>2, StoreAssumption DEF Sizes, Absent
  <2>2. calls' = calls /\ mount' = mount /\ mount.other /\ objs' = [objs EXCEPT ![f] = size]
    BY <2>1 DEF Other, Store
  <2>3. objs' \in [Files -> Nat]
    BY <2>2 DEF RenameInv
  <2>4. ~Trusted
    BY <2>2 DEF Trusted
  <2> QED
    BY <2>2, <2>3, <2>4 DEF RenameInv, Apart, Copies, Holds, Fate, Trusted
<1> QED
  BY <1>1, <1>2 DEF Elsewhere

LEMMA NextSteps ==
    ASSUME Next
    PROVE  \/ \E t \in Threads, p \in mount.names : Arrives(t, p)
           \/ \E t \in Threads : Works(t)
           \/ Elsewhere
  BY DEF Next, Arrives, Works, Elsewhere

\* What RenameKeeps says of a step.
RemovesCopied ==
    \A t \in Threads :
        /\ ~mount.other /\ calls[t].op \in Renames /\ calls'[t] # calls[t]
        /\ calls[t].copyStatus \in {"success", "pending"}
        => LeavesCopy(calls[t])

LEMMA NextKeeps ==
    ASSUME RenameInv, Next
    PROVE  RenameInv' /\ RemovesCopied
<1>1. CASE \E t \in Threads, p \in mount.names : Arrives(t, p)
  <2>1. RenameInv' /\ objs' = objs
    BY <1>1, ArrivesKeeps
  <2> QED
    BY <2>1 DEF RemovesCopied, LeavesCopy
<1>2. CASE \E t \in Threads : Works(t)
  <2>1. PICK t \in Threads : StepOf(t)
    BY <1>2, WorksSteps
  <2>2. RenameInv'
    BY <2>1, StepKeeps
  <2>3. RemovesCopied
    <3>1. CASE objs' = objs
      BY <3>1 DEF RemovesCopied, LeavesCopy
    <3>2. CASE \A u \in Threads \ {t} : calls'[u] = calls[u]
      BY <2>1, <3>2 DEF RemovesCopied, LeavesCopy, StepOf, ObjectsStep, KeepsCopies, Trusted, Sources, Target
    <3> QED
      BY <2>1, <3>1, <3>2 DEF StepOf, CallsStep
  <2> QED
    BY <2>2, <2>3
<1>3. CASE Elsewhere
  BY <1>3, ElsewhereKeeps DEF RemovesCopied, LeavesCopy
<1> QED
  BY <1>1, <1>2, <1>3, NextSteps

\* For all mounts, and every interleaving of the calls that the kernel lets run
\* together, a rename of a file or of a directory (RenameFile, RenameDirectory
\* with its pages, its copies in the background and the errors it returns or
\* swallows, or the one request of a hierarchical namespace) removes an object
\* only when its copy is there, unless the server has given up a copy in the
\* background, or its status could not be had (see CopyDone).
THEOREM RenamesKeep == Spec => RenameKeeps
<1>1. Init => RenameInv
  BY InitKeeps
<1>2. RenameInv /\ [Next]_vars => RenameInv'
  <2>1. RenameInv /\ UNCHANGED vars => RenameInv'
    BY DEF vars, storeVars, RenameInv, Apart, Copies, Holds, Fate, Trusted
  <2> QED
    BY <2>1, NextKeeps
<1>3. RenameInv /\ [Next]_vars => [RemovesCopied]_vars
  BY NextKeeps
<1>4. Spec => [][RemovesCopied]_vars
  BY <1>1, <1>2, <1>3, PTL DEF Spec
<1> QED
  BY <1>4 DEF RenameKeeps, RemovesCopied

=============================================================================
