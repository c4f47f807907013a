------------------------- MODULE SizeTrackerProofs -------------------------
(***************************************************************************)
(* Theorems about SizeTracker, for every number of mounts, handlers and    *)
(* files and all sizes.  The first part is about sums: what the sum of a   *)
(* function's values (SumFunction of the community modules) does when      *)
(* values change.  The library's induction theorems take an operator as    *)
(* parameter; the induction here is over a set, the set of the             *)
(* counterexamples, which has a smallest element.                          *)
(***************************************************************************)
EXTENDS SizeTracker, Functions, FiniteSetTheorems, WellFoundedInduction, TLAPS

-----------------------------------------------------------------------------
(* Induction by the smallest counterexample                                *)

\* A set of subsets of a finite set has a smallest member.
LEMMA SmallestSet ==
    ASSUME NEW S, IsFiniteSet(S), NEW T \in SUBSET (SUBSET S), T # {}
    PROVE  \E s \in T : \A t \in T : t \subseteq s => t = s
<1>1. T \subseteq FiniteSubsetsOf(S)
  BY FS_FiniteSubsetsOfFinite
<1>2. \E s \in T : \A t \in T : ~(<<t, s>> \in StrictSubsetOrdering(S))
  BY <1>1, FS_StrictSubsetOrderingWellFounded, WFMin
<1> QED
  BY <1>2 DEF StrictSubsetOrdering

\* A set of natural numbers has a smallest member.
LEMMA SmallestNumber ==
    ASSUME NEW T \in SUBSET Nat, T # {}
    PROVE  \E n \in T : \A m \in T : n <= m
<1>1. PICK k \in T : TRUE
  OBVIOUS
<1> DEFINE Below == {0 .. m : m \in {i \in T : i <= k}}
<1>2. IsFiniteSet(0 .. k)
  BY <1>1, FS_Interval
<1>3. Below \in SUBSET (SUBSET (0 .. k)) /\ Below # {}
  BY <1>1
<1>4. \E s \in Below : \A t \in Below : t \subseteq s => t = s
  <2> DEFINE I == 0 .. k
  <2>1. IsFiniteSet(I) /\ Below \in SUBSET (SUBSET I) /\ Below # {}
    BY <1>2, <1>3
  <2> HIDE DEF Below, I
  <2> QED
    BY <2>1, SmallestSet
<1>5. PICK n \in T : n <= k /\ \A t \in Below : t \subseteq 0 .. n => t = 0 .. n
  BY <1>4
<1>6. \A m \in T : n <= m
  <2> SUFFICES ASSUME NEW m \in T, m < n PROVE FALSE
    BY <1>5
  <2>1. 0 .. m \in Below /\ 0 .. m \subseteq 0 .. n
    BY <1>1, <1>5
  <2>2. 0 .. m = 0 .. n
    BY <1>5, <2>1
  <2>3. n \in 0 .. n /\ n \notin 0 .. m
    OBVIOUS
  <2> QED
    BY <2>2, <2>3
<1> QED
  BY <1>6

-----------------------------------------------------------------------------
(* The recursive function behind SumFunction                               *)

\* The element that a fold takes out of a set, and the fold's next value.
Pick(s) == CHOOSE x \in s : TRUE
Folded(v, g, s) == IF s = {} THEN 0 ELSE v[Pick(s)] + g[s \ {Pick(s)}]


\* g is the fold of v over the subsets of S.
IsFold(v, S, g) == g = [s \in SUBSET S |-> Folded(v, g, s)]
Sized(S, n) == {s \in SUBSET S : Cardinality(s) <= n}

\* A fold takes an element out, and a smaller set remains.
LEMMA Picked ==
    ASSUME NEW S, IsFiniteSet(S), NEW s \in SUBSET S, s # {}
    PROVE  /\ Pick(s) \in s /\ s \ {Pick(s)} \in SUBSET S
           /\ Cardinality(s) \in Nat /\ Cardinality(s) >= 1
           /\ Cardinality(s \ {Pick(s)}) = Cardinality(s) - 1
<1>1. Pick(s) \in s
  BY DEF Pick
<1>2. IsFiniteSet(s)
  BY FS_Subset
<1>3. Cardinality(s) \in Nat /\ Cardinality(s) # 0
  BY <1>2, FS_CardinalityType, FS_EmptySet
<1>4. Cardinality(s \ {Pick(s)}) = Cardinality(s) - 1
  BY <1>1, <1>2, FS_RemoveElement
<1> QED
  BY <1>1, <1>3, <1>4

\* The recursive function that computes the sum exists.
LEMMA FoldExists ==
    ASSUME NEW v, NEW S, IsFiniteSet(S)
    PROVE  \E g : IsFold(v, S, g)
<1> DEFINE Upto(n, g) == g = [s \in Sized(S, n) |-> Folded(v, g, s)]
           Bad == {n \in Nat : ~ \E g : Upto(n, g)}
<1>1. Bad = {}
  <2> SUFFICES ASSUME Bad # {} PROVE FALSE
    OBVIOUS
  <2>1. PICK n \in Bad : \A m \in Bad : n <= m
    BY SmallestNumber
  <2>2. n # 0
    <3> SUFFICES ASSUME n = 0 PROVE \E g : Upto(0, g)
      BY <2>1
    <3>1. \A s \in Sized(S, 0) : s = {}
      BY FS_Subset, FS_EmptySet, FS_CardinalityType DEF Sized
    <3>2. Upto(0, [s \in Sized(S, 0) |-> 0])
      BY <3>1 DEF Folded
    <3> QED
      BY <3>2
  <2>3. PICK g : Upto(n - 1, g)
    BY <2>1, <2>2
  <2> DEFINE h == [s \in Sized(S, n) |-> Folded(v, g, s)]
  <2>4. \A s \in Sized(S, n - 1) : s \in Sized(S, n) /\ h[s] = g[s]
    <3>1. \A s \in Sized(S, n - 1) : s \in Sized(S, n)
      BY FS_Subset, FS_CardinalityType DEF Sized
    <3> HIDE DEF Folded
    <3> QED
      BY <2>3, <3>1
  <2>5. \A s \in Sized(S, n) : Folded(v, h, s) = Folded(v, g, s)
    <3> SUFFICES ASSUME NEW s \in Sized(S, n), s # {}
                 PROVE  h[s \ {Pick(s)}] = g[s \ {Pick(s)}]
      <4> HIDE DEF h
      <4> QED
        BY DEF Folded
    <3>1. s \ {Pick(s)} \in SUBSET S /\ Cardinality(s \ {Pick(s)}) <= n - 1
      BY Picked DEF Sized
    <3>2. s \ {Pick(s)} \in Sized(S, n - 1)
      BY <3>1 DEF Sized
    <3> QED
      BY <2>4, <3>2
  <2>6. Upto(n, h)
    BY <2>5, Zenon
  <2> QED
    BY <2>1, <2>6
<1>2. PICK g : Upto(Cardinality(S), g)
  BY <1>1, FS_CardinalityType
<1>3. Sized(S, Cardinality(S)) = SUBSET S
  BY FS_Subset DEF Sized
<1> QED
  BY <1>2, <1>3 DEF IsFold

\* The fold of v over the subsets of its domain.
FoldOf(v) == CHOOSE g : IsFold(v, DOMAIN v, g)

\* SumFunction is the value of the fold for the whole domain.
LEMMA SumIsFold ==
    ASSUME NEW v
    PROVE  SumFunction(v) = FoldOf(v)[DOMAIN v]
  BY DEF SumFunction, SumFunctionOnSet, FoldFunctionOnSet, MapThenFoldSet, FoldOf, IsFold, Folded, Pick

\* The fold satisfies its equation.
LEMMA FoldEquation ==
    ASSUME NEW v, IsFiniteSet(DOMAIN v)
    PROVE  \A s \in SUBSET DOMAIN v : FoldOf(v)[s] = Folded(v, FoldOf(v), s)
<1>1. IsFold(v, DOMAIN v, FoldOf(v))
  BY FoldExists DEF FoldOf
<1> DEFINE g == FoldOf(v)
<1> HIDE DEF g
<1>2. g = [s \in SUBSET DOMAIN v |-> Folded(v, g, s)]
  BY <1>1 DEF IsFold, g
<1> QED
  BY <1>2 DEF g

-----------------------------------------------------------------------------
(* Sums of integers                                                        *)

\* The sum of integers is an integer.
LEMMA FoldType ==
    ASSUME NEW S, IsFiniteSet(S), NEW v \in [S -> Int]
    PROVE  \A s \in SUBSET S : FoldOf(v)[s] \in Int
<1> DEFINE Bad == {s \in SUBSET S : FoldOf(v)[s] \notin Int}
<1> SUFFICES ASSUME Bad # {} PROVE FALSE
  OBVIOUS
<1>1. PICK s \in Bad : \A t \in Bad : t \subseteq s => t = s
  <2>1. Bad \in SUBSET (SUBSET S)
    OBVIOUS
  <2> HIDE DEF Bad
  <2> QED
    BY <2>1, SmallestSet
<1>2. FoldOf(v)[s] = Folded(v, FoldOf(v), s)
  BY FoldEquation
<1>3. s # {}
  BY <1>1, <1>2 DEF Folded
<1>4. Pick(s) \in s /\ s \ {Pick(s)} \in SUBSET S
  BY <1>3, Picked
<1>5. FoldOf(v)[s \ {Pick(s)}] \in Int
  BY <1>1, <1>4
<1> QED
  BY <1>1, <1>2, <1>3, <1>4, <1>5 DEF Folded

\* The sum of integers is an integer.
LEMMA SumType ==
    ASSUME NEW S, IsFiniteSet(S), NEW v \in [S -> Int]
    PROVE  SumFunction(v) \in Int
  BY FoldType, SumIsFold

\* The sum of natural numbers is a natural number.
LEMMA SumNat ==
    ASSUME NEW S, IsFiniteSet(S), NEW v \in [S -> Nat]
    PROVE  SumFunction(v) \in Nat
<1> DEFINE Bad == {s \in SUBSET S : FoldOf(v)[s] \notin Nat}
<1>1. Bad = {}
  <2> SUFFICES ASSUME Bad # {} PROVE FALSE
    OBVIOUS
  <2>1. PICK s \in Bad : \A t \in Bad : t \subseteq s => t = s
    <3>1. Bad \in SUBSET (SUBSET S)
      OBVIOUS
    <3> HIDE DEF Bad
    <3> QED
      BY <3>1, SmallestSet
  <2>2. FoldOf(v)[s] = Folded(v, FoldOf(v), s)
    BY FoldEquation
  <2>3. s # {}
    BY <2>1, <2>2 DEF Folded
  <2>4. Pick(s) \in s /\ s \ {Pick(s)} \in SUBSET S
    BY <2>3, Picked
  <2>5. FoldOf(v)[s \ {Pick(s)}] \in Nat
    BY <2>1, <2>4
  <2> QED
    BY <2>1, <2>2, <2>3, <2>4, <2>5 DEF Folded
<1> QED
  BY <1>1, SumIsFold

\* Sums are added up point by point.
LEMMA SumAdd ==
    ASSUME NEW S, IsFiniteSet(S), NEW u \in [S -> Int], NEW v \in [S -> Int], NEW w \in [S -> Int],
           \A x \in S : u[x] = v[x] + w[x]
    PROVE  SumFunction(u) = SumFunction(v) + SumFunction(w)
<1> DEFINE Bad == {s \in SUBSET S : FoldOf(u)[s] # FoldOf(v)[s] + FoldOf(w)[s]}
<1>1. Bad = {}
  <2> SUFFICES ASSUME Bad # {} PROVE FALSE
    OBVIOUS
  <2>1. PICK s \in Bad : \A t \in Bad : t \subseteq s => t = s
    <3>1. Bad \in SUBSET (SUBSET S)
      OBVIOUS
    <3> HIDE DEF Bad
    <3> QED
      BY <3>1, SmallestSet
  <2>2. /\ FoldOf(u)[s] = Folded(u, FoldOf(u), s)
        /\ FoldOf(v)[s] = Folded(v, FoldOf(v), s)
        /\ FoldOf(w)[s] = Folded(w, FoldOf(w), s)
    BY FoldEquation
  <2>3. s # {}
    BY <2>1, <2>2 DEF Folded
  <2> DEFINE x == Pick(s)
             t == s \ {Pick(s)}
  <2>4. x \in s /\ x \in S /\ t \in SUBSET S /\ t # s
    BY <2>3, Picked
  <2>5. FoldOf(u)[t] = FoldOf(v)[t] + FoldOf(w)[t]
    BY <2>1, <2>4
  <2>6. /\ FoldOf(u)[s] = u[x] + FoldOf(u)[t]
        /\ FoldOf(v)[s] = v[x] + FoldOf(v)[t]
        /\ FoldOf(w)[s] = w[x] + FoldOf(w)[t]
    BY <2>2, <2>3 DEF Folded
  <2>7. /\ FoldOf(v)[t] \in Int /\ FoldOf(w)[t] \in Int
        /\ u[x] = v[x] + w[x] /\ v[x] \in Int /\ w[x] \in Int
    BY <2>4, FoldType
  <2>8. FoldOf(u)[s] # FoldOf(v)[s] + FoldOf(w)[s]
    BY <2>1
  <2> HIDE DEF x, t, Bad
  <2> QED
    BY <2>5, <2>6, <2>7, <2>8
<1> QED
  BY <1>1, SumIsFold

\* The sum of zeros is zero.
LEMMA SumZero ==
    ASSUME NEW S, IsFiniteSet(S), NEW v \in [S -> Int], \A x \in S : v[x] = 0
    PROVE  SumFunction(v) = 0
<1>1. SumFunction(v) = SumFunction(v) + SumFunction(v)
  BY SumAdd
<1> QED
  BY <1>1, SumType

\* A function with one value that is not zero.
LEMMA SumOne ==
    ASSUME NEW S, IsFiniteSet(S), NEW v \in [S -> Int], NEW k \in S,
           \A x \in S \ {k} : v[x] = 0
    PROVE  SumFunction(v) = v[k]
<1> DEFINE Bad == {s \in SUBSET S : FoldOf(v)[s] # IF k \in s THEN v[k] ELSE 0}
<1>1. Bad = {}
  <2> SUFFICES ASSUME Bad # {} PROVE FALSE
    OBVIOUS
  <2>1. PICK s \in Bad : \A t \in Bad : t \subseteq s => t = s
    <3>1. Bad \in SUBSET (SUBSET S)
      OBVIOUS
    <3> HIDE DEF Bad
    <3> QED
      BY <3>1, SmallestSet
  <2>2. FoldOf(v)[s] = Folded(v, FoldOf(v), s)
    BY FoldEquation
  <2>3. s # {}
    BY <2>1, <2>2 DEF Folded
  <2> DEFINE x == Pick(s)
             t == s \ {Pick(s)}
  <2>4. x \in s /\ x \in S /\ t \in SUBSET S /\ t # s
    BY <2>3, Picked
  <2>5. FoldOf(v)[t] = IF k \in t THEN v[k] ELSE 0
    BY <2>1, <2>4
  <2>6. FoldOf(v)[s] = v[x] + FoldOf(v)[t]
    BY <2>2, <2>3 DEF Folded
  <2>7. v[x] \in Int /\ v[k] \in Int /\ (x # k => v[x] = 0)
    BY <2>4
  <2>8. FoldOf(v)[s] # IF k \in s THEN v[k] ELSE 0
    BY <2>1
  <2>9. CASE x = k
    BY <2>4, <2>5, <2>6, <2>7, <2>8, <2>9
  <2>10. CASE x # k
    BY <2>4, <2>5, <2>6, <2>7, <2>8, <2>10
  <2> QED
    BY <2>9, <2>10
<1> QED
  BY <1>1, SumIsFold

\* One value changes, and the sum changes with it.
LEMMA SumChange ==
    ASSUME NEW S, IsFiniteSet(S), NEW v \in [S -> Int], NEW w \in [S -> Int], NEW k \in S,
           \A x \in S \ {k} : w[x] = v[x]
    PROVE  SumFunction(w) = SumFunction(v) + w[k] - v[k]
<1> DEFINE d == [x \in S |-> w[x] - v[x]]
<1>1. d \in [S -> Int]
  OBVIOUS
<1>2. \A x \in S : w[x] = v[x] + d[x]
  OBVIOUS
<1>3. d[k] = w[k] - v[k] /\ \A x \in S \ {k} : d[x] = 0
  OBVIOUS
<1> HIDE DEF d
<1>4. SumFunction(w) = SumFunction(v) + SumFunction(d)
  BY <1>1, <1>2, SumAdd
<1>5. SumFunction(d) = d[k]
  BY <1>1, <1>3, SumOne
<1>6. SumFunction(v) \in Int /\ w[k] \in Int /\ v[k] \in Int
  BY SumType
<1> QED
  BY <1>3, <1>4, <1>5, <1>6

-----------------------------------------------------------------------------
(* Types                                                                   *)

\* The command reads the size three times at most.
Attempts == tool.pc \in {"idle", "listed", "open"} => tool.attempt < 3

\* A call under way is about files.
CallsOnFiles == \A h \in Handlers : call[h].pc # "idle" => {call[h].file, call[h].to} \subseteq Files

TypeInv == TypeOK /\ Attempts /\ CallsOnFiles

\* Known and Applied are natural numbers.
LEMMA NumberTypes ==
    /\ MaxSize \in Nat /\ MaxSize > 0 /\ MaxOps \in Nat /\ MaxErrors \in Nat
    /\ NoFile \in Int /\ NoFile \in NoFile .. MaxSize /\ 1 \in NoFile .. MaxSize
    /\ \A s \in NoFile .. MaxSize : s \in Int
    /\ 0 .. MaxSize \subseteq NoFile .. MaxSize
    /\ \A s \in NoFile .. MaxSize : Known(s) \in 0 .. MaxSize
    /\ \A b \in Nat, d \in Int : Applied(b, d) \in Nat
  BY SizeAssumption DEF Known, Applied, NoFile

\* The bucket holds a natural number of bytes.
LEMMA TotalType == TypeOK => Total \in Nat
<1> SUFFICES ASSUME TypeOK PROVE Total \in Nat
  OBVIOUS
<1> DEFINE v == [f \in Files |-> Known(sizes[f])]
<1>1. v \in [Files -> Nat]
  BY NumberTypes DEF TypeOK
<1>2. IsFiniteSet(Files)
  BY SizeAssumption
<1> HIDE DEF v
<1>3. SumFunction(v) \in Nat
  BY <1>1, <1>2, SumNat
<1> QED
  BY <1>3 DEF Total, v

\* What a setting is made of.
LEMMA SettingType ==
    TypeOK => /\ setting.owns \in [Mounts -> SUBSET Files] /\ setting.capacity \in Nat
              /\ setting.drift \subseteq Nat
  BY SizeAssumption DEF TypeOK, Setting

\* The record of a handler that is not in a call.
LEMMA NoCallType == NoCall \in Call /\ NoCall.pc = "idle"
<1>1. 0 \in 0 .. MaxSize /\ 0 \in NoFile .. MaxSize
  BY NumberTypes DEF NoFile
<1> QED
  BY <1>1 DEF Call, NoCall

\* Updates of a call keep its type.
LEMMA CallUpdate ==
    ASSUME NEW c \in Call, NEW d \in Int,
           NEW pc \in {"idle", "delta", "size", "do", "reread", "add"}
    PROVE  /\ [c EXCEPT !.pc = pc] \in Call
           /\ [c EXCEPT !.pc = pc, !.delta = d] \in Call
  BY DEF Call

\* The initial states have their types.
LEMMA InitType == Init => TypeInv
<1> SUFFICES ASSUME Init PROVE TypeInv
  OBVIOUS
<1>1. sizes \in [Files -> NoFile .. MaxSize]
  <2>1. {NoFile, 1} \subseteq NoFile .. MaxSize
    BY NumberTypes
  <2> QED
    BY <2>1 DEF Init
<1>2. Total \in Nat
  <2> DEFINE v == [f \in Files |-> Known(sizes[f])]
  <2>1. v \in [Files -> Nat]
    BY <1>1, NumberTypes
  <2>2. IsFiniteSet(Files)
    BY SizeAssumption
  <2> HIDE DEF v
  <2>3. SumFunction(v) \in Nat
    BY <2>1, <2>2, SumNat
  <2> QED
    BY <2>3 DEF Total, v
<1>3. setting \in Settings /\ setting.drift \subseteq Nat
  BY SizeAssumption DEF Init, Setting
<1>4. journal \in [epoch : Nat, size : Nat]
  BY <1>2, <1>3 DEF Init
<1>5. size \in [Procs -> Nat] /\ pendingDelta \in [Procs -> Int] /\ epoch \in [Procs -> Nat]
  BY DEF Init
<1>6. sync \in [Procs -> [on : BOOLEAN, base : Nat, delta : Int]]
  BY DEF Init, NoSync
<1>7. call \in [Handlers -> Call] /\ CallsOnFiles
  BY NoCallType DEF Init, CallsOnFiles, NoCall
<1>8. tool = NoTool /\ ops \in 0 .. MaxOps /\ errors \in 0 .. MaxErrors
  BY NumberTypes DEF Init
<1>9. quiet \in BOOLEAN
  BY Zenon DEF Init
<1>10. life \in [Procs -> {"off", "starting", "up", "stopping"}]
  BY DEF Init
<1> QED
  BY <1>1, <1>3, <1>4, <1>5, <1>6, <1>7, <1>8, <1>9, <1>10 DEF TypeInv, TypeOK, Attempts, NoTool

\* A sync keeps the types.
LEMMA SyncType ==
    ASSUME TypeInv, NEW p \in Procs, SyncBegin(p) \/ SyncEnd(p) \/ SyncFail(p)
    PROVE  TypeInv'
<1> USE DEF TypeInv, TypeOK
<1>1. CASE SyncBegin(p)
  <2>1. UNCHANGED <<sizes, journal, life, call, tool, quiet, bounds>>
    BY <1>1 DEF SyncBegin
  <2>2. size' \in [Procs -> Nat] /\ epoch' \in [Procs -> Nat] /\ pendingDelta' \in [Procs -> Int]
    BY <1>1 DEF SyncBegin
  <2>3. sync' \in [Procs -> [on : BOOLEAN, base : Nat, delta : Int]]
    BY <1>1 DEF SyncBegin
  <2> QED
    BY <2>1, <2>2, <2>3 DEF bounds, Attempts, CallsOnFiles
<1>2. CASE SyncEnd(p)
  <2>1. UNCHANGED <<sizes, epoch, call, tool, quiet, bounds>>
    BY <1>2 DEF SyncEnd
  <2>2. Applied(sync[p].base, sync[p].delta) \in Nat /\ epoch[p] \in Nat
    BY NumberTypes
  <2>3. /\ size' \in [Procs -> Nat] /\ pendingDelta' \in [Procs -> Int]
        /\ journal' \in [epoch : Nat, size : Nat]
    BY <1>2, <2>2 DEF SyncEnd
  <2>4. sync' \in [Procs -> [on : BOOLEAN, base : Nat, delta : Int]]
    BY <1>2 DEF SyncEnd, NoSync
  <2>5. life' \in [Procs -> {"off", "starting", "up", "stopping"}]
    BY <1>2 DEF SyncEnd, Lives
  <2> QED
    BY <2>1, <2>3, <2>4, <2>5 DEF bounds, Attempts, CallsOnFiles
<1>3. CASE SyncFail(p)
  <2>1. UNCHANGED <<sizes, mountSize, call, tool, quiet, setting, ops>>
    BY <1>3 DEF SyncFail
  <2>2. Applied(sync[p].base, sync[p].delta) \in Nat /\ epoch[p] \in Nat
    BY NumberTypes
  <2>3. journal' \in [epoch : Nat, size : Nat]
    BY <1>3, <2>2 DEF SyncFail
  <2>6. errors' \in 0 .. MaxErrors
    BY <1>3, NumberTypes DEF SyncFail
  <2>4. sync' \in [Procs -> [on : BOOLEAN, base : Nat, delta : Int]]
    BY <1>3 DEF SyncFail, NoSync
  <2>5. life' \in [Procs -> {"off", "starting", "up", "stopping"}]
    BY <1>3 DEF SyncFail, Lives
  <2> QED
    BY <2>1, <2>3, <2>4, <2>5, <2>6 DEF mountSize, Attempts, CallsOnFiles
<1> QED
  BY <1>1, <1>2, <1>3

\* Starting and stopping a mount keep the types.
LEMMA MountType ==
    ASSUME TypeInv, NEW m \in Mounts, Start(m) \/ Stop(m)
    PROVE  TypeInv'
  BY DEF TypeInv, TypeOK, Start, Stop, CreateSizeJournal, Procs, bounds, mountSize, Attempts,
         CallsOnFiles

\* The larger of two numbers.
LEMMA MaxOfTwo ==
    ASSUME NEW a \in Int, NEW b \in Int
    PROVE  Max({a, b}) = IF a >= b THEN a ELSE b
<1> DEFINE P(x) == x \in {a, b} /\ \A y \in {a, b} : x >= y
<1>1. P(IF a >= b THEN a ELSE b)
  OBVIOUS
<1>2. P(CHOOSE x : P(x))
  <2> HIDE DEF P
  <2> QED
    BY <1>1
<1>3. Max({a, b}) = CHOOSE x : P(x)
  BY DEF Max
<1> QED
  BY <1>2, <1>3

\* What an operation does to a size, and what it counts.
LEMMA ResizedType ==
    ASSUME NEW op, NEW old \in NoFile .. MaxSize, NEW arg \in 0 .. MaxSize
    PROVE  Resized(op, old, arg) \in NoFile .. MaxSize /\ Difference(op, old, arg) \in Int
<1>1. Known(old) \in 0 .. MaxSize /\ Known(old) \in Int /\ arg \in Int
  BY NumberTypes
<1>2. Max({Known(old), arg}) \in 0 .. MaxSize
  BY <1>1, MaxOfTwo
<1>3. Resized(op, old, arg) \in NoFile .. MaxSize
  <2>1. 0 \in 0 .. MaxSize /\ 0 .. MaxSize \subseteq NoFile .. MaxSize /\ NoFile \in NoFile .. MaxSize
    BY NumberTypes
  <2> QED
    BY <1>2, <2>1 DEF Resized
<1>4. Resized(op, old, arg) \in Int
  BY <1>3, NumberTypes
<1> QED
  BY <1>1, <1>3, <1>4 DEF Difference

\* Types survive a step of a call that keeps those of the variables it changes.
LEMMA CallFrame ==
    ASSUME TypeInv, NEW h \in Handlers, NEW c \in Call, call' = [call EXCEPT ![h] = c],
           c.pc # "idle" => {c.file, c.to} \subseteq Files,
           sizes' \in [Files -> NoFile .. MaxSize], pendingDelta' \in [Procs -> Int],
           quiet' \in BOOLEAN, ops' \in 0 .. MaxOps,
           UNCHANGED <<setting, journal, size, epoch, life, sync, tool, errors>>
    PROVE  TypeInv'
<1>1. call' \in [Handlers -> Call] /\ \A k \in Handlers : call'[k] = IF k = h THEN c ELSE call[k]
  BY DEF TypeInv, TypeOK
<1>2. CallsOnFiles'
  BY <1>1 DEF TypeInv, CallsOnFiles
<1>3. Attempts'
  BY DEF TypeInv, Attempts
<1> QED
  BY <1>1, <1>2, <1>3 DEF TypeInv, TypeOK

\* A call that begins keeps the types.
LEMMA BeginType ==
    ASSUME TypeInv, NEW h \in Handlers, NEW op \in Ops, NEW f \in Files, NEW to \in Files,
           NEW arg \in 0 .. MaxSize, Begin(h, op, f, to, arg)
    PROVE  TypeInv'
<1>1. /\ UNCHANGED <<sizes, journal, mountSize, life, sync, tool, setting, errors>>
      /\ ops < MaxOps /\ ops' = ops + 1 /\ quiet' = FALSE
  BY DEF Begin
<1>2. \A s \in Answers(to) : s \in NoFile .. MaxSize
  BY NumberTypes, Zenon DEF Answers, TypeInv, TypeOK
<1>3. PICK seen \in Answers(to) :
        call' = [call EXCEPT ![h] =
                  [pc |-> IF op \in Growing /\ setting.capacity > 0 THEN "delta" ELSE "do",
                   op |-> op, file |-> f, to |-> to, arg |-> arg, seen |-> seen, delta |-> 0]]
  BY DEF Begin
<1> DEFINE c == [pc |-> IF op \in Growing /\ setting.capacity > 0 THEN "delta" ELSE "do",
                 op |-> op, file |-> f, to |-> to, arg |-> arg, seen |-> seen, delta |-> 0]
<1>4. c \in Call /\ {c.file, c.to} \subseteq Files
  BY <1>2 DEF Call
<1>5. ops' \in 0 .. MaxOps
  BY <1>1, NumberTypes DEF TypeInv, TypeOK
<1>6. quiet' \in BOOLEAN
  BY <1>1, Zenon
<1>7. call' = [call EXCEPT ![h] = c]
  BY <1>3
<1>8. sizes' \in [Files -> NoFile .. MaxSize] /\ pendingDelta' \in [Procs -> Int]
  BY <1>1 DEF mountSize, TypeInv, TypeOK
<1> HIDE DEF c
<1> QED
  BY <1>1, <1>4, <1>5, <1>6, <1>7, <1>8, CallFrame DEF mountSize

\* The operation itself keeps the types.
LEMMA DoType ==
    ASSUME TypeInv, NEW h \in Handlers, Do(h)
    PROVE  TypeInv'
<1> DEFINE c == call[h]
           d == IF c.op = "commit" THEN [c EXCEPT !.pc = "reread"]
                ELSE [c EXCEPT !.pc = "add", !.delta = Difference(c.op, c.seen, c.arg)]
<1>1. c \in Call /\ c.arg \in 0 .. MaxSize /\ c.seen \in NoFile .. MaxSize /\ c.delta \in Int
  BY DEF TypeInv, TypeOK, Call
<1>2. c.pc = "do" /\ c.file \in Files /\ c.to \in Files
  BY DEF Do, TypeInv, CallsOnFiles
<1>3. Difference(c.op, c.seen, c.arg) \in Int
  BY <1>1, ResizedType
<1>4. d \in Call
  BY <1>1, <1>3, CallUpdate
<1>5. d.file = c.file /\ d.to = c.to
  BY <1>1 DEF Call
<1>6. sizes' \in [Files -> NoFile .. MaxSize]
  <2>1. \A s \in NoFile .. MaxSize : Resized(c.op, s, c.arg) \in NoFile .. MaxSize
    BY <1>1, ResizedType
  <2>2. sizes \in [Files -> NoFile .. MaxSize] /\ NoFile \in NoFile .. MaxSize
    BY NumberTypes DEF TypeInv, TypeOK
  <2> HIDE DEF c
  <2>3. sizes' = IF c.op = "rename"
                 THEN [sizes EXCEPT ![c.to] = sizes[c.file], ![c.file] = NoFile]
                 ELSE [sizes EXCEPT ![c.file] = Resized(c.op, @, c.arg)]
    BY DEF Do, c
  <2> QED
    BY <1>2, <2>1, <2>2, <2>3
<1>7. call' = [call EXCEPT ![h] = d]
  BY DEF Do
<1>8. UNCHANGED <<journal, mountSize, life, sync, tool, quiet, bounds>>
  BY DEF Do
<1>9. pendingDelta' \in [Procs -> Int] /\ quiet' \in BOOLEAN /\ ops' \in 0 .. MaxOps
  BY <1>8 DEF mountSize, bounds, TypeInv, TypeOK
<1> HIDE DEF c, d
<1> QED
  BY <1>2, <1>4, <1>5, <1>6, <1>7, <1>8, <1>9, CallFrame DEF mountSize, bounds

\* The other steps of a call keep the types.
LEMMA CallType ==
    ASSUME TypeInv, NEW h \in Handlers,
           GetSizeDelta(h) \/ GetSizeBase(h) \/ DoFailed(h) \/ Reread(h) \/ Add(h)
    PROVE  TypeInv'
<1> DEFINE c == call[h]
<1>1. c \in Call /\ c.seen \in NoFile .. MaxSize /\ c.delta \in Int
  BY DEF TypeInv, TypeOK, Call
<1>2. c.pc # "idle" /\ c.file \in Files /\ c.to \in Files
  BY DEF GetSizeDelta, GetSizeBase, DoFailed, Reread, Add, TypeInv, CallsOnFiles
<1>3. ASSUME NEW d \in Int, NEW pc \in {"size", "do", "add"}
      PROVE  /\ [c EXCEPT !.pc = pc] \in Call /\ [c EXCEPT !.pc = pc, !.delta = d] \in Call
             /\ {[c EXCEPT !.pc = pc].file, [c EXCEPT !.pc = pc].to} \subseteq Files
             /\ {[c EXCEPT !.pc = pc, !.delta = d].file, [c EXCEPT !.pc = pc, !.delta = d].to}
                   \subseteq Files
  <2> HIDE DEF c
  <2>1. [c EXCEPT !.pc = pc] \in Call /\ [c EXCEPT !.pc = pc, !.delta = d] \in Call
    BY <1>1, CallUpdate
  <2> QED
    BY <1>1, <1>2, <2>1 DEF Call
<1>4. pendingDelta[MountOf[h]] \in Int /\ MountOf[h] \in Procs
  BY SizeAssumption DEF TypeInv, TypeOK, Procs
<1>5. sizes \in [Files -> NoFile .. MaxSize] /\ pendingDelta \in [Procs -> Int]
      /\ quiet \in BOOLEAN /\ ops \in 0 .. MaxOps
  BY DEF TypeInv, TypeOK
<1> USE DEF mountSize, bounds
<1>6. CASE GetSizeDelta(h)
  <2>1. call' = [call EXCEPT ![h] = [c EXCEPT !.pc = "size", !.delta = pendingDelta[MountOf[h]]]]
        /\ UNCHANGED <<sizes, journal, mountSize, life, sync, tool, quiet, bounds>>
    BY <1>6 DEF GetSizeDelta, TypeInv, TypeOK
  <2> HIDE DEF c
  <2> QED
    BY <1>2, <1>3, <1>4, <1>5, <2>1, CallFrame
<1>7. CASE GetSizeBase(h)
  <2>1. PICK d \in {[c EXCEPT !.pc = "do"], NoCall} :
          call' = [call EXCEPT ![h] = d]
          /\ UNCHANGED <<sizes, journal, mountSize, life, sync, tool, quiet, bounds>>
    BY <1>7 DEF GetSizeBase
  <2> HIDE DEF c
  <2>2. d \in Call /\ (d.pc # "idle" => {d.file, d.to} \subseteq Files)
    BY <1>1, <1>3, <2>1, NoCallType
  <2> QED
    BY <1>5, <2>1, <2>2, CallFrame
<1>8. CASE DoFailed(h)
  <2>1. call' = [call EXCEPT ![h] = NoCall]
        /\ UNCHANGED <<sizes, journal, mountSize, life, sync, tool, quiet, bounds>>
    BY <1>8 DEF DoFailed
  <2> QED
    BY <1>5, <2>1, NoCallType, CallFrame
<1>9. CASE Reread(h)
  <2>1. \A s \in Answers(c.file) : Known(s) - Known(c.seen) \in Int
    <3>1. \A s \in Answers(c.file) : s \in NoFile .. MaxSize
      BY <1>2, <1>5, NumberTypes, Zenon DEF Answers
    <3>2. \A s \in NoFile .. MaxSize : Known(s) \in Int
      BY NumberTypes
    <3> QED
      BY <1>1, <3>1, <3>2
  <2>2. PICK now \in Answers(c.file) :
          call' = [call EXCEPT ![h] = [c EXCEPT !.pc = "add", !.delta = Known(now) - Known(c.seen)]]
    BY <1>9 DEF Reread, TypeInv, TypeOK
  <2>3. UNCHANGED <<sizes, journal, mountSize, life, sync, tool, quiet, bounds>>
    BY <1>9 DEF Reread
  <2> HIDE DEF c
  <2> QED
    BY <1>2, <1>3, <1>5, <2>1, <2>2, <2>3, CallFrame
<1>10. CASE Add(h)
  <2>1. pendingDelta' = [pendingDelta EXCEPT ![MountOf[h]] = @ + c.delta]
        /\ call' = [call EXCEPT ![h] = NoCall]
        /\ UNCHANGED <<sizes, journal, size, epoch, life, sync, tool, quiet, bounds>>
    BY <1>10 DEF Add
  <2>2. pendingDelta' \in [Procs -> Int]
    BY <1>1, <1>4, <1>5, <2>1
  <2> QED
    BY <1>5, <2>1, <2>2, NoCallType, CallFrame
<1> QED
  BY <1>6, <1>7, <1>8, <1>9, <1>10

\* The command keeps the types.
LEMMA ToolType ==
    ASSUME TypeInv, ToolList \/ ToolOpen \/ ToolAborts \/ ToolRead \/ ToolStop \/ ToolLoop
    PROVE  TypeInv'
<1> USE DEF TypeInv, TypeOK, bounds, mountSize, Attempts, CallsOnFiles
<1>0. Tool \in Procs
  BY DEF Procs
<1>1. CASE ToolList
  <2>1. quiet' \in BOOLEAN
    BY <1>1, Zenon DEF ToolList
  <2>2. tool' \in [pc : {"idle", "listed", "open", "read", "stop", "failed", "done"},
                   total : Nat, newSize : Nat, attempt : 0 .. 3] /\ Attempts'
    BY <1>1, TotalType DEF ToolList
  <2>3. UNCHANGED <<sizes, journal, mountSize, life, sync, call, bounds>>
    BY <1>1 DEF ToolList
  <2> QED
    BY <2>1, <2>2, <2>3
<1>2. CASE ToolOpen
  BY <1>0, <1>2 DEF ToolOpen, CreateSizeJournal
<1>3. CASE ToolAborts
  BY <1>3 DEF ToolAborts
<1>4. CASE ToolRead
  <2> DEFINE current == Applied(size[Tool], pendingDelta[Tool])
  <2>1. current \in Nat
    BY <1>0, NumberTypes
  <2>2. tool' = [tool EXCEPT !.pc = "read", !.newSize = current, !.attempt = @ + 1]
        /\ tool.attempt < 3
    BY <1>4 DEF ToolRead
  <2>3. tool' \in [pc : {"idle", "listed", "open", "read", "stop", "failed", "done"},
                   total : Nat, newSize : Nat, attempt : 0 .. 3] /\ Attempts'
    <3>1. tool \in [pc : {"idle", "listed", "open", "read", "stop", "failed", "done"},
                    total : Nat, newSize : Nat, attempt : 0 .. 3]
      OBVIOUS
    <3>2. tool.attempt + 1 \in 0 .. 3
      BY <2>2, <3>1
    <3> HIDE DEF current, TypeInv, TypeOK
    <3>3. tool' \in [pc : {"idle", "listed", "open", "read", "stop", "failed", "done"},
                     total : Nat, newSize : Nat, attempt : 0 .. 3]
      BY <2>1, <2>2, <3>1, <3>2
    <3>4. tool'.pc = "read"
      BY <2>2, <3>1
    <3> QED
      BY <3>3, <3>4
  <2>4. /\ pendingDelta' = [pendingDelta EXCEPT ![Tool] = @ + tool.total - current]
        /\ epoch' = [epoch EXCEPT ![Tool] = IF current = tool.total THEN @ ELSE @ + 1]
        /\ UNCHANGED <<sizes, journal, size, life, sync, call, quiet, bounds>>
    BY <1>4 DEF ToolRead
  <2>5. pendingDelta' \in [Procs -> Int]
    <3> HIDE DEF current
    <3> QED
      BY <1>0, <2>1, <2>4
  <2>6. epoch' \in [Procs -> Nat]
    <3> HIDE DEF current
    <3> QED
      BY <1>0, <2>4
  <2> QED
    BY <2>3, <2>4, <2>5, <2>6
<1>5. CASE ToolStop
  BY <1>0, <1>5 DEF ToolStop
<1>6. CASE ToolLoop
  BY <1>6 DEF ToolLoop
<1> QED
  BY <1>1, <1>2, <1>3, <1>4, <1>5, <1>6

\* Every step keeps the types.
LEMMA NextType == TypeInv /\ [Next]_vars => TypeInv'
<1> SUFFICES ASSUME TypeInv, [Next]_vars PROVE TypeInv'
  OBVIOUS
<1>1. CASE UNCHANGED vars
  BY <1>1 DEF TypeInv, TypeOK, Attempts, CallsOnFiles, vars, mountSize, bounds
<1> QED
  BY <1>1, SyncType, MountType, BeginType, DoType, CallType, ToolType DEF Next

-----------------------------------------------------------------------------
(* Calls and syncs                                                         *)

Active(h) == call[h].pc # "idle"
Owes(h) == call[h].pc \in {"reread", "add"}
CallFiles(h) == {call[h].file, call[h].to}

\* A call under way works on files of its mount, which is up, and no other call
\* of the mount works on them.
CallsLinked ==
    /\ \A h \in Handlers : Active(h) =>
         /\ CallFiles(h) \subseteq setting.owns[MountOf[h]]
         /\ call[h].op \in setting.ops
         /\ (call[h].op = "rename" <=> call[h].file # call[h].to)
         /\ life[MountOf[h]] = "up"
         /\ call[h].pc = "reread" => call[h].op = "commit"
    /\ \A h, k \in Handlers : h # k /\ Active(h) /\ Active(k) /\ MountOf[h] = MountOf[k]
                                => CallFiles(h) \cap CallFiles(k) = {}

\* The journal is locked by one process at a time, which is running.
OneSyncs ==
    /\ \A p, q \in Procs : sync[p].on /\ sync[q].on => p = q
    /\ \A p \in Procs : sync[p].on => life[p] # "off"

BaseInv == TypeInv /\ CallsLinked /\ OneSyncs

\* A step that leaves the calls alone, and stops no mount with a call under way.
LEMMA CallsFrame ==
    ASSUME CallsLinked, UNCHANGED <<call, setting>>,
           \A h \in Handlers : Active(h) => life'[MountOf[h]] = life[MountOf[h]]
    PROVE  CallsLinked'
  BY DEF CallsLinked, CallFiles, Active

\* One step of a call that has begun.
LEMMA CallStepLinked ==
    ASSUME CallsLinked, UNCHANGED <<life, setting>>, NEW h \in Handlers, Active(h),
           \A k \in Handlers \ {h} : call'[k] = call[k],
           \/ call'[h].pc = "idle"
           \/ /\ call'[h].file = call[h].file /\ call'[h].to = call[h].to
              /\ call'[h].op = call[h].op /\ (call'[h].pc = "reread" => call[h].op = "commit")
    PROVE  CallsLinked'
<1>1. \A k \in Handlers : Active(k)' =>
        /\ Active(k) /\ CallFiles(k)' = CallFiles(k) /\ call'[k].op = call[k].op
        /\ call'[k].file = call[k].file /\ call'[k].to = call[k].to
        /\ (call'[k].pc = "reread" => call'[k].op = "commit")
  BY DEF Active, CallFiles, CallsLinked
<1> QED
  BY <1>1 DEF CallsLinked

\* Every step keeps the calls and the lock of the journal in order.
LEMMA NextBase == BaseInv /\ [Next]_vars => BaseInv'
<1> SUFFICES ASSUME BaseInv, [Next]_vars PROVE CallsLinked' /\ OneSyncs'
  BY NextType DEF BaseInv
<1> USE DEF BaseInv, TypeInv
<1>0. /\ life \in [Procs -> {"off", "starting", "up", "stopping"}]
      /\ sync \in [Procs -> [on : BOOLEAN, base : Nat, delta : Int]]
      /\ call \in [Handlers -> Call] /\ \A h \in Handlers : MountOf[h] \in Procs
  BY SizeAssumption DEF TypeOK, Procs
<1>1. ASSUME NEW p \in Procs, SyncBegin(p) PROVE CallsLinked' /\ OneSyncs'
  <2>1. UNCHANGED <<call, setting, life>> /\ life[p] # "off"
    BY <1>1 DEF SyncBegin, Syncs, bounds
  <2>2. \A q \in Procs : ~sync[q].on
    BY <1>1 DEF SyncBegin, Free
  <2>3. \A q \in Procs \ {p} : sync'[q] = sync[q]
    BY <1>0, <1>1 DEF SyncBegin
  <2> QED
    BY <2>1, <2>2, <2>3, CallsFrame DEF OneSyncs
<1>2. ASSUME NEW p \in Procs, SyncEnd(p) \/ SyncFail(p) PROVE CallsLinked' /\ OneSyncs'
  <2>1. UNCHANGED <<call, setting>>
    BY <1>2 DEF SyncEnd, SyncFail, bounds
  <2>2. \A q \in Procs \ {p} : sync'[q] = sync[q] /\ life'[q] = life[q]
    BY <1>0, <1>2 DEF SyncEnd, SyncFail
  <2>3. ~sync'[p].on /\ (life[p] = "up" => life'[p] = "up")
    BY <1>0, <1>2 DEF SyncEnd, SyncFail, NoSync, Lives
  <2>4. CallsLinked'
    BY <1>0, <2>1, <2>2, <2>3, CallsFrame DEF CallsLinked
  <2> QED
    BY <2>2, <2>3, <2>4 DEF OneSyncs
<1>3. ASSUME NEW m \in Mounts, Start(m) \/ Stop(m) PROVE CallsLinked' /\ OneSyncs'
  <2>1. UNCHANGED <<call, setting, sync>> /\ m \in Procs
    BY <1>3 DEF Start, Stop, bounds, Procs
  <2>2. \A q \in Procs \ {m} : life'[q] = life[q]
    BY <1>0, <1>3 DEF Start, Stop, CreateSizeJournal
  <2>3. life'[m] # "off" /\ \A h \in Handlers : MountOf[h] = m => ~Active(h)
    BY <1>0, <1>3, <2>1 DEF Start, Stop, CreateSizeJournal, Busy, CallsLinked, Active
  <2>4. CallsLinked'
    BY <1>0, <2>1, <2>2, <2>3, CallsFrame
  <2> QED
    BY <2>1, <2>2, <2>3, <2>4 DEF OneSyncs
<1>4. ASSUME NEW h \in Handlers, NEW op \in Ops, NEW f \in Files, NEW to \in Files,
             NEW arg \in 0 .. MaxSize, Begin(h, op, f, to, arg)
      PROVE  CallsLinked' /\ OneSyncs'
  <2>1. /\ UNCHANGED <<life, sync, setting>> /\ op \in setting.ops
        /\ call[h].pc = "idle" /\ life[MountOf[h]] = "up"
        /\ {f, to} \subseteq setting.owns[MountOf[h]] \ Used(MountOf[h])
        /\ (op = "rename" <=> f # to)
    BY <1>4 DEF Begin
  <2>2. /\ \A k \in Handlers \ {h} : call'[k] = call[k]
        /\ call'[h].file = f /\ call'[h].to = to /\ call'[h].op = op
        /\ call'[h].pc \in {"delta", "do"}
    BY <1>0, <1>4 DEF Begin
  <2>3. \A k \in Handlers \ {h} : Active(k) /\ MountOf[k] = MountOf[h] => {f, to} \cap CallFiles(k) = {}
    BY <2>1 DEF Used, Active, CallFiles
  <2>4. CallsLinked'
    BY <2>1, <2>2, <2>3 DEF CallsLinked, CallFiles, Active
  <2> QED
    BY <2>1, <2>4 DEF OneSyncs
<1>5. ASSUME NEW h \in Handlers,
             GetSizeDelta(h) \/ GetSizeBase(h) \/ Do(h) \/ DoFailed(h) \/ Reread(h) \/ Add(h)
      PROVE  CallsLinked' /\ OneSyncs'
  <2>1. UNCHANGED <<life, sync, setting>> /\ Active(h) /\ call[h] \in Call
    BY <1>0, <1>5 DEF GetSizeDelta, GetSizeBase, Do, DoFailed, Reread, Add, bounds, Active
  <2>2. \A k \in Handlers \ {h} : call'[k] = call[k]
    BY <1>0, <1>5 DEF GetSizeDelta, GetSizeBase, Do, DoFailed, Reread, Add
  <2>3. \/ call'[h].pc = "idle"
        \/ /\ call'[h].file = call[h].file /\ call'[h].to = call[h].to
           /\ call'[h].op = call[h].op /\ (call'[h].pc = "reread" => call[h].op = "commit")
    <3>1. CASE GetSizeDelta(h)
      BY <1>0, <2>1, <3>1 DEF GetSizeDelta, Call
    <3>2. CASE GetSizeBase(h) \/ DoFailed(h) \/ Add(h)
      BY <1>0, <2>1, <3>2, NoCallType DEF GetSizeBase, DoFailed, Add, Call
    <3>3. CASE Do(h)
      BY <1>0, <2>1, <3>3 DEF Do, Call
    <3>4. CASE Reread(h)
      BY <1>0, <2>1, <3>4 DEF Reread, Call
    <3> QED
      BY <1>5, <3>1, <3>2, <3>3, <3>4
  <2>4. CallsLinked'
    BY <2>1, <2>2, <2>3, CallStepLinked
  <2> QED
    BY <2>1, <2>4 DEF OneSyncs
<1>6. CASE ToolList \/ ToolOpen \/ ToolAborts \/ ToolRead \/ ToolStop \/ ToolLoop
  <2>1. UNCHANGED <<call, setting, sync>> /\ Tool \in Procs /\ \A h \in Handlers : MountOf[h] # Tool
    BY <1>6, SizeAssumption
       DEF ToolList, ToolOpen, ToolAborts, ToolRead, ToolStop, ToolLoop, bounds, Procs
  <2>2. /\ \A q \in Procs \ {Tool} : life'[q] = life[q]
        /\ life'[Tool] = life[Tool] \/ life'[Tool] # "off"
    BY <1>0, <1>6, <2>1
       DEF ToolList, ToolOpen, ToolAborts, ToolRead, ToolStop, ToolLoop, CreateSizeJournal
  <2>3. CallsLinked'
    BY <1>0, <2>1, <2>2, CallsFrame
  <2> QED
    BY <2>1, <2>2, <2>3 DEF OneSyncs
<1>7. CASE UNCHANGED vars
  BY <1>7, CallsFrame DEF vars, bounds, OneSyncs
<1> QED
  BY <1>1, <1>2, <1>3, <1>4, <1>5, <1>6, <1>7 DEF Next

-----------------------------------------------------------------------------
(* The ledger                                                              *)

\* GetAttr answers with the size a file has until the call acts on it, and what
\* a call is about to add is what it did to the bucket.
CallsExact ==
    \A h \in Handlers :
      /\ Active(h) /\ ~Owes(h) => call[h].seen = sizes[call[h].to]
      /\ call[h].pc = "add" =>
           call[h].delta = IF call[h].op = "rename" THEN -Known(call[h].seen)
                           ELSE Known(sizes[call[h].file]) - Known(call[h].seen)
      /\ call[h].pc = "add" /\ call[h].op = "rename" => sizes[call[h].file] = NoFile

\* Without the command the epochs are 0 and 1, and no sync discards a delta or
\* keeps a size that the journal does not have.
EpochsAgree ==
    /\ journal.epoch \in {0, 1}
    /\ life[Tool] = "off" /\ tool.pc = "idle"
    /\ \A m \in Mounts :
        /\ epoch[m] \in {0, 1}
        /\ life[m] \in {"up", "stopping"} \/ sync[m].on => epoch[m] = 1
        /\ sync[m].on => sync[m].base = journal.size
        /\ epoch[m] > journal.epoch => sync[m].on
        /\ life[m] \in {"off", "starting"} => pendingDelta[m] = 0 /\ (sync[m].on => sync[m].delta = 0)
        /\ life[m] = "stopping" /\ sync[m].on => sync[m].delta = pendingDelta[m]

\* The part of a mount in the difference of two ledgers.
Share(m, a, b) == [f \in Files |-> IF f \in setting.owns[m] THEN a[f] - b[f] ELSE 0]

\* Three ledgers of the bytes of each file: acc is what Add was told, jr what is
\* in the journal, snap what acc was when the sync under way began.  The journal
\* and the deltas are sums over them.
Ledger(acc, jr, snap) ==
    /\ \A f \in Files : (\A h \in Handlers : Owes(h) => f \notin CallFiles(h))
                          => acc[f] = Known(sizes[f])
    /\ \A h \in Handlers : Owes(h) =>
         /\ acc[call[h].to] = Known(call[h].seen)
         /\ call[h].op = "rename" => acc[call[h].file] = Known(sizes[call[h].to])
    /\ journal.size = SumFunction(jr)
    /\ \A m \in Mounts : pendingDelta[m] = SumFunction(Share(m, acc, jr))
    /\ \A m \in Mounts : sync[m].on => sync[m].delta = SumFunction(Share(m, snap, jr))

Ledgers == \E acc, jr, snap \in [Files -> Nat] : Ledger(acc, jr, snap)

\* The journal, the deltas and the calls add up to the bucket.
Balanced ==
    Total = journal.size + SumFunction([m \in Mounts |-> pendingDelta[m]])
                         + SumFunction([h \in Handlers |-> Owed(h)])

Accounts == CallsExact /\ EpochsAgree /\ Ledgers /\ Balanced

AccountInv == BaseInv /\ (Accountable => Accounts)

\* Of two calls under way, neither works on a file of the other.
LEMMA CallsApart ==
    ASSUME BaseInv, Accountable, NEW h \in Handlers, NEW k \in Handlers, h # k, Active(h), Active(k)
    PROVE  CallFiles(h) \cap CallFiles(k) = {}
<1>1. CASE MountOf[h] = MountOf[k]
  BY <1>1 DEF BaseInv, CallsLinked
<1>2. CASE MountOf[h] # MountOf[k]
  <2>1. setting.owns[MountOf[h]] \cap setting.owns[MountOf[k]] = {}
    BY <1>2, SizeAssumption DEF Accountable
  <2> QED
    BY <2>1 DEF BaseInv, CallsLinked
<1> QED
  BY <1>1, <1>2

\* What a call under way is made of.
LEMMA CallParts ==
    ASSUME BaseInv, NEW h \in Handlers
    PROVE  /\ call[h] \in Call /\ MountOf[h] \in Mounts /\ MountOf[h] \in Procs
           /\ call[h].arg \in 0 .. MaxSize /\ call[h].seen \in NoFile .. MaxSize
           /\ call[h].delta \in Int /\ call[h].op \in Ops \cup {"none"}
           /\ Known(call[h].seen) \in Nat
           /\ Active(h) => call[h].file \in Files /\ call[h].to \in Files
<1>1. call[h] \in Call /\ MountOf[h] \in Mounts /\ MountOf[h] \in Procs
  BY SizeAssumption DEF BaseInv, TypeInv, TypeOK, Procs
<1>2. /\ call[h].arg \in 0 .. MaxSize /\ call[h].seen \in NoFile .. MaxSize
      /\ call[h].delta \in Int /\ call[h].op \in Ops \cup {"none"}
  BY <1>1 DEF Call
<1>3. Known(call[h].seen) \in Nat
  <2>1. Known(call[h].seen) \in 0 .. MaxSize
    BY <1>2, NumberTypes
  <2> QED
    BY <2>1
<1>4. Active(h) => call[h].file \in Files /\ call[h].to \in Files
  BY DEF BaseInv, TypeInv, CallsOnFiles, Active
<1> QED
  BY <1>1, <1>2, <1>3, <1>4

\* What a call owes is an integer.
LEMMA OwedType ==
    ASSUME BaseInv
    PROVE  /\ [h \in Handlers |-> Owed(h)] \in [Handlers -> Int]
           /\ [m \in Mounts |-> pendingDelta[m]] \in [Mounts -> Int]
           /\ [f \in Files |-> Known(sizes[f])] \in [Files -> Int]
           /\ IsFiniteSet(Files) /\ IsFiniteSet(Handlers) /\ IsFiniteSet(Mounts)
           /\ journal.size \in Nat
<1>1. ASSUME NEW h \in Handlers PROVE Owed(h) \in Int
  <2>1. call[h].pc = "reread" => Known(sizes[call[h].file]) \in Int
    BY CallParts, NumberTypes DEF BaseInv, TypeInv, TypeOK, Active
  <2> QED
    BY <2>1, CallParts DEF Owed
<1>2. \A f \in Files : Known(sizes[f]) \in Int
  BY NumberTypes DEF BaseInv, TypeInv, TypeOK
<1>3. \A m \in Mounts : pendingDelta[m] \in Int
  BY DEF BaseInv, TypeInv, TypeOK, Procs
<1>4. journal.size \in Nat
  BY DEF BaseInv, TypeInv, TypeOK
<1> QED
  BY <1>1, <1>2, <1>3, <1>4, SizeAssumption

\* A step that moves no byte keeps the sum.
LEMMA BalancedFrame ==
    ASSUME Balanced, sizes' = sizes, journal'.size = journal.size,
           \A m \in Mounts : pendingDelta'[m] = pendingDelta[m],
           \A h \in Handlers : Owed(h)' = Owed(h)
    PROVE  Balanced'
<1>1. Total' = Total
  BY DEF Total
<1>2. [m \in Mounts |-> pendingDelta'[m]] = [m \in Mounts |-> pendingDelta[m]]
  OBVIOUS
<1>3. [h \in Handlers |-> Owed(h)'] = [h \in Handlers |-> Owed(h)]
  OBVIOUS
<1> QED
  BY <1>1, <1>2, <1>3 DEF Balanced

\* A step that leaves sizes, journal, deltas and syncs alone, and changes no call
\* that owes, keeps the ledgers.
LEMMA LedgerFrame ==
    ASSUME Ledgers, UNCHANGED <<setting, sizes, pendingDelta, sync>>, journal'.size = journal.size,
           \A h \in Handlers : Owes(h)' = Owes(h),
           \A h \in Handlers : Owes(h) => /\ call'[h].file = call[h].file /\ call'[h].to = call[h].to
                                          /\ call'[h].op = call[h].op /\ call'[h].seen = call[h].seen
    PROVE  Ledgers'
<1>1. PICK acc, jr, snap \in [Files -> Nat] : Ledger(acc, jr, snap)
  BY DEF Ledgers
<1>2. \A h \in Handlers : Owes(h) => CallFiles(h)' = CallFiles(h)
  BY DEF CallFiles
<1>3. \A m \in Mounts : Share(m, acc, jr)' = Share(m, acc, jr) /\ Share(m, snap, jr)' = Share(m, snap, jr)
  BY DEF Share
<1>4. Ledger(acc, jr, snap)'
  BY <1>1, <1>2, <1>3 DEF Ledger
<1> QED
  BY <1>4 DEF Ledgers

\* The initial states are in balance.
LEMMA InitAccounts == Init => AccountInv
<1> SUFFICES ASSUME Init PROVE AccountInv
  OBVIOUS
<1>1. BaseInv
  <2>1. \A h \in Handlers : call[h] = NoCall /\ ~Active(h)
    BY NoCallType DEF Init, Active
  <2>2. \A p \in Procs : ~sync[p].on
    BY DEF Init, NoSync
  <2>3. CallsLinked /\ OneSyncs
    BY <2>1, <2>2 DEF CallsLinked, OneSyncs
  <2> QED
    BY <2>3, InitType DEF BaseInv
<1> SUFFICES ASSUME Accountable PROVE Accounts
  BY <1>1 DEF AccountInv
<1>2. \A h \in Handlers : call[h] = NoCall /\ ~Active(h) /\ ~Owes(h) /\ Owed(h) = 0
  BY NoCallType DEF Init, Active, Owes, Owed
<1>3. CallsExact
  BY <1>2 DEF CallsExact, Owes
<1>4. \A p \in Procs : ~sync[p].on /\ pendingDelta[p] = 0 /\ epoch[p] = 0 /\ life[p] = "off"
  BY DEF Init, NoSync
<1>5. journal = [epoch |-> 0, size |-> Total]
  BY DEF Init, Accountable
<1>6. EpochsAgree
  BY <1>4, <1>5 DEF EpochsAgree, Init, NoTool, Procs
<1>7. Ledgers
  <2> DEFINE a == [f \in Files |-> Known(sizes[f])]
  <2>1. a \in [Files -> Nat]
    BY <1>1, NumberTypes DEF BaseInv, TypeInv, TypeOK
  <2>2. journal.size = SumFunction(a)
    BY <1>5 DEF Total
  <2>3. \A m \in Mounts : SumFunction(Share(m, a, a)) = 0
    <3> SUFFICES ASSUME NEW m \in Mounts PROVE SumFunction(Share(m, a, a)) = 0
      OBVIOUS
    <3> DEFINE v == Share(m, a, a)
    <3>1. v \in [Files -> Int] /\ \A f \in Files : v[f] = 0
      BY <2>1 DEF Share
    <3> HIDE DEF v
    <3>2. SumFunction(v) = 0
      BY <1>1, <3>1, OwedType, SumZero
    <3> QED
      BY <3>2 DEF v
  <2>4. \A f \in Files : a[f] = Known(sizes[f])
    OBVIOUS
  <2> HIDE DEF a
  <2>5. Ledger(a, a, a)
    BY <1>2, <1>4, <2>2, <2>3, <2>4 DEF Ledger, Procs
  <2> QED
    BY <2>1, <2>5 DEF Ledgers
<1>8. Balanced
  <2> DEFINE v == [m \in Mounts |-> pendingDelta[m]]
             w == [h \in Handlers |-> Owed(h)]
  <2>1. \A m \in Mounts : v[m] = 0
    BY <1>4 DEF Procs
  <2>2. \A h \in Handlers : w[h] = 0
    BY <1>2
  <2>3. v \in [Mounts -> Int] /\ w \in [Handlers -> Int]
    BY <1>1, OwedType
  <2> HIDE DEF v, w
  <2>4. SumFunction(v) = 0 /\ SumFunction(w) = 0
    BY <1>1, <2>1, <2>2, <2>3, OwedType, SumZero
  <2>5. Total \in Nat
    BY <1>1, TotalType DEF BaseInv, TypeInv
  <2> QED
    BY <1>5, <2>4, <2>5 DEF Balanced, v, w
<1> QED
  BY <1>3, <1>6, <1>7, <1>8 DEF Accounts

\* What is known of a mount that syncs, and that only mounts sync.
LEMMA SyncParts ==
    ASSUME BaseInv, EpochsAgree, NEW p \in Procs, life[p] # "off"
    PROVE  p \in Mounts /\ p # Tool /\ pendingDelta[p] \in Int /\ epoch[p] \in {0, 1}
<1>1. p # Tool
  BY DEF EpochsAgree
<1> QED
  BY <1>1 DEF BaseInv, TypeInv, TypeOK, EpochsAgree, Procs

\* A mount adopts the journal: it discards nothing and takes the journal's size
\* for its base.
LEMMA SyncBeginParts ==
    ASSUME BaseInv, EpochsAgree, NEW p \in Procs, SyncBegin(p)
    PROVE  /\ p \in Mounts /\ p # Tool
           /\ UNCHANGED <<sizes, journal, life, call, tool, setting, pendingDelta>>
           /\ \A q \in Procs : ~sync[q].on
           /\ epoch'[p] = 1 /\ \A q \in Procs \ {p} : epoch'[q] = epoch[q]
           /\ size'[p] = journal.size /\ \A q \in Procs \ {p} : size'[q] = size[q]
           /\ sync'[p].on /\ sync'[p].base = journal.size /\ sync'[p].delta = pendingDelta[p]
           /\ \A q \in Procs \ {p} : sync'[q] = sync[q]
<1>0. /\ UNCHANGED <<sizes, journal, life, call, tool, setting>>
      /\ life[p] # "off" /\ ~sync[p].on /\ \A q \in Procs : ~sync[q].on
  BY DEF SyncBegin, Syncs, Free, bounds
<1>1. p \in Mounts /\ p # Tool /\ pendingDelta[p] \in Int /\ epoch[p] \in {0, 1}
  BY <1>0, SyncParts
<1>2. /\ epoch \in [Procs -> Nat] /\ pendingDelta \in [Procs -> Int] /\ size \in [Procs -> Nat]
      /\ sync \in [Procs -> [on : BOOLEAN, base : Nat, delta : Int]]
      /\ life \in [Procs -> {"off", "starting", "up", "stopping"}]
      /\ journal.epoch \in {0, 1}
  BY DEF BaseInv, TypeInv, TypeOK, EpochsAgree
<1>3. ~(epoch[p] > journal.epoch)
  BY <1>0, <1>1 DEF EpochsAgree
<1>4. epoch[p] < journal.epoch => life[p] = "starting" /\ pendingDelta[p] = 0
  BY <1>0, <1>1, <1>2 DEF EpochsAgree
<1>5. pendingDelta' = pendingDelta
  BY <1>2, <1>4 DEF SyncBegin
<1>6. epoch'[p] = 1 /\ \A q \in Procs \ {p} : epoch'[q] = epoch[q]
  BY <1>1, <1>2, <1>3 DEF SyncBegin
<1>7. /\ sync'[p].on /\ sync'[p].base = journal.size /\ sync'[p].delta = pendingDelta[p]
      /\ \A q \in Procs \ {p} : sync'[q] = sync[q]
  BY <1>2, <1>3, <1>4 DEF SyncBegin
<1>8. size'[p] = journal.size /\ \A q \in Procs \ {p} : size'[q] = size[q]
  BY <1>2, <1>3 DEF SyncBegin
<1> QED
  BY <1>0, <1>1, <1>5, <1>6, <1>7, <1>8

\* The beginning of a sync moves nothing.
LEMMA SyncBeginAccounts ==
    ASSUME BaseInv, Accounts, NEW p \in Procs, SyncBegin(p)
    PROVE  Accounts'
<1> USE DEF Accounts
<1>0. /\ p \in Mounts /\ p # Tool
      /\ UNCHANGED <<sizes, journal, life, call, tool, setting, pendingDelta>>
      /\ \A q \in Procs : ~sync[q].on
  BY SyncBeginParts
<1>1. pendingDelta' = pendingDelta
  BY <1>0
<1>2. epoch'[p] = 1 /\ \A q \in Procs \ {p} : epoch'[q] = epoch[q]
  BY SyncBeginParts
<1>3. /\ sync'[p].on /\ sync'[p].base = journal.size /\ sync'[p].delta = pendingDelta[p]
      /\ \A q \in Procs \ {p} : sync'[q] = sync[q]
  BY SyncBeginParts
<1>4. CallsExact'
  BY <1>0 DEF CallsExact, Active, Owes
<1>5. EpochsAgree'
  BY <1>0, <1>1, <1>2, <1>3 DEF EpochsAgree, Procs
<1>6. Ledgers'
  <2>1. PICK acc, jr, snap \in [Files -> Nat] : Ledger(acc, jr, snap)
    BY DEF Ledgers
  <2>2. \A m \in Mounts : Share(m, acc, jr)' = Share(m, acc, jr)
    BY <1>0 DEF Share
  <2>3. \A h \in Handlers : Owes(h)' = Owes(h) /\ CallFiles(h)' = CallFiles(h)
    BY <1>0 DEF Owes, CallFiles
  <2>4. \A m \in Mounts : sync'[m].on => m = p
    BY <1>0, <1>3 DEF Procs
  <2>5. Ledger(acc, jr, acc)'
    BY <1>0, <1>1, <1>3, <2>1, <2>2, <2>3, <2>4 DEF Ledger
  <2> QED
    BY <2>5 DEF Ledgers
<1>7. Balanced'
  <2>1. \A h \in Handlers : Owed(h)' = Owed(h)
    BY <1>0 DEF Owed
  <2> QED
    BY <1>0, <1>1, <2>1, BalancedFrame
<1> QED
  BY <1>4, <1>5, <1>6, <1>7

\* A sync moves its delta into the journal, which does not bottom out.
LEMMA SyncEndAccounts ==
    ASSUME BaseInv, Accountable, Accounts, NEW p \in Procs, SyncEnd(p)
    PROVE  Accounts'
<1> USE DEF Accounts
<1>0. UNCHANGED <<sizes, epoch, call, tool, setting>> /\ sync[p].on
  BY DEF SyncEnd, bounds
<1>1. /\ life[p] # "off" /\ \A q \in Procs : sync[q].on => q = p
  BY <1>0 DEF BaseInv, OneSyncs
<1>2. p \in Mounts /\ p # Tool /\ pendingDelta[p] \in Int /\ epoch[p] = 1
  BY <1>0, <1>1, SyncParts DEF EpochsAgree
<1>3. /\ epoch \in [Procs -> Nat] /\ pendingDelta \in [Procs -> Int]
      /\ sync \in [Procs -> [on : BOOLEAN, base : Nat, delta : Int]]
      /\ life \in [Procs -> {"off", "starting", "up", "stopping"}]
      /\ journal.size \in Nat /\ sync[p].delta \in Int /\ sync[p].base = journal.size
  BY <1>0, <1>2 DEF BaseInv, TypeInv, TypeOK, EpochsAgree
<1>4. /\ pendingDelta'[p] = pendingDelta[p] - sync[p].delta
      /\ \A q \in Procs \ {p} : pendingDelta'[q] = pendingDelta[q]
  BY <1>3 DEF SyncEnd
<1>5. \A q \in Procs : ~sync'[q].on
  BY <1>1, <1>3 DEF SyncEnd, NoSync
<1>6. PICK acc, jr, snap \in [Files -> Nat] : Ledger(acc, jr, snap)
  BY DEF Ledgers
<1>7. PICK new \in [Files -> Nat] :
          \A f \in Files : new[f] = IF f \in setting.owns[p] THEN snap[f] ELSE jr[f]
  <2> DEFINE n == [f \in Files |-> IF f \in setting.owns[p] THEN snap[f] ELSE jr[f]]
  <2>1. n \in [Files -> Nat]
    BY <1>6
  <2> QED
    BY <2>1
<1> DEFINE moved == Share(p, snap, jr)
<1>8. new \in [Files -> Nat] /\ moved \in [Files -> Int] /\ \A f \in Files : new[f] = jr[f] + moved[f]
  BY <1>6, <1>7 DEF Share
<1>9. sync[p].delta = SumFunction(moved)
  BY <1>0, <1>2, <1>6 DEF Ledger
<1>10. SumFunction(new) = journal.size + sync[p].delta /\ SumFunction(new) \in Nat
  <2>1. journal.size = SumFunction(jr)
    BY <1>6 DEF Ledger
  <2>2. new \in [Files -> Int] /\ jr \in [Files -> Int]
    BY <1>6, <1>8
  <2> HIDE DEF moved
  <2>3. SumFunction(new) = SumFunction(jr) + SumFunction(moved)
    BY <1>8, <2>2, OwedType, SumAdd
  <2>4. SumFunction(new) \in Nat
    BY <1>8, OwedType, SumNat
  <2> QED
    BY <1>9, <2>1, <2>3, <2>4
<1>11. journal'.size = journal.size + sync[p].delta /\ journal'.epoch = 1
  <2>1. journal.size + sync[p].delta \in Nat
    BY <1>10
  <2>2. Applied(sync[p].base, sync[p].delta) = journal.size + sync[p].delta
    BY <1>3, <2>1 DEF Applied
  <2> QED
    BY <1>2, <2>2 DEF SyncEnd
<1>12. CallsExact'
  BY <1>0 DEF CallsExact, Active, Owes
<1>13. EpochsAgree'
  <2>1. \A q \in Procs \ {p} : life'[q] = life[q]
    BY <1>3 DEF SyncEnd
  <2>2. /\ life[p] \in {"starting", "up"} => life'[p] = "up"
        /\ life[p] = "stopping" => life'[p] = "off" /\ pendingDelta'[p] = 0
    BY <1>0, <1>2, <1>3, <1>4 DEF SyncEnd, Lives, EpochsAgree
  <2>3. life'[p] \in {"up", "off"} /\ (life'[p] = "off" => pendingDelta'[p] = 0)
    BY <1>1, <1>3, <2>2
  <2>4. /\ life'[Tool] = "off" /\ tool'.pc = "idle"
    BY <1>0, <1>2, <2>1 DEF EpochsAgree, Procs
  <2>5. ASSUME NEW m \in Mounts
        PROVE  /\ epoch'[m] \in {0, 1} /\ ~sync'[m].on
               /\ life'[m] \in {"up", "stopping"} => epoch'[m] = 1
               /\ ~(epoch'[m] > journal'.epoch)
               /\ life'[m] \in {"off", "starting"} => pendingDelta'[m] = 0
    <3>1. epoch'[m] \in {0, 1} /\ ~sync'[m].on /\ ~(epoch'[m] > journal'.epoch)
      BY <1>0, <1>5, <1>11 DEF EpochsAgree, Procs
    <3>2. CASE m = p
      BY <1>0, <1>2, <2>3, <3>1, <3>2
    <3>3. CASE m # p
      BY <1>0, <1>4, <2>1, <3>1, <3>3 DEF EpochsAgree, Procs
    <3> QED
      BY <3>1, <3>2, <3>3
  <2> QED
    BY <1>11, <2>4, <2>5 DEF EpochsAgree
<1>14. Ledgers'
  <2>1. \A h \in Handlers : Owes(h)' = Owes(h) /\ CallFiles(h)' = CallFiles(h)
    BY <1>0 DEF Owes, CallFiles
  <2>2. \A m \in Mounts \ {p} : Share(m, acc, new)' = Share(m, acc, jr)
    <3> SUFFICES ASSUME NEW m \in Mounts \ {p}
                 PROVE  Share(m, acc, new)' = Share(m, acc, jr)
      OBVIOUS
    <3>1. setting.owns[m] \cap setting.owns[p] = {}
      BY <1>2 DEF Accountable
    <3>2. \A f \in Files : f \in setting.owns[m] => new[f] = jr[f]
      BY <1>7, <3>1
    <3> QED
      BY <1>0, <3>2 DEF Share
  <2>3. pendingDelta'[p] = SumFunction(Share(p, acc, new)')
    <3> DEFINE u == Share(p, acc, jr)
               w == Share(p, acc, new)
    <3>1. u \in [Files -> Int] /\ w \in [Files -> Int] /\ \A f \in Files : u[f] = w[f] + moved[f]
      BY <1>6, <1>7 DEF Share
    <3>2. Share(p, acc, new)' = w
      BY <1>0 DEF Share
    <3>3. pendingDelta[p] = SumFunction(u)
      BY <1>2, <1>6 DEF Ledger
    <3> HIDE DEF u, w, moved
    <3>4. SumFunction(u) = SumFunction(w) + SumFunction(moved) /\ SumFunction(w) \in Int
      BY <1>8, <3>1, OwedType, SumAdd, SumType
    <3> QED
      BY <1>3, <1>4, <1>9, <3>2, <3>3, <3>4
  <2> HIDE DEF moved
  <2>4. \A m \in Mounts : ~sync'[m].on
    BY <1>5 DEF Procs
  <2>5. \A m \in Mounts : pendingDelta'[m] = SumFunction(Share(m, acc, new)')
    BY <1>4, <1>6, <2>2, <2>3 DEF Ledger, Procs
  <2>6. journal'.size = SumFunction(new)
    BY <1>10, <1>11
  <2>7. Ledger(acc, new, snap)'
    BY <1>0, <1>6, <2>1, <2>4, <2>5, <2>6 DEF Ledger
  <2> QED
    BY <1>6, <1>8, <2>7 DEF Ledgers
<1>15. Balanced'
  <2> DEFINE v == [m \in Mounts |-> pendingDelta[m]]
             w == [m \in Mounts |-> pendingDelta'[m]]
             o == SumFunction([h \in Handlers |-> Owed(h)])
  <2>1. /\ v \in [Mounts -> Int] /\ w \in [Mounts -> Int] /\ v[p] = pendingDelta[p]
        /\ w[p] = pendingDelta[p] - sync[p].delta /\ \A m \in Mounts \ {p} : w[m] = v[m]
    BY <1>2, <1>3, <1>4 DEF Procs
  <2>2. [h \in Handlers |-> Owed(h)'] = [h \in Handlers |-> Owed(h)] /\ Total' = Total
    BY <1>0 DEF Owed, Total
  <2>3. o \in Int /\ Total \in Int /\ Total = journal.size + SumFunction(v) + o
    BY OwedType, SumType, TotalType DEF Balanced, BaseInv, TypeInv
  <2>4. Balanced' <=> Total' = journal'.size + SumFunction(w) + SumFunction([h \in Handlers |-> Owed(h)'])
    BY DEF Balanced
  <2>5. Balanced' <=> Total = journal'.size + SumFunction(w) + o
    BY <2>2, <2>4
  <2> HIDE DEF v, w, o
  <2>6. SumFunction(w) = SumFunction(v) + w[p] - v[p] /\ SumFunction(v) \in Int
    BY <1>2, <2>1, OwedType, SumChange, SumType
  <2> QED
    BY <1>3, <1>2, <1>11, <2>1, <2>3, <2>5, <2>6
<1> QED
  BY <1>12, <1>13, <1>14, <1>15

\* A mount that starts or stops has nothing pending that its start would lose.
LEMMA MountAccounts ==
    ASSUME BaseInv, Accountable, Accounts, NEW m \in Mounts, Start(m) \/ Stop(m)
    PROVE  Accounts'
<1> USE DEF Accounts
<1>0. UNCHANGED <<sizes, journal, sync, call, tool, setting>> /\ m \in Procs
  BY DEF Start, Stop, bounds, Procs
<1>1. /\ epoch \in [Procs -> Nat] /\ pendingDelta \in [Procs -> Int]
      /\ life \in [Procs -> {"off", "starting", "up", "stopping"}]
  BY DEF BaseInv, TypeInv, TypeOK
<1>2. pendingDelta' = pendingDelta /\ \A q \in Procs \ {m} : life'[q] = life[q] /\ epoch'[q] = epoch[q]
  <2>1. CASE Start(m)
    <3>1. pendingDelta[m] = 0 /\ pendingDelta' = [pendingDelta EXCEPT ![m] = 0]
      BY <2>1 DEF Start, CreateSizeJournal, EpochsAgree
    <3>2. pendingDelta' = pendingDelta
      BY <1>1, <3>1
    <3> QED
      BY <1>1, <2>1, <3>2 DEF Start, CreateSizeJournal
  <2>2. CASE Stop(m)
    BY <1>1, <2>2 DEF Stop, mountSize
  <2> QED
    BY <2>1, <2>2
<1>3. ~sync[m].on
  BY <1>0 DEF Start, Stop, CreateSizeJournal, BaseInv, OneSyncs
<1>4. \/ life'[m] = "starting" /\ epoch'[m] = 0 /\ pendingDelta[m] = 0
      \/ life'[m] = "stopping" /\ life[m] = "up" /\ epoch' = epoch
  BY <1>0, <1>1 DEF Start, Stop, CreateSizeJournal, EpochsAgree, mountSize
<1>5. EpochsAgree'
  <2>1. life'[Tool] = "off" /\ tool'.pc = "idle" /\ journal'.epoch \in {0, 1}
    BY <1>0, <1>2, SizeAssumption DEF EpochsAgree, Procs
  <2>2. \A n \in Mounts \ {m} : /\ life'[n] = life[n] /\ epoch'[n] = epoch[n]
                                /\ sync'[n] = sync[n] /\ pendingDelta'[n] = pendingDelta[n]
    BY <1>0, <1>2 DEF Procs
  <2>3. /\ epoch'[m] \in {0, 1} /\ ~sync'[m].on /\ ~(epoch'[m] > journal'.epoch)
        /\ life'[m] \in {"up", "stopping"} => epoch'[m] = 1
        /\ life'[m] \in {"off", "starting"} => pendingDelta'[m] = 0
    BY <1>0, <1>2, <1>3, <1>4 DEF EpochsAgree
  <2>4. ASSUME NEW n \in Mounts
        PROVE  /\ epoch'[n] \in {0, 1}
               /\ life'[n] \in {"up", "stopping"} \/ sync'[n].on => epoch'[n] = 1
               /\ sync'[n].on => sync'[n].base = journal'.size
               /\ epoch'[n] > journal'.epoch => sync'[n].on
               /\ life'[n] \in {"off", "starting"} =>
                    pendingDelta'[n] = 0 /\ (sync'[n].on => sync'[n].delta = 0)
               /\ life'[n] = "stopping" /\ sync'[n].on => sync'[n].delta = pendingDelta'[n]
    <3>1. CASE n = m
      BY <2>3, <3>1
    <3>2. CASE n # m
      BY <1>0, <2>2, <3>2 DEF EpochsAgree
    <3> QED
      BY <3>1, <3>2
  <2> QED
    BY <2>1, <2>4 DEF EpochsAgree
<1>6. CallsExact'
  BY <1>0 DEF CallsExact, Active, Owes
<1>7. Ledgers'
  BY <1>0, <1>2, LedgerFrame DEF Owes
<1>8. Balanced'
  <2>1. \A h \in Handlers : Owed(h)' = Owed(h)
    BY <1>0 DEF Owed
  <2> QED
    BY <1>0, <1>2, <2>1, BalancedFrame
<1> QED
  BY <1>5, <1>6, <1>7, <1>8

\* A step of a call that has not acted on the bucket yet, and does not now.
LEMMA QuietAccounts ==
    ASSUME BaseInv, Accounts, NEW h \in Handlers,
           UNCHANGED <<setting, sizes, journal, mountSize, life, sync, tool>>,
           \A k \in Handlers \ {h} : call'[k] = call[k], ~Owes(h), ~Owes(h)',
           Active(h)' => call'[h].seen = sizes[call'[h].to]
    PROVE  Accounts'
<1> USE DEF Accounts
<1>1. EpochsAgree'
  BY DEF EpochsAgree, mountSize
<1>2. CallsExact'
  BY DEF CallsExact, Active, Owes
<1>3. Ledgers'
  <2>1. \A k \in Handlers : Owes(k)' = Owes(k)
    BY DEF Owes
  <2>2. \A k \in Handlers : Owes(k) => call'[k] = call[k]
    OBVIOUS
  <2> QED
    BY <2>1, <2>2, LedgerFrame DEF mountSize
<1>4. Balanced'
  <2>1. Owed(h) = 0 /\ Owed(h)' = 0
    BY DEF Owed, Owes
  <2>2. \A k \in Handlers \ {h} : Owed(k)' = Owed(k)
    BY DEF Owed
  <2> QED
    BY <2>1, <2>2, BalancedFrame DEF mountSize
<1> QED
  BY <1>1, <1>2, <1>3, <1>4

\* The first steps of a call, and a call that fails.
LEMMA EarlyAccounts ==
    ASSUME BaseInv, Accountable, Accounts, NEW h \in Handlers,
           \/ \E op \in Ops, f, to \in Files, arg \in 0 .. MaxSize : Begin(h, op, f, to, arg)
           \/ GetSizeDelta(h) \/ GetSizeBase(h) \/ DoFailed(h)
    PROVE  Accounts'
<1>0. call \in [Handlers -> Call] /\ call[h] \in Call
  BY DEF BaseInv, TypeInv, TypeOK
<1>1. ASSUME NEW op \in Ops, NEW f \in Files, NEW to \in Files, NEW arg \in 0 .. MaxSize,
             Begin(h, op, f, to, arg)
      PROVE  Accounts'
  <2>1. UNCHANGED <<sizes, journal, mountSize, life, sync, tool, setting>> /\ call[h].pc = "idle"
    BY <1>1 DEF Begin
  <2>2. Answers(to) = {sizes[to]}
    BY Zenon DEF Answers, Accountable
  <2>3. /\ \A k \in Handlers \ {h} : call'[k] = call[k]
        /\ call'[h].to = to /\ call'[h].pc \in {"delta", "do"} /\ call'[h].seen = sizes[to]
    BY <1>0, <1>1, <2>2 DEF Begin
  <2> QED
    BY <2>1, <2>3, QuietAccounts DEF Owes
<1>2. CASE GetSizeDelta(h) \/ GetSizeBase(h) \/ DoFailed(h)
  <2>1. /\ UNCHANGED <<sizes, journal, mountSize, life, sync, tool, setting>>
        /\ call[h].pc \in {"delta", "size", "do"}
    BY <1>2 DEF GetSizeDelta, GetSizeBase, DoFailed, bounds
  <2>2. \A k \in Handlers \ {h} : call'[k] = call[k]
    BY <1>0, <1>2 DEF GetSizeDelta, GetSizeBase, DoFailed
  <2>3. \/ call'[h].pc = "idle"
        \/ call'[h].pc \in {"size", "do"} /\ call'[h].to = call[h].to /\ call'[h].seen = call[h].seen
    <3>1. CASE GetSizeDelta(h)
      BY <1>0, <3>1 DEF GetSizeDelta, Call
    <3>2. CASE GetSizeBase(h) \/ DoFailed(h)
      BY <1>0, <3>2, NoCallType DEF GetSizeBase, DoFailed, Call
    <3> QED
      BY <1>2, <3>1, <3>2
  <2>4. call[h].seen = sizes[call[h].to]
    BY <2>1 DEF Accounts, CallsExact, Active, Owes
  <2> QED
    BY <2>1, <2>2, <2>3, <2>4, QuietAccounts DEF Owes, Active
<1> QED
  BY <1>1, <1>2

\* CommitData finds the size it left.
LEMMA RereadAccounts ==
    ASSUME BaseInv, Accountable, Accounts, NEW h \in Handlers, Reread(h)
    PROVE  Accounts'
<1> USE DEF Accounts
<1>0. /\ call \in [Handlers -> Call] /\ call[h] \in Call /\ call[h].pc = "reread"
      /\ UNCHANGED <<sizes, journal, mountSize, life, sync, tool, setting>>
  BY DEF BaseInv, TypeInv, TypeOK, Reread, bounds
<1>1. Answers(call[h].file) = {sizes[call[h].file]}
  BY Zenon DEF Answers, Accountable
<1>2. /\ \A k \in Handlers \ {h} : call'[k] = call[k]
      /\ call'[h].pc = "add" /\ call'[h].delta = Known(sizes[call[h].file]) - Known(call[h].seen)
      /\ call'[h].file = call[h].file /\ call'[h].to = call[h].to
      /\ call'[h].op = call[h].op /\ call'[h].seen = call[h].seen
  BY <1>0, <1>1 DEF Reread, Call
<1>3. call[h].op = "commit"
  BY <1>0 DEF BaseInv, CallsLinked, Active
<1>4. EpochsAgree'
  BY <1>0 DEF EpochsAgree, mountSize
<1>5. CallsExact'
  BY <1>0, <1>2, <1>3 DEF CallsExact, Active, Owes
<1>6. Ledgers'
  <2>1. \A k \in Handlers : Owes(k)' = Owes(k)
    BY <1>0, <1>2 DEF Owes
  <2> QED
    BY <1>0, <1>2, <2>1, LedgerFrame DEF mountSize
<1>7. Balanced'
  <2>1. Owed(h)' = Owed(h)
    BY <1>0, <1>2 DEF Owed
  <2>2. \A k \in Handlers \ {h} : Owed(k)' = Owed(k)
    BY <1>0, <1>2 DEF Owed
  <2> QED
    BY <1>0, <2>1, <2>2, BalancedFrame DEF mountSize
<1> QED
  BY <1>4, <1>5, <1>6, <1>7

\* What an operation other than rename counts is what it does to the size.
LEMMA DifferenceExact ==
    ASSUME NEW op, op # "rename", NEW s \in NoFile .. MaxSize, NEW arg \in 0 .. MaxSize
    PROVE  Difference(op, s, arg) = Known(Resized(op, s, arg)) - Known(s)
<1>1. Known(s) \in Int /\ Known(s) \in 0 .. MaxSize /\ arg \in Int
  BY NumberTypes
<1>2. CASE op = "create"
  <2>1. Resized(op, s, arg) = 0
    BY <1>2 DEF Resized
  <2> QED
    BY <1>1, <1>2, <2>1 DEF Difference, Replacing, Known, NoFile
<1>3. CASE op = "delete"
  <2>1. Resized(op, s, arg) = NoFile
    BY <1>3 DEF Resized
  <2>2. Known(NoFile) = 0
    BY DEF Known
  <2>3. Difference(op, s, arg) = -Known(s)
    BY <1>3 DEF Difference, Replacing
  <2> QED
    BY <1>1, <2>1, <2>2, <2>3
<1>4. CASE op \notin {"create", "delete"}
  <2>1. Max({Known(s), arg}) \in 0 .. MaxSize
    BY <1>1, MaxOfTwo
  <2>2. Resized(op, s, arg) \in 0 .. MaxSize
    BY <1>4, <2>1 DEF Resized
  <2>3. Known(Resized(op, s, arg)) = Resized(op, s, arg)
    BY <2>2 DEF Known, NoFile
  <2>4. Difference(op, s, arg) = Resized(op, s, arg) - Known(s)
    BY <1>4 DEF Difference, Replacing
  <2> QED
    BY <2>3, <2>4
<1> QED
  BY <1>2, <1>3, <1>4

\* What the operation of a call does to the bucket and to the call.
LEMMA DoParts ==
    ASSUME BaseInv, Accountable, CallsExact, NEW h \in Handlers, Do(h)
    PROVE  /\ call[h].pc = "do" /\ Active(h) /\ call[h].file \in Files /\ call[h].to \in Files
           /\ call[h].seen = sizes[call[h].to]
           /\ UNCHANGED <<setting, journal, mountSize, life, sync, tool>>
           /\ \A k \in Handlers \ {h} : call'[k] = call[k]
           /\ \A f \in Files \ CallFiles(h) : sizes'[f] = sizes[f]
           /\ call'[h].pc = IF call[h].op = "commit" THEN "reread" ELSE "add"
           /\ call'[h].file = call[h].file /\ call'[h].to = call[h].to
           /\ call'[h].op = call[h].op /\ call'[h].seen = call[h].seen
           /\ call[h].op = "rename" =>
                /\ call[h].file # call[h].to /\ sizes'[call[h].file] = NoFile
                /\ sizes'[call[h].to] = sizes[call[h].file]
                /\ call'[h].delta = -Known(call[h].seen)
           /\ call[h].op # "rename" =>
                /\ call[h].file = call[h].to
                /\ call[h].op # "commit" =>
                     call'[h].delta = Known(sizes'[call[h].file]) - Known(call[h].seen)
<1> DEFINE c == call[h]
<1>1. c.pc = "do" /\ Active(h) /\ ~Owes(h) /\ UNCHANGED <<setting, journal, mountSize, life, sync, tool>>
  BY DEF Do, Active, Owes, bounds
<1>2. /\ c.file \in Files /\ c.to \in Files /\ c \in Call /\ c.seen \in NoFile .. MaxSize
      /\ c.arg \in 0 .. MaxSize /\ (c.op = "rename" <=> c.file # c.to)
  BY <1>1, CallParts DEF BaseInv, CallsLinked
<1>3. c.seen = sizes[c.to]
  BY <1>1 DEF CallsExact
<1>4. call \in [Handlers -> Call] /\ sizes \in [Files -> NoFile .. MaxSize]
  BY DEF BaseInv, TypeInv, TypeOK
<1>5. /\ c.op = "rename" => sizes' = [sizes EXCEPT ![c.to] = sizes[c.file], ![c.file] = NoFile]
      /\ c.op # "rename" => sizes' = [sizes EXCEPT ![c.file] = Resized(c.op, sizes[c.file], c.arg)]
  BY DEF Do
<1>6. \A f \in Files \ CallFiles(h) : sizes'[f] = sizes[f]
  <2>1. \A f \in Files : f \notin CallFiles(h) <=> f # c.file /\ f # c.to
    BY DEF CallFiles
  <2> HIDE DEF c
  <2> QED
    BY <1>2, <1>4, <1>5, <2>1
<1>7. c.op = "rename" => sizes'[c.file] = NoFile /\ sizes'[c.to] = sizes[c.file]
  <2> HIDE DEF c
  <2> QED
    BY <1>2, <1>4, <1>5
<1>8. c.op # "rename" => c.file = c.to /\ sizes'[c.file] = Resized(c.op, c.seen, c.arg)
  <2> HIDE DEF c
  <2> QED
    BY <1>2, <1>3, <1>4, <1>5
<1>9. /\ \A k \in Handlers \ {h} : call'[k] = call[k]
      /\ c.op = "commit" => call'[h] = [c EXCEPT !.pc = "reread"]
      /\ c.op # "commit" => call'[h] = [c EXCEPT !.pc = "add", !.delta = Difference(c.op, c.seen, c.arg)]
  BY <1>4 DEF Do
<1>10. /\ call'[h].pc = IF c.op = "commit" THEN "reread" ELSE "add"
       /\ call'[h].file = c.file /\ call'[h].to = c.to
       /\ call'[h].op = c.op /\ call'[h].seen = c.seen
       /\ c.op # "commit" => call'[h].delta = Difference(c.op, c.seen, c.arg)
  <2> HIDE DEF c
  <2> QED
    BY <1>2, <1>9 DEF Call
<1>11. c.op = "rename" => call'[h].delta = -Known(c.seen)
  BY <1>10 DEF Difference, Replacing
<1>12. c.op \notin {"rename", "commit"} => call'[h].delta = Known(sizes'[c.file]) - Known(c.seen)
  <2>1. c.op # "rename" => Difference(c.op, c.seen, c.arg) = Known(Resized(c.op, c.seen, c.arg)) - Known(c.seen)
    BY <1>2, DifferenceExact
  <2> QED
    BY <1>8, <1>10, <2>1
<1> QED
  BY <1>1, <1>2, <1>3, <1>6, <1>7, <1>8, <1>9, <1>10, <1>11, <1>12

\* The operation itself: the call owes what the bucket gains.
LEMMA DoAccounts ==
    ASSUME BaseInv, BaseInv', Accountable, Accounts, NEW h \in Handlers, Do(h)
    PROVE  Accounts'
<1> USE DEF Accounts
<1> DEFINE c == call[h]
<1>0. /\ c.pc = "do" /\ Active(h) /\ c.file \in Files /\ c.to \in Files
      /\ c.seen = sizes[c.to]
      /\ UNCHANGED <<setting, journal, mountSize, life, sync, tool>>
      /\ \A k \in Handlers \ {h} : call'[k] = call[k]
      /\ \A f \in Files \ CallFiles(h) : sizes'[f] = sizes[f]
      /\ call'[h].pc = IF c.op = "commit" THEN "reread" ELSE "add"
      /\ call'[h].file = c.file /\ call'[h].to = c.to
      /\ call'[h].op = c.op /\ call'[h].seen = c.seen
  BY DoParts
<1>1. /\ c.op = "rename" => /\ c.file # c.to /\ sizes'[c.file] = NoFile
                            /\ sizes'[c.to] = sizes[c.file]
                            /\ call'[h].delta = -Known(c.seen)
      /\ c.op # "rename" =>
           /\ c.file = c.to
           /\ c.op # "commit" => call'[h].delta = Known(sizes'[c.file]) - Known(c.seen)
  BY DoParts
<1>2. CallFiles(h) = {c.file, c.to} /\ CallFiles(h)' = {c.file, c.to} /\ Owes(h)' /\ ~Owes(h)
  BY <1>0 DEF CallFiles, Owes
<1>3. ASSUME NEW k \in Handlers \ {h}, Active(k)
      PROVE  /\ call[k].file \in Files /\ call[k].to \in Files
             /\ sizes'[call[k].file] = sizes[call[k].file] /\ sizes'[call[k].to] = sizes[call[k].to]
             /\ call[k].file \notin CallFiles(h) /\ call[k].to \notin CallFiles(h)
  <2>1. CallFiles(h) \cap CallFiles(k) = {}
    BY <1>0, <1>3, CallsApart
  <2>2. call[k].file \in Files /\ call[k].to \in Files
    BY <1>3, CallParts
  <2> QED
    BY <1>0, <2>1, <2>2 DEF CallFiles
<1>4. EpochsAgree'
  BY <1>0 DEF EpochsAgree, mountSize
<1>5. CallsExact'
  <2>1. ASSUME NEW k \in Handlers
        PROVE  /\ Active(k)' /\ ~Owes(k)' => call'[k].seen = sizes'[call'[k].to]
               /\ call'[k].pc = "add" =>
                    call'[k].delta = IF call'[k].op = "rename" THEN -Known(call'[k].seen)
                                     ELSE Known(sizes'[call'[k].file]) - Known(call'[k].seen)
               /\ call'[k].pc = "add" /\ call'[k].op = "rename" => sizes'[call'[k].file] = NoFile
    <3>1. CASE k = h
      BY <1>0, <1>1, <1>2, <3>1
    <3>2. CASE k # h
      <4>1. call'[k] = call[k] /\ Active(k)' = Active(k) /\ Owes(k)' = Owes(k)
        BY <1>0, <3>2 DEF Active, Owes
      <4>2. call[k].pc = "add" => Active(k)
        BY DEF Active
      <4> QED
        BY <1>3, <3>2, <4>1, <4>2 DEF CallsExact
    <3> QED
      BY <3>1, <3>2
  <2> QED
    BY <2>1 DEF CallsExact
<1>6. Ledgers'
  <2>1. PICK acc, jr, snap \in [Files -> Nat] : Ledger(acc, jr, snap)
    BY DEF Ledgers
  <2>2. \A m \in Mounts : Share(m, acc, jr)' = Share(m, acc, jr) /\ Share(m, snap, jr)' = Share(m, snap, jr)
    BY <1>0 DEF Share
  <2>3. \A k \in Handlers \ {h} : Owes(k)' = Owes(k) /\ CallFiles(k)' = CallFiles(k)
    BY <1>0 DEF Owes, CallFiles
  <2>4. \A f \in CallFiles(h) : acc[f] = Known(sizes[f])
    <3> SUFFICES ASSUME NEW f \in CallFiles(h) PROVE acc[f] = Known(sizes[f])
      OBVIOUS
    <3>1. \A k \in Handlers : Owes(k) => f \notin CallFiles(k)
      <4> SUFFICES ASSUME NEW k \in Handlers, Owes(k) PROVE f \notin CallFiles(k)
        OBVIOUS
      <4>1. k # h /\ Active(k)
        BY <1>2 DEF Owes, Active
      <4> QED
        BY <1>0, <4>1, CallsApart
    <3>2. f \in Files
      BY <1>0, <1>2
    <3> QED
      BY <2>1, <3>1, <3>2 DEF Ledger
  <2>5. ASSUME NEW f \in Files, \A k \in Handlers : Owes(k)' => f \notin CallFiles(k)'
        PROVE  acc[f] = Known(sizes'[f])
    <3>1. f \notin CallFiles(h)
      BY <1>2, <2>5
    <3>2. \A k \in Handlers : Owes(k) => f \notin CallFiles(k)
      BY <1>2, <2>3, <2>5
    <3> QED
      BY <1>0, <2>1, <3>1, <3>2 DEF Ledger
  <2>6. ASSUME NEW k \in Handlers, Owes(k)'
        PROVE  /\ acc[call'[k].to] = Known(call'[k].seen)
               /\ call'[k].op = "rename" => acc[call'[k].file] = Known(sizes'[call'[k].to])
    <3>1. CASE k = h
      BY <1>0, <1>1, <1>2, <2>4, <3>1
    <3>2. CASE k # h
      <4>1. call'[k] = call[k] /\ Owes(k) /\ Active(k)
        BY <1>0, <2>3, <2>6, <3>2 DEF Active, Owes
      <4>2. sizes'[call[k].to] = sizes[call[k].to]
        BY <1>3, <3>2, <4>1
      <4> QED
        BY <2>1, <4>1, <4>2 DEF Ledger
    <3> QED
      BY <3>1, <3>2
  <2>7. /\ journal'.size = SumFunction(jr)
        /\ \A m \in Mounts : pendingDelta'[m] = SumFunction(Share(m, acc, jr)')
        /\ \A m \in Mounts : sync'[m].on => sync'[m].delta = SumFunction(Share(m, snap, jr)')
    BY <1>0, <2>1, <2>2 DEF Ledger, mountSize
  <2>8. Ledger(acc, jr, snap)'
    BY <2>5, <2>6, <2>7 DEF Ledger
  <2> QED
    BY <2>8 DEF Ledgers
<1>7. Balanced'
  <2> DEFINE v == [f \in Files |-> Known(sizes[f])]
             w == [f \in Files |-> Known(sizes'[f])]
             u == [k \in Handlers |-> Owed(k)]
             o == [k \in Handlers |-> Owed(k)']
             d == SumFunction([m \in Mounts |-> pendingDelta[m]])
  <2>1. /\ v \in [Files -> Int] /\ u \in [Handlers -> Int] /\ d \in Int
        /\ w \in [Files -> Int] /\ o \in [Handlers -> Int]
    <3>1. v \in [Files -> Int] /\ u \in [Handlers -> Int] /\ d \in Int
      BY OwedType, SumType
    <3>2. [f \in Files |-> Known(sizes'[f])] \in [Files -> Int]
      BY NumberTypes DEF BaseInv, TypeInv, TypeOK
    <3>3. [k \in Handlers |-> Owed(k)'] \in [Handlers -> Int]
      <4>1. ASSUME NEW k \in Handlers PROVE Owed(k)' \in Int
        <5>1. /\ call'[k].delta \in Int /\ call'[k].seen \in NoFile .. MaxSize
              /\ (Active(k)' => call'[k].file \in Files)
          BY DEF BaseInv, TypeInv, TypeOK, Call, CallsOnFiles, Active
        <5>2. Known(call'[k].seen) \in Int
          BY <5>1, NumberTypes
        <5>3. call'[k].pc = "reread" => Known(sizes'[call'[k].file]) \in Int
          BY <5>1, NumberTypes DEF BaseInv, TypeInv, TypeOK, Active
        <5> QED
          BY <5>1, <5>2, <5>3 DEF Owed
      <4> QED
        BY <4>1
    <3> QED
      BY <3>1, <3>2, <3>3
  <2>2. \A k \in Handlers \ {h} : o[k] = u[k]
    <3> SUFFICES ASSUME NEW k \in Handlers \ {h} PROVE Owed(k)' = Owed(k)
      OBVIOUS
    <3>1. call'[k] = call[k] /\ (call[k].pc = "reread" => sizes'[call[k].file] = sizes[call[k].file])
      BY <1>0, <1>3 DEF Active
    <3> QED
      BY <3>1 DEF Owed
  <2>3. u[h] = 0
    BY <1>0 DEF Owed
  <2>4. o[h] = IF c.op = "commit" THEN Known(sizes'[c.file]) - Known(c.seen) ELSE call'[h].delta
    BY <1>0 DEF Owed
  <2>5. SumFunction(w) = SumFunction(v) + o[h]
    <3>1. CASE c.op = "rename"
      <4> DEFINE x == [v EXCEPT ![c.to] = w[c.to]]
      <4>1. x \in [Files -> Int] /\ \A f \in Files \ {c.to} : x[f] = v[f]
        BY <2>1
      <4>2. x[c.to] = w[c.to]
        BY <1>0
      <4>3. \A f \in Files \ {c.file} : w[f] = x[f]
        BY <1>0, <1>2, <4>2
      <4>4. /\ v[c.to] = Known(c.seen) /\ w[c.to] = v[c.file] /\ x[c.file] = v[c.file] /\ w[c.file] = 0
        BY <1>0, <1>1, <3>1 DEF Known
      <4>5. o[h] = -Known(c.seen) /\ Known(c.seen) \in Int /\ v[c.file] \in Int
        BY <1>0, <1>1, <2>4, <3>1, CallParts, <2>1
      <4> HIDE DEF v, w, x, o, c
      <4>6. SumFunction(x) = SumFunction(v) + x[c.to] - v[c.to]
        BY <1>0, <2>1, <4>1, OwedType, SumChange
      <4>7. SumFunction(w) = SumFunction(x) + w[c.file] - x[c.file]
        BY <1>0, <2>1, <4>1, <4>3, OwedType, SumChange
      <4>8. SumFunction(v) \in Int
        BY <2>1, OwedType, SumType
      <4> QED
        BY <4>2, <4>4, <4>5, <4>6, <4>7, <4>8
    <3>2. CASE c.op # "rename"
      <4>1. \A f \in Files \ {c.file} : w[f] = v[f]
        BY <1>0, <1>1, <1>2, <3>2
      <4>2. o[h] = w[c.file] - v[c.file]
        BY <1>0, <1>1, <2>4, <3>2
      <4> HIDE DEF v, w, o, c
      <4>3. SumFunction(w) = SumFunction(v) + w[c.file] - v[c.file]
        BY <1>0, <2>1, <4>1, OwedType, SumChange
      <4>4. SumFunction(v) \in Int /\ w[c.file] \in Int /\ v[c.file] \in Int
        BY <1>0, <2>1, OwedType, SumType
      <4> QED
        BY <4>2, <4>3, <4>4
    <3> QED
      BY <3>1, <3>2
  <2>6. SumFunction(v) = journal.size + d + SumFunction(u)
    BY DEF Balanced, Total
  <2>7. Balanced' <=> SumFunction(w) = journal'.size + SumFunction([m \in Mounts |-> pendingDelta'[m]])
                                         + SumFunction(o)
    BY DEF Balanced, Total
  <2>8. Balanced' <=> SumFunction(w) = journal.size + d + SumFunction(o)
    BY <1>0, <2>7 DEF mountSize
  <2> HIDE DEF v, w, u, o, d, c
  <2>9. SumFunction(o) = SumFunction(u) + o[h] - u[h]
    BY <2>1, <2>2, OwedType, SumChange
  <2>10. SumFunction(u) \in Int /\ o[h] \in Int /\ journal.size \in Int
    BY <2>1, OwedType, SumType
  <2> QED
    BY <2>1, <2>3, <2>5, <2>6, <2>8, <2>9, <2>10
<1> QED
  BY <1>4, <1>5, <1>6, <1>7

\* What a call adds is what its mount's part of the ledger gains.
LEMMA AddLedger ==
    ASSUME BaseInv, Accountable, CallsExact, NEW h \in Handlers, call[h].pc = "add",
           NEW acc \in [Files -> Nat], NEW jr \in [Files -> Nat], NEW snap \in [Files -> Nat],
           Ledger(acc, jr, snap), NEW new \in [Files -> Nat],
           \A f \in Files : new[f] = IF f \in CallFiles(h) THEN Known(sizes[f]) ELSE acc[f]
    PROVE  SumFunction(Share(MountOf[h], new, jr))
             = SumFunction(Share(MountOf[h], acc, jr)) + call[h].delta
<1> DEFINE c == call[h]
           m == MountOf[h]
           v == Share(m, acc, jr)
           w == Share(m, new, jr)
<1>1. Active(h) /\ Owes(h)
  BY DEF Active, Owes
<1>2. /\ c.file \in Files /\ c.to \in Files /\ Known(c.seen) \in Nat /\ c.delta \in Int
      /\ CallFiles(h) = {c.file, c.to} /\ c.file \in setting.owns[m] /\ c.to \in setting.owns[m]
      /\ (c.op = "rename" <=> c.file # c.to)
  BY <1>1, CallParts DEF BaseInv, CallsLinked, CallFiles
<1>3. /\ acc[c.to] = Known(c.seen) /\ (c.op = "rename" => acc[c.file] = Known(sizes[c.to]))
  BY <1>1 DEF Ledger
<1>4. /\ c.op = "rename" => c.delta = -Known(c.seen) /\ sizes[c.file] = NoFile
      /\ c.op # "rename" => c.delta = Known(sizes[c.file]) - Known(c.seen)
  BY DEF CallsExact
<1>5. Known(sizes[c.file]) \in Int /\ Known(sizes[c.to]) \in Int
  BY <1>2, NumberTypes DEF BaseInv, TypeInv, TypeOK
<1>6. v \in [Files -> Int] /\ w \in [Files -> Int]
  BY DEF Share
<1>7. /\ v[c.to] = Known(c.seen) - jr[c.to] /\ w[c.to] = Known(sizes[c.to]) - jr[c.to]
      /\ w[c.file] = Known(sizes[c.file]) - jr[c.file] /\ v[c.file] = acc[c.file] - jr[c.file]
      /\ jr[c.to] \in Int /\ jr[c.file] \in Int
  BY <1>2, <1>3 DEF Share
<1>8. \A f \in Files \ {c.file, c.to} : w[f] = v[f]
  BY <1>2 DEF Share
<1>9. CASE c.op = "rename"
  <2> DEFINE x == [v EXCEPT ![c.to] = w[c.to]]
  <2>1. x \in [Files -> Int] /\ \A f \in Files \ {c.to} : x[f] = v[f]
    BY <1>6, <1>2
  <2>2. x[c.to] = w[c.to]
    BY <1>2, <1>6
  <2>3. \A f \in Files \ {c.file} : w[f] = x[f]
    BY <1>8, <2>1, <2>2
  <2>4. w[c.file] = -jr[c.file] /\ x[c.file] = Known(sizes[c.to]) - jr[c.file]
    BY <1>2, <1>3, <1>4, <1>7, <1>9, <2>1 DEF Known
  <2>5. c.delta = -Known(c.seen)
    BY <1>4, <1>9
  <2> HIDE DEF v, w, x, c, m
  <2>6. SumFunction(x) = SumFunction(v) + x[c.to] - v[c.to]
    BY <1>2, <1>6, <2>1, OwedType, SumChange
  <2>7. SumFunction(w) = SumFunction(x) + w[c.file] - x[c.file]
    BY <1>2, <1>6, <2>1, <2>3, OwedType, SumChange
  <2>8. SumFunction(v) \in Int
    BY <1>6, OwedType, SumType
  <2>9. SumFunction(w) = SumFunction(v) + c.delta
    BY <1>2, <1>5, <1>7, <2>2, <2>4, <2>5, <2>6, <2>7, <2>8
  <2> QED
    BY <2>9 DEF v, w, c, m
<1>10. CASE c.op # "rename"
  <2>1. c.file = c.to /\ c.delta = w[c.to] - v[c.to]
    BY <1>2, <1>4, <1>5, <1>7, <1>10
  <2> HIDE DEF v, w, c, m
  <2>2. SumFunction(w) = SumFunction(v) + w[c.to] - v[c.to]
    BY <1>2, <1>6, <1>8, <2>1, OwedType, SumChange
  <2>3. SumFunction(v) \in Int /\ w[c.to] \in Int /\ v[c.to] \in Int
    BY <1>2, <1>6, OwedType, SumType
  <2>4. SumFunction(w) = SumFunction(v) + c.delta
    BY <2>1, <2>2, <2>3
  <2> QED
    BY <2>4 DEF v, w, c, m
<1> QED
  BY <1>9, <1>10

\* A call settles what it owes.
LEMMA AddAccounts ==
    ASSUME BaseInv, Accountable, Accounts, NEW h \in Handlers, Add(h)
    PROVE  Accounts'
<1> USE DEF Accounts
<1> DEFINE c == call[h]
           m == MountOf[h]
<1>0. /\ c.pc = "add" /\ Active(h) /\ Owes(h)
      /\ UNCHANGED <<sizes, journal, size, epoch, life, sync, tool, setting>>
  BY DEF Add, Active, Owes, bounds
<1>1. /\ call \in [Handlers -> Call] /\ pendingDelta \in [Procs -> Int] /\ m \in Mounts /\ m \in Procs
      /\ c.delta \in Int /\ life[m] = "up" /\ CallFiles(h) \subseteq setting.owns[m]
      /\ CallFiles(h) \subseteq Files
  BY <1>0, CallParts DEF BaseInv, TypeInv, TypeOK, CallsLinked, CallFiles
<1>2. /\ pendingDelta'[m] = pendingDelta[m] + c.delta
      /\ \A q \in Procs \ {m} : pendingDelta'[q] = pendingDelta[q]
  BY <1>1 DEF Add
<1>3. call'[h].pc = "idle" /\ \A k \in Handlers \ {h} : call'[k] = call[k]
  BY <1>1, NoCallType DEF Add
<1>4. EpochsAgree'
  BY <1>0, <1>1, <1>2 DEF EpochsAgree, Procs
<1>5. CallsExact'
  BY <1>0, <1>3 DEF CallsExact, Active, Owes
<1>6. Ledgers'
  <2>1. PICK acc, jr, snap \in [Files -> Nat] : Ledger(acc, jr, snap)
    BY DEF Ledgers
  <2>2. PICK new \in [Files -> Nat] :
          \A f \in Files : new[f] = IF f \in CallFiles(h) THEN Known(sizes[f]) ELSE acc[f]
    <3> DEFINE n == [f \in Files |-> IF f \in CallFiles(h) THEN Known(sizes[f]) ELSE acc[f]]
    <3>1. n \in [Files -> Nat]
      BY NumberTypes DEF BaseInv, TypeInv, TypeOK
    <3> QED
      BY <3>1
  <2>3. ~Owes(h)' /\ \A k \in Handlers \ {h} : Owes(k)' = Owes(k) /\ CallFiles(k)' = CallFiles(k)
    BY <1>3 DEF Owes, CallFiles
  <2>4. ASSUME NEW f \in Files, \A k \in Handlers : Owes(k)' => f \notin CallFiles(k)'
        PROVE  new[f] = Known(sizes'[f])
    <3>1. CASE f \in CallFiles(h)
      BY <1>0, <2>2, <3>1
    <3>2. CASE f \notin CallFiles(h)
      <4>1. \A k \in Handlers : Owes(k) => f \notin CallFiles(k)
        BY <2>3, <2>4, <3>2
      <4> QED
        BY <1>0, <2>1, <2>2, <3>2, <4>1 DEF Ledger
    <3> QED
      BY <3>1, <3>2
  <2>5. ASSUME NEW k \in Handlers, Owes(k)'
        PROVE  /\ new[call'[k].to] = Known(call'[k].seen)
               /\ call'[k].op = "rename" => new[call'[k].file] = Known(sizes'[call'[k].to])
    <3>1. k # h /\ Owes(k) /\ Active(k) /\ call'[k] = call[k]
      BY <1>3, <2>3, <2>5 DEF Owes, Active
    <3>2. CallFiles(h) \cap CallFiles(k) = {} /\ call[k].file \in Files /\ call[k].to \in Files
      BY <1>0, <3>1, CallsApart, CallParts
    <3>3. new[call[k].to] = acc[call[k].to] /\ new[call[k].file] = acc[call[k].file]
      BY <2>2, <3>2 DEF CallFiles
    <3> QED
      BY <1>0, <2>1, <3>1, <3>3 DEF Ledger
  <2>6. \A n \in Mounts : Share(n, new, jr)' = Share(n, new, jr) /\ Share(n, snap, jr)' = Share(n, snap, jr)
    BY <1>0 DEF Share
  <2>7. \A n \in Mounts \ {m} : Share(n, new, jr) = Share(n, acc, jr)
    <3> SUFFICES ASSUME NEW n \in Mounts \ {m} PROVE Share(n, new, jr) = Share(n, acc, jr)
      OBVIOUS
    <3>1. setting.owns[n] \cap setting.owns[m] = {}
      BY <1>1 DEF Accountable
    <3>2. \A f \in Files : f \in setting.owns[n] => new[f] = acc[f]
      BY <1>1, <2>2, <3>1
    <3> QED
      BY <3>2 DEF Share
  <2>8. SumFunction(Share(m, new, jr)) = SumFunction(Share(m, acc, jr)) + c.delta
    BY <1>0, <2>1, <2>2, AddLedger
  <2>9. \A n \in Mounts : pendingDelta'[n] = SumFunction(Share(n, new, jr)')
    <3>1. \A n \in Mounts : pendingDelta[n] = SumFunction(Share(n, acc, jr))
      BY <2>1 DEF Ledger
    <3>2. pendingDelta'[m] = SumFunction(Share(m, new, jr))
      BY <1>1, <1>2, <2>8, <3>1
    <3>3. \A n \in Mounts \ {m} : pendingDelta'[n] = SumFunction(Share(n, new, jr))
      BY <1>2, <2>7, <3>1 DEF Procs
    <3> QED
      BY <2>6, <3>2, <3>3
  <2>10. journal'.size = SumFunction(jr)
         /\ \A n \in Mounts : sync'[n].on => sync'[n].delta = SumFunction(Share(n, snap, jr)')
    BY <1>0, <2>1, <2>6 DEF Ledger
  <2>11. Ledger(new, jr, snap)'
    BY <2>4, <2>5, <2>9, <2>10 DEF Ledger
  <2> QED
    BY <2>1, <2>2, <2>11 DEF Ledgers
<1>7. Balanced'
  <2> DEFINE v == [n \in Mounts |-> pendingDelta[n]]
             w == [n \in Mounts |-> pendingDelta'[n]]
             u == [k \in Handlers |-> Owed(k)]
             o == [k \in Handlers |-> Owed(k)']
  <2>1. v \in [Mounts -> Int] /\ u \in [Handlers -> Int] /\ Total \in Int /\ journal.size \in Int
    BY OwedType, TotalType DEF BaseInv, TypeInv
  <2>2. w \in [Mounts -> Int] /\ w[m] = v[m] + c.delta /\ \A n \in Mounts \ {m} : w[n] = v[n]
    BY <1>1, <1>2 DEF Procs
  <2>3. u[h] = c.delta /\ o[h] = 0
    BY <1>0, <1>3 DEF Owed
  <2>4. \A k \in Handlers \ {h} : o[k] = u[k]
    BY <1>0, <1>3 DEF Owed
  <2>5. o \in [Handlers -> Int]
    <3>1. \A k \in Handlers : o[k] \in Int
      BY <2>1, <2>3, <2>4
    <3> QED
      BY <3>1
  <2>6. Total = journal.size + SumFunction(v) + SumFunction(u)
    BY DEF Balanced
  <2>7. Balanced' <=> Total' = journal'.size + SumFunction(w) + SumFunction(o)
    BY DEF Balanced
  <2>8. Total' = Total /\ journal' = journal
    BY <1>0 DEF Total
  <2> HIDE DEF v, w, u, o, c, m
  <2>9. SumFunction(w) = SumFunction(v) + w[m] - v[m]
    <3>1. /\ IsFiniteSet(Mounts) /\ m \in Mounts /\ v \in [Mounts -> Int] /\ w \in [Mounts -> Int]
          /\ \A n \in Mounts \ {m} : w[n] = v[n]
      BY <1>1, <2>1, <2>2, OwedType
    <3> QED
      BY <3>1, SumChange
  <2>10. SumFunction(o) = SumFunction(u) + o[h] - u[h]
    BY <2>1, <2>4, <2>5, OwedType, SumChange
  <2>11. SumFunction(v) \in Int /\ SumFunction(u) \in Int /\ v[m] \in Int
    BY <1>1, <2>1, OwedType, SumType
  <2> QED
    BY <1>1, <2>1, <2>2, <2>3, <2>6, <2>7, <2>8, <2>9, <2>10, <2>11
<1> QED
  BY <1>4, <1>5, <1>6, <1>7

\* The setting is fixed, and the command is not run.
LEMMA SettingFixed == [Next]_vars => setting' = setting
<1> SUFFICES ASSUME Next PROVE setting' = setting
  BY DEF vars, bounds
<1> USE DEF bounds
<1>1. ASSUME NEW p \in Procs, SyncBegin(p) \/ SyncEnd(p) \/ SyncFail(p) PROVE setting' = setting
  BY <1>1 DEF SyncBegin, SyncEnd, SyncFail
<1>2. ASSUME NEW m \in Mounts, Start(m) \/ Stop(m) PROVE setting' = setting
  BY <1>2 DEF Start, Stop
<1>3. ASSUME NEW h \in Handlers, NEW op \in Ops, NEW f \in Files, NEW to \in Files,
             NEW arg \in 0 .. MaxSize, Begin(h, op, f, to, arg)
      PROVE  setting' = setting
  BY <1>3 DEF Begin
<1>4. ASSUME NEW h \in Handlers,
             GetSizeDelta(h) \/ GetSizeBase(h) \/ Do(h) \/ DoFailed(h) \/ Reread(h) \/ Add(h)
      PROVE  setting' = setting
  BY <1>4 DEF GetSizeDelta, GetSizeBase, Do, DoFailed, Reread, Add
<1>5. CASE ToolList \/ ToolOpen \/ ToolAborts \/ ToolRead \/ ToolStop \/ ToolLoop
  BY <1>5 DEF ToolList, ToolOpen, ToolAborts, ToolRead, ToolStop, ToolLoop
<1> QED
  BY <1>1, <1>2, <1>3, <1>4, <1>5 DEF Next

\* Every step keeps the accounts.
LEMMA NextAccounts == AccountInv /\ [Next]_vars => AccountInv'
<1> SUFFICES ASSUME AccountInv, [Next]_vars PROVE AccountInv'
  OBVIOUS
<1>1. BaseInv /\ BaseInv'
  BY NextBase DEF AccountInv
<1>2. Accountable' <=> Accountable
  BY SettingFixed DEF Accountable
<1> SUFFICES ASSUME Accountable PROVE Accounts'
  BY <1>1, <1>2 DEF AccountInv
<1>3. Accounts
  BY DEF AccountInv
<1>4. ASSUME NEW p \in Procs, SyncBegin(p) \/ SyncEnd(p) \/ SyncFail(p) PROVE Accounts'
  <2>1. ~SyncFail(p)
    BY DEF SyncFail, Accountable
  <2> QED
    BY <1>1, <1>3, <1>4, <2>1, SyncBeginAccounts, SyncEndAccounts
<1>5. ASSUME NEW h \in Handlers,
             GetSizeDelta(h) \/ GetSizeBase(h) \/ Do(h) \/ DoFailed(h) \/ Reread(h) \/ Add(h)
      PROVE  Accounts'
  BY <1>1, <1>3, <1>5, EarlyAccounts, DoAccounts, RereadAccounts, AddAccounts
<1>6. ~(ToolList \/ ToolOpen \/ ToolAborts \/ ToolRead \/ ToolStop \/ ToolLoop)
  BY <1>3 DEF ToolList, ToolOpen, ToolAborts, ToolRead, ToolStop, ToolLoop, Accounts, EpochsAgree,
              Accountable
<1>7. CASE UNCHANGED vars
  <2>1. UNCHANGED <<sizes, journal, mountSize, size, pendingDelta, epoch, life, sync, call, tool, setting>>
    BY <1>7 DEF vars, mountSize, bounds
  <2>2. CallsExact' /\ EpochsAgree'
    BY <1>3, <2>1 DEF Accounts, CallsExact, EpochsAgree, Active, Owes
  <2>3. Ledgers'
    BY <1>3, <2>1, LedgerFrame DEF Accounts, Owes
  <2>4. \A h \in Handlers : Owed(h)' = Owed(h)
    BY <2>1 DEF Owed
  <2>5. Balanced'
    BY <1>3, <2>1, <2>4, BalancedFrame DEF Accounts
  <2> QED
    BY <2>2, <2>3, <2>5 DEF Accounts
<1>8. ASSUME NEW m \in Mounts, Start(m) \/ Stop(m) PROVE Accounts'
  BY <1>1, <1>3, <1>8, MountAccounts
<1>9. ASSUME NEW h \in Handlers, NEW op \in Ops, NEW f \in Files, NEW to \in Files,
             NEW arg \in 0 .. MaxSize, Begin(h, op, f, to, arg)
      PROVE  Accounts'
  BY <1>1, <1>3, <1>9, EarlyAccounts
<1> QED
  BY <1>4, <1>5, <1>6, <1>7, <1>8, <1>9 DEF Next

\* No byte is lost or counted twice (MountSize.Add, MountSize.sync and the
\* handlers of SizeTracker), for any number of mounts, threads and files.
THEOREM NoByteLost == Spec => []Accounted
<1>1. Init => AccountInv
  BY InitAccounts
<1>2. AccountInv /\ [Next]_vars => AccountInv'
  BY NextAccounts
<1>3. AccountInv => Accounted
  BY DEF AccountInv, BaseInv, TypeInv, Accounted, Accounts, Balanced
<1> QED
  BY <1>1, <1>2, <1>3, PTL DEF Spec

-----------------------------------------------------------------------------
(* The hard limit                                                          *)

\* One thread writes under a hard limit.
Limiting ==
    /\ Accountable /\ setting.capacity > 0 /\ setting.ops = {"write"}
    /\ Cardinality({h \in Handlers : setting.owns[MountOf[h]] # {}}) = 1

\* The bucket starts within its capacity.
Within == setting.capacity > 0 => Total <= setting.capacity

\* Some thread works on files of mount m.
Serves(m) == setting.owns[m] # {} /\ \E h \in Handlers : MountOf[h] = m

\* Deltas only grow, other mounts have none, and the mount has the journal's size.
Grows ==
    /\ \A m \in Mounts :
         /\ pendingDelta[m] >= 0
         /\ sync[m].on => sync[m].delta >= 0 /\ sync[m].delta <= pendingDelta[m]
         /\ ~Serves(m) => pendingDelta[m] = 0 /\ (sync[m].on => sync[m].delta = 0)
         /\ Serves(m) /\ life[m] = "up" => size[m] = journal.size
    /\ \A h \in Handlers : call[h].pc = "add" => call[h].delta >= 0

\* What GetSize adds up, whether or not a sync came between, is no less than the
\* bucket, and a call that was let through has room for what it writes.
Room ==
    /\ Total <= setting.capacity
    /\ \A h \in Handlers :
         /\ call[h].pc = "size" => size[MountOf[h]] + call[h].delta >= Total
         /\ call[h].pc = "do" =>
              Total + Difference(call[h].op, call[h].seen, call[h].arg) <= setting.capacity

LimitInv == AccountInv /\ (Limiting => Grows /\ Room)

\* There is one such thread.
LEMMA OneThread ==
    ASSUME Limiting, NEW h \in Handlers, NEW k \in Handlers,
           setting.owns[MountOf[h]] # {}, setting.owns[MountOf[k]] # {}
    PROVE  h = k
<1> DEFINE S == {j \in Handlers : setting.owns[MountOf[j]] # {}}
<1>1. IsFiniteSet(S) /\ Cardinality(S) = 1 /\ h \in S /\ k \in S
  <2>1. IsFiniteSet(S)
    BY SizeAssumption, FS_Subset
  <2> QED
    BY <2>1 DEF Limiting
<1> HIDE DEF S
<1>2. \E x : S = {x}
  BY <1>1, FS_Singleton
<1> QED
  BY <1>1, <1>2

\* While it is in a call the other calls are idle and the other mounts have no
\* thread.
LEMMA OneServes ==
    ASSUME BaseInv, Limiting, NEW h \in Handlers, Active(h)
    PROVE  /\ Serves(MountOf[h]) /\ call[h].op = "write" /\ life[MountOf[h]] = "up"
           /\ \A k \in Handlers \ {h} : ~Active(k)
           /\ \A m \in Mounts \ {MountOf[h]} : ~Serves(m)
<1>1. \A k \in Handlers : Active(k) => setting.owns[MountOf[k]] # {}
  BY DEF BaseInv, CallsLinked, CallFiles
<1>2. call[h].op = "write" /\ life[MountOf[h]] = "up"
  BY DEF BaseInv, CallsLinked, Limiting
<1>3. \A k \in Handlers \ {h} : ~Active(k)
  BY <1>1, OneThread
<1>4. Serves(MountOf[h])
  BY <1>1 DEF Serves
<1>5. \A m \in Mounts \ {MountOf[h]} : ~Serves(m)
  BY <1>1, OneThread DEF Serves
<1> QED
  BY <1>2, <1>3, <1>4, <1>5

\* The sum for one thread and one mount.
LEMMA OneBalance ==
    BaseInv /\ Limiting /\ Balanced /\ Grows =>
      \A h \in Handlers : Active(h) => Total = journal.size + pendingDelta[MountOf[h]] + Owed(h)
<1> SUFFICES ASSUME BaseInv, Limiting, Balanced, Grows, NEW h \in Handlers, Active(h)
             PROVE  Total = journal.size + pendingDelta[MountOf[h]] + Owed(h)
  OBVIOUS
<1> DEFINE v == [m \in Mounts |-> pendingDelta[m]]
           u == [k \in Handlers |-> Owed(k)]
           n == MountOf[h]
<1>1. n \in Mounts /\ \A m \in Mounts \ {n} : v[m] = 0
  BY OneServes, CallParts DEF Grows
<1>2. \A k \in Handlers \ {h} : u[k] = 0
  BY OneServes DEF Owed, Active
<1>3. v \in [Mounts -> Int] /\ u \in [Handlers -> Int]
  BY OwedType
<1>4. Total = journal.size + SumFunction(v) + SumFunction(u)
  BY DEF Balanced
<1>5. v[n] = pendingDelta[n] /\ u[h] = Owed(h)
  BY <1>1
<1> HIDE DEF v, u, n
<1>6. SumFunction(v) = v[n] /\ SumFunction(u) = u[h]
  <2>1. IsFiniteSet(Mounts) /\ IsFiniteSet(Handlers)
    BY SizeAssumption
  <2>2. SumFunction(v) = v[n]
    BY <1>1, <1>3, <2>1, SumOne
  <2>3. SumFunction(u) = u[h]
    BY <1>2, <1>3, <2>1, SumOne
  <2> QED
    BY <2>2, <2>3
<1> QED
  BY <1>4, <1>5, <1>6 DEF n

\* The same after a step.
LEMMA OneBalanceNext ==
    (BaseInv /\ Limiting /\ Balanced /\ Grows =>
      \A h \in Handlers : Active(h) => Total = journal.size + pendingDelta[MountOf[h]] + Owed(h))'
  BY OneBalance, PTL

\* A write never shrinks a file.
LEMMA WriteGrows ==
    ASSUME NEW s \in NoFile .. MaxSize, NEW arg \in 0 .. MaxSize
    PROVE  Difference("write", s, arg) >= 0
<1>1. Known(s) \in Int /\ arg \in Int
  BY NumberTypes
<1>2. Max({Known(s), arg}) = IF Known(s) >= arg THEN Known(s) ELSE arg
  BY <1>1, MaxOfTwo
<1>3. Difference("write", s, arg) = Max({Known(s), arg}) - Known(s)
  BY DEF Difference, Replacing, Resized
<1> QED
  BY <1>1, <1>2, <1>3

\* The initial states.
LEMMA InitLimit == Init /\ Within => LimitInv
<1> SUFFICES ASSUME Init, Within PROVE LimitInv
  OBVIOUS
<1>1. AccountInv
  BY InitAccounts
<1>2. \A h \in Handlers : call[h].pc = "idle"
  BY NoCallType DEF Init
<1>3. \A m \in Mounts : pendingDelta[m] = 0 /\ ~sync[m].on /\ life[m] = "off"
  BY DEF Init, NoSync, Procs
<1>4. Grows
  BY <1>2, <1>3 DEF Grows
<1>5. Limiting => Room
  BY <1>2 DEF Limiting, Within, Room
<1> QED
  BY <1>1, <1>4, <1>5 DEF LimitInv

\* A sync may come between the two loads of GetSize: the size grows by what it
\* takes off the delta.
LEMMA SyncLimit ==
    ASSUME BaseInv, Limiting, Accounts, Grows, Room, NEW p \in Procs, SyncBegin(p) \/ SyncEnd(p)
    PROVE  Grows' /\ Room'
<1> USE DEF Accounts
<1>1. CASE SyncBegin(p)
  <2>0. /\ p \in Mounts /\ UNCHANGED <<sizes, journal, life, call, setting, pendingDelta>>
        /\ size'[p] = journal.size /\ \A q \in Procs \ {p} : size'[q] = size[q]
        /\ sync'[p].delta = pendingDelta[p] /\ \A q \in Procs \ {p} : sync'[q] = sync[q]
    BY <1>1, SyncBeginParts
  <2>1. Total' = Total /\ \A m \in Mounts : Serves(m)' = Serves(m)
    BY <2>0 DEF Total, Serves
  <2>2. Grows'
    <3>1. pendingDelta[p] \in Int
      BY <2>0 DEF BaseInv, TypeInv, TypeOK
    <3>2. ASSUME NEW m \in Mounts
          PROVE  /\ sync'[m].on => sync'[m].delta >= 0 /\ sync'[m].delta <= pendingDelta[m]
                 /\ ~Serves(m) => (sync'[m].on => sync'[m].delta = 0)
                 /\ Serves(m) /\ life[m] = "up" => size'[m] = journal.size
      <4>1. CASE m = p
        BY <2>0, <3>1, <4>1 DEF Grows
      <4>2. CASE m # p
        BY <2>0, <4>2 DEF Grows, Procs
      <4> QED
        BY <4>1, <4>2
    <3> QED
      BY <2>0, <2>1, <3>2 DEF Grows
  <2>3. ASSUME NEW h \in Handlers, Active(h) PROVE size'[MountOf[h]] = size[MountOf[h]]
    <3>1. Serves(MountOf[h]) /\ life[MountOf[h]] = "up" /\ MountOf[h] \in Mounts
      BY <2>3, OneServes, CallParts
    <3> QED
      BY <2>0, <3>1 DEF Grows, Procs
  <2>4. Room'
    BY <2>0, <2>1, <2>3 DEF Room, Active
  <2> QED
    BY <2>2, <2>4
<1>2. CASE SyncEnd(p)
  <2>0. UNCHANGED <<sizes, call, setting>> /\ sync[p].on
    BY <1>2 DEF SyncEnd, bounds
  <2>1. life[p] # "off" /\ \A q \in Procs : sync[q].on => q = p
    BY <2>0 DEF BaseInv, OneSyncs
  <2>2. p \in Mounts /\ pendingDelta[p] \in Int
    BY <2>1, SyncParts
  <2>3. /\ pendingDelta \in [Procs -> Int] /\ size \in [Procs -> Nat]
        /\ sync \in [Procs -> [on : BOOLEAN, base : Nat, delta : Int]]
        /\ life \in [Procs -> {"off", "starting", "up", "stopping"}]
        /\ journal.size \in Nat /\ sync[p].delta \in Int /\ sync[p].base = journal.size
        /\ sync[p].delta >= 0
    BY <2>0, <2>2 DEF BaseInv, TypeInv, TypeOK, EpochsAgree, Grows
  <2>4. Applied(sync[p].base, sync[p].delta) = journal.size + sync[p].delta
    BY <2>3 DEF Applied
  <2>5. journal'.size = journal.size + sync[p].delta /\ size'[p] = journal'.size
    BY <1>2, <2>3, <2>4 DEF SyncEnd
  <2>6. \A q \in Procs \ {p} : size'[q] = size[q] /\ pendingDelta'[q] = pendingDelta[q] /\ life'[q] = life[q]
    BY <1>2, <2>3 DEF SyncEnd
  <2>7. pendingDelta'[p] = pendingDelta[p] - sync[p].delta /\ \A q \in Procs : ~sync'[q].on
    BY <1>2, <2>1, <2>3 DEF SyncEnd, NoSync
  <2>8. Total' = Total /\ \A m \in Mounts : Serves(m)' = Serves(m)
    BY <2>0 DEF Total, Serves
  <2>9. \A m \in Mounts \ {p} : Serves(m) => ~Serves(p)
    BY <2>2, OneThread DEF Serves
  <2>10. \A m \in Mounts \ {p} : Serves(m) => sync[p].delta = 0
    BY <2>0, <2>2, <2>9 DEF Grows
  <2>11. Grows'
    <3>1. ASSUME NEW m \in Mounts
          PROVE  /\ pendingDelta'[m] >= 0 /\ ~sync'[m].on
                 /\ ~Serves(m) => pendingDelta'[m] = 0
                 /\ Serves(m) /\ life'[m] = "up" => size'[m] = journal'.size
      <4>1. CASE m = p
        BY <2>0, <2>2, <2>3, <2>5, <2>7, <4>1 DEF Grows
      <4>2. CASE m # p
        BY <2>3, <2>5, <2>6, <2>7, <2>10, <4>2 DEF Grows, Procs
      <4> QED
        BY <4>1, <4>2
    <3> QED
      BY <2>0, <2>8, <3>1 DEF Grows
  <2>12. ASSUME NEW h \in Handlers, Active(h) PROVE size'[MountOf[h]] >= size[MountOf[h]]
    <3>1. Serves(MountOf[h]) /\ life[MountOf[h]] = "up" /\ MountOf[h] \in Mounts /\ MountOf[h] \in Procs
      BY <2>12, OneServes, CallParts
    <3>2. size[MountOf[h]] = journal.size
      BY <3>1 DEF Grows
    <3>3. CASE MountOf[h] = p
      BY <2>3, <2>5, <3>2, <3>3
    <3>4. CASE MountOf[h] # p
      BY <2>3, <2>6, <3>1, <3>4
    <3> QED
      BY <3>3, <3>4
  <2>13. Room'
    <3>1. ASSUME NEW h \in Handlers, call[h].pc = "size" PROVE size'[MountOf[h]] + call[h].delta >= Total
      <4>1. size'[MountOf[h]] >= size[MountOf[h]] /\ size[MountOf[h]] + call[h].delta >= Total
        BY <2>12, <3>1 DEF Active, Room
      <4>2. call[h].delta \in Int /\ MountOf[h] \in Procs /\ Total \in Int
        BY CallParts, TotalType DEF BaseInv, TypeInv
      <4>3. size'[MountOf[h]] \in Int /\ size[MountOf[h]] \in Int
        <5>1. journal'.size \in Nat
          BY <2>3, <2>5
        <5> QED
          BY <2>3, <2>5, <2>6, <4>2, <5>1
      <4> QED
        BY <4>1, <4>2, <4>3
    <3> QED
      BY <2>0, <2>8, <3>1 DEF Room
  <2> QED
    BY <2>11, <2>13
<1> QED
  BY <1>1, <1>2

\* Starting and stopping a mount.
LEMMA MountLimit ==
    ASSUME BaseInv, Limiting, Accounts, Grows, Room, NEW m \in Mounts, Start(m) \/ Stop(m)
    PROVE  Grows' /\ Room'
<1>1. /\ UNCHANGED <<sizes, journal, sync, call, setting>> /\ m \in Procs
      /\ life'[m] # "up" /\ \A q \in Procs \ {m} : life'[q] = life[q] /\ size'[q] = size[q]
      /\ \A q \in Procs \ {m} : pendingDelta'[q] = pendingDelta[q]
      /\ pendingDelta'[m] = pendingDelta[m]
  <2>1. /\ pendingDelta \in [Procs -> Int] /\ size \in [Procs -> Nat]
        /\ life \in [Procs -> {"off", "starting", "up", "stopping"}]
    BY DEF BaseInv, TypeInv, TypeOK
  <2>2. life[m] = "off" => pendingDelta[m] = 0
    BY DEF Accounts, EpochsAgree
  <2> QED
    BY <2>1, <2>2 DEF Start, Stop, CreateSizeJournal, Procs, bounds, mountSize
<1>2. Total' = Total /\ \A n \in Mounts : Serves(n)' = Serves(n)
  BY <1>1 DEF Total, Serves
<1>3. Grows'
  BY <1>1, <1>2 DEF Grows, Procs
<1>4. \A h \in Handlers : Active(h) => MountOf[h] \in Procs /\ MountOf[h] # m
  <2>1. \A h \in Handlers : Active(h) => life[MountOf[h]] = "up" /\ MountOf[h] \in Procs
    BY OneServes, CallParts
  <2>2. \A h \in Handlers : Active(h) => MountOf[h] # m
    BY <2>1 DEF Start, Stop, Busy, Active, CreateSizeJournal
  <2> QED
    BY <2>1, <2>2
<1>5. Room'
  BY <1>1, <1>2, <1>4 DEF Room, Active
<1> QED
  BY <1>3, <1>5

\* A step of a call that changes neither the bucket nor the sizes and deltas.
LEMMA QuietLimit ==
    ASSUME Limiting, Grows, Room, NEW h \in Handlers,
           UNCHANGED <<setting, sizes, journal, mountSize, life, sync>>,
           \A k \in Handlers \ {h} : call'[k] = call[k], call'[h].pc # "add",
           call'[h].pc = "size" => size[MountOf[h]] + call'[h].delta >= Total,
           call'[h].pc = "do" =>
             Total + Difference(call'[h].op, call'[h].seen, call'[h].arg) <= setting.capacity
    PROVE  Grows' /\ Room'
<1>1. Total' = Total /\ \A n \in Mounts : Serves(n)' = Serves(n)
  BY DEF Total, Serves
<1>2. Grows'
  BY <1>1 DEF Grows, mountSize
<1>3. Room'
  BY <1>1 DEF Room, mountSize
<1> QED
  BY <1>2, <1>3

\* The first steps of a call: GetSize is no less than the bucket.
LEMMA EarlyLimit ==
    ASSUME BaseInv, Limiting, Accounts, Grows, Room, NEW h \in Handlers,
           \/ \E op \in Ops, f, to \in Files, arg \in 0 .. MaxSize : Begin(h, op, f, to, arg)
           \/ GetSizeDelta(h) \/ GetSizeBase(h) \/ DoFailed(h)
    PROVE  Grows' /\ Room'
<1>0. call \in [Handlers -> Call] /\ call[h] \in Call
  BY DEF BaseInv, TypeInv, TypeOK
<1>1. ASSUME NEW op \in Ops, NEW f \in Files, NEW to \in Files, NEW arg \in 0 .. MaxSize,
             Begin(h, op, f, to, arg)
      PROVE  Grows' /\ Room'
  <2>1. UNCHANGED <<sizes, journal, mountSize, life, sync, setting>> /\ op \in setting.ops
    BY <1>1 DEF Begin
  <2>2. op \in Growing /\ setting.capacity > 0
    BY <2>1 DEF Limiting, Growing
  <2>3. call'[h].pc = "delta" /\ \A k \in Handlers \ {h} : call'[k] = call[k]
    BY <1>0, <1>1, <2>2 DEF Begin
  <2> QED
    BY <2>1, <2>3, QuietLimit
<1>2. CASE GetSizeDelta(h)
  <2>1. UNCHANGED <<sizes, journal, mountSize, life, sync, setting>> /\ call[h].pc = "delta"
    BY <1>2 DEF GetSizeDelta, bounds
  <2>2. /\ \A k \in Handlers \ {h} : call'[k] = call[k]
        /\ call'[h].pc = "size" /\ call'[h].delta = pendingDelta[MountOf[h]]
    BY <1>0, <1>2 DEF GetSizeDelta, Call
  <2>3. Active(h) /\ Owed(h) = 0
    BY <2>1 DEF Active, Owed
  <2>4. Total = journal.size + pendingDelta[MountOf[h]] + Owed(h)
    BY <2>3, OneBalance DEF Accounts
  <2>5. size[MountOf[h]] = journal.size /\ journal.size \in Int /\ pendingDelta[MountOf[h]] \in Int
    <3>1. MountOf[h] \in Mounts /\ Serves(MountOf[h]) /\ life[MountOf[h]] = "up"
      BY <2>3, OneServes, CallParts
    <3> QED
      BY <3>1, OwedType DEF Grows, BaseInv, TypeInv, TypeOK, Procs
  <2>6. size[MountOf[h]] + call'[h].delta >= Total
    BY <2>2, <2>3, <2>4, <2>5
  <2> QED
    BY <2>1, <2>2, <2>6, QuietLimit
<1>3. CASE GetSizeBase(h)
  <2> DEFINE c == call[h]
             grow == Difference(c.op, c.seen, c.arg)
             current == Applied(size[MountOf[h]], c.delta)
  <2>1. UNCHANGED <<sizes, journal, mountSize, life, sync, setting>> /\ c.pc = "size"
    BY <1>3 DEF GetSizeBase, bounds
  <2>2. \A k \in Handlers \ {h} : call'[k] = call[k]
    BY <1>0, <1>3 DEF GetSizeBase
  <2>3. /\ grow \in Int /\ c.delta \in Int /\ size[MountOf[h]] \in Nat /\ Total \in Nat
        /\ setting.capacity \in Nat
    <3>1. c.arg \in 0 .. MaxSize /\ c.seen \in NoFile .. MaxSize /\ c.delta \in Int
          /\ MountOf[h] \in Procs
      BY CallParts
    <3>2. grow \in Int
      BY <3>1, ResizedType
    <3> QED
      BY <3>1, <3>2, TotalType, SettingType DEF BaseInv, TypeInv, TypeOK
  <2>4. current >= Total /\ current \in Nat
    <3>1. size[MountOf[h]] + c.delta >= Total
      BY <2>1 DEF Room
    <3> QED
      BY <2>3, <3>1 DEF Applied
  <2>5. \/ call'[h].pc = "idle"
        \/ /\ Fits(current, grow) /\ call'[h].pc = "do" /\ call'[h].op = c.op
           /\ call'[h].seen = c.seen /\ call'[h].arg = c.arg
    <3>1. CASE Fits(current, grow)
      <4>1. call'[h] = [c EXCEPT !.pc = "do"]
        BY <1>0, <1>3, <3>1 DEF GetSizeBase
      <4> QED
        BY <1>0, <3>1, <4>1 DEF Call
    <3>2. CASE ~Fits(current, grow)
      BY <1>0, <1>3, <3>2, NoCallType DEF GetSizeBase
    <3> QED
      BY <3>1, <3>2
  <2>6. Fits(current, grow) => Total + grow <= setting.capacity
    <3>1. Total <= setting.capacity
      BY DEF Room
    <3>2. Fits(current, grow) => grow <= 0 \/ current + grow <= setting.capacity
      BY DEF Fits
    <3> HIDE DEF current, grow
    <3> QED
      BY <2>3, <2>4, <3>1, <3>2
  <2>7. call'[h].pc = "do" =>
          Total + Difference(call'[h].op, call'[h].seen, call'[h].arg) <= setting.capacity
    BY <2>5, <2>6
  <2>8. call'[h].pc \in {"idle", "do"}
    BY <2>5
  <2> HIDE DEF c, grow, current
  <2> QED
    BY <2>1, <2>2, <2>7, <2>8, QuietLimit
<1>4. CASE DoFailed(h)
  <2>1. UNCHANGED <<sizes, journal, mountSize, life, sync, setting>>
    BY <1>4 DEF DoFailed, bounds
  <2>2. call'[h].pc = "idle" /\ \A k \in Handlers \ {h} : call'[k] = call[k]
    BY <1>0, <1>4, NoCallType DEF DoFailed
  <2> QED
    BY <2>1, <2>2, QuietLimit
<1> QED
  BY <1>1, <1>2, <1>3, <1>4

\* A write that was let through stays within the capacity.
LEMMA DoLimit ==
    ASSUME BaseInv, BaseInv', Limiting, Limiting', Accounts, Accounts', Grows, Room,
           NEW h \in Handlers, Do(h)
    PROVE  Grows' /\ Room'
<1> USE DEF Accounts
<1> DEFINE c == call[h]
           grow == Difference(c.op, c.seen, c.arg)
<1>1. /\ c.pc = "do" /\ Active(h) /\ UNCHANGED <<setting, journal, mountSize, life, sync>>
      /\ \A k \in Handlers \ {h} : call'[k] = call[k]
  BY DoParts DEF Limiting
<1>2. c.op = "write" /\ \A k \in Handlers \ {h} : ~Active(k)
  BY <1>1, OneServes
<1>3. call'[h].pc = "add" /\ call'[h].delta = grow
  <2>1. call \in [Handlers -> Call] /\ c \in Call
    BY DEF BaseInv, TypeInv, TypeOK
  <2>2. call'[h] = [c EXCEPT !.pc = "add", !.delta = grow]
    BY <1>2, <2>1 DEF Do
  <2> HIDE DEF c, grow
  <2> QED
    BY <2>1, <2>2 DEF Call
<1>4. grow >= 0 /\ grow \in Int
  <2>1. c.arg \in 0 .. MaxSize /\ c.seen \in NoFile .. MaxSize
    BY CallParts
  <2> QED
    BY <1>2, <2>1, WriteGrows, ResizedType
<1>5. \A n \in Mounts : Serves(n)' = Serves(n)
  BY <1>1 DEF Serves
<1>6. Grows'
  BY <1>1, <1>3, <1>4, <1>5 DEF Grows, mountSize
<1>7. Total' = Total + grow
  <2>1. Total = journal.size + pendingDelta[MountOf[h]] + Owed(h) /\ Owed(h) = 0
    BY <1>1, OneBalance DEF Owed
  <2>2. Active(h)' /\ Owed(h)' = grow
    BY <1>3 DEF Active, Owed
  <2>3. Total' = journal'.size + pendingDelta'[MountOf[h]] + Owed(h)'
    BY <1>6, <2>2, OneBalanceNext
  <2>4. journal.size \in Int /\ pendingDelta[MountOf[h]] \in Int
    BY OwedType, CallParts DEF BaseInv, TypeInv, TypeOK
  <2> QED
    BY <1>1, <1>4, <2>1, <2>2, <2>3, <2>4 DEF mountSize
<1>8. Room'
  <2>1. Total + grow <= setting.capacity
    BY <1>1 DEF Room
  <2>2. \A k \in Handlers : call'[k].pc \notin {"size", "do"}
    BY <1>1, <1>2, <1>3 DEF Active
  <2> QED
    BY <1>1, <1>7, <2>1, <2>2 DEF Room
<1> QED
  BY <1>6, <1>8

\* Adding what was written.
LEMMA AddLimit ==
    ASSUME BaseInv, Limiting, Accounts, Grows, Room, NEW h \in Handlers, Add(h)
    PROVE  Grows' /\ Room'
<1> DEFINE m == MountOf[h]
<1>1. /\ UNCHANGED <<sizes, journal, size, life, sync, setting>> /\ call[h].pc = "add" /\ Active(h)
  BY DEF Add, bounds, Active
<1>2. /\ call \in [Handlers -> Call] /\ pendingDelta \in [Procs -> Int] /\ m \in Mounts /\ m \in Procs
      /\ call[h].delta \in Int /\ call[h].delta >= 0 /\ Serves(m)
      /\ sync \in [Procs -> [on : BOOLEAN, base : Nat, delta : Int]]
  BY <1>1, CallParts, OneServes DEF BaseInv, TypeInv, TypeOK, Grows
<1>3. /\ pendingDelta'[m] = pendingDelta[m] + call[h].delta
      /\ \A q \in Procs \ {m} : pendingDelta'[q] = pendingDelta[q]
  BY <1>2 DEF Add
<1>4. call'[h].pc = "idle" /\ \A k \in Handlers \ {h} : call'[k] = call[k]
  BY <1>2, NoCallType DEF Add
<1>5. Total' = Total /\ \A n \in Mounts : Serves(n)' = Serves(n)
  BY <1>1 DEF Total, Serves
<1>6. Grows'
  <2>1. ASSUME NEW n \in Mounts
        PROVE  /\ pendingDelta'[n] >= 0
               /\ sync[n].on => sync[n].delta >= 0 /\ sync[n].delta <= pendingDelta'[n]
               /\ ~Serves(n) => pendingDelta'[n] = 0 /\ (sync[n].on => sync[n].delta = 0)
    <3>1. CASE n = m
      <4>1. pendingDelta[m] >= 0 /\ (sync[m].on => sync[m].delta >= 0 /\ sync[m].delta <= pendingDelta[m])
        BY <1>2 DEF Grows
      <4>2. pendingDelta[m] \in Int /\ sync[m].delta \in Int
        BY <1>2
      <4> HIDE DEF m
      <4> QED
        BY <1>2, <1>3, <3>1, <4>1, <4>2
    <3>2. CASE n # m
      BY <1>3, <3>2 DEF Grows, Procs
    <3> QED
      BY <3>1, <3>2
  <2> QED
    BY <1>1, <1>4, <1>5, <2>1 DEF Grows
<1>7. Room'
  BY <1>1, <1>4, <1>5 DEF Room
<1> QED
  BY <1>6, <1>7

\* Every step keeps the limit.
LEMMA NextLimit == LimitInv /\ [Next]_vars => LimitInv'
<1> SUFFICES ASSUME LimitInv, [Next]_vars PROVE LimitInv'
  OBVIOUS
<1>1. AccountInv /\ AccountInv' /\ BaseInv /\ BaseInv'
  BY NextAccounts DEF LimitInv, AccountInv
<1>2. (Accountable' <=> Accountable) /\ (Limiting' <=> Limiting)
  BY SettingFixed DEF Accountable, Limiting
<1> SUFFICES ASSUME Limiting PROVE Grows' /\ Room'
  BY <1>1, <1>2 DEF LimitInv
<1>3. Accounts /\ Accounts' /\ Limiting' /\ Grows /\ Room
  BY <1>1, <1>2 DEF AccountInv, Limiting, LimitInv
<1>4. ASSUME NEW p \in Procs, SyncBegin(p) \/ SyncEnd(p) \/ SyncFail(p) PROVE Grows' /\ Room'
  <2>1. ~SyncFail(p)
    BY DEF SyncFail, Limiting, Accountable
  <2> QED
    BY <1>1, <1>3, <1>4, <2>1, SyncLimit
<1>5. ASSUME NEW h \in Handlers,
             GetSizeDelta(h) \/ GetSizeBase(h) \/ Do(h) \/ DoFailed(h) \/ Reread(h) \/ Add(h)
      PROVE  Grows' /\ Room'
  <2>1. ~Reread(h)
    <3>1. Active(h) => call[h].op = "write"
      BY <1>1, OneServes
    <3>2. call[h].pc = "reread" => call[h].op = "commit" /\ Active(h)
      BY <1>1 DEF BaseInv, CallsLinked, Active
    <3> QED
      BY <3>1, <3>2 DEF Reread
  <2> QED
    BY <1>1, <1>3, <1>5, <2>1, EarlyLimit, DoLimit, AddLimit
<1>6. ~(ToolList \/ ToolOpen \/ ToolAborts \/ ToolRead \/ ToolStop \/ ToolLoop)
  BY <1>3 DEF ToolList, ToolOpen, ToolAborts, ToolRead, ToolStop, ToolLoop, Accounts, EpochsAgree,
              Limiting, Accountable
<1>7. CASE UNCHANGED vars
  <2>1. UNCHANGED <<sizes, journal, size, pendingDelta, life, sync, call, setting>>
    BY <1>7 DEF vars, mountSize, bounds
  <2>2. Total' = Total /\ \A n \in Mounts : Serves(n)' = Serves(n)
    BY <2>1 DEF Total, Serves
  <2> QED
    BY <1>3, <2>1, <2>2 DEF Grows, Room
<1>8. ASSUME NEW m \in Mounts, Start(m) \/ Stop(m) PROVE Grows' /\ Room'
  BY <1>1, <1>3, <1>8, MountLimit
<1>9. ASSUME NEW h \in Handlers, NEW op \in Ops, NEW f \in Files, NEW to \in Files,
             NEW arg \in 0 .. MaxSize, Begin(h, op, f, to, arg)
      PROVE  Grows' /\ Room'
  BY <1>1, <1>3, <1>9, EarlyLimit
<1> QED
  BY <1>4, <1>5, <1>6, <1>7, <1>8, <1>9 DEF Next

\* checkCapacityDelta keeps a bucket that starts within its capacity within it,
\* although GetSize loads the delta and the size at different times.
THEOREM CapacityKept == Spec /\ Within => []LimitKept
<1>1. Init /\ Within => LimitInv
  BY InitLimit
<1>2. LimitInv /\ [Next]_vars => LimitInv'
  BY NextLimit
<1>3. LimitInv => LimitKept
  BY DEF LimitInv, LimitKept, Limiting, Room
<1> QED
  BY <1>1, <1>2, <1>3, PTL DEF Spec

-----------------------------------------------------------------------------
(* The repair                                                              *)

\* The highest epoch a mount can have got by adopting one or by starting at 1.
Highest == IF journal.epoch = 0 THEN 1 ELSE journal.epoch

\* No mount is ahead of a journal that has been written, the journal's epoch only
\* grows, and the command's MountSize is there while its loop uses it.
EpochsBounded ==
    /\ \A m \in Mounts : epoch[m] <= Highest
    /\ \A p \in Procs : sync[p].on => epoch[p] >= 1 /\ epoch[p] >= journal.epoch
    /\ tool.pc \in {"read", "stop"} \/ life[Tool] \in {"up", "stopping"} => journal.epoch >= 1
    /\ tool.pc \in {"idle", "listed", "failed", "done"} => life[Tool] = "off"
    /\ tool.pc = "read" => life[Tool] = "up"
    /\ tool.pc = "stop" => life[Tool] \in {"stopping", "off"}
    /\ tool.pc = "open" => life[Tool] # "stopping"

\* While it is quiet the mounts write what they read.
Listed ==
    quiet => /\ tool.pc # "idle" /\ tool.total = Total
             /\ \A h \in Handlers : ~Active(h)
             /\ \A m \in Mounts : pendingDelta[m] = 0 /\ (sync[m].on => sync[m].delta = 0)
             /\ journal.epoch >= 1 => \A m \in Mounts : sync[m].on => sync[m].base = journal.size

\* The command's MountSize has the journal's size and nothing pending.
Agrees ==
    /\ life[Tool] # "off" => pendingDelta[Tool] = 0
    /\ life[Tool] = "starting" /\ ~sync[Tool].on => epoch[Tool] = 0
    /\ life[Tool] \in {"up", "stopping"} => epoch[Tool] <= journal.epoch /\ size[Tool] = journal.size
    /\ sync[Tool].on => sync[Tool].base = journal.size /\ sync[Tool].delta = 0

\* The command found the size that it had listed.
Found == tool.pc \in {"read", "stop", "done"} /\ tool.newSize = tool.total /\ tool.total > 0

Confirmed ==
    /\ quiet /\ tool.pc = "open" => Agrees
    /\ quiet /\ Found => journal.epoch >= 1 /\ journal.size = Total /\ Agrees

RepairInv == BaseInv /\ EpochsBounded /\ Listed /\ Confirmed

\* The initial states.
LEMMA InitRepair == Init => RepairInv
<1> SUFFICES ASSUME Init PROVE RepairInv
  OBVIOUS
<1>1. BaseInv /\ tool.pc = "idle" /\ ~quiet
  BY InitAccounts DEF AccountInv, Init, NoTool
<1>2. \A p \in Procs : ~sync[p].on /\ epoch[p] = 0 /\ life[p] = "off"
  BY DEF Init, NoSync
<1>3. journal.epoch = 0
  BY DEF Init
<1>4. EpochsBounded
  BY <1>1, <1>2, <1>3 DEF EpochsBounded, Highest, Procs
<1> QED
  BY <1>1, <1>4 DEF RepairInv, Listed, Confirmed

\* The steps of a call end the quiet.
LEMMA CallRepair ==
    ASSUME RepairInv, BaseInv', NEW h \in Handlers,
           \/ \E op \in Ops, f, to \in Files, arg \in 0 .. MaxSize : Begin(h, op, f, to, arg)
           \/ GetSizeDelta(h) \/ GetSizeBase(h) \/ Do(h) \/ DoFailed(h) \/ Reread(h) \/ Add(h)
    PROVE  RepairInv'
<1>1. UNCHANGED <<journal, epoch, life, sync, tool>> /\ ~quiet'
  <2>1. ASSUME NEW op \in Ops, NEW f \in Files, NEW to \in Files, NEW arg \in 0 .. MaxSize,
               Begin(h, op, f, to, arg)
        PROVE  UNCHANGED <<journal, epoch, life, sync, tool>> /\ ~quiet'
    BY <2>1 DEF Begin, mountSize
  <2>2. CASE GetSizeDelta(h) \/ GetSizeBase(h) \/ Do(h) \/ DoFailed(h) \/ Reread(h) \/ Add(h)
    <3>1. UNCHANGED <<journal, epoch, life, sync, tool, quiet>> /\ Active(h)
      BY <2>2 DEF GetSizeDelta, GetSizeBase, Do, DoFailed, Reread, Add, mountSize, Active
    <3> QED
      BY <3>1 DEF RepairInv, Listed
  <2> QED
    BY <2>1, <2>2
<1>2. EpochsBounded'
  BY <1>1 DEF RepairInv, EpochsBounded, Highest
<1> QED
  BY <1>1, <1>2 DEF RepairInv, Listed, Confirmed

\* What the beginning of a sync does, whatever the epochs.
LEMMA SyncBeginStep ==
    ASSUME BaseInv, NEW p \in Procs, SyncBegin(p)
    PROVE  /\ UNCHANGED <<sizes, journal, life, call, tool, quiet>> /\ life[p] # "off"
           /\ \A q \in Procs : ~sync[q].on
           /\ \A q \in Procs \ {p} : /\ size'[q] = size[q] /\ epoch'[q] = epoch[q]
                                     /\ pendingDelta'[q] = pendingDelta[q] /\ sync'[q] = sync[q]
           /\ epoch'[p] = IF epoch[p] < journal.epoch THEN journal.epoch
                          ELSE IF epoch[p] = 0 THEN 1 ELSE epoch[p]
           /\ ~(epoch[p] > journal.epoch) => size'[p] = journal.size /\ sync'[p].base = journal.size
           /\ pendingDelta[p] = 0 => pendingDelta'[p] = 0 /\ sync'[p].delta = 0
<1>1. /\ size \in [Procs -> Nat] /\ pendingDelta \in [Procs -> Int] /\ epoch \in [Procs -> Nat]
      /\ sync \in [Procs -> [on : BOOLEAN, base : Nat, delta : Int]] /\ journal.epoch \in Nat
  BY DEF BaseInv, TypeInv, TypeOK
<1>2. UNCHANGED <<sizes, journal, life, call, tool, quiet>> /\ life[p] # "off" /\ \A q \in Procs : ~sync[q].on
  BY DEF SyncBegin, Syncs, Free
<1>3. \A q \in Procs \ {p} : /\ size'[q] = size[q] /\ epoch'[q] = epoch[q]
                             /\ pendingDelta'[q] = pendingDelta[q] /\ sync'[q] = sync[q]
  BY <1>1 DEF SyncBegin
<1>4. epoch'[p] = IF epoch[p] < journal.epoch THEN journal.epoch
                  ELSE IF epoch[p] = 0 THEN 1 ELSE epoch[p]
  BY <1>1 DEF SyncBegin
<1>5. ~(epoch[p] > journal.epoch) => size'[p] = journal.size /\ sync'[p].base = journal.size
  BY <1>1 DEF SyncBegin
<1>6. pendingDelta[p] = 0 => pendingDelta'[p] = 0 /\ sync'[p].delta = 0
  BY <1>1 DEF SyncBegin
<1> QED
  BY <1>2, <1>3, <1>4, <1>5, <1>6

\* The beginning of a sync.
LEMMA SyncBeginRepair ==
    ASSUME RepairInv, BaseInv', NEW p \in Procs, SyncBegin(p)
    PROVE  RepairInv'
<1> USE DEF RepairInv
<1>1. /\ UNCHANGED <<sizes, journal, life, call, tool, quiet>> /\ life[p] # "off"
      /\ \A q \in Procs : ~sync[q].on
      /\ \A q \in Procs \ {p} : /\ size'[q] = size[q] /\ epoch'[q] = epoch[q]
                                /\ pendingDelta'[q] = pendingDelta[q] /\ sync'[q] = sync[q]
  BY SyncBeginStep
<1>2. /\ epoch'[p] = IF epoch[p] < journal.epoch THEN journal.epoch
                     ELSE IF epoch[p] = 0 THEN 1 ELSE epoch[p]
      /\ ~(epoch[p] > journal.epoch) => size'[p] = journal.size /\ sync'[p].base = journal.size
      /\ pendingDelta[p] = 0 => pendingDelta'[p] = 0 /\ sync'[p].delta = 0
  BY SyncBeginStep
<1>3. journal.epoch \in Nat /\ (\A q \in Procs : epoch[q] \in Nat) /\ Tool \in Procs
      /\ Tool \notin Mounts /\ Mounts \subseteq Procs
  BY SizeAssumption DEF BaseInv, TypeInv, TypeOK, Procs
<1>4. Total' = Total /\ \A h \in Handlers : Active(h)' = Active(h)
  BY <1>1 DEF Total, Active
<1>5. EpochsBounded'
  <2>1. epoch'[p] >= 1 /\ epoch'[p] >= journal.epoch
    BY <1>2, <1>3
  <2>2. p \in Mounts => epoch'[p] <= Highest
    BY <1>2, <1>3 DEF EpochsBounded, Highest
  <2>3. \A m \in Mounts : epoch'[m] <= Highest
    BY <1>1, <1>3, <2>2 DEF EpochsBounded
  <2>4. \A q \in Procs : sync'[q].on => epoch'[q] >= 1 /\ epoch'[q] >= journal.epoch
    BY <1>1, <2>1
  <2>5. Highest' = Highest
    BY <1>1 DEF Highest
  <2> QED
    BY <1>1, <2>3, <2>4, <2>5 DEF EpochsBounded
<1>6. Listed'
  <2> SUFFICES ASSUME quiet PROVE Listed'
    BY <1>1 DEF Listed
  <2>1. ASSUME NEW m \in Mounts
        PROVE  /\ pendingDelta'[m] = 0 /\ (sync'[m].on => sync'[m].delta = 0)
               /\ journal.epoch >= 1 => (sync'[m].on => sync'[m].base = journal.size)
    <3>1. pendingDelta[m] = 0 /\ epoch[m] <= Highest
      BY DEF Listed, EpochsBounded
    <3>2. journal.epoch >= 1 => ~(epoch[m] > journal.epoch)
      BY <1>3, <3>1 DEF Highest
    <3>3. CASE m = p
      BY <1>2, <3>1, <3>2, <3>3
    <3>4. CASE m # p
      BY <1>1, <1>3, <3>1, <3>4
    <3> QED
      BY <3>3, <3>4
  <2> QED
    BY <1>1, <1>4, <2>1 DEF Listed
<1>7. Confirmed'
  <2>1. Agrees /\ (life[Tool] \in {"up", "stopping"} => journal.epoch >= 1) => Agrees'
    <3> SUFFICES ASSUME Agrees, life[Tool] \in {"up", "stopping"} => journal.epoch >= 1 PROVE Agrees'
      OBVIOUS
    <3>1. CASE p # Tool
      BY <1>1, <1>3, <3>1 DEF Agrees
    <3>2. CASE p = Tool
      <4>1. life[Tool] \in {"starting", "up", "stopping"}
        BY <1>1, <1>3, <3>2 DEF BaseInv, TypeInv, TypeOK
      <4>2. epoch[Tool] <= journal.epoch /\ pendingDelta[Tool] = 0
        BY <1>1, <1>3, <3>2, <4>1 DEF Agrees
      <4>3. life[Tool] \in {"up", "stopping"} => epoch'[Tool] <= journal.epoch
        BY <1>2, <1>3, <3>2, <4>2
      <4>4. sync'[Tool].on
        BY <1>3, <3>2 DEF SyncBegin, BaseInv, TypeInv, TypeOK
      <4> QED
        BY <1>1, <1>2, <1>3, <3>2, <4>2, <4>3, <4>4 DEF Agrees
    <3> QED
      BY <3>1, <3>2
  <2>2. life[Tool] \in {"up", "stopping"} => journal.epoch >= 1
    BY DEF EpochsBounded
  <2>3. Found' = Found
    BY <1>1 DEF Found
  <2> QED
    BY <1>1, <1>4, <2>1, <2>2, <2>3 DEF Confirmed
<1> QED
  BY <1>5, <1>6, <1>7

\* The end of a sync, with or without an error.
LEMMA SyncEndRepair ==
    ASSUME RepairInv, BaseInv', NEW p \in Procs, SyncEnd(p) \/ SyncFail(p)
    PROVE  RepairInv'
<1> USE DEF RepairInv
<1> DEFINE new == Applied(sync[p].base, sync[p].delta)
<1>0. /\ size \in [Procs -> Nat] /\ pendingDelta \in [Procs -> Int] /\ epoch \in [Procs -> Nat]
      /\ sync \in [Procs -> [on : BOOLEAN, base : Nat, delta : Int]]
      /\ life \in [Procs -> {"off", "starting", "up", "stopping"}]
      /\ journal.epoch \in Nat /\ Tool \in Procs /\ Tool \notin Mounts /\ Mounts \subseteq Procs
  BY SizeAssumption DEF BaseInv, TypeInv, TypeOK, Procs
<1>1. UNCHANGED <<sizes, epoch, call, tool, quiet>> /\ sync[p].on
  BY DEF SyncEnd, SyncFail, mountSize
<1>2. /\ \A q \in Procs \ {p} : ~sync[q].on
      /\ epoch[p] >= 1 /\ epoch[p] >= journal.epoch /\ life[p] # "off"
  BY <1>1 DEF BaseInv, OneSyncs, EpochsBounded
<1>3. \A q \in Procs \ {p} : size'[q] = size[q] /\ pendingDelta'[q] = pendingDelta[q] /\ life'[q] = life[q]
  BY <1>0 DEF SyncEnd, SyncFail, mountSize
<1>4. \A q \in Procs : ~sync'[q].on
  <2>1. sync' = [sync EXCEPT ![p] = NoSync]
    BY DEF SyncEnd, SyncFail
  <2> QED
    BY <1>0, <1>2, <2>1 DEF NoSync
<1>5. /\ \/ journal' = journal
         \/ journal'.epoch = epoch[p] /\ journal'.size = new
      /\ life[p] = "starting" => \/ life'[p] = "off"
                                 \/ life'[p] = "up" /\ journal'.epoch = epoch[p] /\ size'[p] = journal'.size
      /\ life[p] = "stopping" => life'[p] = "off"
      /\ life[p] = "up" => life'[p] = "up"
      /\ \/ size'[p] = size[p]
         \/ size'[p] = new /\ journal'.epoch = epoch[p] /\ journal'.size = new
  BY <1>0 DEF SyncEnd, SyncFail, Lives, mountSize
<1>6. sync[p].delta = 0 => new = sync[p].base /\ pendingDelta'[p] = pendingDelta[p]
  <2>1. sync[p].delta = 0 => new = sync[p].base
    BY <1>0 DEF Applied
  <2>2. sync[p].delta = 0 => pendingDelta'[p] = pendingDelta[p]
    <3>1. pendingDelta'[p] \in {pendingDelta[p], pendingDelta[p] - sync[p].delta}
      BY <1>0 DEF SyncEnd, SyncFail, mountSize
    <3>2. pendingDelta[p] \in Int
      BY <1>0
    <3> QED
      BY <3>1, <3>2
  <2> QED
    BY <2>1, <2>2
<1> HIDE DEF new
<1>7. Total' = Total /\ \A h \in Handlers : Active(h)' = Active(h)
  BY <1>1 DEF Total, Active
<1>8. journal'.epoch \in Nat /\ journal'.epoch >= journal.epoch
  BY <1>0, <1>2, <1>5
<1>9. EpochsBounded'
  <2>1. Highest' >= Highest /\ Highest \in Nat /\ Highest' \in Nat
    BY <1>0, <1>8 DEF Highest
  <2>2. \A m \in Mounts : epoch'[m] <= Highest'
    BY <1>0, <1>1, <2>1 DEF EpochsBounded
  <2>3. /\ life'[Tool] \in {"up", "stopping"} =>
             life[Tool] \in {"up", "stopping"} \/ (journal'.epoch = epoch[Tool] /\ p = Tool)
        /\ life[Tool] = "off" => life'[Tool] = "off"
        /\ life[Tool] = "up" => life'[Tool] = "up"
        /\ life[Tool] \in {"stopping", "off"} => life'[Tool] \in {"stopping", "off"}
        /\ life[Tool] # "stopping" => life'[Tool] # "stopping"
    <3>1. CASE p # Tool
      <4>1. life'[Tool] = life[Tool]
        BY <1>0, <1>3, <3>1
      <4> QED
        BY <4>1
    <3>2. CASE p = Tool
      BY <1>0, <1>2, <1>5, <3>2
    <3> QED
      BY <3>1, <3>2
  <2>4. tool.pc \in {"read", "stop"} \/ life'[Tool] \in {"up", "stopping"} => journal'.epoch >= 1
    BY <1>0, <1>2, <1>8, <2>3 DEF EpochsBounded
  <2> QED
    BY <1>1, <1>4, <2>2, <2>3, <2>4 DEF EpochsBounded
<1>10. Listed'
  <2> SUFFICES ASSUME quiet PROVE Listed'
    BY <1>1 DEF Listed
  <2>1. \A m \in Mounts : pendingDelta'[m] = 0
    BY <1>0, <1>1, <1>3, <1>6 DEF Listed
  <2> QED
    BY <1>0, <1>1, <1>4, <1>7, <2>1 DEF Listed
<1>11. ASSUME quiet, Agrees PROVE Agrees' /\ (journal.epoch >= 1 => journal'.size = journal.size)
  <2>1. CASE p = Tool
    <3>1. sync[p].delta = 0 /\ new = journal.size /\ pendingDelta'[p] = pendingDelta[p]
          /\ journal'.size = journal.size
      BY <1>1, <1>5, <1>6, <1>11, <2>1 DEF Agrees
    <3>2. life'[Tool] # "off" => pendingDelta'[Tool] = 0
      BY <1>2, <1>11, <2>1, <3>1 DEF Agrees
    <3>3. life'[Tool] # "starting" /\ life'[Tool] # "stopping"
      BY <1>0, <1>2, <1>5, <2>1
    <3>4. life'[Tool] = "up" => epoch'[Tool] <= journal'.epoch /\ size'[Tool] = journal'.size
      <4>1. CASE life[p] = "starting"
        BY <1>0, <1>1, <1>5, <2>1, <4>1
      <4>2. CASE life[p] = "up"
        BY <1>0, <1>1, <1>5, <1>8, <1>11, <2>1, <3>1, <4>2 DEF Agrees
      <4>3. CASE life[p] = "stopping"
        BY <1>5, <2>1, <4>3
      <4> QED
        BY <1>0, <1>2, <4>1, <4>2, <4>3
    <3> QED
      BY <1>0, <1>4, <2>1, <3>1, <3>2, <3>3, <3>4 DEF Agrees
  <2>2. CASE p # Tool
    <3>1. p \in Mounts /\ sync[p].delta = 0
      BY <1>1, <1>11, <2>2 DEF Listed, Procs
    <3>2. journal.epoch >= 1 => journal'.size = journal.size
      BY <1>1, <1>5, <1>6, <1>11, <3>1 DEF Listed
    <3>3. life[Tool] \in {"up", "stopping"} => journal.epoch >= 1
      BY DEF EpochsBounded
    <3>4. ~sync[Tool].on /\ ~sync'[Tool].on /\ life'[Tool] = life[Tool] /\ size'[Tool] = size[Tool]
          /\ pendingDelta'[Tool] = pendingDelta[Tool] /\ epoch'[Tool] = epoch[Tool]
      BY <1>0, <1>1, <1>2, <1>3, <1>4, <2>2
    <3> QED
      BY <1>0, <1>8, <1>11, <3>2, <3>3, <3>4 DEF Agrees
  <2> QED
    BY <2>1, <2>2
<1>12. Confirmed'
  <2>1. Found' = Found
    BY <1>1 DEF Found
  <2> QED
    BY <1>0, <1>1, <1>7, <1>8, <1>11, <2>1 DEF Confirmed
<1> QED
  BY <1>9, <1>10, <1>12

\* A mount that starts or stops.
LEMMA MountRepair ==
    ASSUME RepairInv, BaseInv', NEW m \in Mounts, Start(m) \/ Stop(m)
    PROVE  RepairInv'
<1> USE DEF RepairInv
<1>0. /\ size \in [Procs -> Nat] /\ pendingDelta \in [Procs -> Int] /\ epoch \in [Procs -> Nat]
      /\ life \in [Procs -> {"off", "starting", "up", "stopping"}]
      /\ journal.epoch \in Nat /\ Tool \in Procs /\ Tool \notin Mounts /\ Mounts \subseteq Procs
  BY SizeAssumption DEF BaseInv, TypeInv, TypeOK, Procs
<1>1. UNCHANGED <<sizes, journal, sync, call, tool, quiet>> /\ ~sync[m].on
  BY <1>0 DEF Start, Stop, CreateSizeJournal, BaseInv, OneSyncs
<1>2. /\ \A q \in Procs \ {m} : /\ size'[q] = size[q] /\ pendingDelta'[q] = pendingDelta[q]
                                /\ life'[q] = life[q] /\ epoch'[q] = epoch[q]
      /\ epoch'[m] \in {0, epoch[m]} /\ pendingDelta'[m] \in {0, pendingDelta[m]}
  BY <1>0 DEF Start, Stop, CreateSizeJournal, mountSize
<1>3. Total' = Total /\ Highest' = Highest /\ Highest \in Nat /\ \A h \in Handlers : Active(h)' = Active(h)
  BY <1>0, <1>1 DEF Total, Active, Highest
<1>4. /\ life'[Tool] = life[Tool] /\ epoch'[Tool] = epoch[Tool] /\ size'[Tool] = size[Tool]
      /\ pendingDelta'[Tool] = pendingDelta[Tool]
  BY <1>0, <1>2
<1>5. EpochsBounded'
  <2>1. \A n \in Mounts : epoch'[n] <= Highest
    BY <1>0, <1>2, <1>3 DEF EpochsBounded
  <2>2. \A q \in Procs : sync[q].on => epoch'[q] = epoch[q]
    BY <1>1, <1>2
  <2> QED
    BY <1>1, <1>3, <1>4, <2>1, <2>2 DEF EpochsBounded
<1>6. Listed'
  BY <1>0, <1>1, <1>2, <1>3 DEF Listed
<1>7. Confirmed'
  <2>1. Agrees' <=> Agrees
    BY <1>1, <1>4 DEF Agrees
  <2>2. Found' = Found
    BY <1>1 DEF Found
  <2> QED
    BY <1>1, <1>3, <2>1, <2>2 DEF Confirmed
<1> QED
  BY <1>5, <1>6, <1>7

\* The command lists the bucket, opens the journal and stops.
LEMMA CommandRepair ==
    ASSUME RepairInv, BaseInv', ToolList \/ ToolOpen \/ ToolAborts \/ ToolStop \/ ToolLoop
    PROVE  RepairInv'
<1> USE DEF RepairInv
<1>0. /\ size \in [Procs -> Nat] /\ pendingDelta \in [Procs -> Int] /\ epoch \in [Procs -> Nat]
      /\ life \in [Procs -> {"off", "starting", "up", "stopping"}]
      /\ journal.epoch \in Nat /\ Tool \in Procs /\ Tool \notin Mounts /\ Mounts \subseteq Procs
      /\ tool \in [pc : {"idle", "listed", "open", "read", "stop", "failed", "done"},
                   total : Nat, newSize : Nat, attempt : 0 .. 3]
  BY SizeAssumption DEF BaseInv, TypeInv, TypeOK, Procs
<1>1. UNCHANGED <<sizes, journal, sync, call>>
  BY DEF ToolList, ToolOpen, ToolAborts, ToolStop, ToolLoop
<1>2. Total' = Total /\ Highest' = Highest /\ \A h \in Handlers : Active(h)' = Active(h)
  BY <1>1 DEF Total, Active, Highest
<1>3. \A m \in Mounts : epoch'[m] = epoch[m] /\ pendingDelta'[m] = pendingDelta[m]
  BY <1>0 DEF ToolList, ToolOpen, ToolAborts, ToolStop, ToolLoop, CreateSizeJournal, mountSize
<1>4. CASE ToolList
  <2>1. /\ UNCHANGED <<size, pendingDelta, epoch, life>> /\ tool.pc = "idle" /\ tool'.total = Total
        /\ tool'.pc = IF Total = 0 THEN "done" ELSE "listed"
    BY <1>0, <1>4 DEF ToolList, mountSize
  <2>2. quiet' => /\ \A p \in Procs : pendingDelta[p] = 0 /\ ~sync[p].on
                  /\ \A h \in Handlers : ~Active(h)
    BY <1>4 DEF ToolList, Active
  <2>3. EpochsBounded'
    BY <1>1, <1>2, <2>1 DEF EpochsBounded
  <2>4. Listed'
    BY <1>0, <1>1, <1>2, <2>1, <2>2 DEF Listed
  <2>5. Confirmed'
    BY <2>1 DEF Confirmed, Found
  <2> QED
    BY <2>3, <2>4, <2>5
<1>5. CASE ToolOpen
  <2>1. /\ tool.pc = "listed" /\ life[Tool] = "off" /\ quiet' = quiet
        /\ tool'.pc = "open" /\ tool'.total = tool.total
        /\ life'[Tool] = "starting" /\ epoch'[Tool] = 0 /\ pendingDelta'[Tool] = 0
    BY <1>0, <1>5 DEF ToolOpen, CreateSizeJournal
  <2>2. ~sync[Tool].on
    BY <1>0, <2>1 DEF BaseInv, OneSyncs
  <2>3. \A q \in Procs : sync[q].on => epoch'[q] = epoch[q]
    BY <1>3, <2>2 DEF Procs
  <2>4. EpochsBounded'
    BY <1>1, <1>2, <1>3, <2>1, <2>3 DEF EpochsBounded
  <2>5. Listed'
    BY <1>1, <1>2, <1>3, <2>1 DEF Listed
  <2>6. Agrees'
    BY <1>1, <2>1, <2>2 DEF Agrees
  <2> QED
    BY <2>1, <2>4, <2>5, <2>6 DEF Confirmed, Found
<1>6. CASE ToolAborts
  <2>1. /\ UNCHANGED <<size, pendingDelta, epoch, life, quiet>> /\ tool.pc = "open"
        /\ life[Tool] = "off" /\ tool'.pc = "failed" /\ tool'.total = tool.total
    BY <1>0, <1>6 DEF ToolAborts, mountSize
  <2>2. EpochsBounded'
    BY <1>1, <1>2, <2>1 DEF EpochsBounded
  <2>3. Listed'
    BY <1>1, <1>2, <2>1 DEF Listed
  <2> QED
    BY <2>1, <2>2, <2>3 DEF Confirmed, Found
<1>7. CASE ToolStop
  <2>1. /\ UNCHANGED <<size, pendingDelta, epoch, quiet>> /\ tool.pc = "read" /\ life[Tool] = "up"
        /\ tool'.pc = "stop" /\ tool'.total = tool.total /\ tool'.newSize = tool.newSize
        /\ life'[Tool] = "stopping"
    BY <1>0, <1>7 DEF ToolStop, mountSize
  <2>2. EpochsBounded'
    BY <1>1, <1>2, <2>1 DEF EpochsBounded
  <2>3. Listed'
    BY <1>1, <1>2, <2>1 DEF Listed
  <2>4. (Agrees => Agrees') /\ (Found' => Found)
    BY <1>1, <2>1 DEF Agrees, Found
  <2> QED
    BY <1>1, <1>2, <2>1, <2>2, <2>3, <2>4 DEF Confirmed
<1>8. CASE ToolLoop
  <2>1. /\ UNCHANGED <<size, pendingDelta, epoch, life, quiet>> /\ tool.pc = "stop" /\ life[Tool] = "off"
        /\ tool'.pc \in {"done", "listed"} /\ tool'.total = tool.total /\ tool'.newSize = tool.newSize
    BY <1>0, <1>8 DEF ToolLoop, mountSize
  <2>2. EpochsBounded'
    BY <1>1, <1>2, <2>1 DEF EpochsBounded
  <2>3. Listed'
    BY <1>1, <1>2, <2>1 DEF Listed
  <2>4. (Agrees => Agrees') /\ (Found' => Found)
    BY <1>1, <2>1 DEF Agrees, Found
  <2> QED
    BY <1>1, <1>2, <2>1, <2>2, <2>3, <2>4 DEF Confirmed
<1> QED
  BY <1>4, <1>5, <1>6, <1>7, <1>8

\* The command reads the size and corrects it.
LEMMA ReadRepair ==
    ASSUME RepairInv, BaseInv', ToolRead
    PROVE  RepairInv'
<1> USE DEF RepairInv
<1> DEFINE current == Applied(size[Tool], pendingDelta[Tool])
<1>0. /\ size \in [Procs -> Nat] /\ pendingDelta \in [Procs -> Int] /\ epoch \in [Procs -> Nat]
      /\ journal.epoch \in Nat /\ Tool \in Procs /\ Tool \notin Mounts /\ Mounts \subseteq Procs
      /\ tool \in [pc : {"idle", "listed", "open", "read", "stop", "failed", "done"},
                   total : Nat, newSize : Nat, attempt : 0 .. 3]
  BY SizeAssumption DEF BaseInv, TypeInv, TypeOK, Procs
<1>1. /\ UNCHANGED <<sizes, journal, sync, call, size, life, quiet>>
      /\ tool.pc = "open" /\ life[Tool] = "up"
      /\ tool'.pc = "read" /\ tool'.newSize = current /\ tool'.total = tool.total
  BY <1>0 DEF ToolRead
<1>2. /\ \A m \in Mounts : epoch'[m] = epoch[m] /\ pendingDelta'[m] = pendingDelta[m]
      /\ pendingDelta'[Tool] = pendingDelta[Tool] + tool.total - current
      /\ epoch'[Tool] = IF current = tool.total THEN epoch[Tool] ELSE epoch[Tool] + 1
  BY <1>0 DEF ToolRead
<1>3. Total' = Total /\ Highest' = Highest /\ \A h \in Handlers : Active(h)' = Active(h)
  BY <1>1 DEF Total, Active, Highest
<1>4. EpochsBounded'
  <2>1. epoch'[Tool] >= epoch[Tool] /\ epoch'[Tool] \in Nat /\ epoch[Tool] \in Nat
    <3> HIDE DEF current
    <3> QED
      BY <1>0, <1>2
  <2>2. \A p \in Procs : sync[p].on => epoch'[p] >= 1 /\ epoch'[p] >= journal.epoch
    BY <1>0, <1>2, <2>1 DEF EpochsBounded, Procs
  <2> QED
    BY <1>1, <1>2, <1>3, <2>2 DEF EpochsBounded
<1>5. Listed'
  BY <1>1, <1>2, <1>3 DEF Listed
<1>6. Confirmed'
  <2> SUFFICES ASSUME quiet, Found' PROVE journal.epoch >= 1 /\ journal.size = Total /\ Agrees'
    BY <1>1, <1>3 DEF Confirmed
  <2>1. Agrees /\ tool.total = Total /\ journal.epoch >= 1
    BY <1>1 DEF Confirmed, Listed, EpochsBounded
  <2>2. pendingDelta[Tool] = 0 /\ size[Tool] = journal.size /\ size[Tool] \in Nat
    BY <1>0, <1>1, <2>1 DEF Agrees
  <2>3. current = size[Tool]
    BY <2>2 DEF Applied
  <2>4. current = tool.total
    BY <1>1 DEF Found
  <2>5. pendingDelta'[Tool] = 0 /\ epoch'[Tool] = epoch[Tool]
    <3> HIDE DEF current
    <3> QED
      BY <1>0, <1>2, <2>2, <2>4
  <2> QED
    BY <1>1, <2>1, <2>2, <2>3, <2>4, <2>5 DEF Agrees
<1> QED
  BY <1>4, <1>5, <1>6

\* Every step keeps the repair.
LEMMA NextRepair == RepairInv /\ [Next]_vars => RepairInv'
<1> SUFFICES ASSUME RepairInv, [Next]_vars PROVE RepairInv'
  OBVIOUS
<1>1. BaseInv'
  BY NextBase DEF RepairInv
<1>2. CASE UNCHANGED vars
  <2>1. UNCHANGED <<sizes, journal, size, pendingDelta, epoch, life, sync, call, tool, quiet>>
    BY <1>2 DEF vars, mountSize
  <2>2. /\ Total' = Total /\ Highest' = Highest /\ Found' = Found /\ Agrees' = Agrees
        /\ \A h \in Handlers : Active(h)' = Active(h)
    BY <2>1 DEF Total, Highest, Found, Agrees, Active
  <2> QED
    BY <1>1, <2>1, <2>2 DEF RepairInv, EpochsBounded, Listed, Confirmed
<1> QED
  BY <1>1, <1>2, SyncBeginRepair, SyncEndRepair, MountRepair, CallRepair, CommandRepair, ReadRepair
     DEF Next

\* When sync-size-tracker reports success the journal holds the size of the bucket,
\* if the bucket was not changed since it was listed, whatever else goes wrong.
THEOREM CommandRepairs == Spec => []ToolRepairs
<1>1. Init => RepairInv
  BY InitRepair
<1>2. RepairInv /\ [Next]_vars => RepairInv'
  BY NextRepair
<1>3. RepairInv => ToolRepairs
  BY DEF RepairInv, Confirmed, Found, ToolRepairs
<1> QED
  BY <1>1, <1>2, <1>3, PTL DEF Spec
=============================================================================
