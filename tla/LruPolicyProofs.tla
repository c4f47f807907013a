-------------------------- MODULE LruPolicyProofs --------------------------
(***************************************************************************)
(* What LruPolicy keeps, whatever the callers, the validator and the       *)
(* evictor do to each other: the list is intact, no cached file is         *)
(* forgotten, and a snapshot restores the list.  The list is described by  *)
(* the sequence of its cells; every section of the code takes a cell out   *)
(* of this sequence, puts one in front of it or cuts its end off.          *)
(***************************************************************************)
EXTENDS LruPolicy, FiniteSetTheorems, WellFoundedInduction, TLAPS

\* A pass of clearCache takes all the nodes beyond the last marker: more than
\* maxEviction of them, and the pointers of those taken reach into the rest.
RoomToEvict == Cardinality(Nodes) < maxEviction

-----------------------------------------------------------------------------
(* The cells                                                               *)

LEMMA CellFacts ==
    /\ Nil \notin Cells /\ Nil \notin Nodes
    /\ currMarker \in Cells /\ lastMarker \in Cells /\ currMarker # lastMarker
    /\ currMarker \notin Nodes /\ lastMarker \notin Nodes
    /\ Nodes \subseteq Cells /\ currMarker # Nil /\ lastMarker # Nil
<1>1. \A k \in Nat : <<Marker, k>> \notin Names \X Nat
  BY LruAssumption
<1>2. \A k \in Nat : <<Marker, k>> \notin Nodes
  BY <1>1, LruAssumption
<1>3. Nil \notin Nodes /\ currMarker \notin Nodes /\ lastMarker \notin Nodes
  BY <1>2 DEF Nil, currMarker, lastMarker
<1>4. Nil # currMarker /\ Nil # lastMarker /\ currMarker # lastMarker
  BY DEF Nil, currMarker, lastMarker
<1> QED
  BY <1>3, <1>4 DEF Cells

LEMMA CellsFinite == IsFiniteSet(Cells) /\ Cardinality(Cells) \in Nat
<1>1. IsFiniteSet(Nodes)
  BY LruAssumption
<1>2. IsFiniteSet(Nodes \cup {currMarker}) /\ IsFiniteSet((Nodes \cup {currMarker}) \cup {lastMarker})
  BY <1>1, FS_AddElement
<1>3. Cells = (Nodes \cup {currMarker}) \cup {lastMarker}
  BY DEF Cells
<1> QED
  BY <1>2, <1>3, FS_CardinalityType

-----------------------------------------------------------------------------
(* Lists                                                                   *)

ListType == [next : [Cells -> Cells \cup {Nil}], prev : [Cells -> Cells \cup {Nil}],
             head : Cells \cup {Nil}]

\* The pointers of all cells mirror each other, of those on the list and of
\* those that were cut out of it.
Linked(L) ==
    /\ L \in ListType
    /\ \A c, d \in Cells : L.next[c] = d <=> L.prev[d] = c

\* s is what a walk along next meets.
Follows(L, s) ==
    /\ s \in Seq(Cells) /\ Len(s) >= 1
    /\ \A i, j \in 1 .. Len(s) : s[i] = s[j] => i = j
    /\ \A i \in 1 .. Len(s) - 1 : L.next[s[i]] = s[i + 1]
    /\ L.next[s[Len(s)]] = Nil

Along(L, s) == Follows(L, s) /\ s[1] = L.head /\ L.prev[s[1]] = Nil

On(s, c) == \E i \in 1 .. Len(s) : s[i] = c

Ordered(s) == \E i, j \in 1 .. Len(s) : i < j /\ s[i] = currMarker /\ s[j] = lastMarker

\* c is not linked to anything.
Loose(L, c) == L.next[c] = Nil /\ L.prev[c] = Nil

\* s without its k-th element; n before s.
Cut(s, k) == [i \in 1 .. Len(s) - 1 |-> IF i < k THEN s[i] ELSE s[i + 1]]
Push(n, s) == [i \in 1 .. Len(s) + 1 |-> IF i = 1 THEN n ELSE s[i - 1]]

LEMMA CutSeq ==
    ASSUME NEW s \in Seq(Cells), NEW k \in 1 .. Len(s)
    PROVE  /\ Cut(s, k) \in Seq(Cells) /\ Len(Cut(s, k)) = Len(s) - 1
           /\ \A i \in 1 .. Len(s) - 1 : Cut(s, k)[i] = IF i < k THEN s[i] ELSE s[i + 1]
<1>1. Len(s) - 1 \in Nat /\ \A i \in 1 .. Len(s) : s[i] \in Cells
  OBVIOUS
<1>2. \A i \in 1 .. Len(s) - 1 : (IF i < k THEN s[i] ELSE s[i + 1]) \in Cells
  BY <1>1
<1> QED
  BY <1>1, <1>2 DEF Cut

LEMMA PushSeq ==
    ASSUME NEW s \in Seq(Cells), NEW n \in Cells
    PROVE  /\ Push(n, s) \in Seq(Cells) /\ Len(Push(n, s)) = Len(s) + 1
           /\ Push(n, s)[1] = n
           /\ \A i \in 1 .. Len(s) : Push(n, s)[i + 1] = s[i]
<1>1. Len(s) + 1 \in Nat /\ \A i \in 1 .. Len(s) : s[i] \in Cells
  OBVIOUS
<1>2. \A i \in 1 .. Len(s) + 1 : (IF i = 1 THEN n ELSE s[i - 1]) \in Cells
  BY <1>1
<1> QED
  BY <1>1, <1>2 DEF Push

(* extractNode *)

LEMMA ExtractValues ==
    ASSUME NEW L, Linked(L), NEW n \in Cells
    PROVE  LET E == extractNode(L, n)
           IN  /\ E \in ListType
               /\ Loose(E, n)
               /\ \A c \in Cells : c # n =>
                    /\ E.next[c] = IF c = L.prev[n] THEN L.next[n] ELSE L.next[c]
                    /\ E.prev[c] = IF c = L.next[n] THEN L.prev[n] ELSE L.prev[c]
               /\ E.head = IF n = L.head THEN L.next[n] ELSE L.head
<1> DEFINE nx == L.next[n]
           pv == L.prev[n]
           prev1 == IF nx = Nil THEN L.prev ELSE [L.prev EXCEPT ![nx] = pv]
           next1 == IF pv = Nil THEN L.next ELSE [L.next EXCEPT ![pv] = nx]
           E == extractNode(L, n)
<1>1. nx \in Cells \cup {Nil} /\ pv \in Cells \cup {Nil} /\ L.head \in Cells \cup {Nil}
  BY DEF Linked, ListType
<1>2. L.next \in [Cells -> Cells \cup {Nil}] /\ L.prev \in [Cells -> Cells \cup {Nil}]
  BY DEF Linked, ListType
<1>3. next1 \in [Cells -> Cells \cup {Nil}] /\ prev1 \in [Cells -> Cells \cup {Nil}]
  BY <1>1, <1>2
<1>4. /\ E.next = [next1 EXCEPT ![n] = Nil] /\ E.prev = [prev1 EXCEPT ![n] = Nil]
      /\ E.head = IF n = L.head THEN nx ELSE L.head
      /\ E = [next |-> [next1 EXCEPT ![n] = Nil], prev |-> [prev1 EXCEPT ![n] = Nil],
              head |-> IF n = L.head THEN nx ELSE L.head]
  BY DEF extractNode
<1>5. \A c \in Cells : /\ next1[c] = IF c = pv THEN nx ELSE L.next[c]
                       /\ prev1[c] = IF c = nx THEN pv ELSE L.prev[c]
  BY <1>1, <1>2, CellFacts
<1> HIDE DEF next1, prev1, E
<1>6. E \in ListType
  BY <1>1, <1>3, <1>4 DEF ListType
<1>7. Loose(E, n)
  BY <1>3, <1>4 DEF Loose
<1>8. \A c \in Cells : c # n => E.next[c] = next1[c] /\ E.prev[c] = prev1[c]
  BY <1>3, <1>4
<1> QED
  BY <1>4, <1>5, <1>6, <1>7, <1>8 DEF E

LEMMA ExtractLinked ==
    ASSUME NEW L, Linked(L), NEW n \in Cells
    PROVE  Linked(extractNode(L, n))
<1> DEFINE E == extractNode(L, n)
<1>1. /\ E \in ListType /\ Loose(E, n)
      /\ \A c \in Cells : c # n =>
           /\ E.next[c] = IF c = L.prev[n] THEN L.next[n] ELSE L.next[c]
           /\ E.prev[c] = IF c = L.next[n] THEN L.prev[n] ELSE L.prev[c]
  BY ExtractValues
<1> HIDE DEF E
<1>2. \A c, d \in Cells : L.next[c] = d <=> L.prev[d] = c
  BY DEF Linked
<1>3. ASSUME NEW c \in Cells, NEW d \in Cells PROVE E.next[c] = d <=> E.prev[d] = c
  <2>1. CASE c = n \/ d = n
    <3>1. n # Nil /\ c # Nil /\ d # Nil
      BY CellFacts
    <3>2. E.next[n] = Nil /\ E.prev[n] = Nil
      BY <1>1 DEF Loose
    <3>3. ASSUME d = n, c # n PROVE E.next[c] # n
      BY <1>1, <1>2, <3>3, CellFacts
    <3>4. ASSUME c = n, d # n PROVE E.prev[d] # n
      BY <1>1, <1>2, <3>4, CellFacts
    <3> QED
      BY <2>1, <3>1, <3>2, <3>3, <3>4
  <2>2. CASE c # n /\ d # n
    BY <1>1, <1>2, <2>2, CellFacts
  <2> QED
    BY <2>1, <2>2
<1> QED
  BY <1>1, <1>3 DEF Linked, E

\* Where a cell of the list points to.
LEMMA Neighbours ==
    ASSUME NEW L, Linked(L), NEW s, Along(L, s), NEW k \in 1 .. Len(s)
    PROVE  /\ s[k] \in Cells
           /\ L.next[s[k]] = IF k = Len(s) THEN Nil ELSE s[k + 1]
           /\ L.prev[s[k]] = IF k = 1 THEN Nil ELSE s[k - 1]
<1>1. s \in Seq(Cells) /\ Len(s) \in Nat /\ \A i \in 1 .. Len(s) : s[i] \in Cells
  BY DEF Along, Follows
<1>2. k < Len(s) => L.next[s[k]] = s[k + 1]
  BY <1>1 DEF Along, Follows
<1>3. k > 1 => L.next[s[k - 1]] = s[k] /\ s[k - 1] \in Cells
  <2>1. k > 1 => k - 1 \in 1 .. Len(s) - 1 /\ (k - 1) + 1 = k
    BY <1>1
  <2> QED
    BY <1>1, <2>1 DEF Along, Follows
<1>4. k > 1 => L.prev[s[k]] = s[k - 1]
  BY <1>1, <1>3 DEF Linked
<1> QED
  BY <1>1, <1>2, <1>4 DEF Along, Follows

LEMMA ExtractOn ==
    ASSUME NEW L, Linked(L), NEW s, Along(L, s), Len(s) >= 2, NEW k \in 1 .. Len(s)
    PROVE  Along(extractNode(L, s[k]), Cut(s, k)) /\ ~On(Cut(s, k), s[k])
<1> DEFINE n == s[k]
           E == extractNode(L, n)
           t == Cut(s, k)
<1>1. s \in Seq(Cells) /\ Len(s) \in Nat /\ \A i \in 1 .. Len(s) : s[i] \in Cells
  BY DEF Along, Follows
<1>2. /\ t \in Seq(Cells) /\ Len(t) = Len(s) - 1
      /\ \A i \in 1 .. Len(s) - 1 : t[i] = IF i < k THEN s[i] ELSE s[i + 1]
  BY <1>1, CutSeq
<1>3. /\ E \in ListType
      /\ \A c \in Cells : c # n =>
           /\ E.next[c] = IF c = L.prev[n] THEN L.next[n] ELSE L.next[c]
           /\ E.prev[c] = IF c = L.next[n] THEN L.prev[n] ELSE L.prev[c]
      /\ E.head = IF n = L.head THEN L.next[n] ELSE L.head
  BY <1>1, ExtractValues
<1>4. \A i, j \in 1 .. Len(s) : s[i] = s[j] => i = j
  BY DEF Along, Follows
<1>5. \A i \in 1 .. Len(s) :
        /\ L.next[s[i]] = IF i = Len(s) THEN Nil ELSE s[i + 1]
        /\ L.prev[s[i]] = IF i = 1 THEN Nil ELSE s[i - 1]
  BY Neighbours
<1>6. s[1] = L.head
  BY DEF Along
<1> HIDE DEF E, t
<1>7. \A i, j \in 1 .. Len(t) : t[i] = t[j] => i = j
  BY <1>1, <1>2, <1>4
<1>8. \A i \in 1 .. Len(t) : t[i] # n
  BY <1>1, <1>2, <1>4
<1>9. ASSUME NEW i \in 1 .. Len(t) - 1 PROVE E.next[t[i]] = t[i + 1]
  <2>1. t[i] \in Cells /\ t[i] # n
    BY <1>2, <1>8
  <2>a. /\ i \in 1 .. Len(s) - 1 /\ i + 1 \in 1 .. Len(s) - 1 /\ (i + 1) + 1 = i + 2
        /\ i \in 1 .. Len(s) /\ i + 1 \in 1 .. Len(s) /\ i + 2 \in 1 .. Len(s)
        /\ i # Len(s) /\ i + 1 # Len(s) /\ i \in Nat /\ k \in Nat
    BY <1>1, <1>2
  <2>b. /\ t[i] = IF i < k THEN s[i] ELSE s[i + 1]
        /\ t[i + 1] = IF i + 1 < k THEN s[i + 1] ELSE s[i + 2]
    BY <1>2, <2>a
  <2>c. L.next[s[i]] = s[i + 1] /\ L.next[s[i + 1]] = s[i + 2]
    BY <1>5, <2>a
  <2>2. CASE i < k - 1
    <3>1. t[i] = s[i] /\ t[i + 1] = s[i + 1]
      BY <2>2, <2>a, <2>b
    <3>2. k > 1 /\ k - 1 \in 1 .. Len(s) /\ i # k - 1
      BY <1>1, <2>2, <2>a
    <3>3. L.prev[n] = s[k - 1] /\ s[i] # s[k - 1]
      BY <1>4, <1>5, <2>a, <3>2
    <3> QED
      BY <1>3, <2>1, <2>c, <3>1, <3>3
  <2>3. CASE i = k - 1
    <3>1. t[i] = s[k - 1] /\ t[i + 1] = s[k + 1] /\ k > 1 /\ k < Len(s)
      BY <2>3, <2>a, <2>b
    <3>2. L.prev[n] = s[k - 1] /\ L.next[n] = s[k + 1]
      BY <1>5, <3>1
    <3> QED
      BY <1>3, <2>1, <3>1, <3>2
  <2>4. CASE i > k - 1
    <3>1. t[i] = s[i + 1] /\ t[i + 1] = s[i + 2] /\ L.next[s[i + 1]] = s[i + 2]
      BY <2>4, <2>a, <2>b, <2>c
    <3>2. L.prev[n] # s[i + 1]
      <4>1. k = 1 => L.prev[n] = Nil
        BY <1>5
      <4>2. k > 1 => k - 1 \in 1 .. Len(s) /\ k - 1 # i + 1 /\ k # 1
        BY <1>1, <2>4, <2>a
      <4>3. k > 1 => L.prev[n] = s[k - 1]
        BY <1>5, <4>2
      <4> QED
        BY <1>4, <2>1, <2>a, <3>1, <4>1, <4>2, <4>3, CellFacts
    <3> QED
      BY <1>3, <2>1, <3>1, <3>2
  <2> QED
    BY <1>2, <2>2, <2>3, <2>4
<1>10. E.next[t[Len(t)]] = Nil
  <2>1. Len(t) \in 1 .. Len(s) - 1 /\ t[Len(t)] \in Cells /\ t[Len(t)] # n
    BY <1>2, <1>8
  <2>2. CASE k = Len(s)
    <3>1. t[Len(t)] = s[k - 1] /\ L.prev[n] = s[k - 1] /\ L.next[n] = Nil
      BY <1>1, <1>2, <1>5, <2>2
    <3> QED
      BY <1>3, <2>1, <3>1
  <2>3. CASE k # Len(s)
    <3>1. t[Len(t)] = s[Len(s)] /\ L.next[s[Len(s)]] = Nil
      BY <1>1, <1>2, <1>5, <2>3
    <3>2. L.prev[n] # s[Len(s)]
      <4>1. k = 1 => L.prev[n] = Nil
        BY <1>5
      <4>2. k > 1 => L.prev[n] = s[k - 1] /\ k - 1 \in 1 .. Len(s) /\ k - 1 # Len(s)
        BY <1>1, <1>5
      <4> QED
        BY <1>1, <1>4, <2>1, <3>1, <4>1, <4>2, CellFacts
    <3> QED
      BY <1>3, <2>1, <3>1, <3>2
  <2> QED
    BY <2>2, <2>3
<1>11. t[1] = E.head /\ E.prev[t[1]] = Nil
  <2>1. t[1] \in Cells /\ t[1] # n /\ 1 \in 1 .. Len(s)
    BY <1>1, <1>2, <1>8
  <2>2. CASE k = 1
    <3>0. 1 \in 1 .. Len(s) - 1 /\ 1 + 1 = 2 /\ 1 # Len(s) /\ ~(1 < k)
      BY <1>1, <2>2
    <3>1. t[1] = s[2] /\ L.next[n] = s[2] /\ L.prev[n] = Nil /\ n = L.head
      BY <1>2, <1>5, <1>6, <2>1, <2>2, <3>0
    <3> QED
      BY <1>3, <2>1, <3>1
  <2>3. CASE k # 1
    <3>1. t[1] = s[1] /\ L.prev[s[1]] = Nil /\ n # s[1]
      BY <1>1, <1>2, <1>4, <1>5, <2>1, <2>3
    <3>2. L.next[n] # s[1]
      <4>1. k < Len(s) => L.next[n] = s[k + 1] /\ k + 1 \in 1 .. Len(s) /\ k + 1 # 1
        BY <1>1, <1>5
      <4>2. k = Len(s) => L.next[n] = Nil
        BY <1>5
      <4> QED
        BY <1>1, <1>4, <2>1, <3>1, <4>1, <4>2, CellFacts
    <3> QED
      BY <1>3, <1>6, <2>1, <3>1, <3>2
  <2> QED
    BY <2>2, <2>3
<1>12. Len(t) >= 1
  BY <1>1, <1>2
<1>13. Along(E, t)
  BY <1>2, <1>7, <1>9, <1>10, <1>11, <1>12 DEF Along, Follows
<1> QED
  BY <1>8, <1>13 DEF On, E, t

LEMMA ExtractOff ==
    ASSUME NEW L, Linked(L), NEW s, Along(L, s), NEW n \in Cells, ~On(s, n)
    PROVE  Along(extractNode(L, n), s)
<1> DEFINE E == extractNode(L, n)
<1>1. s \in Seq(Cells) /\ Len(s) \in Nat /\ Len(s) >= 1 /\ \A i \in 1 .. Len(s) : s[i] \in Cells
  BY DEF Along, Follows
<1>2. /\ \A c \in Cells : c # n =>
           /\ E.next[c] = IF c = L.prev[n] THEN L.next[n] ELSE L.next[c]
           /\ E.prev[c] = IF c = L.next[n] THEN L.prev[n] ELSE L.prev[c]
      /\ E.head = IF n = L.head THEN L.next[n] ELSE L.head
  BY ExtractValues
<1> HIDE DEF E
<1>3. \A i \in 1 .. Len(s) : s[i] # n
  BY DEF On
<1>4. \A i \in 1 .. Len(s) :
        /\ L.next[s[i]] = IF i = Len(s) THEN Nil ELSE s[i + 1]
        /\ L.prev[s[i]] = IF i = 1 THEN Nil ELSE s[i - 1]
  BY Neighbours
<1>5. \A i \in 1 .. Len(s) : s[i] # L.prev[n] /\ s[i] # L.next[n]
  <2> SUFFICES ASSUME NEW i \in 1 .. Len(s) PROVE s[i] # L.prev[n] /\ s[i] # L.next[n]
    OBVIOUS
  <2>1. L.next[s[i]] # n
    BY <1>1, <1>3, <1>4, CellFacts
  <2>2. L.prev[s[i]] # n
    BY <1>1, <1>3, <1>4, CellFacts
  <2> QED
    BY <1>1, <2>1, <2>2 DEF Linked
<1>6. \A i \in 1 .. Len(s) : E.next[s[i]] = L.next[s[i]] /\ E.prev[s[i]] = L.prev[s[i]]
  BY <1>1, <1>2, <1>3, <1>5
<1>7. E.head = s[1]
  BY <1>1, <1>2, <1>3 DEF Along
<1> QED
  BY <1>1, <1>6, <1>7 DEF Along, Follows, E

(* setHead *)

LEMMA PushOn ==
    ASSUME NEW L, Linked(L), NEW s, Along(L, s), NEW n \in Cells, ~On(s, n), Loose(L, n)
    PROVE  Linked(setHead(L, n)) /\ Along(setHead(L, n), Push(n, s))
<1> DEFINE H == setHead(L, n)
           t == Push(n, s)
           h == L.head
<1>1. s \in Seq(Cells) /\ Len(s) \in Nat /\ Len(s) >= 1 /\ \A i \in 1 .. Len(s) : s[i] \in Cells
  BY DEF Along, Follows
<1>2. h = s[1] /\ h \in Cells /\ h # n /\ L.prev[h] = Nil
  BY <1>1 DEF Along, On
<1>3. /\ L.next \in [Cells -> Cells \cup {Nil}] /\ L.prev \in [Cells -> Cells \cup {Nil}]
      /\ L.next[n] = Nil /\ L.prev[n] = Nil
  BY DEF Linked, ListType, Loose
<1>4. /\ H.next = [L.next EXCEPT ![n] = h]
      /\ H.prev = [L.prev EXCEPT ![n] = Nil, ![h] = n]
      /\ H.head = n
      /\ H = [next |-> H.next, prev |-> H.prev, head |-> H.head]
  BY DEF setHead
<1> HIDE DEF H, h
<1>5. H.next \in [Cells -> Cells \cup {Nil}] /\ H.prev \in [Cells -> Cells \cup {Nil}]
  BY <1>2, <1>3, <1>4
<1>6. H \in ListType
  BY <1>4, <1>5 DEF ListType
<1>7. \A c \in Cells : /\ H.next[c] = IF c = n THEN h ELSE L.next[c]
                       /\ H.prev[c] = IF c = h THEN n ELSE L.prev[c]
  BY <1>2, <1>3, <1>4
<1>8. \A c, d \in Cells : L.next[c] = d <=> L.prev[d] = c
  BY DEF Linked
<1>9. \A c \in Cells : L.next[c] # n /\ L.next[c] # h /\ L.prev[c] # n
  BY <1>2, <1>3, <1>8, CellFacts
<1>10. \A c, d \in Cells : H.next[c] = d <=> H.prev[d] = c
  BY <1>2, <1>7, <1>8, <1>9
<1>11. Linked(H)
  BY <1>6, <1>10 DEF Linked
<1>12. /\ t \in Seq(Cells) /\ Len(t) = Len(s) + 1 /\ t[1] = n
       /\ \A i \in 1 .. Len(s) : t[i + 1] = s[i]
  BY <1>1, PushSeq
<1> HIDE DEF t
<1>13. \A i \in 2 .. Len(t) : t[i] = s[i - 1] /\ i - 1 \in 1 .. Len(s)
  <2> SUFFICES ASSUME NEW i \in 2 .. Len(t) PROVE t[i] = s[i - 1] /\ i - 1 \in 1 .. Len(s)
    OBVIOUS
  <2>1. i - 1 \in 1 .. Len(s) /\ (i - 1) + 1 = i
    BY <1>1, <1>12
  <2> QED
    BY <1>12, <2>1
<1>14. \A i \in 1 .. Len(s) : s[i] # n
  BY DEF On
<1>15. \A i, j \in 1 .. Len(t) : t[i] = t[j] => i = j
  <2>1. \A i, j \in 1 .. Len(s) : s[i] = s[j] => i = j
    BY DEF Along, Follows
  <2>2. \A i \in 1 .. Len(t) : i = 1 \/ i \in 2 .. Len(t)
    BY <1>1, <1>12
  <2> SUFFICES ASSUME NEW i \in 1 .. Len(t), NEW j \in 1 .. Len(t), t[i] = t[j] PROVE i = j
    OBVIOUS
  <2>3. ASSUME NEW m \in 2 .. Len(t) PROVE t[m] # t[1]
    BY <1>12, <1>13, <1>14
  <2>4. CASE i = 1 \/ j = 1
    BY <2>2, <2>3, <2>4
  <2>5. CASE i \in 2 .. Len(t) /\ j \in 2 .. Len(t)
    <3>1. i - 1 = j - 1
      BY <1>13, <2>1, <2>5
    <3> QED
      BY <3>1, <2>5
  <2> QED
    BY <2>2, <2>4, <2>5
<1>16. ASSUME NEW i \in 1 .. Len(t) - 1 PROVE H.next[t[i]] = t[i + 1]
  <2>1. CASE i = 1
    BY <1>1, <1>2, <1>7, <1>12, <2>1
  <2>2. CASE i # 1
    <3>1. t[i] = s[i - 1] /\ t[i + 1] = s[i] /\ i - 1 \in 1 .. Len(s) - 1 /\ (i - 1) + 1 = i
      BY <1>1, <1>12, <1>13, <2>2
    <3>2. L.next[s[i - 1]] = s[i]
      BY <3>1 DEF Along, Follows
    <3> QED
      BY <1>1, <1>7, <1>14, <3>1, <3>2
  <2> QED
    BY <2>1, <2>2
<1>17. H.next[t[Len(t)]] = Nil
  <2>1. t[Len(t)] = s[Len(s)] /\ Len(s) \in 1 .. Len(s)
    BY <1>1, <1>12
  <2> QED
    BY <1>1, <1>7, <1>14, <2>1 DEF Along, Follows
<1>18. H.prev[t[1]] = Nil
  BY <1>2, <1>3, <1>7, <1>12
<1>19. Along(H, t)
  BY <1>1, <1>4, <1>12, <1>15, <1>16, <1>17, <1>18 DEF Along, Follows
<1> QED
  BY <1>11, <1>19 DEF H, t

-----------------------------------------------------------------------------
(* Induction by the smallest counterexample: the library's induction       *)
(* theorems take an operator as a parameter.                               *)

\* A set of subsets of a finite set has a smallest member.
LEMMA SmallestSet ==
    ASSUME NEW S, IsFiniteSet(S), NEW T \in SUBSET (SUBSET S), T # {}
    PROVE  \E s \in T : \A t \in T : t \subseteq s => t = s
<1>1. T \subseteq FiniteSubsetsOf(S)
  BY FS_FiniteSubsetsOfFinite
<1>2. \E s \in T : \A t \in T : ~(<<t, s>> \in StrictSubsetOrdering(S))
  BY <1>1, FS_StrictSubsetOrderingWellFounded, WFMin
<1> QED
  BY <1>2 DEF StrictSubsetOrdering

\* A set of natural numbers has a smallest member.
LEMMA SmallestNumber ==
    ASSUME NEW T \in SUBSET Nat, T # {}
    PROVE  \E n \in T : \A m \in T : n <= m
<1>1. PICK k \in T : TRUE
  OBVIOUS
<1> DEFINE Below == {0 .. m : m \in {i \in T : i <= k}}
<1>2. IsFiniteSet(0 .. k)
  BY <1>1, FS_Interval
<1>3. Below \in SUBSET (SUBSET (0 .. k)) /\ Below # {}
  BY <1>1
<1>4. \E s \in Below : \A t \in Below : t \subseteq s => t = s
  <2> DEFINE I == 0 .. k
  <2>1. IsFiniteSet(I) /\ Below \in SUBSET (SUBSET I) /\ Below # {}
    BY <1>2, <1>3
  <2> HIDE DEF Below, I
  <2> QED
    BY <2>1, SmallestSet
<1>5. PICK n \in T : n <= k /\ \A t \in Below : t \subseteq 0 .. n => t = 0 .. n
  BY <1>4
<1>6. \A m \in T : n <= m
  <2> SUFFICES ASSUME NEW m \in T, m < n PROVE FALSE
    BY <1>5
  <2>1. 0 .. m \in Below /\ 0 .. m \subseteq 0 .. n
    BY <1>1, <1>5
  <2>2. 0 .. m = 0 .. n
    BY <1>5, <2>1
  <2>3. n \in 0 .. n /\ n \notin 0 .. m
    OBVIOUS
  <2> QED
    BY <2>2, <2>3
<1> QED
  BY <1>6

-----------------------------------------------------------------------------
(* What Chain walks over                                                   *)

FirstCell(c) == IF c = Nil THEN <<>> ELSE <<c>>
Longer(L, s) == IF s = <<>> \/ L.next[Last(s)] = Nil THEN s ELSE Append(s, L.next[Last(s)])

\* g is the recursive function in Chain.
IsWalk(L, c, g) ==
    g = [i \in 0 .. Cardinality(Cells) |-> IF i = 0 THEN FirstCell(c) ELSE Longer(L, g[i - 1])]

LEMMA ChainIsWalk ==
    ASSUME NEW L, NEW c
    PROVE  Chain(L, c) = (CHOOSE g : IsWalk(L, c, g))[Cardinality(Cells)]
  BY DEF Chain, IsWalk, FirstCell, Longer

LEMMA WalkUnique ==
    ASSUME NEW L, NEW c, NEW g, NEW h, IsWalk(L, c, g), IsWalk(L, c, h)
    PROVE  g[Cardinality(Cells)] = h[Cardinality(Cells)]
<1> DEFINE N == Cardinality(Cells)
           Bad == {i \in 0 .. N : g[i] # h[i]}
<1>1. N \in Nat
  BY CellsFinite
<1>2. \A i \in 0 .. N : g[i] = IF i = 0 THEN FirstCell(c) ELSE Longer(L, g[i - 1])
  BY Zenon DEF IsWalk
<1>3. \A i \in 0 .. N : h[i] = IF i = 0 THEN FirstCell(c) ELSE Longer(L, h[i - 1])
  BY Zenon DEF IsWalk
<1> HIDE DEF N
<1>4. SUFFICES ASSUME Bad # {} PROVE FALSE
  <2>1. N \in 0 .. N
    BY <1>1
  <2> QED
    BY <2>1 DEF N
<1>5. PICK i \in Bad : \A m \in Bad : i <= m
  <2>1. Bad \in SUBSET Nat
    OBVIOUS
  <2> HIDE DEF Bad
  <2> QED
    BY <1>4, <2>1, SmallestNumber
<1>6. i # 0
  BY <1>1, <1>2, <1>3
<1>7. i - 1 \in 0 .. N /\ i - 1 \notin Bad
  BY <1>1, <1>5, <1>6
<1>8. g[i - 1] = h[i - 1]
  BY <1>7
<1>9. g[i] = h[i]
  BY <1>2, <1>3, <1>6, <1>8
<1> QED
  BY <1>5, <1>9

LEMMA WalkIs ==
    ASSUME NEW L, NEW c, NEW w, IsWalk(L, c, w)
    PROVE  Chain(L, c) = w[Cardinality(Cells)]
<1> DEFINE g == CHOOSE x : IsWalk(L, c, x)
<1>1. IsWalk(L, c, g)
  OBVIOUS
<1> HIDE DEF g
<1>2. g[Cardinality(Cells)] = w[Cardinality(Cells)]
  BY <1>1, WalkUnique
<1> QED
  BY <1>2, ChainIsWalk DEF g

\* A walk meets each cell at most once.
LEMMA WalkLength ==
    ASSUME NEW L, NEW s, Follows(L, s)
    PROVE  Len(s) <= Cardinality(Cells)
<1>1. s \in Seq(Cells) /\ Len(s) \in Nat /\ s \in [1 .. Len(s) -> Cells]
  BY DEF Follows
<1>2. IsFiniteSet(1 .. Len(s)) /\ Cardinality(1 .. Len(s)) = Len(s)
  BY <1>1, FS_Interval
<1>3. SUFFICES ASSUME Cardinality(Cells) < Len(s) PROVE FALSE
  BY <1>1, CellsFinite
<1> DEFINE I == 1 .. Len(s)
<1> HIDE DEF I
<1>4. \E i, j \in I : i # j /\ s[i] = s[j]
  BY <1>1, <1>2, <1>3, CellsFinite, FS_PigeonHole DEF I
<1> QED
  BY <1>4 DEF Follows, I

Upto(s, m) == [i \in 1 .. m |-> s[i]]

LEMMA ChainFollows ==
    ASSUME NEW L, NEW s, Follows(L, s)
    PROVE  Chain(L, s[1]) = s
<1> DEFINE N == Cardinality(Cells)
           Met(i) == IF i < Len(s) THEN i + 1 ELSE Len(s)
           w == [i \in 0 .. N |-> Upto(s, Met(i))]
<1>1. s \in Seq(Cells) /\ Len(s) \in Nat /\ Len(s) >= 1 /\ \A i \in 1 .. Len(s) : s[i] \in Cells
  BY DEF Follows
<1>2. N \in Nat /\ Len(s) <= N
  BY CellsFinite, WalkLength
<1>3. \A m \in 1 .. Len(s) : /\ Upto(s, m) \in Seq(Cells) /\ Len(Upto(s, m)) = m
                              /\ Upto(s, m) # <<>> /\ Last(Upto(s, m)) = s[m]
  <2> SUFFICES ASSUME NEW m \in 1 .. Len(s)
               PROVE  /\ Upto(s, m) \in Seq(Cells) /\ Len(Upto(s, m)) = m
                      /\ Upto(s, m) # <<>> /\ Last(Upto(s, m)) = s[m]
    OBVIOUS
  <2>1. m \in Nat /\ m >= 1 /\ m \in 1 .. m
    BY <1>1
  <2>2. Upto(s, m) \in [1 .. m -> Cells]
    BY <1>1 DEF Upto
  <2>3. Upto(s, m) \in Seq(Cells) /\ Len(Upto(s, m)) = m
    BY <2>1, <2>2
  <2> QED
    BY <2>1, <2>3 DEF Last, Upto
<1>4. Upto(s, Len(s)) = s
  BY <1>1 DEF Upto
<1>5. \A m \in 1 .. Len(s) - 1 : Append(Upto(s, m), s[m + 1]) = Upto(s, m + 1)
  <2> SUFFICES ASSUME NEW m \in 1 .. Len(s) - 1
               PROVE  Append(Upto(s, m), s[m + 1]) = Upto(s, m + 1)
    OBVIOUS
  <2>1. Upto(s, m) \in Seq(Cells) /\ Len(Upto(s, m)) = m /\ s[m + 1] \in Cells
    BY <1>1, <1>3
  <2>2. Upto(s, m + 1) \in Seq(Cells) /\ Len(Upto(s, m + 1)) = m + 1
    BY <1>1, <1>3
  <2>3. Append(Upto(s, m), s[m + 1]) \in Seq(Cells) /\ Len(Append(Upto(s, m), s[m + 1])) = m + 1
    BY <2>1
  <2>4. \A i \in 1 .. m + 1 : Append(Upto(s, m), s[m + 1])[i] = Upto(s, m + 1)[i]
    BY <2>1 DEF Upto
  <2> QED
    BY <2>2, <2>3, <2>4
<1>6. Upto(s, 1) = FirstCell(s[1])
  <2>1. s[1] \in Cells /\ s[1] # Nil
    BY <1>1, CellFacts
  <2>2. Upto(s, 1) = <<s[1]>>
    BY DEF Upto
  <2> QED
    BY <2>1, <2>2 DEF FirstCell
<1>7. IsWalk(L, s[1], w)
  <2> SUFFICES ASSUME NEW i \in 0 .. N
               PROVE  Upto(s, Met(i)) = IF i = 0 THEN FirstCell(s[1]) ELSE Longer(L, w[i - 1])
    BY DEF IsWalk
  <2>1. CASE i = 0
    <3>1. Met(i) = 1
      BY <1>1, <2>1
    <3> QED
      BY <1>6, <2>1, <3>1
  <2>2. CASE i # 0 /\ i < Len(s)
    <3>1. w[i - 1] = Upto(s, i) /\ Met(i) = i + 1 /\ i \in 1 .. Len(s) - 1 /\ i \in 1 .. Len(s)
      BY <1>1, <1>2, <2>2
    <3>2. L.next[s[i]] = s[i + 1] /\ s[i + 1] \in Cells /\ s[i + 1] # Nil
      BY <1>1, <3>1, CellFacts DEF Follows
    <3>3. Upto(s, i) # <<>> /\ Last(Upto(s, i)) = s[i] /\ Append(Upto(s, i), s[i + 1]) = Upto(s, i + 1)
      BY <1>3, <1>5, <3>1
    <3> HIDE DEF w, Met
    <3> QED
      BY <2>2, <3>1, <3>2, <3>3 DEF Longer
  <2>3. CASE i # 0 /\ i >= Len(s)
    <3>1. w[i - 1] = Upto(s, Len(s)) /\ Met(i) = Len(s)
      BY <1>1, <1>2, <2>3
    <3>2. L.next[s[Len(s)]] = Nil /\ Last(Upto(s, Len(s))) = s[Len(s)]
      BY <1>1, <1>3 DEF Follows
    <3> HIDE DEF w, Met
    <3> QED
      BY <2>3, <3>1, <3>2 DEF Longer
  <2> QED
    BY <1>1, <2>1, <2>2, <2>3
<1>8. w[N] = s
  BY <1>1, <1>2, <1>4
<1> HIDE DEF w
<1> QED
  BY <1>7, <1>8, WalkIs
-----------------------------------------------------------------------------
(* What the sections of the code do to the list                            *)

Good(L, s) == Linked(L) /\ Along(L, s) /\ Ordered(s)

LEMMA GoodFacts ==
    ASSUME NEW L, NEW s, Good(L, s)
    PROVE  /\ s \in Seq(Cells) /\ Len(s) \in Nat /\ Len(s) >= 2
           /\ \A i \in 1 .. Len(s) : s[i] \in Cells
           /\ \A i, j \in 1 .. Len(s) : s[i] = s[j] => i = j
           /\ On(s, currMarker) /\ On(s, lastMarker)
<1>1. s \in Seq(Cells) /\ Len(s) \in Nat
  BY DEF Good, Along, Follows
<1>2. \A i \in 1 .. Len(s) : s[i] \in Cells
  BY <1>1
<1>3. Len(s) >= 2 /\ On(s, currMarker) /\ On(s, lastMarker)
  BY <1>1 DEF Good, Ordered, On
<1> QED
  BY <1>1, <1>2, <1>3 DEF Good, Along, Follows

LEMMA CutOn ==
    ASSUME NEW s \in Seq(Cells), \A i, j \in 1 .. Len(s) : s[i] = s[j] => i = j, NEW k \in 1 .. Len(s)
    PROVE  \A c : On(Cut(s, k), c) <=> c # s[k] /\ On(s, c)
<1>1. /\ Len(s) \in Nat /\ Len(Cut(s, k)) = Len(s) - 1
      /\ \A i \in 1 .. Len(s) - 1 : Cut(s, k)[i] = IF i < k THEN s[i] ELSE s[i + 1]
  BY CutSeq
<1> SUFFICES ASSUME NEW c PROVE On(Cut(s, k), c) <=> c # s[k] /\ On(s, c)
  OBVIOUS
<1>2. ASSUME NEW i \in 1 .. Len(s) - 1, Cut(s, k)[i] = c PROVE c # s[k] /\ On(s, c)
  <2>1. i \in 1 .. Len(s) /\ i + 1 \in 1 .. Len(s) /\ i \in Nat /\ k \in Nat
    BY <1>1
  <2>2. CASE i < k
    BY <1>1, <1>2, <2>1, <2>2 DEF On
  <2>3. CASE ~(i < k)
    <3>1. c = s[i + 1] /\ i + 1 # k
      BY <1>1, <1>2, <2>1, <2>3
    <3> QED
      BY <2>1, <3>1 DEF On
  <2> QED
    BY <2>2, <2>3
<1>3. ASSUME NEW i \in 1 .. Len(s), s[i] = c, i # k PROVE On(Cut(s, k), c)
  <2>1. CASE i < k
    <3>1. i \in 1 .. Len(s) - 1
      BY <1>1, <2>1
    <3> QED
      BY <1>1, <1>3, <2>1, <3>1 DEF On
  <2>2. CASE i > k
    <3>1. i - 1 \in 1 .. Len(s) - 1 /\ ~(i - 1 < k) /\ (i - 1) + 1 = i
      BY <1>1, <2>2
    <3> QED
      BY <1>1, <1>3, <3>1 DEF On
  <2> QED
    BY <1>1, <1>3, <2>1, <2>2
<1> QED
  BY <1>1, <1>2, <1>3 DEF On

LEMMA PushOnly ==
    ASSUME NEW s \in Seq(Cells), NEW n \in Cells
    PROVE  \A c : On(Push(n, s), c) <=> c = n \/ On(s, c)
<1>0. Len(s) \in Nat
  OBVIOUS
<1>1. /\ Len(Push(n, s)) = Len(s) + 1 /\ Push(n, s)[1] = n
      /\ \A i \in 1 .. Len(s) : Push(n, s)[i + 1] = s[i]
  BY PushSeq
<1> SUFFICES ASSUME NEW c PROVE On(Push(n, s), c) <=> c = n \/ On(s, c)
  OBVIOUS
<1>2. ASSUME NEW i \in 1 .. Len(s) + 1, Push(n, s)[i] = c PROVE c = n \/ On(s, c)
  <2>1. CASE i = 1
    BY <1>0, <1>1, <1>2, <2>1
  <2>2. CASE i # 1
    <3>1. i - 1 \in 1 .. Len(s) /\ (i - 1) + 1 = i
      BY <1>0, <1>1, <2>2
    <3>2. s[i - 1] = c
      BY <1>0, <1>1, <1>2, <3>1
    <3> QED
      BY <3>1, <3>2 DEF On
  <2> QED
    BY <2>1, <2>2
<1>3. ASSUME NEW i \in 1 .. Len(s), s[i] = c PROVE On(Push(n, s), c)
  <2>1. i + 1 \in 1 .. Len(Push(n, s)) /\ Push(n, s)[i + 1] = c
    BY <1>0, <1>1, <1>3
  <2> QED
    BY <2>1 DEF On
<1>4. On(Push(n, s), n)
  <2>1. 1 \in 1 .. Len(Push(n, s))
    BY <1>0, <1>1
  <2> QED
    BY <1>0, <1>1, <2>1 DEF On
<1> QED
  BY <1>0, <1>1, <1>2, <1>3, <1>4 DEF On

LEMMA CutOrdered ==
    ASSUME NEW s \in Seq(Cells), Ordered(s), NEW k \in 1 .. Len(s), s[k] \in Nodes
    PROVE  Ordered(Cut(s, k))
<1>0. Len(s) \in Nat
  OBVIOUS
<1>1. /\ Len(Cut(s, k)) = Len(s) - 1
      /\ \A i \in 1 .. Len(s) - 1 : Cut(s, k)[i] = IF i < k THEN s[i] ELSE s[i + 1]
  BY CutSeq
<1>2. PICK i, j \in 1 .. Len(s) : i < j /\ s[i] = currMarker /\ s[j] = lastMarker
  BY DEF Ordered
<1>3. i # k /\ j # k
  BY <1>2, CellFacts
<1> DEFINE At(m) == IF m < k THEN m ELSE m - 1
<1>4. \A m \in 1 .. Len(s) : m # k => At(m) \in 1 .. Len(s) - 1 /\ Cut(s, k)[At(m)] = s[m]
  <2> SUFFICES ASSUME NEW m \in 1 .. Len(s), m # k
               PROVE  At(m) \in 1 .. Len(s) - 1 /\ Cut(s, k)[At(m)] = s[m]
    OBVIOUS
  <2>1. CASE m < k
    <3>1. At(m) = m /\ m \in 1 .. Len(s) - 1
      BY <1>0, <1>1, <2>1
    <3> QED
      BY <1>0, <1>1, <2>1, <3>1
  <2>2. CASE m > k
    <3>1. At(m) = m - 1 /\ m - 1 \in 1 .. Len(s) - 1 /\ ~(m - 1 < k) /\ (m - 1) + 1 = m
      BY <1>0, <1>1, <2>2
    <3> QED
      BY <1>0, <1>1, <3>1
  <2> QED
    BY <1>0, <1>1, <2>1, <2>2
<1>5. At(i) < At(j)
  BY <1>0, <1>1, <1>2, <1>3
<1> HIDE DEF At
<1> QED
  BY <1>0, <1>1, <1>2, <1>3, <1>4, <1>5 DEF Ordered

LEMMA PushOrdered ==
    ASSUME NEW s \in Seq(Cells), Ordered(s), NEW n \in Cells
    PROVE  Ordered(Push(n, s))
<1>0. Len(s) \in Nat
  OBVIOUS
<1>1. /\ Len(Push(n, s)) = Len(s) + 1
      /\ \A i \in 1 .. Len(s) : Push(n, s)[i + 1] = s[i]
  BY PushSeq
<1>2. PICK i, j \in 1 .. Len(s) : i < j /\ s[i] = currMarker /\ s[j] = lastMarker
  BY DEF Ordered
<1>3. i + 1 \in 1 .. Len(Push(n, s)) /\ j + 1 \in 1 .. Len(Push(n, s)) /\ i + 1 < j + 1
  BY <1>0, <1>1, <1>2
<1> QED
  BY <1>0, <1>1, <1>2, <1>3 DEF Ordered

\* Unlink takes a node out, whether it is on the list or not.
LEMMA NodeRemoved ==
    ASSUME NEW L, NEW s, Good(L, s), NEW n \in Nodes
    PROVE  \E t : /\ Good(extractNode(L, n), t)
                  /\ \A c : On(t, c) <=> c # n /\ On(s, c)
                  /\ Loose(extractNode(L, n), n)
<1>1. n \in Cells /\ Linked(L) /\ Along(L, s) /\ Ordered(s)
  BY CellFacts DEF Good
<1>2. Linked(extractNode(L, n)) /\ Loose(extractNode(L, n), n)
  BY <1>1, ExtractLinked, ExtractValues
<1>3. CASE On(s, n)
  <2>1. PICK k \in 1 .. Len(s) : s[k] = n
    BY <1>3 DEF On
  <2>2. Along(extractNode(L, n), Cut(s, k))
    BY <1>1, <2>1, GoodFacts, ExtractOn
  <2>3. Ordered(Cut(s, k))
    BY <1>1, <2>1, GoodFacts, CutOrdered
  <2>4. \A c : On(Cut(s, k), c) <=> c # n /\ On(s, c)
    BY <2>1, GoodFacts, CutOn
  <2> QED
    BY <1>2, <2>2, <2>3, <2>4 DEF Good
<1>4. CASE ~On(s, n)
  <2>1. Along(extractNode(L, n), s)
    BY <1>1, <1>4, ExtractOff
  <2> QED
    BY <1>1, <1>2, <1>4, <2>1 DEF Good
<1> QED
  BY <1>3, <1>4

\* Link puts a node in front.
LEMMA NodeMoved ==
    ASSUME NEW L, NEW s, Good(L, s), NEW n \in Nodes
    PROVE  \E t : /\ Good(MoveToHead(L, n), t)
                  /\ \A c : On(t, c) <=> c = n \/ On(s, c)
<1> DEFINE E == extractNode(L, n)
<1>1. PICK t : Good(E, t) /\ (\A c : On(t, c) <=> c # n /\ On(s, c)) /\ Loose(E, n)
  BY NodeRemoved
<1> HIDE DEF E
<1>2. n \in Cells /\ Linked(E) /\ Along(E, t) /\ Ordered(t) /\ ~On(t, n) /\ t \in Seq(Cells)
  BY <1>1, CellFacts, GoodFacts DEF Good
<1>3. Linked(setHead(E, n)) /\ Along(setHead(E, n), Push(n, t))
  BY <1>1, <1>2, PushOn
<1>4. Ordered(Push(n, t)) /\ \A c : On(Push(n, t), c) <=> c = n \/ On(t, c)
  BY <1>2, PushOrdered, PushOnly
<1>5. Good(MoveToHead(L, n), Push(n, t))
  BY <1>3, <1>4 DEF Good, MoveToHead, E
<1> QED
  BY <1>1, <1>4, <1>5

(* updateMarker *)

Swap(c) == IF c = currMarker THEN lastMarker ELSE IF c = lastMarker THEN currMarker ELSE c
Swapped(L) ==
    [next |-> [c \in Cells |-> Swap(L.next[Swap(c)])],
     prev |-> [c \in Cells |-> Swap(L.prev[Swap(c)])],
     head |-> Swap(L.head)]

LEMMA SwapFacts ==
    /\ \A c : Swap(Swap(c)) = c
    /\ \A c \in Cells : Swap(c) \in Cells
    /\ Swap(Nil) = Nil
  BY CellFacts DEF Swap

LEMMA SwapGood ==
    ASSUME NEW L, Linked(L), NEW s, Along(L, s)
    PROVE  LET t == [i \in 1 .. Len(s) |-> Swap(s[i])]
           IN  /\ Linked(Swapped(L)) /\ Along(Swapped(L), t)
               /\ t \in Seq(Cells) /\ Len(t) = Len(s)
<1> DEFINE t == [i \in 1 .. Len(s) |-> Swap(s[i])]
           W == Swapped(L)
<1>1. s \in Seq(Cells) /\ Len(s) \in Nat /\ Len(s) >= 1 /\ \A i \in 1 .. Len(s) : s[i] \in Cells
  BY DEF Along, Follows
<1>2. /\ L.next \in [Cells -> Cells \cup {Nil}] /\ L.prev \in [Cells -> Cells \cup {Nil}]
      /\ L.head \in Cells \cup {Nil}
  BY DEF Linked, ListType
<1>3. /\ \A c \in Cells : W.next[c] = Swap(L.next[Swap(c)]) /\ W.prev[c] = Swap(L.prev[Swap(c)])
      /\ W.head = Swap(L.head)
  BY DEF Swapped
<1>4. W \in ListType
  BY <1>2, SwapFacts DEF ListType, Swapped
<1>5. \A c, d \in Cells : W.next[c] = d <=> W.prev[d] = c
  <2> SUFFICES ASSUME NEW c \in Cells, NEW d \in Cells PROVE W.next[c] = d <=> W.prev[d] = c
    OBVIOUS
  <2>1. Swap(c) \in Cells /\ Swap(d) \in Cells
    BY SwapFacts
  <2>2. L.next[Swap(c)] = Swap(d) <=> L.prev[Swap(d)] = Swap(c)
    BY <2>1 DEF Linked
  <2>3. W.next[c] = d <=> L.next[Swap(c)] = Swap(d)
    BY <1>3, SwapFacts
  <2>4. W.prev[d] = c <=> L.prev[Swap(d)] = Swap(c)
    BY <1>3, SwapFacts
  <2> QED
    BY <2>2, <2>3, <2>4
<1>6. t \in Seq(Cells) /\ Len(t) = Len(s) /\ \A i \in 1 .. Len(s) : t[i] = Swap(s[i])
  <2>1. t \in [1 .. Len(s) -> Cells]
    BY <1>1, SwapFacts
  <2> QED
    BY <1>1, <2>1
<1> HIDE DEF t, W
<1>7. \A i, j \in 1 .. Len(t) : t[i] = t[j] => i = j
  <2> SUFFICES ASSUME NEW i \in 1 .. Len(t), NEW j \in 1 .. Len(t), t[i] = t[j] PROVE i = j
    OBVIOUS
  <2>1. s[i] = s[j]
    BY <1>6, SwapFacts
  <2> QED
    BY <1>6, <2>1 DEF Along, Follows
<1>8. \A i \in 1 .. Len(s) : t[i] \in Cells /\ W.next[t[i]] = Swap(L.next[s[i]]) /\ W.prev[t[i]] = Swap(L.prev[s[i]])
  BY <1>1, <1>3, <1>6, SwapFacts
<1>9. \A i \in 1 .. Len(t) - 1 : W.next[t[i]] = t[i + 1]
  <2> SUFFICES ASSUME NEW i \in 1 .. Len(t) - 1 PROVE W.next[t[i]] = t[i + 1]
    OBVIOUS
  <2>1. i \in 1 .. Len(s) - 1 /\ i \in 1 .. Len(s) /\ i + 1 \in 1 .. Len(s)
    BY <1>1, <1>6
  <2>2. L.next[s[i]] = s[i + 1]
    BY <2>1 DEF Along, Follows
  <2> QED
    BY <1>6, <1>8, <2>1, <2>2
<1>10. W.next[t[Len(t)]] = Nil /\ W.prev[t[1]] = Nil /\ t[1] = W.head
  <2>1. 1 \in 1 .. Len(s) /\ Len(s) \in 1 .. Len(s)
    BY <1>1
  <2> QED
    BY <1>3, <1>6, <1>8, <2>1, SwapFacts DEF Along, Follows
<1>11. Along(W, t)
  BY <1>1, <1>6, <1>7, <1>9, <1>10 DEF Along, Follows
<1> QED
  BY <1>4, <1>5, <1>6, <1>11 DEF Linked, t, W

\* The last marker goes to the head and becomes the current one.
LEMMA MarkerMoved ==
    ASSUME NEW L, NEW s, Good(L, s)
    PROVE  \E t : /\ Good(Swapped(MoveToHead(L, lastMarker)), t)
                  /\ \A c : On(t, c) <=> On(s, c)
<1>1. PICK i, j \in 1 .. Len(s) : i < j /\ s[i] = currMarker /\ s[j] = lastMarker
  BY DEF Good, Ordered
<1>2. Linked(L) /\ Along(L, s) /\ s \in Seq(Cells) /\ Len(s) \in Nat /\ Len(s) >= 2 /\ lastMarker \in Cells
  BY GoodFacts, CellFacts DEF Good
<1> DEFINE E == extractNode(L, lastMarker)
           u == Cut(s, j)
           v == Push(lastMarker, u)
           H == setHead(E, lastMarker)
           t == [m \in 1 .. Len(v) |-> Swap(v[m])]
<1>3. Linked(E) /\ Loose(E, lastMarker) /\ Along(E, u) /\ ~On(u, lastMarker)
  BY <1>1, <1>2, ExtractLinked, ExtractValues, ExtractOn
<1>4. /\ u \in Seq(Cells) /\ Len(u) = Len(s) - 1
      /\ \A m \in 1 .. Len(s) - 1 : u[m] = IF m < j THEN s[m] ELSE s[m + 1]
  BY <1>2, CutSeq
<1>5. \A c : On(u, c) <=> c # lastMarker /\ On(s, c)
  BY <1>1, <1>2, GoodFacts, CutOn
<1> HIDE DEF E, u
<1>6. Linked(H) /\ Along(H, v)
  BY <1>2, <1>3, PushOn
<1>7. /\ v \in Seq(Cells) /\ Len(v) = Len(u) + 1 /\ v[1] = lastMarker
      /\ \A m \in 1 .. Len(u) : v[m + 1] = u[m]
      /\ \A c : On(v, c) <=> c = lastMarker \/ On(u, c)
  BY <1>2, <1>4, PushSeq, PushOnly
<1> HIDE DEF H, v
<1>8. Linked(Swapped(H)) /\ Along(Swapped(H), t) /\ Len(t) = Len(v) /\ t \in Seq(Cells)
  BY <1>6, SwapGood
<1>9. \A m \in 1 .. Len(v) : t[m] = Swap(v[m])
  OBVIOUS
<1> HIDE DEF t
<1>10. On(s, currMarker) /\ On(s, lastMarker)
  BY GoodFacts
<1>11. \A c : On(t, c) <=> On(v, Swap(c))
  BY <1>8, <1>9, SwapFacts DEF On
<1>12. \A c : On(v, c) <=> On(s, c)
  BY <1>5, <1>7, <1>10
<1>13. \A c : On(t, c) <=> On(s, c)
  BY <1>10, <1>11, <1>12 DEF Swap
<1>14. Ordered(t)
  <2>1. /\ 1 \in 1 .. Len(t) /\ i + 1 \in 1 .. Len(t) /\ 1 < i + 1
        /\ i \in 1 .. Len(u) /\ i \in 1 .. Len(s) - 1 /\ i < j
    BY <1>1, <1>2, <1>4, <1>7, <1>8
  <2>2. v[i + 1] = currMarker
    BY <1>1, <1>4, <1>7, <2>1
  <2>3. t[1] = currMarker /\ t[i + 1] = lastMarker
    BY <1>7, <1>8, <1>9, <2>1, <2>2, CellFacts DEF Swap
  <2> QED
    BY <2>1, <2>3 DEF Ordered
<1> QED
  BY <1>8, <1>13, <1>14 DEF Good, MoveToHead, E, H
(* LoadOrStore *)

\* A new node takes the place of an object that nothing points to.
LEMMA NodeCleared ==
    ASSUME NEW L, NEW s, Good(L, s), NEW n \in Nodes, n # L.head,
           \A c \in Cells : c # n => n # L.next[c] /\ n # L.prev[c]
    PROVE  Good([L EXCEPT !.next[n] = Nil, !.prev[n] = Nil], s) /\ ~On(s, n)
<1> DEFINE W == [L EXCEPT !.next[n] = Nil, !.prev[n] = Nil]
<1>1. /\ s \in Seq(Cells) /\ Len(s) \in Nat /\ Len(s) >= 2 /\ n \in Cells /\ Along(L, s)
      /\ \A i \in 1 .. Len(s) : s[i] \in Cells
  BY GoodFacts, CellFacts DEF Good
<1>2. /\ L.next \in [Cells -> Cells \cup {Nil}] /\ L.prev \in [Cells -> Cells \cup {Nil}]
      /\ L.head \in Cells \cup {Nil} /\ L = [next |-> L.next, prev |-> L.prev, head |-> L.head]
      /\ \A c, d \in Cells : L.next[c] = d <=> L.prev[d] = c
  BY DEF Good, Linked, ListType
<1>3. W.next = [L.next EXCEPT ![n] = Nil] /\ W.prev = [L.prev EXCEPT ![n] = Nil] /\ W.head = L.head
  BY <1>2
<1>4. W \in ListType
  BY <1>1 DEF Good, Linked, ListType
<1> HIDE DEF W
<1>5. /\ \A c \in Cells : /\ W.next[c] = IF c = n THEN Nil ELSE L.next[c]
                          /\ W.prev[c] = IF c = n THEN Nil ELSE L.prev[c]
      /\ W.head = L.head
  BY <1>1, <1>2, <1>3
<1>6. \A c, d \in Cells : W.next[c] = d <=> W.prev[d] = c
  BY <1>1, <1>2, <1>5, CellFacts
<1>7. \A i \in 1 .. Len(s) : s[i] # n
  <2> SUFFICES ASSUME NEW i \in 1 .. Len(s), s[i] = n PROVE FALSE
    OBVIOUS
  <2>1. i # 1
    BY DEF Along, Good
  <2>2. i - 1 \in 1 .. Len(s) - 1 /\ (i - 1) + 1 = i /\ i - 1 \in 1 .. Len(s) /\ i - 1 # i
    BY <1>1, <2>1
  <2>3. L.next[s[i - 1]] = n
    BY <1>1, <2>2 DEF Along, Follows
  <2>4. s[i - 1] # n
    BY <2>2, GoodFacts
  <2> QED
    BY <1>1, <2>2, <2>3, <2>4
<1>8. \A i \in 1 .. Len(s) : W.next[s[i]] = L.next[s[i]] /\ W.prev[s[i]] = L.prev[s[i]]
  BY <1>1, <1>5, <1>7
<1>9. Along(W, s)
  BY <1>1, <1>5, <1>8 DEF Along, Follows
<1> QED
  BY <1>4, <1>6, <1>7, <1>9 DEF Good, Linked, On, W

(* deleteExpiredNodes *)

\* All that is behind the j-th cell is cut off.
LEMMA EndCut ==
    ASSUME NEW L, NEW s, Good(L, s), NEW j \in 1 .. Len(s), s[j] = lastMarker, L.next[lastMarker] # Nil
    PROVE  LET W == [L EXCEPT !.next[lastMarker] = Nil,
                              !.prev = [L.prev EXCEPT ![L.next[lastMarker]] = Nil]]
           IN  /\ Good(W, Upto(s, j)) /\ j < Len(s)
               /\ L.next[lastMarker] = s[j + 1]
<1> DEFINE d == L.next[lastMarker]
           W == [L EXCEPT !.next[lastMarker] = Nil, !.prev = [L.prev EXCEPT ![d] = Nil]]
           t == Upto(s, j)
<1>1. /\ s \in Seq(Cells) /\ Len(s) \in Nat /\ Len(s) >= 2 /\ lastMarker \in Cells /\ Along(L, s)
      /\ \A i \in 1 .. Len(s) : s[i] \in Cells
      /\ \A i, k \in 1 .. Len(s) : s[i] = s[k] => i = k
  BY GoodFacts, CellFacts DEF Good
<1>2. /\ L.next \in [Cells -> Cells \cup {Nil}] /\ L.prev \in [Cells -> Cells \cup {Nil}]
      /\ L.head \in Cells \cup {Nil} /\ L = [next |-> L.next, prev |-> L.prev, head |-> L.head]
      /\ \A c, e \in Cells : L.next[c] = e <=> L.prev[e] = c
  BY DEF Good, Linked, ListType
<1>3. j < Len(s) /\ d = s[j + 1] /\ d \in Cells
  <2>1. j # Len(s)
    BY <1>1 DEF Along, Follows
  <2>2. j \in 1 .. Len(s) - 1 /\ j + 1 \in 1 .. Len(s)
    BY <1>1, <2>1
  <2> QED
    BY <1>1, <2>2 DEF Along, Follows
<1>4. W.next = [L.next EXCEPT ![lastMarker] = Nil] /\ W.prev = [L.prev EXCEPT ![d] = Nil] /\ W.head = L.head
  BY <1>2
<1> HIDE DEF d
<1>5. W \in ListType
  BY <1>1, <1>3 DEF Good, Linked, ListType
<1> HIDE DEF W
<1>6. /\ \A c \in Cells : /\ W.next[c] = IF c = lastMarker THEN Nil ELSE L.next[c]
                          /\ W.prev[c] = IF c = d THEN Nil ELSE L.prev[c]
      /\ W.head = L.head
  BY <1>1, <1>2, <1>3, <1>4
<1>7. \A c, e \in Cells : W.next[c] = e <=> W.prev[e] = c
  <2>1. L.next[lastMarker] = d
    BY DEF d
  <2> QED
    BY <1>1, <1>2, <1>3, <1>6, <2>1, CellFacts
<1>8. t \in Seq(Cells) /\ Len(t) = j /\ \A i \in 1 .. j : t[i] = s[i] /\ i \in 1 .. Len(s)
  <2>1. t \in [1 .. j -> Cells] /\ j \in Nat
    BY <1>1 DEF Upto
  <2> QED
    BY <1>1, <2>1 DEF Upto
<1> HIDE DEF t
<1>9. PICK i \in 1 .. j : i < j /\ s[i] = currMarker
  <2>1. PICK i, k \in 1 .. Len(s) : i < k /\ s[i] = currMarker /\ s[k] = lastMarker
    BY DEF Good, Ordered
  <2> QED
    BY <1>1, <2>1
<1>10. Ordered(t)
  <2>1. j \in 1 .. Len(t) /\ i \in 1 .. Len(t)
    BY <1>1, <1>8
  <2> QED
    BY <1>8, <1>9, <2>1 DEF Ordered
<1>11. \A k \in 1 .. Len(t) - 1 : W.next[t[k]] = t[k + 1]
  <2> SUFFICES ASSUME NEW k \in 1 .. Len(t) - 1 PROVE W.next[t[k]] = t[k + 1]
    OBVIOUS
  <2>1. k \in 1 .. j /\ k + 1 \in 1 .. j /\ k # j /\ k \in 1 .. Len(s) - 1 /\ k \in 1 .. Len(s)
    BY <1>1, <1>3, <1>8
  <2>2. s[k] # lastMarker /\ L.next[s[k]] = s[k + 1]
    BY <1>1, <2>1 DEF Along, Follows
  <2> QED
    BY <1>1, <1>6, <1>8, <2>1, <2>2
<1>12. W.next[t[Len(t)]] = Nil
  BY <1>1, <1>6, <1>8
<1>13. t[1] = W.head /\ W.prev[t[1]] = Nil
  <2>1. 1 \in 1 .. j /\ 1 \in 1 .. Len(s)
    BY <1>1
  <2> QED
    BY <1>1, <1>6, <1>8, <2>1 DEF Along
<1>14. \A k, m \in 1 .. Len(t) : t[k] = t[m] => k = m
  BY <1>1, <1>8
<1>15. Along(W, t)
  <2>1. Len(t) >= 1
    BY <1>8
  <2> QED
    BY <1>8, <1>11, <1>12, <1>13, <1>14, <2>1 DEF Along, Follows
<1> QED
  BY <1>3, <1>5, <1>7, <1>10, <1>15 DEF Good, Linked, W, t, d

\* The nodes beyond the last marker.
After(s, j) == [i \in 1 .. Len(s) - j |-> s[j + i]]

LEMMA ExpiredAre ==
    ASSUME NEW L, NEW s, Good(L, s), NEW j \in 1 .. Len(s), s[j] = lastMarker, j < Len(s),
           L.next[lastMarker] = s[j + 1]
    PROVE  /\ Expired(L) = After(s, j)
           /\ After(s, j) \in Seq(Nodes) /\ Len(After(s, j)) = Len(s) - j
           /\ \A i \in 1 .. Len(s) - j : After(s, j)[i] = s[j + i]
<1> DEFINE t == After(s, j)
<1>1. /\ s \in Seq(Cells) /\ Len(s) \in Nat /\ Along(L, s)
      /\ \A i \in 1 .. Len(s) : s[i] \in Cells
      /\ \A i, k \in 1 .. Len(s) : s[i] = s[k] => i = k
  BY GoodFacts, CellFacts DEF Good
<1>2. PICK i \in 1 .. Len(s) : i < j /\ s[i] = currMarker
  BY <1>1 DEF Good, Ordered
<1>3. \A k \in 1 .. Len(s) - j : j + k \in 1 .. Len(s) /\ s[j + k] \in Nodes
  <2> SUFFICES ASSUME NEW k \in 1 .. Len(s) - j PROVE j + k \in 1 .. Len(s) /\ s[j + k] \in Nodes
    OBVIOUS
  <2>1. j + k \in 1 .. Len(s) /\ j + k # j /\ j + k # i
    BY <1>1, <1>2
  <2>2. s[j + k] # lastMarker /\ s[j + k] # currMarker
    BY <1>1, <1>2, <2>1
  <2> QED
    BY <1>1, <2>1, <2>2 DEF Cells
<1>4. t \in Seq(Nodes) /\ t \in Seq(Cells) /\ Len(t) = Len(s) - j /\ \A k \in 1 .. Len(s) - j : t[k] = s[j + k]
  <2>1. t \in [1 .. Len(s) - j -> Nodes] /\ Len(s) - j \in Nat
    BY <1>1, <1>3 DEF After
  <2>2. t \in Seq(Nodes) /\ Len(t) = Len(s) - j
    BY <2>1
  <2>3. \A k \in 1 .. Len(s) - j : t[k] = s[j + k]
    BY DEF After
  <2>4. t \in [1 .. Len(s) - j -> Cells]
    BY <1>1, <1>3 DEF After
  <2>5. t \in Seq(Cells)
    BY <2>1, <2>4
  <2> HIDE DEF t
  <2> QED
    BY <2>2, <2>3, <2>5
<1> HIDE DEF t
<1>5. \A k, m \in 1 .. Len(t) : t[k] = t[m] => k = m
  <2> SUFFICES ASSUME NEW k \in 1 .. Len(t), NEW m \in 1 .. Len(t), t[k] = t[m] PROVE k = m
    OBVIOUS
  <2>1. j + k = j + m
    BY <1>1, <1>3, <1>4
  <2> QED
    BY <1>1, <1>4, <2>1
<1>6. \A k \in 1 .. Len(t) - 1 : L.next[t[k]] = t[k + 1]
  <2> SUFFICES ASSUME NEW k \in 1 .. Len(t) - 1 PROVE L.next[t[k]] = t[k + 1]
    OBVIOUS
  <2>1. /\ k \in 1 .. Len(s) - j /\ k + 1 \in 1 .. Len(s) - j /\ j + k \in 1 .. Len(s) - 1
        /\ (j + k) + 1 = j + (k + 1)
    BY <1>1, <1>4
  <2>2. L.next[s[j + k]] = s[(j + k) + 1]
    BY <1>1, <2>1 DEF Along, Follows
  <2> QED
    BY <1>4, <2>1, <2>2
<1>7. L.next[t[Len(t)]] = Nil
  <2>1. Len(t) \in 1 .. Len(s) - j /\ j + Len(t) = Len(s)
    BY <1>1, <1>4
  <2> QED
    BY <1>1, <1>4, <2>1 DEF Along, Follows
<1>8. Follows(L, t)
  <2>1. Len(t) >= 1
    BY <1>1, <1>4
  <2> QED
    BY <1>4, <1>5, <1>6, <1>7, <2>1 DEF Follows
<1>9. Chain(L, t[1]) = t
  BY <1>8, ChainFollows
<1>10. t[1] = s[j + 1]
  BY <1>1, <1>4
<1> QED
  BY <1>4, <1>9, <1>10 DEF Expired, t

\* With room for all of them, the pass takes them all.
LEMMA PassedAll ==
    ASSUME RoomToEvict, NEW s \in Seq(Nodes)
    PROVE  Passed(s) = Len(s) /\ Taken(s, Len(s)) \subseteq Nodes
<1>1. Len(s) \in Nat /\ \A i \in 1 .. Len(s) : s[i] \in Nodes
  OBVIOUS
<1>2. \A k \in 0 .. Len(s) : Taken(s, k) \subseteq Nodes
  BY <1>1 DEF Taken
<1>3. \A k \in 0 .. Len(s) : Cardinality(Taken(s, k)) < maxEviction
  <2> SUFFICES ASSUME NEW k \in 0 .. Len(s) PROVE Cardinality(Taken(s, k)) < maxEviction
    OBVIOUS
  <2>1. IsFiniteSet(Nodes) /\ Taken(s, k) \subseteq Nodes /\ maxEviction \in Nat
    BY <1>2, LruAssumption
  <2>2. Cardinality(Taken(s, k)) <= Cardinality(Nodes) /\ Cardinality(Taken(s, k)) \in Nat
        /\ Cardinality(Nodes) \in Nat
    BY <2>1, FS_Subset, FS_CardinalityType
  <2> QED
    BY <2>1, <2>2 DEF RoomToEvict
<1> DEFINE P(k) == /\ k < Len(s) => Cardinality(Taken(s, k)) = maxEviction
                   /\ \A j \in 0 .. k - 1 : Cardinality(Taken(s, j)) < maxEviction
<1>4. \A k \in 0 .. Len(s) : P(k) <=> k = Len(s)
  <2> SUFFICES ASSUME NEW k \in 0 .. Len(s) PROVE P(k) <=> k = Len(s)
    OBVIOUS
  <2>1. maxEviction \in Nat /\ Cardinality(Taken(s, k)) # maxEviction
    BY <1>3, LruAssumption
  <2>2. k < Len(s) => ~P(k)
    BY <2>1
  <2>3. k = Len(s) => P(k)
    BY <1>1, <1>3
  <2> QED
    BY <1>1, <2>2, <2>3
<1>5. Passed(s) = CHOOSE k \in 0 .. Len(s) : P(k)
  BY DEF Passed
<1> HIDE DEF P
<1>6. Len(s) \in 0 .. Len(s)
  BY <1>1
<1> QED
  BY <1>1, <1>2, <1>4, <1>5, <1>6
-----------------------------------------------------------------------------
(* createSnapshot                                                          *)

LEMMA ConcatCells ==
    ASSUME NEW p \in Seq(Cells), NEW q \in Seq(Cells)
    PROVE  /\ p \o q \in Seq(Cells) /\ Len(p \o q) = Len(p) + Len(q)
           /\ \A i \in 1 .. Len(p) + Len(q) :
                (p \o q)[i] = IF i <= Len(p) THEN p[i] ELSE q[i - Len(p)]
<1>1. p \o q \in Seq(Cells) /\ Len(p \o q) = Len(p) + Len(q)
  OBVIOUS
<1>2. \A i \in 1 .. Len(p) + Len(q) : (p \o q)[i] = IF i <= Len(p) THEN p[i] ELSE q[i - Len(p)]
  OBVIOUS
<1> QED
  BY <1>1, <1>2

LEMMA PlaceIs ==
    ASSUME NEW s \in Seq(Cells), \A i, j \in 1 .. Len(s) : s[i] = s[j] => i = j, NEW k \in 1 .. Len(s)
    PROVE  /\ SelectInSeq(s, LAMBDA d : d = s[k]) = k /\ Place(s[k], s) = k - 1
           /\ RemoveFirst(s, s[k]) = Cut(s, k)
<1> DEFINE I == {i \in 1 .. Len(s) : s[i] = s[k]}
<1>1. Len(s) \in Nat /\ k \in Nat /\ \A i \in 1 .. Len(s) : s[i] \in Cells
  OBVIOUS
<1>2. I = {k}
  OBVIOUS
<1>3. Min(I) = k
  <2>1. Min({k}) = k
    BY <1>1 DEF Min
  <2> QED
    BY <1>2, <2>1
<1>4. SelectInSeq(s, LAMBDA d : d = s[k]) = k
  BY <1>2, <1>3 DEF SelectInSeq
<1>5. RemoveFirst(s, s[k]) = RemoveAt(s, k)
  BY <1>4 DEF RemoveFirst
<1>6. RemoveAt(s, k) = Cut(s, k)
  <2> DEFINE p == SubSeq(s, 1, k - 1)
             q == SubSeq(s, k + 1, Len(s))
  <2>1. p \in Seq(Cells) /\ Len(p) = k - 1 /\ \A i \in 1 .. k - 1 : p[i] = s[i]
    BY <1>1
  <2>2. q \in Seq(Cells) /\ Len(q) = Len(s) - k /\ \A i \in 1 .. Len(s) - k : q[i] = s[k + i]
    BY <1>1
  <2> HIDE DEF p, q
  <2> DEFINE u == p \o q
  <2>3. /\ u \in Seq(Cells) /\ Len(u) = Len(p) + Len(q)
        /\ \A i \in 1 .. Len(p) + Len(q) : u[i] = IF i <= Len(p) THEN p[i] ELSE q[i - Len(p)]
    <3>1. p \in Seq(Cells) /\ q \in Seq(Cells)
      BY <2>1, <2>2
    <3> QED
      BY <3>1, ConcatCells
  <2> HIDE DEF u
  <2>4. Len(u) = Len(s) - 1
    BY <1>1, <2>1, <2>2, <2>3
  <2>5. \A i \in 1 .. Len(s) - 1 : u[i] = IF i < k THEN s[i] ELSE s[i + 1]
    <3> SUFFICES ASSUME NEW i \in 1 .. Len(s) - 1
                 PROVE  u[i] = IF i < k THEN s[i] ELSE s[i + 1]
      OBVIOUS
    <3>1. i \in 1 .. Len(p) + Len(q)
      BY <1>1, <2>1, <2>2
    <3>2. CASE i < k
      <4>1. i \in 1 .. k - 1 /\ i <= Len(p)
        BY <1>1, <2>1, <3>2
      <4> QED
        BY <2>1, <2>3, <3>1, <3>2, <4>1
    <3>3. CASE ~(i < k)
      <4>1. i - Len(p) \in 1 .. Len(s) - k /\ k + (i - Len(p)) = i + 1 /\ ~(i <= Len(p))
        BY <1>1, <2>1, <3>3
      <4> QED
        BY <2>2, <2>3, <3>1, <3>3, <4>1
    <3> QED
      BY <3>2, <3>3
  <2>6. u = Cut(s, k)
    <3> DEFINE v == Cut(s, k)
    <3>1. /\ v \in Seq(Cells) /\ Len(v) = Len(s) - 1
          /\ \A i \in 1 .. Len(s) - 1 : v[i] = IF i < k THEN s[i] ELSE s[i + 1]
      BY CutSeq
    <3> HIDE DEF v
    <3>2. \A i \in 1 .. Len(u) : u[i] = v[i]
      BY <2>4, <2>5, <3>1
    <3>3. u = v
      BY <2>3, <2>4, <3>1, <3>2
    <3> QED
      BY <3>3 DEF v
  <2> QED
    BY <2>6 DEF RemoveAt, p, q, u
<1> QED
  BY <1>4, <1>5, <1>6 DEF Place

\* The place in the list of the j-th node, when the markers have the places a and b.
NodeAt(a, b, j) == IF j < a THEN j ELSE IF j < b - 1 THEN j + 1 ELSE j + 2

LEMMA SnapshotIs ==
    ASSUME NEW L, NEW s, Good(L, s), NEW a \in 1 .. Len(s), NEW b \in 1 .. Len(s), a < b,
           s[a] = currMarker, s[b] = lastMarker
    PROVE  LET ss == createSnapshot(L)
           IN  /\ ss.currPos = a - 1 /\ ss.lastPos = b - 1
               /\ ss.nodeList \in Seq(Nodes) /\ Len(ss.nodeList) = Len(s) - 2
               /\ \A j \in 1 .. Len(s) - 2 :
                    /\ NodeAt(a, b, j) \in 1 .. Len(s) /\ ss.nodeList[j] = s[NodeAt(a, b, j)]
<1>1. /\ s \in Seq(Cells) /\ Len(s) \in Nat /\ Len(s) >= 2 /\ Follows(L, s) /\ s[1] = L.head
      /\ \A i \in 1 .. Len(s) : s[i] \in Cells
      /\ \A i, j \in 1 .. Len(s) : s[i] = s[j] => i = j
  BY GoodFacts DEF Good, Along
<1>2. Chain(L, L.head) = s
  BY <1>1, ChainFollows
<1>3. createSnapshot(L) = [nodeList |-> NodesOf(s), currPos |-> Place(currMarker, s),
                           lastPos |-> Place(lastMarker, s)]
  BY <1>2 DEF createSnapshot
<1>4. Place(currMarker, s) = a - 1 /\ Place(lastMarker, s) = b - 1 /\ RemoveFirst(s, currMarker) = Cut(s, a)
  BY <1>1, PlaceIs
<1> DEFINE t == Cut(s, a)
<1>5. /\ t \in Seq(Cells) /\ Len(t) = Len(s) - 1
      /\ \A i \in 1 .. Len(s) - 1 : t[i] = IF i < a THEN s[i] ELSE s[i + 1]
  BY <1>1, CutSeq
<1> HIDE DEF t
<1>6. b - 1 \in 1 .. Len(t) /\ t[b - 1] = lastMarker
  <2>1. b - 1 \in 1 .. Len(s) - 1 /\ ~(b - 1 < a) /\ (b - 1) + 1 = b
    BY <1>1
  <2> QED
    BY <1>5, <2>1
<1>7. \A i, j \in 1 .. Len(t) : t[i] = t[j] => i = j
  <2> SUFFICES ASSUME NEW i \in 1 .. Len(t), NEW j \in 1 .. Len(t), t[i] = t[j] PROVE i = j
    OBVIOUS
  <2>1. i \in 1 .. Len(s) /\ i + 1 \in 1 .. Len(s) /\ j \in 1 .. Len(s) /\ j + 1 \in 1 .. Len(s)
    BY <1>1, <1>5
  <2>2. i \in 1 .. Len(s) - 1 /\ j \in 1 .. Len(s) - 1
    BY <1>5
  <2>3. (IF i < a THEN i ELSE i + 1) = (IF j < a THEN j ELSE j + 1)
    BY <1>1, <1>5, <2>1, <2>2
  <2> QED
    BY <2>1, <2>3
<1>8. RemoveFirst(t, lastMarker) = Cut(t, b - 1)
  BY <1>5, <1>6, <1>7, PlaceIs
<1>9. /\ Cut(t, b - 1) \in Seq(Cells) /\ Len(Cut(t, b - 1)) = Len(t) - 1
      /\ \A i \in 1 .. Len(t) - 1 : Cut(t, b - 1)[i] = IF i < b - 1 THEN t[i] ELSE t[i + 1]
  BY <1>5, <1>6, CutSeq
<1> DEFINE v == Cut(t, b - 1)
<1>10. NodesOf(s) = v
  BY <1>4, <1>8 DEF NodesOf, t
<1> HIDE DEF v
<1>11. \A j \in 1 .. Len(s) - 2 : NodeAt(a, b, j) \in 1 .. Len(s) /\ v[j] = s[NodeAt(a, b, j)]
                                /\ NodeAt(a, b, j) # a /\ NodeAt(a, b, j) # b
  <2> SUFFICES ASSUME NEW j \in 1 .. Len(s) - 2
               PROVE  /\ NodeAt(a, b, j) \in 1 .. Len(s) /\ v[j] = s[NodeAt(a, b, j)]
                      /\ NodeAt(a, b, j) # a /\ NodeAt(a, b, j) # b
    OBVIOUS
  <2>1. j \in 1 .. Len(t) - 1 /\ j \in 1 .. Len(s) - 1 /\ j + 1 \in 1 .. Len(s) - 1 /\ j \in Int
    BY <1>1, <1>5
  <2>2. v[j] = IF j < b - 1 THEN t[j] ELSE t[j + 1]
    BY <1>9, <2>1 DEF v
  <2>3. t[j] = (IF j < a THEN s[j] ELSE s[j + 1]) /\ t[j + 1] = (IF j + 1 < a THEN s[j + 1] ELSE s[(j + 1) + 1])
    BY <1>5, <2>1
  <2>4. NodeAt(a, b, j) \in 1 .. Len(s) /\ NodeAt(a, b, j) # a /\ NodeAt(a, b, j) # b
    BY <1>1, <2>1 DEF NodeAt
  <2>5. CASE j < a
    BY <1>1, <2>1, <2>2, <2>3, <2>4, <2>5 DEF NodeAt
  <2>6. CASE ~(j < a) /\ j < b - 1
    BY <1>1, <2>1, <2>2, <2>3, <2>4, <2>6 DEF NodeAt
  <2>7. CASE ~(j < a) /\ ~(j < b - 1)
    <3>1. ~(j + 1 < a) /\ (j + 1) + 1 = j + 2
      BY <2>1, <2>7
    <3> QED
      BY <2>2, <2>3, <2>4, <2>7, <3>1 DEF NodeAt
  <2> QED
    BY <2>5, <2>6, <2>7
<1>12. v \in Seq(Nodes) /\ Len(v) = Len(s) - 2
  <2>1. Len(v) = Len(s) - 2 /\ v \in Seq(Cells)
    BY <1>1, <1>5, <1>9 DEF v
  <2>2. \A j \in 1 .. Len(v) : v[j] \in Nodes
    BY <1>1, <1>11, <2>1 DEF Cells
  <2> QED
    BY <2>1, <2>2
<1> QED
  BY <1>3, <1>4, <1>10, <1>11, <1>12
-----------------------------------------------------------------------------
(* loadSnapshot                                                            *)

\* s with n as its k-th cell.
Put(s, k, n) == [i \in 1 .. Len(s) + 1 |-> IF i < k THEN s[i] ELSE IF i = k THEN n ELSE s[i - 1]]

\* The cells that are not on the list are linked to nothing.
Exactly(L, s) == Linked(L) /\ Along(L, s) /\ \A c \in Cells : ~On(s, c) => Loose(L, c)

LEMMA PutSeq ==
    ASSUME NEW s \in Seq(Cells), NEW k \in 1 .. Len(s) + 1, NEW n \in Cells
    PROVE  /\ Put(s, k, n) \in Seq(Cells) /\ Len(Put(s, k, n)) = Len(s) + 1
           /\ Put(s, k, n)[k] = n
           /\ \A i \in 1 .. Len(s) : i < k => Put(s, k, n)[i] = s[i]
           /\ \A i \in 1 .. Len(s) : i >= k => Put(s, k, n)[i + 1] = s[i]
           /\ \A c : On(Put(s, k, n), c) <=> c = n \/ On(s, c)
<1> DEFINE t == Put(s, k, n)
<1>1. Len(s) + 1 \in Nat /\ k \in Int /\ \A i \in 1 .. Len(s) : s[i] \in Cells
  OBVIOUS
<1>2. \A i \in 1 .. Len(s) + 1 : (IF i < k THEN s[i] ELSE IF i = k THEN n ELSE s[i - 1]) \in Cells
  BY <1>1
<1>3. t \in [1 .. Len(s) + 1 -> Cells]
  BY <1>2 DEF Put
<1>4. t \in Seq(Cells) /\ Len(t) = Len(s) + 1
  BY <1>1, <1>3
<1>5. \A i \in 1 .. Len(s) + 1 : t[i] = IF i < k THEN s[i] ELSE IF i = k THEN n ELSE s[i - 1]
  BY DEF Put
<1> HIDE DEF t
<1>6. t[k] = n
  BY <1>5
<1>7. \A i \in 1 .. Len(s) : i < k => i \in 1 .. Len(s) + 1 /\ t[i] = s[i]
  BY <1>1, <1>5
<1>8. ASSUME NEW i \in 1 .. Len(s), i >= k PROVE i + 1 \in 1 .. Len(s) + 1 /\ t[i + 1] = s[i]
  <2>1. i + 1 \in 1 .. Len(s) + 1 /\ ~(i + 1 < k) /\ i + 1 # k /\ (i + 1) - 1 = i
    BY <1>1, <1>8
  <2> QED
    BY <1>5, <2>1
<1>9. ASSUME NEW c, On(t, c) PROVE c = n \/ On(s, c)
  <2>1. PICK i \in 1 .. Len(s) + 1 : t[i] = c
    BY <1>4, <1>9 DEF On
  <2>2. i > k => i - 1 \in 1 .. Len(s)
    BY <1>1
  <2>3. i < k => i \in 1 .. Len(s)
    BY <1>1
  <2>4. i < k \/ i = k \/ i > k
    BY <1>1
  <2> QED
    BY <1>5, <2>1, <2>2, <2>3, <2>4 DEF On
<1>10. ASSUME NEW c, c = n \/ On(s, c) PROVE On(t, c)
  <2>1. CASE c = n
    BY <1>4, <1>6, <2>1 DEF On
  <2>2. CASE On(s, c)
    <3>1. PICK i \in 1 .. Len(s) : s[i] = c
      BY <2>2 DEF On
    <3>2. i < k \/ i >= k
      BY <1>1
    <3> QED
      BY <1>4, <1>7, <1>8, <3>1, <3>2 DEF On
  <2> QED
    BY <1>10, <2>1, <2>2
<1> QED
  BY <1>4, <1>6, <1>7, <1>8, <1>9, <1>10 DEF t

\* The links of a node that is put between two cells, or at an end of the list.
LEMMA PutBetween ==
    ASSUME NEW L, NEW s, Exactly(L, s), NEW k \in 1 .. Len(s) + 1, NEW n \in Cells, ~On(s, n),
           NEW nx, nx = IF k <= Len(s) THEN s[k] ELSE Nil,
           NEW pv, pv = IF k = 1 THEN Nil ELSE s[k - 1],
           NEW W, W \in ListType,
           W.head = IF k = 1 THEN n ELSE L.head,
           \A c \in Cells : W.next[c] = IF c = n THEN nx ELSE IF c = pv THEN n ELSE L.next[c],
           \A c \in Cells : W.prev[c] = IF c = n THEN pv ELSE IF c = nx THEN n ELSE L.prev[c]
    PROVE  Exactly(W, Put(s, k, n))
<1> DEFINE t == Put(s, k, n)
<1>1. /\ s \in Seq(Cells) /\ Len(s) \in Nat /\ Len(s) >= 1 /\ Along(L, s)
      /\ \A i \in 1 .. Len(s) : s[i] \in Cells
      /\ \A i, j \in 1 .. Len(s) : s[i] = s[j] => i = j
      /\ \A i \in 1 .. Len(s) - 1 : L.next[s[i]] = s[i + 1]
      /\ L.next[s[Len(s)]] = Nil /\ s[1] = L.head /\ L.prev[s[1]] = Nil
  BY DEF Exactly, Along, Follows
<1>2. /\ \A c, d \in Cells : L.next[c] = d <=> L.prev[d] = c
      /\ L.next \in [Cells -> Cells \cup {Nil}] /\ L.prev \in [Cells -> Cells \cup {Nil}]
  BY DEF Exactly, Linked, ListType
<1>3. L.next[n] = Nil /\ L.prev[n] = Nil
  BY DEF Exactly, Loose
<1>4. nx # n /\ pv # n /\ (nx = Nil \/ nx \in Cells) /\ (pv = Nil \/ pv \in Cells)
  <2>1. k <= Len(s) => k \in 1 .. Len(s)
    BY <1>1
  <2>2. k # 1 => k - 1 \in 1 .. Len(s)
    BY <1>1
  <2> QED
    BY <1>1, <2>1, <2>2, CellFacts DEF On
<1>5. pv # Nil => L.next[pv] = nx
  <2>1. CASE k = 1
    BY <2>1
  <2>2. CASE k # 1 /\ k <= Len(s)
    <3>1. k - 1 \in 1 .. Len(s) - 1 /\ (k - 1) + 1 = k
      BY <1>1, <2>2
    <3> QED
      BY <1>1, <2>2, <3>1
  <2>3. CASE k # 1 /\ ~(k <= Len(s))
    <3>1. k - 1 = Len(s)
      BY <1>1, <2>3
    <3> QED
      BY <1>1, <2>3, <3>1
  <2> QED
    BY <2>1, <2>2, <2>3
<1>6. nx # Nil => L.prev[nx] = pv
  <2>1. CASE k = 1
    BY <1>1, <2>1
  <2>2. CASE k # 1 /\ k <= Len(s)
    <3>1. k - 1 \in 1 .. Len(s) - 1 /\ (k - 1) + 1 = k /\ k \in 1 .. Len(s) /\ k - 1 \in 1 .. Len(s)
      BY <1>1, <2>2
    <3> QED
      BY <1>1, <1>2, <2>2, <3>1
  <2> QED
    BY <1>1, <2>1, <2>2
<1>7. \A c, d \in Cells : W.next[c] = d <=> W.prev[d] = c
  <2> SUFFICES ASSUME NEW c \in Cells, NEW d \in Cells PROVE W.next[c] = d <=> W.prev[d] = c
    OBVIOUS
  <2>1. c = Nil => FALSE
    BY CellFacts
  <2>2. d = Nil => FALSE
    BY CellFacts
  <2> QED
    BY <1>2, <1>3, <1>4, <1>5, <1>6, <2>1, <2>2
<1>8. /\ t \in Seq(Cells) /\ Len(t) = Len(s) + 1 /\ t[k] = n
      /\ \A i \in 1 .. Len(s) : i < k => t[i] = s[i]
      /\ \A i \in 1 .. Len(s) : i >= k => t[i + 1] = s[i]
      /\ \A c : On(t, c) <=> c = n \/ On(s, c)
  BY <1>1, PutSeq
<1> HIDE DEF t
<1>9. \A i \in 1 .. Len(s) : s[i] # n
  BY DEF On
<1>10. \A i, j \in 1 .. Len(t) : t[i] = t[j] => i = j
  <2> DEFINE From(i) == IF i < k THEN i ELSE i - 1
  <2>1. \A i \in 1 .. Len(t) : i # k => From(i) \in 1 .. Len(s) /\ t[i] = s[From(i)]
    <3> SUFFICES ASSUME NEW i \in 1 .. Len(t), i # k PROVE From(i) \in 1 .. Len(s) /\ t[i] = s[From(i)]
      OBVIOUS
    <3>1. CASE i < k
      BY <1>1, <1>8, <3>1
    <3>2. CASE i > k
      <4>1. i - 1 \in 1 .. Len(s) /\ i - 1 >= k /\ (i - 1) + 1 = i
        BY <1>1, <1>8, <3>2
      <4> QED
        BY <1>8, <3>2, <4>1
    <3> QED
      BY <1>1, <3>1, <3>2
  <2> SUFFICES ASSUME NEW i \in 1 .. Len(t), NEW j \in 1 .. Len(t), t[i] = t[j] PROVE i = j
    OBVIOUS
  <2>2. CASE i # k /\ j # k
    <3>1. PICK p \in 1 .. Len(s) : p = From(i) /\ t[i] = s[p]
      BY <2>1, <2>2
    <3>2. PICK q \in 1 .. Len(s) : q = From(j) /\ t[j] = s[q]
      BY <2>1, <2>2
    <3>3. p = q
      <4>1. s[p] = s[q]
        BY <3>1, <3>2
      <4>2. \A x, y \in 1 .. Len(s) : s[x] = s[y] => x = y
        BY <1>1
      <4> HIDE DEF From
      <4> QED
        BY <4>1, <4>2
    <3>4. i \in Int /\ j \in Int /\ k \in Int
      BY <1>1, <1>8
    <3>5. From(i) = From(j)
      BY <3>1, <3>2, <3>3
    <3> QED
      BY <2>2, <3>4, <3>5
  <2>3. CASE i = k \/ j = k
    <3> HIDE DEF From
    <3> QED
      BY <1>8, <1>9, <2>1, <2>3
  <2> QED
    BY <2>2, <2>3
<1>11. \A i \in 1 .. Len(t) - 1 : W.next[t[i]] = t[i + 1]
  <2> SUFFICES ASSUME NEW i \in 1 .. Len(t) - 1 PROVE W.next[t[i]] = t[i + 1]
    OBVIOUS
  <2>1. i \in 1 .. Len(s) /\ i \in Int /\ k \in Int /\ s[i] \in Cells
    BY <1>1, <1>8
  <2>2. CASE i + 1 < k
    <3>1. i \in 1 .. Len(s) - 1 /\ i + 1 \in 1 .. Len(s) /\ i < k /\ k - 1 \in 1 .. Len(s) /\ k - 1 # i
      BY <1>1, <2>1, <2>2
    <3>2. t[i] = s[i] /\ t[i + 1] = s[i + 1] /\ s[i] # pv /\ s[i] # n
      BY <1>1, <1>8, <1>9, <2>2, <3>1
    <3> QED
      BY <1>1, <2>1, <3>1, <3>2
  <2>3. CASE i + 1 = k
    <3>1. i < k /\ k - 1 = i /\ k # 1
      BY <2>1, <2>3
    <3>2. t[i] = s[i] /\ t[i + 1] = n /\ s[i] = pv /\ s[i] # n
      BY <1>8, <1>9, <2>1, <2>3, <3>1
    <3> QED
      BY <2>1, <3>2
  <2>4. CASE i = k
    <3>1. t[i] = n /\ t[i + 1] = s[i] /\ nx = s[i]
      BY <1>1, <1>8, <2>1, <2>4
    <3> QED
      BY <3>1
  <2>5. CASE i > k
    <3>1. /\ i - 1 \in 1 .. Len(s) - 1 /\ i - 1 \in 1 .. Len(s) /\ i - 1 >= k /\ (i - 1) + 1 = i
          /\ i >= k /\ s[i - 1] \in Cells
      BY <1>1, <2>1, <2>5
    <3>4. t[(i - 1) + 1] = s[i - 1] /\ t[i + 1] = s[i]
      BY <1>8, <2>1, <3>1
    <3>5. L.next[s[i - 1]] = s[(i - 1) + 1]
      BY <1>1, <3>1
    <3>2. t[i] = s[i - 1] /\ t[i + 1] = s[i] /\ L.next[s[i - 1]] = s[i] /\ s[i - 1] # n
      BY <1>9, <3>1, <3>4, <3>5
    <3>3. s[i - 1] # pv
      <4>1. k # 1 => k - 1 \in 1 .. Len(s) /\ k - 1 # i - 1
        BY <1>1, <2>1, <2>5
      <4> QED
        BY <1>1, <3>1, <4>1, CellFacts
    <3> QED
      BY <3>1, <3>2, <3>3
  <2> QED
    BY <2>1, <2>2, <2>3, <2>4, <2>5
<1>12. W.next[t[Len(t)]] = Nil
  <2>1. CASE k = Len(s) + 1
    BY <1>1, <1>8, <2>1
  <2>2. CASE k # Len(s) + 1
    <3>1. Len(s) \in 1 .. Len(s) /\ Len(s) >= k
      BY <1>1, <2>2
    <3>2. t[Len(t)] = s[Len(s)] /\ s[Len(s)] # n /\ s[Len(s)] \in Cells
      BY <1>1, <1>8, <1>9, <3>1
    <3>3. s[Len(s)] # pv
      <4>1. k # 1 => k - 1 \in 1 .. Len(s) /\ k - 1 # Len(s)
        BY <1>1, <3>1
      <4> QED
        BY <1>1, <3>1, <3>2, <4>1, CellFacts
    <3> QED
      BY <1>1, <3>2, <3>3
  <2> QED
    BY <2>1, <2>2
<1>13. t[1] = W.head /\ W.prev[t[1]] = Nil
  <2>1. CASE k = 1
    BY <1>8, <2>1
  <2>2. CASE k # 1
    <3>1. 1 \in 1 .. Len(s) /\ 1 < k
      BY <1>1, <2>2
    <3>2. t[1] = s[1] /\ s[1] # n /\ s[1] \in Cells
      BY <1>1, <1>8, <1>9, <3>1
    <3>3. s[1] # nx
      <4>1. k <= Len(s) => k \in 1 .. Len(s)
        BY <1>1
      <4> QED
        BY <1>1, <2>2, <3>1, <3>2, <4>1, CellFacts
    <3> QED
      BY <1>1, <2>2, <3>2, <3>3
  <2> QED
    BY <2>1, <2>2
<1>14. Along(W, t)
  <2>1. Len(t) >= 1
    BY <1>1, <1>8
  <2> QED
    BY <1>8, <1>10, <1>11, <1>12, <1>13, <2>1 DEF Along, Follows
<1>15. \A c \in Cells : ~On(t, c) => Loose(W, c)
  <2> SUFFICES ASSUME NEW c \in Cells, ~On(t, c) PROVE Loose(W, c)
    OBVIOUS
  <2>1. c # n /\ ~On(s, c)
    BY <1>8
  <2>2. c # pv /\ c # nx
    <3>1. k <= Len(s) => k \in 1 .. Len(s)
      BY <1>1
    <3>2. k # 1 => k - 1 \in 1 .. Len(s)
      BY <1>1
    <3> QED
      BY <2>1, <3>1, <3>2, CellFacts DEF On
  <2>3. Loose(L, c)
    BY <2>1 DEF Exactly
  <2> QED
    BY <2>1, <2>2, <2>3 DEF Loose
<1> QED
  BY <1>7, <1>14, <1>15 DEF Exactly, Linked, t
\* The cells that have been loaded when the first m cells of s have been met: a
\* marker beyond them is behind them, as it is in the list of the two markers.
MarkersLeft(a, b, m) == IF m < a THEN 2 ELSE IF m < b THEN 1 ELSE 0
Loaded(s, a, b, m) ==
    [i \in 1 .. m + MarkersLeft(a, b, m) |->
       IF i <= m THEN s[i] ELSE IF i = m + MarkersLeft(a, b, m) THEN lastMarker ELSE currMarker]

LoadType == [L : ListType, index : Nat, nextNode : Cells \cup {Nil}, tail : Cells]

StateAt(st, s, a, b, m) ==
    /\ st \in LoadType /\ Exactly(st.L, Loaded(s, a, b, m)) /\ st.index = m
    /\ st.nextNode = IF m < a THEN currMarker ELSE IF m < b THEN lastMarker ELSE Nil
    /\ st.tail = IF m < b THEN lastMarker ELSE s[m]

\* s is a list with the markers at a and b.
Marked(s, a, b) ==
    /\ s \in Seq(Cells) /\ \A i, j \in 1 .. Len(s) : s[i] = s[j] => i = j
    /\ a \in 1 .. Len(s) /\ b \in 1 .. Len(s) /\ a < b /\ s[a] = currMarker /\ s[b] = lastMarker

LEMMA MarkedFacts ==
    ASSUME NEW s, NEW a, NEW b, Marked(s, a, b)
    PROVE  /\ Len(s) \in Nat /\ a \in Nat /\ b \in Nat /\ 1 <= a /\ a < b /\ b <= Len(s)
           /\ \A i \in 1 .. Len(s) : s[i] \in Cells
  BY DEF Marked

LEMMA LoadedSeq ==
    ASSUME NEW s, NEW a, NEW b, Marked(s, a, b), NEW m \in 0 .. Len(s)
    PROVE  LET q == Loaded(s, a, b, m)
           IN  /\ q \in Seq(Cells) /\ Len(q) = m + MarkersLeft(a, b, m)
               /\ \A i \in 1 .. m : q[i] = s[i] /\ i \in 1 .. Len(q) /\ i \in 1 .. Len(s)
               /\ m < a => Len(q) = m + 2 /\ q[m + 1] = currMarker /\ q[m + 2] = lastMarker
               /\ m >= a /\ m < b => Len(q) = m + 1 /\ q[m + 1] = lastMarker
               /\ m >= b => Len(q) = m
<1> DEFINE k == MarkersLeft(a, b, m)
           q == Loaded(s, a, b, m)
<1>1. Len(s) \in Nat /\ a \in Nat /\ b \in Nat /\ m \in Nat /\ m <= Len(s) /\ a < b
  BY MarkedFacts
<1>2. k \in 0 .. 2 /\ (m < a => k = 2) /\ (m >= a /\ m < b => k = 1) /\ (m >= b => k = 0)
  BY <1>1 DEF MarkersLeft
<1> HIDE DEF k
<1>3. q = [i \in 1 .. m + k |-> IF i <= m THEN s[i] ELSE IF i = m + k THEN lastMarker ELSE currMarker]
  BY DEF Loaded, k
<1> HIDE DEF q
<1>4. \A i \in 1 .. m : i \in 1 .. Len(s) /\ i \in 1 .. m + k
  BY <1>1, <1>2
<1>5. \A i \in 1 .. m + k : (IF i <= m THEN s[i] ELSE IF i = m + k THEN lastMarker ELSE currMarker) \in Cells
  BY <1>1, <1>2, <1>4, MarkedFacts, CellFacts
<1>6. q \in Seq(Cells) /\ Len(q) = m + k
  <2> DEFINE N == m + k
  <2>1. N \in Nat
    BY <1>1, <1>2
  <2>2. q \in [1 .. N -> Cells]
    BY <1>3, <1>5
  <2> HIDE DEF N
  <2>3. q \in Seq(Cells) /\ Len(q) = N
    BY <2>1, <2>2
  <2> QED
    BY <2>3 DEF N
<1>7. \A i \in 1 .. m : q[i] = s[i]
  BY <1>1, <1>3, <1>4
<1>8. m < a => q[m + 1] = currMarker /\ q[m + 2] = lastMarker
  BY <1>1, <1>2, <1>3
<1>9. m >= a /\ m < b => q[m + 1] = lastMarker
  BY <1>1, <1>2, <1>3
<1> QED
  BY <1>1, <1>2, <1>4, <1>6, <1>7, <1>8, <1>9 DEF q, k

\* A marker that is met is on the list already.
LEMMA LoadedMarker ==
    ASSUME NEW s, NEW a, NEW b, Marked(s, a, b), NEW m \in 0 .. Len(s) - 1, m + 1 = a \/ m + 1 = b
    PROVE  Loaded(s, a, b, m + 1) = Loaded(s, a, b, m)
<1> DEFINE p == Loaded(s, a, b, m + 1)
           q == Loaded(s, a, b, m)
<1>1. Len(s) \in Nat /\ a \in Nat /\ b \in Nat /\ m \in Nat /\ m + 1 <= Len(s) /\ a < b
  BY MarkedFacts
<1>2. /\ p \in Seq(Cells) /\ \A i \in 1 .. m + 1 : p[i] = s[i]
      /\ m + 1 < a => Len(p) = (m + 1) + 2
      /\ m + 1 >= a /\ m + 1 < b => Len(p) = (m + 1) + 1 /\ p[(m + 1) + 1] = lastMarker
      /\ m + 1 >= b => Len(p) = m + 1
  <2>1. m + 1 \in 0 .. Len(s)
    BY <1>1
  <2> QED
    BY <2>1, LoadedSeq
<1>3. /\ q \in Seq(Cells) /\ \A i \in 1 .. m : q[i] = s[i]
      /\ m < a => Len(q) = m + 2 /\ q[m + 1] = currMarker /\ q[m + 2] = lastMarker
      /\ m >= a /\ m < b => Len(q) = m + 1 /\ q[m + 1] = lastMarker
  <2>1. m \in 0 .. Len(s)
    BY <1>1
  <2> QED
    BY <2>1, LoadedSeq
<1> HIDE DEF p, q
<1>4. Len(p) = Len(q)
  BY <1>1, <1>2, <1>3
<1>5. \A i \in 1 .. m : p[i] = q[i]
  BY <1>1, <1>2, <1>3
<1>6. p[m + 1] = q[m + 1]
  <2>1. p[m + 1] = s[m + 1]
    BY <1>1, <1>2
  <2>2. CASE m + 1 = a
    BY <1>1, <1>3, <2>1, <2>2 DEF Marked
  <2>3. CASE m + 1 = b
    BY <1>1, <1>3, <2>1, <2>3 DEF Marked
  <2> QED
    BY <2>2, <2>3
<1>7. Len(p) = m + 1 \/ (Len(p) = m + 2 /\ p[m + 2] = q[m + 2])
  <2>1. (m + 1) + 1 = m + 2
    BY <1>1
  <2>2. CASE m + 1 = a
    BY <1>1, <1>2, <1>3, <2>1, <2>2
  <2>3. CASE m + 1 = b
    BY <1>1, <1>2, <2>3
  <2> QED
    BY <2>2, <2>3
<1>8. \A i \in 1 .. Len(p) : p[i] = q[i]
  <2> SUFFICES ASSUME NEW i \in 1 .. Len(p) PROVE p[i] = q[i]
    OBVIOUS
  <2>1. i \in 1 .. m \/ i = m + 1 \/ (i = m + 2 /\ Len(p) # m + 1)
    BY <1>1, <1>7
  <2> QED
    BY <1>5, <1>6, <1>7, <2>1
<1>9. p = q
  BY <1>2, <1>3, <1>4, <1>8
<1> QED
  BY <1>9 DEF p, q

LEMMA LoadedNode ==
    ASSUME NEW s, NEW a, NEW b, Marked(s, a, b), NEW m \in 0 .. Len(s) - 1, m + 1 # a, m + 1 # b
    PROVE  /\ Put(Loaded(s, a, b, m), m + 1, s[m + 1]) = Loaded(s, a, b, m + 1)
           /\ m + 1 \in 1 .. Len(Loaded(s, a, b, m)) + 1
           /\ ~On(Loaded(s, a, b, m), s[m + 1])
<1> DEFINE p == Loaded(s, a, b, m + 1)
           q == Loaded(s, a, b, m)
           t == Put(q, m + 1, s[m + 1])
<1>1. /\ Len(s) \in Nat /\ a \in Nat /\ b \in Nat /\ m \in Nat /\ m + 1 <= Len(s) /\ a < b
      /\ m + 1 \in 1 .. Len(s) /\ s[m + 1] \in Cells
  BY MarkedFacts
<1>2. /\ p \in Seq(Cells) /\ \A i \in 1 .. m + 1 : p[i] = s[i]
      /\ m + 1 < a => Len(p) = (m + 1) + 2 /\ p[(m + 1) + 1] = currMarker /\ p[(m + 1) + 2] = lastMarker
      /\ m + 1 >= a /\ m + 1 < b => Len(p) = (m + 1) + 1 /\ p[(m + 1) + 1] = lastMarker
      /\ m + 1 >= b => Len(p) = m + 1
  <2>1. m + 1 \in 0 .. Len(s)
    BY <1>1
  <2> QED
    BY <2>1, LoadedSeq
<1>3. /\ q \in Seq(Cells) /\ \A i \in 1 .. m : q[i] = s[i] /\ i \in 1 .. Len(q)
      /\ m < a => Len(q) = m + 2 /\ q[m + 1] = currMarker /\ q[m + 2] = lastMarker
      /\ m >= a /\ m < b => Len(q) = m + 1 /\ q[m + 1] = lastMarker
      /\ m >= b => Len(q) = m
  <2>1. m \in 0 .. Len(s)
    BY <1>1
  <2> QED
    BY <2>1, LoadedSeq
<1> HIDE DEF p, q
<1>4. Len(p) = Len(q) + 1 /\ Len(q) \in Nat /\ m <= Len(q) /\ Len(q) <= m + 2
  BY <1>1, <1>2, <1>3
<1>5. m + 1 \in 1 .. Len(q) + 1
  BY <1>1, <1>4
<1>6. /\ t \in Seq(Cells) /\ Len(t) = Len(q) + 1 /\ t[m + 1] = s[m + 1]
      /\ \A i \in 1 .. Len(q) : i < m + 1 => t[i] = q[i]
      /\ \A i \in 1 .. Len(q) : i >= m + 1 => t[i + 1] = q[i]
  <2>1. q \in Seq(Cells)
    BY <1>3
  <2>2. s[m + 1] \in Cells
    BY <1>1
  <2> QED
    BY <2>1, <2>2, <1>5, PutSeq
<1> HIDE DEF t
<1>7. \A i \in 1 .. m : t[i] = p[i]
  <2> SUFFICES ASSUME NEW i \in 1 .. m PROVE t[i] = p[i]
    OBVIOUS
  <2>1. i < m + 1 /\ i \in 1 .. m + 1
    BY <1>1
  <2> QED
    BY <1>2, <1>3, <1>6, <2>1
<1>8. t[m + 1] = p[m + 1]
  BY <1>1, <1>2, <1>6
<1>9. \A i \in 1 .. Len(q) : i >= m + 1 => t[i + 1] = p[i + 1]
  <2> SUFFICES ASSUME NEW i \in 1 .. Len(q), i >= m + 1 PROVE q[i] = p[i + 1]
    BY <1>6
  <2>1. i = m + 1 \/ i = m + 2
    BY <1>1, <1>4
  <2>2. (m + 1) + 1 = m + 2 /\ (m + 1) + 2 = m + 3 /\ (m + 2) + 1 = m + 3
    BY <1>1
  <2>3. CASE m < a
    <3>1. m + 1 < a
      BY <1>1, <2>3
    <3> QED
      BY <1>2, <1>3, <2>1, <2>2, <2>3, <3>1
  <2>4. CASE m >= a /\ m < b
    <3>1. m + 1 >= a /\ m + 1 < b /\ i = m + 1
      BY <1>1, <1>3, <2>1, <2>4
    <3> QED
      BY <1>2, <1>3, <2>2, <2>4, <3>1
  <2>5. CASE m >= b
    BY <1>1, <1>3, <2>1, <2>5
  <2> QED
    BY <1>1, <2>3, <2>4, <2>5
<1>10. \A i \in 1 .. Len(p) : t[i] = p[i]
  <2> SUFFICES ASSUME NEW i \in 1 .. Len(p) PROVE t[i] = p[i]
    OBVIOUS
  <2>1. i \in 1 .. m \/ i = m + 1 \/ (i - 1 \in 1 .. Len(q) /\ i - 1 >= m + 1 /\ (i - 1) + 1 = i)
    BY <1>1, <1>4
  <2> QED
    BY <1>7, <1>8, <1>9, <2>1
<1>11. t = p
  BY <1>2, <1>4, <1>6, <1>10
<1>12. ~On(q, s[m + 1])
  <2> SUFFICES ASSUME NEW i \in 1 .. Len(q), q[i] = s[m + 1] PROVE FALSE
    BY DEF On
  <2>1. s[m + 1] # currMarker /\ s[m + 1] # lastMarker
    BY <1>1 DEF Marked
  <2>2. i \in 1 .. m \/ i = m + 1 \/ i = m + 2
    BY <1>1, <1>4
  <2>3. CASE i \in 1 .. m
    <3>2. i \in 1 .. Len(s) /\ i # m + 1
      BY <1>1, <2>3
    <3>1. i \in 1 .. Len(s) /\ i # m + 1 /\ q[i] = s[i]
      BY <1>3, <2>3, <3>2
    <3> QED
      BY <1>1, <3>1 DEF Marked
  <2>4. CASE i = m + 1 \/ i = m + 2
    <3>1. q[i] = currMarker \/ q[i] = lastMarker
      BY <1>1, <1>3, <2>4
    <3> QED
      BY <2>1, <3>1
  <2> QED
    BY <2>2, <2>3, <2>4
<1> QED
  BY <1>5, <1>11, <1>12 DEF p, q, t
\* What SkipMarker changes.
LEMMA SkipValues ==
    ASSUME NEW st \in LoadType, NEW pos, st.index = pos, st.L.next[st.nextNode] \in Cells \cup {Nil}
    PROVE  LET u == SkipMarker(st, pos)
           IN  /\ u \in LoadType /\ u.L = st.L /\ u.index = st.index + 1 /\ u.tail = st.tail
               /\ u.nextNode = st.L.next[st.nextNode]
<1> DEFINE u == [st EXCEPT !.nextNode = st.L.next[@], !.index = @ + 1]
<1>1. SkipMarker(st, pos) = u
  BY DEF SkipMarker
<1>2. st.index + 1 \in Nat
  BY DEF LoadType
<1>3. u.L = st.L /\ u.index = st.index + 1 /\ u.tail = st.tail /\ u.nextNode = st.L.next[st.nextNode]
  BY DEF LoadType
<1>4. u \in LoadType
  BY <1>2 DEF LoadType
<1> QED
  BY <1>1, <1>3, <1>4

LEMMA SkipCurr ==
    ASSUME NEW s, NEW a, NEW b, Marked(s, a, b), NEW m \in 0 .. Len(s), NEW st, StateAt(st, s, a, b, m)
    PROVE  StateAt(SkipMarker(st, a - 1), s, a, b, IF m + 1 = a THEN m + 1 ELSE m)
<1>1. Len(s) \in Nat /\ a \in Nat /\ b \in Nat /\ m \in Nat /\ a < b /\ b <= Len(s)
  BY MarkedFacts
<1>2. st \in LoadType /\ st.index = m
  BY DEF StateAt
<1>3. CASE m + 1 # a
  <2>1. SkipMarker(st, a - 1) = st
    BY <1>1, <1>2, <1>3 DEF SkipMarker
  <2> QED
    BY <1>3, <2>1
<1>4. CASE m + 1 = a
  <2> DEFINE q == Loaded(s, a, b, m)
             u == SkipMarker(st, a - 1)
  <2>1. m < a /\ m + 1 < b /\ m < b /\ ~(m + 1 < a) /\ m = a - 1
    BY <1>1, <1>4
  <2>2. q \in Seq(Cells) /\ Len(q) = m + 2 /\ q[m + 1] = currMarker /\ q[m + 2] = lastMarker
    BY <2>1, LoadedSeq
  <2>3. Exactly(st.L, q) /\ st.nextNode = currMarker /\ st.tail = lastMarker
    BY <2>1 DEF StateAt
  <2> HIDE DEF q
  <2>4. st.L.next[currMarker] = lastMarker
    <3>1. m + 1 \in 1 .. Len(q) - 1 /\ (m + 1) + 1 = m + 2
      BY <1>1, <2>2
    <3>2. st.L.next[q[m + 1]] = q[(m + 1) + 1]
      BY <2>3, <3>1 DEF Exactly, Along, Follows
    <3> QED
      BY <2>2, <3>1, <3>2
  <2>5. /\ u \in LoadType /\ u.L = st.L /\ u.index = st.index + 1 /\ u.tail = st.tail
        /\ u.nextNode = lastMarker
    <3>1. st.index = a - 1 /\ st.L.next[st.nextNode] \in Cells \cup {Nil}
      BY <1>2, <2>1, <2>3, <2>4, CellFacts
    <3> QED
      BY <1>2, <2>3, <2>4, <3>1, SkipValues
  <2> HIDE DEF u
  <2>6. Loaded(s, a, b, m + 1) = q
    <3>1. m \in 0 .. Len(s) - 1
      BY <1>1, <1>4
    <3> QED
      BY <1>4, <3>1, LoadedMarker DEF q
  <2>7. StateAt(u, s, a, b, m + 1)
    BY <1>2, <2>1, <2>3, <2>5, <2>6 DEF StateAt
  <2> QED
    BY <1>4, <2>7 DEF u
<1> QED
  BY <1>3, <1>4

LEMMA SkipLast ==
    ASSUME NEW s, NEW a, NEW b, Marked(s, a, b), NEW m \in 0 .. Len(s), NEW st, StateAt(st, s, a, b, m)
    PROVE  StateAt(SkipMarker(st, b - 1), s, a, b, IF m + 1 = b THEN m + 1 ELSE m)
<1>1. Len(s) \in Nat /\ a \in Nat /\ b \in Nat /\ m \in Nat /\ a < b /\ b <= Len(s)
  BY MarkedFacts
<1>2. st \in LoadType /\ st.index = m
  BY DEF StateAt
<1>3. CASE m + 1 # b
  <2>1. SkipMarker(st, b - 1) = st
    BY <1>1, <1>2, <1>3 DEF SkipMarker
  <2> QED
    BY <1>3, <2>1
<1>4. CASE m + 1 = b
  <2> DEFINE q == Loaded(s, a, b, m)
             u == SkipMarker(st, b - 1)
  <2>1. ~(m < a) /\ m >= a /\ m < b /\ ~(m + 1 < b) /\ ~(m + 1 < a) /\ m = b - 1
    BY <1>1, <1>4
  <2>2. q \in Seq(Cells) /\ Len(q) = m + 1 /\ q[m + 1] = lastMarker
    BY <2>1, LoadedSeq
  <2>3. Exactly(st.L, q) /\ st.nextNode = lastMarker /\ st.tail = lastMarker
    BY <2>1 DEF StateAt
  <2> HIDE DEF q
  <2>4. st.L.next[lastMarker] = Nil
    <3>1. st.L.next[q[Len(q)]] = Nil
      BY <2>3 DEF Exactly, Along, Follows
    <3> QED
      BY <2>2, <3>1
  <2>5. /\ u \in LoadType /\ u.L = st.L /\ u.index = st.index + 1 /\ u.tail = st.tail
        /\ u.nextNode = Nil
    <3>1. st.index = b - 1 /\ st.L.next[st.nextNode] \in Cells \cup {Nil}
      BY <1>2, <2>1, <2>3, <2>4
    <3> QED
      BY <1>2, <2>3, <2>4, <3>1, SkipValues
  <2> HIDE DEF u
  <2>6. Loaded(s, a, b, m + 1) = q
    <3>1. m \in 0 .. Len(s) - 1
      BY <1>1, <1>4
    <3> QED
      BY <1>4, <3>1, LoadedMarker DEF q
  <2>7. s[m + 1] = lastMarker
    BY <1>4 DEF Marked
  <2>8. StateAt(u, s, a, b, m + 1)
    BY <1>2, <2>1, <2>3, <2>5, <2>6, <2>7 DEF StateAt
  <2> QED
    BY <1>4, <2>8 DEF u
<1> QED
  BY <1>3, <1>4

\* Insert, when no marker is to be skipped.
Inserted(st, n) ==
    LET nx == st.nextNode
        pv == IF nx = Nil THEN st.tail ELSE st.L.prev[nx]
        prev1 == [st.L.prev EXCEPT ![n] = pv]
        next1 == [st.L.next EXCEPT ![n] = nx]
    IN [L |-> [next |-> IF pv = Nil THEN next1 ELSE [next1 EXCEPT ![pv] = n],
               prev |-> IF nx = Nil THEN prev1 ELSE [prev1 EXCEPT ![nx] = n],
               head |-> IF nx = st.L.head THEN n ELSE st.L.head],
        index |-> st.index + 1, nextNode |-> nx,
        tail |-> IF pv = st.tail THEN n ELSE st.tail]

LEMMA InsertIs ==
    ASSUME NEW st, NEW n, NEW ss
    PROVE  Insert(st, n, ss) = Inserted(SkipMarker(SkipMarker(st, ss.currPos), ss.lastPos), n)
  BY DEF Insert, Inserted

LEMMA InsertedNode ==
    ASSUME NEW s, NEW a, NEW b, Marked(s, a, b), NEW m \in 0 .. Len(s) - 1, m + 1 # a, m + 1 # b,
           NEW st, StateAt(st, s, a, b, m)
    PROVE  StateAt(Inserted(st, s[m + 1]), s, a, b, m + 1)
<1> DEFINE q == Loaded(s, a, b, m)
           n == s[m + 1]
           k == m + 1
           nx == st.nextNode
           pv == IF nx = Nil THEN st.tail ELSE st.L.prev[nx]
           W == Inserted(st, n).L
<1>1. /\ Len(s) \in Nat /\ a \in Nat /\ b \in Nat /\ 1 <= a /\ a < b /\ m \in Nat /\ m + 1 <= Len(s)
      /\ m \in 0 .. Len(s) /\ m + 1 \in 1 .. Len(s)
  BY MarkedFacts
<1>2. /\ q \in Seq(Cells)
      /\ \A i \in 1 .. m : q[i] = s[i] /\ i \in 1 .. Len(q) /\ i \in 1 .. Len(s)
      /\ m < a => Len(q) = m + 2 /\ q[m + 1] = currMarker /\ q[m + 2] = lastMarker
      /\ m >= a /\ m < b => Len(q) = m + 1 /\ q[m + 1] = lastMarker
      /\ m >= b => Len(q) = m
  <2>1. m \in 0 .. Len(s)
    BY <1>1
  <2> QED
    BY <2>1, LoadedSeq
<1>3. n \in Cells /\ n # currMarker /\ n # lastMarker
  BY <1>1 DEF Marked
<1>4. /\ st \in LoadType /\ Exactly(st.L, q) /\ st.index = m
      /\ st.nextNode = IF m < a THEN currMarker ELSE IF m < b THEN lastMarker ELSE Nil
      /\ st.tail = IF m < b THEN lastMarker ELSE s[m]
  BY DEF StateAt
<1>5. Put(q, k, n) = Loaded(s, a, b, m + 1) /\ k \in 1 .. Len(q) + 1 /\ ~On(q, n)
  BY LoadedNode
<1> HIDE DEF q
<1>6. nx = IF k <= Len(q) THEN q[k] ELSE Nil
  <2>1. CASE m < a
    BY <1>1, <1>2, <1>4, <2>1
  <2>2. CASE m >= a /\ m < b
    BY <1>1, <1>2, <1>4, <2>2
  <2>3. CASE m >= b
    BY <1>1, <1>2, <1>4, <2>3
  <2> QED
    BY <1>1, <2>1, <2>2, <2>3
<1>7. /\ \A i \in 1 .. Len(q) - 1 : st.L.next[q[i]] = q[i + 1]
      /\ \A c, d \in Cells : st.L.next[c] = d <=> st.L.prev[d] = c
      /\ q[1] = st.L.head /\ st.L.prev[q[1]] = Nil /\ Len(q) \in Nat /\ Len(q) >= 1
      /\ \A i \in 1 .. Len(q) : q[i] \in Cells
      /\ \A i, j \in 1 .. Len(q) : q[i] = q[j] => i = j
      /\ st.L.next \in [Cells -> Cells \cup {Nil}] /\ st.L.prev \in [Cells -> Cells \cup {Nil}]
      /\ st.L.head \in Cells \cup {Nil}
  BY <1>2, <1>4 DEF Exactly, Along, Follows, Linked, ListType
<1>8. pv = IF k = 1 THEN Nil ELSE q[k - 1]
  <2>1. CASE k <= Len(q)
    <3>1. k \in 1 .. Len(q) /\ nx = q[k] /\ nx # Nil
      BY <1>1, <1>6, <1>7, <2>1, CellFacts
    <3>2. CASE k = 1
      BY <1>7, <3>1, <3>2
    <3>3. CASE k # 1
      <4>1. k - 1 \in 1 .. Len(q) - 1 /\ (k - 1) + 1 = k /\ k - 1 \in 1 .. Len(q)
        BY <1>1, <3>1, <3>3
      <4>2. st.L.next[q[k - 1]] = q[k]
        BY <1>7, <4>1
      <4> QED
        BY <1>7, <3>1, <3>3, <4>1, <4>2
    <3> QED
      BY <3>2, <3>3
  <2>2. CASE ~(k <= Len(q))
    <3>3. ~(m < a) /\ ~(m >= a /\ m < b)
      BY <1>1, <1>2, <2>2
    <3>4. m >= b /\ ~(m < b)
      BY <1>1, <3>3
    <3>1. m >= b /\ nx = Nil /\ ~(m < b)
      BY <1>6, <2>2, <3>4
    <3>2. m \in 1 .. m /\ k - 1 = m /\ k # 1
      BY <1>1, <3>1
    <3> QED
      BY <1>2, <1>4, <3>1, <3>2
  <2> QED
    BY <2>1, <2>2
<1>9. nx # n /\ pv # n /\ (nx = Nil \/ nx \in Cells) /\ (pv = Nil \/ pv \in Cells)
  <2>1. k <= Len(q) => k \in 1 .. Len(q)
    BY <1>1
  <2>2. k # 1 => k - 1 \in 1 .. Len(q)
    BY <1>1, <1>5
  <2>3. n # Nil
    BY <1>3, CellFacts
  <2> HIDE DEF nx, pv, k, n
  <2> QED
    BY <1>5, <1>6, <1>7, <1>8, <2>1, <2>2, <2>3 DEF On
<1>10. (nx = st.L.head) <=> k = 1
  <2>1. CASE k = 1
    BY <1>6, <1>7, <2>1
  <2>2. CASE k # 1 /\ k <= Len(q)
    <3>1. k \in 1 .. Len(q) /\ 1 \in 1 .. Len(q) /\ nx = q[k]
      BY <1>1, <1>6, <2>2
    <3> QED
      BY <1>7, <2>2, <3>1
  <2>3. CASE ~(k <= Len(q))
    <3>1. nx = Nil /\ 1 \in 1 .. Len(q) /\ k # 1
      BY <1>6, <1>7, <2>3
    <3> QED
      BY <1>7, <3>1, CellFacts
  <2> QED
    BY <2>1, <2>2, <2>3
<1> DEFINE next1 == [st.L.next EXCEPT ![n] = nx]
           prev1 == [st.L.prev EXCEPT ![n] = pv]
           tl == IF pv = st.tail THEN n ELSE st.tail
<1>11. Inserted(st, n) =
         [L |-> [next |-> IF pv = Nil THEN next1 ELSE [next1 EXCEPT ![pv] = n],
                 prev |-> IF nx = Nil THEN prev1 ELSE [prev1 EXCEPT ![nx] = n],
                 head |-> IF nx = st.L.head THEN n ELSE st.L.head],
          index |-> st.index + 1, nextNode |-> nx, tail |-> tl]
  BY DEF Inserted
<1>12. W = [next |-> IF pv = Nil THEN next1 ELSE [next1 EXCEPT ![pv] = n],
            prev |-> IF nx = Nil THEN prev1 ELSE [prev1 EXCEPT ![nx] = n],
            head |-> IF nx = st.L.head THEN n ELSE st.L.head]
  BY <1>11
<1> HIDE DEF W, tl, nx, pv, k, n
<1>13. /\ next1 \in [Cells -> Cells \cup {Nil}] /\ prev1 \in [Cells -> Cells \cup {Nil}]
       /\ \A c \in Cells : next1[c] = IF c = n THEN nx ELSE st.L.next[c]
       /\ \A c \in Cells : prev1[c] = IF c = n THEN pv ELSE st.L.prev[c]
  BY <1>3, <1>7, <1>9
<1> HIDE DEF next1, prev1
<1>14. /\ W.next \in [Cells -> Cells \cup {Nil}]
       /\ \A c \in Cells : W.next[c] = IF c = n THEN nx ELSE IF c = pv THEN n ELSE st.L.next[c]
  <2>1. CASE pv = Nil
    <3>1. W.next = next1 /\ \A c \in Cells : c # pv
      BY <1>12, <2>1, CellFacts
    <3> QED
      BY <1>13, <3>1
  <2>2. CASE pv # Nil
    <3>1. W.next = [next1 EXCEPT ![pv] = n]
      BY <1>12, <2>2
    <3> QED
      BY <1>3, <1>9, <1>13, <3>1
  <2> QED
    BY <2>1, <2>2
<1>15. /\ W.prev \in [Cells -> Cells \cup {Nil}]
       /\ \A c \in Cells : W.prev[c] = IF c = n THEN pv ELSE IF c = nx THEN n ELSE st.L.prev[c]
  <2>1. CASE nx = Nil
    <3>1. W.prev = prev1 /\ \A c \in Cells : c # nx
      BY <1>12, <2>1, CellFacts
    <3> QED
      BY <1>13, <3>1
  <2>2. CASE nx # Nil
    <3>1. W.prev = [prev1 EXCEPT ![nx] = n]
      BY <1>12, <2>2
    <3> QED
      BY <1>3, <1>9, <1>13, <3>1
  <2> QED
    BY <2>1, <2>2
<1>16. W.head = (IF k = 1 THEN n ELSE st.L.head) /\ W.head \in Cells \cup {Nil}
  BY <1>3, <1>7, <1>10, <1>12
<1>17. W \in ListType
  BY <1>12, <1>14, <1>15, <1>16 DEF ListType
<1>18. Exactly(W, Put(q, k, n))
  BY <1>3, <1>4, <1>5, <1>6, <1>8, <1>14, <1>15, <1>16, <1>17, PutBetween
<1>19. nx = IF m + 1 < a THEN currMarker ELSE IF m + 1 < b THEN lastMarker ELSE Nil
  BY <1>1, <1>4 DEF nx
<1>20. tl = (IF m + 1 < b THEN lastMarker ELSE s[m + 1]) /\ tl \in Cells
  <2>1. CASE m < b
    <3>1. pv # lastMarker
      <4>1. k = 1 => pv = Nil
        BY <1>8
      <4>2. CASE k # 1
        <5>1. m \in 1 .. m /\ k - 1 = m /\ m # b
          BY <1>1, <2>1, <4>2 DEF k
        <5>2. pv = s[m] /\ m \in 1 .. Len(s)
          BY <1>2, <1>8, <4>2, <5>1
        <5> QED
          BY <5>1, <5>2 DEF Marked
      <4> QED
        BY <4>1, <4>2, CellFacts
    <3>2. st.tail = lastMarker /\ m + 1 < b
      BY <1>1, <1>4, <2>1
    <3> QED
      BY <3>1, <3>2, CellFacts DEF tl
  <2>2. CASE ~(m < b)
    <3>1. nx = Nil /\ ~(m + 1 < b)
      BY <1>1, <1>4, <2>2 DEF nx
    <3>2. pv = st.tail
      BY <3>1 DEF pv
    <3> QED
      BY <1>3, <3>1, <3>2 DEF tl, n
  <2> QED
    BY <2>1, <2>2
<1>21. Inserted(st, n) = [L |-> W, index |-> m + 1, nextNode |-> nx, tail |-> tl]
  BY <1>4, <1>11, <1>12
<1>22. Inserted(st, n) \in LoadType
  BY <1>1, <1>9, <1>17, <1>20, <1>21 DEF LoadType
<1>23. StateAt(Inserted(st, n), s, a, b, m + 1)
  BY <1>5, <1>18, <1>19, <1>20, <1>21, <1>22 DEF StateAt
<1> QED
  BY <1>23 DEF n
FreshLoad == [L |-> TwoMarkers, index |-> 0, nextNode |-> currMarker, tail |-> lastMarker]

\* g is the recursive function in loadSnapshot, as far as the j-th node.
IsLoad(ss, j, g) ==
    g = [i \in 0 .. j |-> IF i = 0 THEN FreshLoad ELSE Insert(g[i - 1], ss.nodeList[i], ss)]

LEMMA LoadIs ==
    ASSUME NEW ss
    PROVE  loadSnapshot(ss) = (CHOOSE g : IsLoad(ss, Len(ss.nodeList), g))[Len(ss.nodeList)].L
  BY DEF loadSnapshot, IsLoad, FreshLoad

LEMMA LoadExists ==
    ASSUME NEW ss, NEW N \in Nat
    PROVE  \E g : IsLoad(ss, N, g)
<1> DEFINE Bad == {j \in 0 .. N : ~\E g : IsLoad(ss, j, g)}
<1>1. SUFFICES ASSUME Bad # {} PROVE FALSE
  <2>1. N \in 0 .. N
    OBVIOUS
  <2> QED
    BY <2>1
<1>2. PICK j \in Bad : \A m \in Bad : j <= m
  <2>1. Bad \in SUBSET Nat
    OBVIOUS
  <2> HIDE DEF Bad
  <2> QED
    BY <1>1, <2>1, SmallestNumber
<1>3. j \in 0 .. N /\ ~\E g : IsLoad(ss, j, g)
  BY <1>2
<1>4. CASE j = 0
  <2> DEFINE h == [i \in 0 .. 0 |-> FreshLoad]
  <2>1. h = [i \in 0 .. 0 |-> IF i = 0 THEN FreshLoad ELSE Insert(h[i - 1], ss.nodeList[i], ss)]
    OBVIOUS
  <2>2. IsLoad(ss, 0, h)
    BY <2>1 DEF IsLoad
  <2> QED
    BY <1>3, <1>4, <2>2
<1>5. CASE j # 0
  <2>1. j - 1 \in 0 .. N /\ j \in Nat
    BY <1>3, <1>5
  <2>2. PICK g : IsLoad(ss, j - 1, g)
    BY <1>2, <2>1
  <2>3. \A i \in 0 .. j - 1 : g[i] = IF i = 0 THEN FreshLoad ELSE Insert(g[i - 1], ss.nodeList[i], ss)
    BY <2>2, Zenon DEF IsLoad
  <2> DEFINE h == [i \in 0 .. j |-> IF i < j THEN g[i] ELSE Insert(g[j - 1], ss.nodeList[j], ss)]
  <2>4. \A i \in 0 .. j : (IF i < j THEN g[i] ELSE Insert(g[j - 1], ss.nodeList[j], ss))
                          = IF i = 0 THEN FreshLoad ELSE Insert(h[i - 1], ss.nodeList[i], ss)
    <3> SUFFICES ASSUME NEW i \in 0 .. j
                 PROVE  (IF i < j THEN g[i] ELSE Insert(g[j - 1], ss.nodeList[j], ss))
                        = IF i = 0 THEN FreshLoad ELSE Insert(h[i - 1], ss.nodeList[i], ss)
      OBVIOUS
    <3>1. CASE i = 0
      BY <1>5, <2>1, <2>3, <3>1
    <3>2. CASE i # 0
      <4>1. i - 1 \in 0 .. j /\ i - 1 < j /\ (i < j => i \in 0 .. j - 1) /\ (~(i < j) => i = j)
        BY <2>1, <3>2
      <4>2. h[i - 1] = g[i - 1]
        BY <4>1
      <4> HIDE DEF h
      <4> QED
        BY <2>3, <3>2, <4>1, <4>2
    <3> QED
      BY <3>1, <3>2
  <2>5. h = [i \in 0 .. j |-> IF i = 0 THEN FreshLoad ELSE Insert(h[i - 1], ss.nodeList[i], ss)]
    <3> DEFINE A(i) == IF i < j THEN g[i] ELSE Insert(g[j - 1], ss.nodeList[j], ss)
               B(i) == IF i = 0 THEN FreshLoad ELSE Insert(h[i - 1], ss.nodeList[i], ss)
    <3>1. \A i \in 0 .. j : A(i) = B(i)
      BY <2>4
    <3>2. h = [i \in 0 .. j |-> A(i)]
      OBVIOUS
    <3> HIDE DEF A, B, h
    <3>3. h = [i \in 0 .. j |-> B(i)]
      BY <3>1, <3>2
    <3> QED
      BY <3>3 DEF B
  <2>6. IsLoad(ss, j, h)
    BY <2>5 DEF IsLoad
  <2> QED
    BY <1>3, <2>6
<1> QED
  BY <1>4, <1>5

LEMMA MarkersLoaded ==
    ASSUME NEW s, NEW a, NEW b, Marked(s, a, b)
    PROVE  StateAt(FreshLoad, s, a, b, 0)
<1> DEFINE q == Loaded(s, a, b, 0)
<1>1. Len(s) \in Nat /\ a \in Nat /\ b \in Nat /\ 1 <= a /\ a < b /\ 0 < a /\ 0 < b
  BY MarkedFacts
<1>2. q \in Seq(Cells) /\ Len(q) = 2 /\ q[1] = currMarker /\ q[2] = lastMarker
  <2> DEFINE m == 0
  <2>1. m \in 0 .. Len(s) /\ m + 1 = 1 /\ m + 2 = 2 /\ m < a
    BY <1>1
  <2> HIDE DEF m
  <2>2. /\ Loaded(s, a, b, m) \in Seq(Cells) /\ Len(Loaded(s, a, b, m)) = m + 2
        /\ Loaded(s, a, b, m)[m + 1] = currMarker /\ Loaded(s, a, b, m)[m + 2] = lastMarker
    BY <2>1, LoadedSeq
  <2>3. Loaded(s, a, b, m) = q
    BY DEF m
  <2> HIDE DEF q
  <2> QED
    BY <2>1, <2>2, <2>3
<1> HIDE DEF q
<1>3. /\ TwoMarkers.next = [c \in Cells |-> IF c = currMarker THEN lastMarker ELSE Nil]
      /\ TwoMarkers.prev = [c \in Cells |-> IF c = lastMarker THEN currMarker ELSE Nil]
      /\ TwoMarkers.head = currMarker /\ TwoMarkers \in ListType
  BY CellFacts DEF TwoMarkers, ListType
<1>4. Linked(TwoMarkers)
  BY <1>3, CellFacts DEF Linked
<1>5. \A i \in 1 .. Len(q) - 1 : TwoMarkers.next[q[i]] = q[i + 1]
  <2> SUFFICES ASSUME NEW i \in 1 .. Len(q) - 1 PROVE TwoMarkers.next[q[i]] = q[i + 1]
    OBVIOUS
  <2>1. i = 1 /\ i + 1 = 2
    BY <1>2
  <2> QED
    BY <1>2, <1>3, <2>1, CellFacts
<1>6. \A i, j \in 1 .. Len(q) : q[i] = q[j] => i = j
  <2> SUFFICES ASSUME NEW i \in 1 .. Len(q), NEW j \in 1 .. Len(q), q[i] = q[j] PROVE i = j
    OBVIOUS
  <2>1. (i = 1 \/ i = 2) /\ (j = 1 \/ j = 2)
    BY <1>2
  <2> QED
    BY <1>2, <2>1, CellFacts
<1>7. Along(TwoMarkers, q)
  <2>1. Len(q) >= 1 /\ TwoMarkers.next[q[Len(q)]] = Nil /\ TwoMarkers.prev[q[1]] = Nil
    BY <1>2, <1>3, CellFacts
  <2> QED
    BY <1>2, <1>3, <1>5, <1>6, <2>1 DEF Along, Follows
<1>8. \A c \in Cells : ~On(q, c) => Loose(TwoMarkers, c)
  <2>1. On(q, currMarker) /\ On(q, lastMarker)
    <3>1. 1 \in 1 .. Len(q) /\ 2 \in 1 .. Len(q)
      BY <1>2
    <3> QED
      BY <1>2, <3>1 DEF On
  <2> QED
    BY <1>3, <2>1 DEF Loose
<1>9. Exactly(TwoMarkers, q)
  BY <1>4, <1>7, <1>8 DEF Exactly
<1>10. FreshLoad \in LoadType
  BY <1>3, CellFacts DEF FreshLoad, LoadType
<1> QED
  BY <1>1, <1>9, <1>10 DEF StateAt, FreshLoad, q

\* A node is inserted behind all that was loaded before it.
LEMMA NextLoaded ==
    ASSUME NEW s, NEW a, NEW b, Marked(s, a, b), NEW j \in 1 .. Len(s) - 2,
           NEW ss, ss.currPos = a - 1, ss.lastPos = b - 1,
           NEW st, StateAt(st, s, a, b, NodeAt(a, b, j - 1))
    PROVE  StateAt(Insert(st, s[NodeAt(a, b, j)], ss), s, a, b, NodeAt(a, b, j))
<1> DEFINE m == NodeAt(a, b, j - 1)
           m1 == IF m + 1 = a THEN m + 1 ELSE m
           m2 == IF m1 + 1 = b THEN m1 + 1 ELSE m1
           st1 == SkipMarker(st, a - 1)
           st2 == SkipMarker(st1, b - 1)
<1>1. Len(s) \in Nat /\ a \in Nat /\ b \in Nat /\ 1 <= a /\ a < b /\ b <= Len(s) /\ j \in Nat /\ 1 <= j /\ j <= Len(s) - 2
  BY MarkedFacts
<1>2. m \in 0 .. Len(s) /\ m1 \in 0 .. Len(s) /\ m2 \in 0 .. Len(s) - 1 /\ m2 + 1 # a /\ m2 + 1 # b
      /\ m2 + 1 = NodeAt(a, b, j)
  <2>1. CASE j < a
    <3>1. m = j - 1 /\ m1 = j - 1 /\ m2 = j - 1 /\ NodeAt(a, b, j) = j
      BY <1>1, <2>1 DEF NodeAt
    <3> HIDE DEF m, m1, m2
    <3> QED
      BY <1>1, <2>1, <3>1
  <2>2. CASE j = a
    <3>1. m = a - 1 /\ m1 = a /\ m2 = (IF a + 1 = b THEN b ELSE a)
          /\ NodeAt(a, b, j) = IF a + 1 = b THEN b + 1 ELSE a + 1
      BY <1>1, <2>2 DEF NodeAt
    <3> HIDE DEF m, m1, m2
    <3> QED
      BY <1>1, <2>2, <3>1
  <2>3. CASE j > a /\ j < b
    <3>1. m = j /\ m1 = j /\ m2 = (IF j + 1 = b THEN b ELSE j)
          /\ NodeAt(a, b, j) = IF j + 1 = b THEN b + 1 ELSE j + 1
      BY <1>1, <2>3 DEF NodeAt
    <3> HIDE DEF m, m1, m2
    <3> QED
      BY <1>1, <2>3, <3>1
  <2>4. CASE j > a /\ ~(j < b)
    <3>1. m = j + 1 /\ m1 = j + 1 /\ m2 = j + 1 /\ NodeAt(a, b, j) = j + 2
      BY <1>1, <2>4 DEF NodeAt
    <3> HIDE DEF m, m1, m2
    <3> QED
      BY <1>1, <2>4, <3>1
  <2> QED
    BY <1>1, <2>1, <2>2, <2>3, <2>4
<1>3. StateAt(st1, s, a, b, m1)
  <2>1. StateAt(st, s, a, b, m) /\ m \in 0 .. Len(s)
    BY <1>2
  <2> HIDE DEF m
  <2> QED
    BY <2>1, SkipCurr
<1> HIDE DEF st1, m1
<1>4. StateAt(st2, s, a, b, m2)
  BY <1>2, <1>3, SkipLast
<1> HIDE DEF st2, m2
<1>5. StateAt(Inserted(st2, s[m2 + 1]), s, a, b, m2 + 1)
  BY <1>2, <1>4, InsertedNode
<1>6. Insert(st, s[m2 + 1], ss) = Inserted(st2, s[m2 + 1])
  BY InsertIs DEF st1, st2
<1> QED
  BY <1>2, <1>5, <1>6

\* When all nodes are loaded, so are the markers.
LEMMA AllLoaded ==
    ASSUME NEW s, NEW a, NEW b, Marked(s, a, b)
    PROVE  LET m == NodeAt(a, b, Len(s) - 2)
           IN  m \in 0 .. Len(s) /\ Loaded(s, a, b, m) = s
<1> DEFINE m == NodeAt(a, b, Len(s) - 2)
           n == Len(s)
<1>1. n \in Nat /\ a \in Nat /\ b \in Nat /\ 1 <= a /\ a < b /\ b <= n
  BY MarkedFacts
<1>2. Loaded(s, a, b, n) = s
  <2> DEFINE q == Loaded(s, a, b, n)
  <2>1. q \in Seq(Cells) /\ Len(q) = n /\ \A i \in 1 .. n : q[i] = s[i]
    <3>1. n \in 0 .. n /\ n >= b
      BY <1>1
    <3> QED
      BY <3>1, LoadedSeq
  <2> HIDE DEF q
  <2>2. q = s
    BY <2>1 DEF Marked
  <2> QED
    BY <2>2 DEF q
<1>3. m = n \/ (m = n - 1 /\ b = n) \/ (m = n - 2 /\ a = n - 1 /\ b = n)
  BY <1>1 DEF NodeAt
<1>4. CASE m = n
  BY <1>1, <1>2, <1>4
<1>5. CASE m = n - 1 /\ b = n
  <2>1. m \in 0 .. n - 1 /\ m + 1 = b /\ m + 1 = n /\ m \in 0 .. n
    BY <1>1, <1>5
  <2>2. Loaded(s, a, b, m + 1) = Loaded(s, a, b, m)
    BY <2>1, LoadedMarker
  <2> QED
    BY <1>2, <2>1, <2>2
<1>6. CASE m = n - 2 /\ a = n - 1 /\ b = n
  <2>1. m \in 0 .. n - 1 /\ m + 1 = a /\ m + 1 = n - 1 /\ m \in 0 .. n
        /\ n - 1 \in 0 .. n - 1 /\ (n - 1) + 1 = b /\ (n - 1) + 1 = n
    BY <1>1, <1>6
  <2>2. Loaded(s, a, b, n - 1) = Loaded(s, a, b, m)
    <3>1. Loaded(s, a, b, m + 1) = Loaded(s, a, b, m)
      BY <2>1, LoadedMarker
    <3> QED
      BY <2>1, <3>1
  <2>3. Loaded(s, a, b, n) = Loaded(s, a, b, n - 1)
    <3>1. Loaded(s, a, b, (n - 1) + 1) = Loaded(s, a, b, n - 1)
      BY <2>1, LoadedMarker
    <3> QED
      BY <2>1, <3>1
  <2> QED
    BY <1>2, <2>1, <2>2, <2>3
<1> QED
  BY <1>3, <1>4, <1>5, <1>6

\* loadSnapshot undoes createSnapshot.
LEMMA SnapshotLoaded ==
    ASSUME NEW L, NEW s, Good(L, s)
    PROVE  Good(loadSnapshot(createSnapshot(L)), s)
<1>1. PICK a, b \in 1 .. Len(s) : a < b /\ s[a] = currMarker /\ s[b] = lastMarker
  BY DEF Good, Ordered
<1>2. Marked(s, a, b)
  BY <1>1, GoodFacts DEF Marked
<1>3. /\ Len(s) \in Nat /\ a \in Nat /\ b \in Nat /\ 1 <= a /\ a < b /\ b <= Len(s)
      /\ \A i \in 1 .. Len(s) : s[i] \in Cells
  BY <1>2, MarkedFacts
<1> DEFINE ss == createSnapshot(L)
           N == Len(ss.nodeList)
           g == CHOOSE h : IsLoad(ss, N, h)
<1>4. /\ ss.currPos = a - 1 /\ ss.lastPos = b - 1 /\ N = Len(s) - 2
      /\ \A j \in 1 .. N : ss.nodeList[j] = s[NodeAt(a, b, j)]
  BY <1>1, SnapshotIs
<1>5. N \in Nat
  BY <1>3, <1>4
<1>6. IsLoad(ss, N, g)
  <2>1. \E h : IsLoad(ss, N, h)
    BY <1>5, LoadExists
  <2> HIDE DEF ss, N
  <2> QED
    BY <2>1
<1>7. loadSnapshot(ss) = g[N].L
  BY LoadIs
<1> HIDE DEF ss, N, g
<1>8. \A i \in 0 .. N : g[i] = IF i = 0 THEN FreshLoad ELSE Insert(g[i - 1], ss.nodeList[i], ss)
  BY <1>6, Zenon DEF IsLoad
<1> DEFINE Bad == {j \in 0 .. N : ~StateAt(g[j], s, a, b, NodeAt(a, b, j))}
<1>9. Bad = {}
  <2>1. SUFFICES ASSUME Bad # {} PROVE FALSE
    OBVIOUS
  <2>2. PICK j \in Bad : \A m \in Bad : j <= m
    <3>1. Bad \in SUBSET Nat
      BY <1>5
    <3> HIDE DEF Bad
    <3> QED
      BY <2>1, <3>1, SmallestNumber
  <2>3. j \in 0 .. N /\ ~StateAt(g[j], s, a, b, NodeAt(a, b, j))
    BY <2>2
  <2>4. CASE j = 0
    <3>1. NodeAt(a, b, 0) = 0
      BY <1>3 DEF NodeAt
    <3>2. g[j] = FreshLoad
      BY <1>8, <2>3, <2>4
    <3> QED
      BY <1>2, <2>3, <2>4, <3>1, <3>2, MarkersLoaded
  <2>5. CASE j # 0
    <3>1. j - 1 \in 0 .. N /\ j - 1 \notin Bad /\ j \in 1 .. N
      BY <1>5, <2>2, <2>3, <2>5
    <3>2. StateAt(g[j - 1], s, a, b, NodeAt(a, b, j - 1))
      BY <3>1
    <3>3. g[j] = Insert(g[j - 1], s[NodeAt(a, b, j)], ss)
      BY <1>4, <1>8, <2>3, <2>5, <3>1
    <3>4. j \in 1 .. Len(s) - 2
      BY <1>4, <3>1
    <3> HIDE DEF Bad
    <3>5. StateAt(g[j], s, a, b, NodeAt(a, b, j))
      BY <1>2, <1>4, <3>2, <3>3, <3>4, NextLoaded
    <3> QED
      BY <2>3, <3>5
  <2> QED
    BY <2>4, <2>5
<1>10. StateAt(g[N], s, a, b, NodeAt(a, b, N))
  BY <1>5, <1>9
<1>11. Exactly(g[N].L, s)
  <2>1. Loaded(s, a, b, NodeAt(a, b, N)) = s
    BY <1>2, <1>4, AllLoaded
  <2> QED
    BY <1>10, <2>1 DEF StateAt
<1> QED
  BY <1>7, <1>11 DEF Good, Exactly, ss
-----------------------------------------------------------------------------
(* The inductive invariant                                                 *)

\* What a thread has in hand: a node of the file it works on, and before removeNode
\* takes a node out of the list, the node is not the file's any more.
ThreadsHold ==
    \A t \in Threads :
       /\ thread[t].pc \in {"restore", "link", "unlink"} =>
            thread[t].node \in Nodes /\ NameOf(thread[t].node) = thread[t].name
       /\ thread[t].pc = "unlink" => nodeMap[thread[t].name] # thread[t].node

\* clearCache has nothing in hand when it looks for expired nodes, and is not in
\* CacheValid while it waits for the lock of a file.
EvictorHolds ==
    /\ evict \in {"idle", "expire"} => delItems = {}
    /\ evict = "delete" => thread[Evictor] = Idle

OwnNodes == \A f \in Names : nodeMap[f] # Nil => NameOf(nodeMap[f]) = f

\* Where the node of a cached file is.
Tracked(n) ==
    \/ On(Walk, n)
    \/ n \in delItems /\ n \in deleted
    \/ \E t \in Threads : thread[t].pc \in {"restore", "link"} /\ thread[t].node = n

AllTracked == \A f \in Names \ Pends : nodeMap[f] # Nil => Tracked(nodeMap[f])

LruInv ==
    /\ TypeOK /\ pending \subseteq Pends
    /\ ThreadsHold /\ EvictorHolds /\ OwnNodes
    /\ Good(list, Walk)
    /\ AllTracked

LEMMA GoodWalk ==
    ASSUME NEW L, NEW s, Good(L, s)
    PROVE  Chain(L, L.head) = s
<1>1. Follows(L, s) /\ s[1] = L.head
  BY DEF Good, Along
<1>2. Chain(L, s[1]) = s
  BY <1>1, ChainFollows
<1> QED
  BY <1>1, <1>2

LEMMA ThreadFacts ==
    /\ Callers \subseteq Threads /\ Async \in Threads /\ Evictor \in Threads
    /\ \A c \in Callers : c # Async /\ c # Evictor
    /\ Async # Evictor /\ Idle.pc = "idle" /\ Idle.node = Nil
    /\ Marker \notin Names /\ \A n \in Nodes : NameOf(n) \in Names
<1>1. \A n \in Names \X Nat : n[1] \in Names
  OBVIOUS
<1>2. \A n \in Nodes : NameOf(n) \in Names
  BY <1>1, LruAssumption DEF NameOf
<1>3. \A c \in Callers : c # Async /\ c # Evictor
  BY LruAssumption
<1> QED
  BY <1>2, <1>3, LruAssumption DEF Threads, Idle

ThreadType == [pc : {"idle", "create", "restore", "link", "unlink", "rlock"},
               name : Names \cup {Marker}, node : Nodes \cup {Nil}]

\* One thread moves on.
LEMMA ThreadMoved ==
    ASSUME TypeOK, NEW t \in Threads, NEW r \in ThreadType, thread' = [thread EXCEPT ![t] = r]
    PROVE  /\ thread' \in [Threads -> ThreadType]
           /\ \A u \in Threads : u # t => thread'[u] = thread[u]
           /\ thread'[t] = r
  BY DEF TypeOK, ThreadType

LEMMA ThreadFields ==
    ASSUME TypeOK, NEW t \in Threads
    PROVE  /\ thread[t] \in ThreadType /\ thread[t].name \in Names \cup {Marker}
           /\ thread[t].node \in Nodes \cup {Nil}
  BY DEF TypeOK, ThreadType

LEMMA InitHolds == Init => LruInv
<1> SUFFICES ASSUME Init PROVE LruInv
  OBVIOUS
<1> DEFINE q == <<currMarker, lastMarker>>
<1>1. /\ list.next = [c \in Cells |-> IF c = currMarker THEN lastMarker ELSE Nil]
      /\ list.prev = [c \in Cells |-> IF c = lastMarker THEN currMarker ELSE Nil]
      /\ list.head = currMarker /\ list \in ListType
  BY CellFacts DEF Init, TwoMarkers, ListType
<1>2. q \in Seq(Cells) /\ Len(q) = 2 /\ q[1] = currMarker /\ q[2] = lastMarker
  BY CellFacts
<1> HIDE DEF q
<1>3. Linked(list)
  BY <1>1, CellFacts DEF Linked
<1>4. \A i \in 1 .. Len(q) - 1 : list.next[q[i]] = q[i + 1]
  <2> SUFFICES ASSUME NEW i \in 1 .. Len(q) - 1 PROVE list.next[q[i]] = q[i + 1]
    OBVIOUS
  <2>1. i = 1 /\ i + 1 = 2
    BY <1>2
  <2> QED
    BY <1>1, <1>2, <2>1, CellFacts
<1>5. \A i, j \in 1 .. Len(q) : q[i] = q[j] => i = j
  <2> SUFFICES ASSUME NEW i \in 1 .. Len(q), NEW j \in 1 .. Len(q), q[i] = q[j] PROVE i = j
    OBVIOUS
  <2>1. (i = 1 \/ i = 2) /\ (j = 1 \/ j = 2)
    BY <1>2
  <2> QED
    BY <1>2, <2>1, CellFacts
<1>6. Along(list, q)
  <2>1. Len(q) >= 1 /\ list.next[q[Len(q)]] = Nil /\ list.prev[q[1]] = Nil
    BY <1>1, <1>2, CellFacts
  <2> QED
    BY <1>1, <1>2, <1>4, <1>5, <2>1 DEF Along, Follows
<1>7. Ordered(q)
  <2>1. 1 \in 1 .. Len(q) /\ 2 \in 1 .. Len(q) /\ 1 < 2
    BY <1>2
  <2> QED
    BY <1>2, <2>1 DEF Ordered
<1>8. Good(list, Walk)
  <2>1. Good(list, q)
    BY <1>3, <1>6, <1>7 DEF Good
  <2> QED
    BY <2>1, GoodWalk DEF Walk
<1>9. TypeOK
  <2>1. list \in [next : [Cells -> Cells \cup {Nil}], prev : [Cells -> Cells \cup {Nil}],
                  head : Cells \cup {Nil}]
    BY <1>1 DEF ListType
  <2> QED
    BY <2>1 DEF TypeOK, Init, Idle
<1>10. ThreadsHold /\ EvictorHolds /\ OwnNodes /\ AllTracked /\ pending \subseteq Pends
  BY DEF ThreadsHold, EvictorHolds, OwnNodes, AllTracked, Init, Idle
<1> QED
  BY <1>8, <1>9, <1>10 DEF LruInv

\* A step that leaves the list alone leaves its walk alone.
LEMMA SameList ==
    ASSUME UNCHANGED list
    PROVE  Walk' = Walk /\ (Good(list, Walk) => Good(list, Walk)')
<1>1. Walk' = Walk
  BY DEF Walk, Chain
<1> QED
  BY <1>1 DEF Good, Linked, Along, Follows, Ordered, On

-----------------------------------------------------------------------------
(* The steps of the callers and of the validator                           *)

LEMMA CacheValidKept ==
    ASSUME LruInv, NEW c \in Callers, NEW f \in Names, CacheValid(c, f)
    PROVE  LruInv'
<1>1. TypeOK /\ ThreadsHold /\ EvictorHolds /\ OwnNodes /\ AllTracked /\ Good(list, Walk)
  BY DEF LruInv
<1>2. Good(list, Walk)' /\ Walk' = Walk
  BY <1>1, SameList DEF CacheValid
<1>3. thread[c].pc = "idle" /\ c \in Threads /\ c # Evictor
  BY ThreadFacts DEF CacheValid
<1>4. /\ thread' \in [Threads -> ThreadType]
      /\ \A t \in Threads : t # c => thread'[t] = thread[t]
      /\ thread'[c].pc \in {"idle", "create"}
  <2> DEFINE r == [Idle EXCEPT !.pc = "create", !.name = f]
  <2>1. r \in ThreadType /\ r.pc = "create"
    BY DEF Idle, ThreadType
  <2> HIDE DEF r
  <2>2. thread' = thread \/ thread' = [thread EXCEPT ![c] = r]
    BY DEF CacheValid, r
  <2>3. CASE thread' = thread
    BY <1>1, <1>3, <2>3 DEF TypeOK, ThreadType
  <2>4. CASE thread' = [thread EXCEPT ![c] = r]
    BY <1>1, <1>3, <2>1, <2>4, ThreadMoved
  <2> QED
    BY <2>2, <2>3, <2>4
<1>5. TypeOK'
  <2>1. flock' \in [Names -> Callers \cup {Evictor, None}] /\ validateChan' \subseteq Names
    BY <1>1 DEF CacheValid, TypeOK
  <2> QED
    BY <1>1, <1>4, <2>1 DEF CacheValid, TypeOK, ThreadType
<1>6. ThreadsHold'
  BY <1>1, <1>3, <1>4 DEF CacheValid, ThreadsHold
<1>7. EvictorHolds' /\ OwnNodes' /\ (pending \subseteq Pends)'
  BY <1>1, <1>3, <1>4, ThreadFacts DEF CacheValid, EvictorHolds, OwnNodes, LruInv
<1>8. AllTracked'
  BY <1>1, <1>2, <1>3, <1>4 DEF CacheValid, AllTracked, Tracked, On
<1> QED
  BY <1>2, <1>5, <1>6, <1>7, <1>8 DEF LruInv

LEMMA LoadOrStoreKept ==
    ASSUME LruInv, NEW t \in Threads, LoadOrStore(t)
    PROVE  LruInv'
<1>1. TypeOK /\ ThreadsHold /\ EvictorHolds /\ OwnNodes /\ AllTracked /\ Good(list, Walk)
  BY DEF LruInv
<1> DEFINE f == thread[t].name
<1>2. PICK n \in Nodes :
        /\ NameOf(n) = f
        /\ \/ /\ nodeMap[f] = n /\ UNCHANGED <<list, deleted, nodeMap>>
           \/ /\ nodeMap[f] = Nil /\ ~Referenced(n)
              /\ nodeMap' = [nodeMap EXCEPT ![f] = n]
              /\ deleted' = deleted \ {n}
              /\ list' = [list EXCEPT !.next[n] = Nil, !.prev[n] = Nil]
        /\ thread' = [thread EXCEPT ![t] = [@ EXCEPT !.pc = "restore", !.node = n]]
  BY Zenon DEF LoadOrStore
<1>3. thread[t].pc = "create" /\ f \in Names
  BY <1>2, ThreadFacts DEF LoadOrStore
<1>4. /\ thread' \in [Threads -> ThreadType]
      /\ \A u \in Threads : u # t => thread'[u] = thread[u]
      /\ thread'[t].pc = "restore" /\ thread'[t].node = n /\ thread'[t].name = f
  <2> DEFINE r == [thread[t] EXCEPT !.pc = "restore", !.node = n]
  <2>1. thread[t] \in ThreadType
    BY <1>1, ThreadFields
  <2>2. r \in ThreadType /\ r.pc = "restore" /\ r.node = n /\ r.name = f
    BY <2>1 DEF ThreadType
  <2> HIDE DEF r
  <2>3. thread' = [thread EXCEPT ![t] = r]
    BY <1>2 DEF r
  <2> QED
    BY <1>1, <2>2, <2>3, ThreadMoved
<1> HIDE DEF f
<1>5. /\ Good(list, Walk)' /\ \A c : On(Walk, c) => On(Walk', c)
      /\ list' \in ListType
  <2>1. CASE nodeMap[f] = n /\ UNCHANGED <<list, deleted, nodeMap>>
    <3>1. Good(list, Walk)' /\ Walk' = Walk
      BY <1>1, <2>1, SameList
    <3> QED
      BY <1>1, <2>1, <3>1 DEF TypeOK, ListType
  <2>2. CASE ~Referenced(n) /\ list' = [list EXCEPT !.next[n] = Nil, !.prev[n] = Nil]
    <3>1. n # list.head
      BY <2>2 DEF Referenced
    <3>4. \A c \in Cells : c # n => n # list.next[c] /\ n # list.prev[c]
      <4>1. ~\E c \in Cells : c # n /\ n \in {list.next[c], list.prev[c]}
        BY <2>2, Zenon DEF Referenced
      <4> QED
        BY <4>1
    <3>5. Good([list EXCEPT !.next[n] = Nil, !.prev[n] = Nil], Walk)
      BY <1>1, <3>1, <3>4, NodeCleared, Zenon
    <3>2. Good(list', Walk)
      BY <2>2, <3>5, Zenon
    <3>3. Walk' = Walk
      BY <3>2, GoodWalk DEF Walk
    <3> QED
      BY <3>2, <3>3 DEF Good, Linked
  <2> QED
    BY <1>2, <2>1, <2>2
<1>6. /\ nodeMap' \in [Names -> Nodes \cup {Nil}] /\ deleted' \subseteq Nodes
      /\ nodeMap'[f] = n
      /\ \A g \in Names : g # f => nodeMap'[g] = nodeMap[g]
  BY <1>1, <1>2, <1>3 DEF TypeOK
<1>7. TypeOK'
  BY <1>1, <1>4, <1>5, <1>6 DEF LoadOrStore, TypeOK, ListType, ThreadType
<1>8. ThreadsHold'
  <2> SUFFICES ASSUME NEW u \in Threads
               PROVE  /\ thread'[u].pc \in {"restore", "link", "unlink"} =>
                           thread'[u].node \in Nodes /\ NameOf(thread'[u].node) = thread'[u].name
                      /\ thread'[u].pc = "unlink" => nodeMap'[thread'[u].name] # thread'[u].node
    BY DEF ThreadsHold
  <2>1. CASE u = t
    BY <1>2, <1>4, <2>1 DEF f
  <2>2. CASE u # t
    <3>1. thread'[u] = thread[u]
      BY <1>4, <2>2
    <3>2. ASSUME thread[u].pc = "unlink" PROVE nodeMap'[thread[u].name] # thread[u].node
      <4>1. thread[u].node \in Nodes /\ NameOf(thread[u].node) = thread[u].name
            /\ nodeMap[thread[u].name] # thread[u].node /\ thread[u].name \in Names
        BY <1>1, <3>2, ThreadFacts DEF ThreadsHold
      <4>2. CASE thread[u].name # f
        BY <1>6, <4>1, <4>2
      <4>3. CASE thread[u].name = f
        <5>1. ~Referenced(n) => thread[u].node # n
          BY DEF Referenced
        <5> QED
          BY <1>2, <1>6, <4>1, <4>3, <5>1
      <4> QED
        BY <4>2, <4>3
    <3> QED
      BY <1>1, <3>1, <3>2 DEF ThreadsHold
  <2> QED
    BY <2>1, <2>2
<1>9. EvictorHolds'
  <2>1. evict = "delete" => t # Evictor
    BY <1>1, <1>3 DEF EvictorHolds, Idle
  <2> QED
    BY <1>1, <1>4, <2>1, ThreadFacts DEF LoadOrStore, EvictorHolds
<1>10. OwnNodes' /\ (pending \subseteq Pends)'
  BY <1>1, <1>2, <1>6 DEF LoadOrStore, OwnNodes, LruInv
<1>11. AllTracked'
  <2> SUFFICES ASSUME NEW g \in Names \ Pends, nodeMap'[g] # Nil PROVE Tracked(nodeMap[g])'
    BY DEF AllTracked
  <2>1. CASE g = f
    BY <1>4, <1>6, <2>1 DEF Tracked
  <2>2. CASE g # f
    <3>1. nodeMap'[g] = nodeMap[g] /\ Tracked(nodeMap[g])
      BY <1>1, <1>6, <2>2 DEF AllTracked
    <3>2. nodeMap[g] # n
      BY <1>1, <1>2, <2>2, <3>1 DEF OwnNodes
    <3>3. ASSUME On(Walk, nodeMap[g]) PROVE On(Walk', nodeMap[g])
      BY <1>5, <3>3
    <3>4. nodeMap[g] \in deleted => nodeMap[g] \in deleted'
      BY <1>2, <3>2
    <3>5. \A u \in Threads : thread[u].pc \in {"restore", "link"} => thread'[u] = thread[u]
      BY <1>3, <1>4
    <3>6. delItems' = delItems
      BY DEF LoadOrStore
    <3> QED
      BY <3>1, <3>3, <3>4, <3>5, <3>6 DEF Tracked
  <2> QED
    BY <2>1, <2>2
<1> QED
  BY <1>5, <1>7, <1>8, <1>9, <1>10, <1>11 DEF LruInv
\* A thread that holds no node for the list moves on; no cell moves, and files
\* may be dropped from nodeMap.
LEMMA HandsChanged ==
    ASSUME LruInv, NEW t \in Threads, NEW r \in ThreadType, thread' = [thread EXCEPT ![t] = r],
           UNCHANGED <<list, deleted, delItems>>,
           \A g \in Names : nodeMap'[g] = nodeMap[g] \/ nodeMap'[g] = Nil,
           thread[t].pc \notin {"restore", "link"},
           r.pc \in {"restore", "link", "unlink"} => r.node \in Nodes /\ NameOf(r.node) = r.name,
           r.pc = "unlink" => nodeMap'[r.name] # r.node,
           TypeOK', EvictorHolds', (pending \subseteq Pends)'
    PROVE  LruInv'
<1>1. TypeOK /\ ThreadsHold /\ OwnNodes /\ AllTracked /\ Good(list, Walk)
  BY DEF LruInv
<1>2. Good(list, Walk)' /\ Walk' = Walk
  BY <1>1, SameList
<1>3. (\A u \in Threads : u # t => thread'[u] = thread[u]) /\ thread'[t] = r
  BY <1>1, ThreadMoved
<1>4. ThreadsHold'
  <2> SUFFICES ASSUME NEW u \in Threads
               PROVE  /\ thread'[u].pc \in {"restore", "link", "unlink"} =>
                           thread'[u].node \in Nodes /\ NameOf(thread'[u].node) = thread'[u].name
                      /\ thread'[u].pc = "unlink" => nodeMap'[thread'[u].name] # thread'[u].node
    BY DEF ThreadsHold
  <2>1. CASE u = t
    BY <1>3, <2>1
  <2>2. CASE u # t
    <3>1. thread'[u] = thread[u]
      BY <1>3, <2>2
    <3>2. ASSUME thread[u].pc = "unlink" PROVE nodeMap'[thread[u].name] # thread[u].node
      <4>1. thread[u].node \in Nodes /\ thread[u].name \in Names /\ nodeMap[thread[u].name] # thread[u].node
        BY <1>1, <3>2, ThreadFacts DEF ThreadsHold
      <4> QED
        BY <4>1, CellFacts
    <3> QED
      BY <1>1, <3>1, <3>2 DEF ThreadsHold
  <2> QED
    BY <2>1, <2>2
<1>5. OwnNodes'
  BY <1>1 DEF OwnNodes
<1>6. AllTracked'
  <2> SUFFICES ASSUME NEW g \in Names \ Pends, nodeMap'[g] # Nil PROVE Tracked(nodeMap[g])'
    BY DEF AllTracked
  <2>1. nodeMap'[g] = nodeMap[g] /\ Tracked(nodeMap[g])
    BY <1>1 DEF AllTracked
  <2>2. \A u \in Threads : thread[u].pc \in {"restore", "link"} => thread'[u] = thread[u]
    BY <1>3
  <2> QED
    BY <1>2, <2>1, <2>2 DEF Tracked, On
<1> QED
  BY <1>2, <1>4, <1>5, <1>6 DEF LruInv

LEMMA AsyncLoadKept ==
    ASSUME LruInv, NEW f \in Names, AsyncLoad(f)
    PROVE  LruInv'
<1>1. TypeOK /\ EvictorHolds /\ OwnNodes /\ pending \subseteq Pends
  BY DEF LruInv
<1>2. Async \in Threads /\ Async # Evictor /\ thread[Async].pc = "idle"
  BY ThreadFacts DEF AsyncLoad
<1> DEFINE r == IF nodeMap[f] = Nil THEN thread[Async]
                ELSE [pc |-> "restore", name |-> f, node |-> nodeMap[f]]
<1>3. thread[Async] \in ThreadType /\ nodeMap[f] \in Nodes \cup {Nil}
  BY <1>1, <1>2, ThreadFields DEF TypeOK
<1>4. r \in ThreadType
  BY <1>3 DEF ThreadType
<1>5. r.pc \in {"idle", "restore"} /\ (r.pc = "restore" => r.node \in Nodes /\ NameOf(r.node) = r.name)
  BY <1>1, <1>2, <1>3 DEF OwnNodes
<1>6. thread' = [thread EXCEPT ![Async] = r]
  <2>1. thread = [thread EXCEPT ![Async] = thread[Async]]
    BY <1>1 DEF TypeOK
  <2> QED
    BY <2>1 DEF AsyncLoad
<1> HIDE DEF r
<1>7. TypeOK'
  <2>1. thread' \in [Threads -> ThreadType] /\ validateChan' \subseteq Names
    BY <1>1, <1>2, <1>4, <1>6, ThreadMoved DEF AsyncLoad, TypeOK
  <2> QED
    BY <1>1, <2>1 DEF AsyncLoad, TypeOK, ThreadType
<1>8. EvictorHolds' /\ (pending \subseteq Pends)'
  <2>1. thread'[Evictor] = thread[Evictor]
    BY <1>1, <1>2, <1>4, <1>6, ThreadFacts, ThreadMoved
  <2> QED
    BY <1>1, <2>1 DEF AsyncLoad, EvictorHolds
<1>9. UNCHANGED <<list, deleted, delItems, nodeMap>>
  BY DEF AsyncLoad
<1>10. /\ \A g \in Names : nodeMap'[g] = nodeMap[g] \/ nodeMap'[g] = Nil
       /\ thread[Async].pc \notin {"restore", "link"}
  BY <1>2, <1>9
<1> QED
  BY <1>2, <1>4, <1>5, <1>6, <1>7, <1>8, <1>9, <1>10, HandsChanged

LEMMA RestoreKept ==
    ASSUME LruInv, NEW t \in Threads, Restore(t)
    PROVE  LruInv'
<1>1. TypeOK /\ ThreadsHold /\ EvictorHolds /\ OwnNodes /\ AllTracked /\ Good(list, Walk)
  BY DEF LruInv
<1>2. Good(list, Walk)' /\ Walk' = Walk
  BY <1>1, SameList DEF Restore
<1> DEFINE r == [thread[t] EXCEPT !.pc = "link"]
<1>3. r \in ThreadType /\ r.pc = "link" /\ r.node = thread[t].node /\ r.name = thread[t].name
  <2>1. thread[t] \in ThreadType
    BY <1>1, ThreadFields
  <2> QED
    BY <2>1 DEF ThreadType
<1> HIDE DEF r
<1>4. thread' = [thread EXCEPT ![t] = r]
  BY DEF Restore, r
<1>5. /\ thread' \in [Threads -> ThreadType]
      /\ \A u \in Threads : u # t => thread'[u] = thread[u]
      /\ thread'[t] = r
  BY <1>1, <1>3, <1>4, ThreadMoved
<1>6. thread[t].pc = "restore" /\ thread[t].node \in Nodes /\ NameOf(thread[t].node) = thread[t].name
  BY <1>1 DEF Restore, ThreadsHold
<1>7. TypeOK'
  <2>1. deleted' \subseteq Nodes
    BY <1>1 DEF Restore, TypeOK
  <2> QED
    BY <1>1, <1>5, <2>1 DEF Restore, TypeOK, ThreadType
<1>8. ThreadsHold'
  BY <1>1, <1>3, <1>5, <1>6 DEF Restore, ThreadsHold
<1>9. EvictorHolds' /\ OwnNodes' /\ (pending \subseteq Pends)'
  <2>1. evict = "delete" => t # Evictor
    BY <1>1, <1>6, ThreadFacts DEF EvictorHolds
  <2> QED
    BY <1>1, <1>5, <2>1, ThreadFacts DEF Restore, EvictorHolds, OwnNodes, LruInv
<1>10. AllTracked'
  <2> SUFFICES ASSUME NEW g \in Names \ Pends, nodeMap'[g] # Nil PROVE Tracked(nodeMap[g])'
    BY DEF AllTracked
  <2>1. nodeMap'[g] = nodeMap[g] /\ Tracked(nodeMap[g])
    BY <1>1 DEF AllTracked, Restore
  <2>2. CASE nodeMap[g] = thread[t].node
    BY <1>3, <1>5, <2>1, <2>2 DEF Tracked
  <2>3. CASE nodeMap[g] # thread[t].node
    <3>1. \A u \in Threads : u # t => thread'[u] = thread[u]
      BY <1>5
    <3>2. nodeMap[g] \in deleted => nodeMap[g] \in deleted'
      BY <2>3 DEF Restore
    <3>3. delItems' = delItems
      BY DEF Restore
    <3> QED
      BY <1>2, <2>1, <2>3, <3>1, <3>2, <3>3 DEF Tracked, On
  <2> QED
    BY <2>2, <2>3
<1> QED
  BY <1>2, <1>7, <1>8, <1>9, <1>10 DEF LruInv

LEMMA LinkKept ==
    ASSUME LruInv, NEW t \in Threads, Link(t)
    PROVE  LruInv'
<1>1. TypeOK /\ ThreadsHold /\ EvictorHolds /\ OwnNodes /\ AllTracked /\ Good(list, Walk)
  BY DEF LruInv
<1> DEFINE n == thread[t].node
<1>2. thread[t].pc = "link" /\ n \in Nodes
  BY <1>1 DEF Link, ThreadsHold
<1> HIDE DEF n
<1>3. list' = IF n = list.head THEN list ELSE MoveToHead(list, n)
  BY DEF Link, n
<1>4. Good(list, Walk)' /\ On(Walk', n) /\ \A c : On(Walk, c) => On(Walk', c)
  <2>1. CASE n = list.head
    <3>1. Good(list, Walk)' /\ Walk' = Walk
      BY <1>1, <1>3, <2>1, SameList
    <3>2. Walk[1] = list.head /\ 1 \in 1 .. Len(Walk)
      BY <1>1, GoodFacts DEF Good, Along
    <3>3. On(Walk, n)
      BY <2>1, <3>2 DEF On
    <3> QED
      BY <3>1, <3>3 DEF On
  <2>2. CASE n # list.head
    <3>1. PICK s : Good(MoveToHead(list, n), s) /\ \A c : On(s, c) <=> c = n \/ On(Walk, c)
      BY <1>1, <1>2, NodeMoved
    <3>2. list' = MoveToHead(list, n)
      BY <1>3, <2>2
    <3>3. Walk' = s
      BY <3>1, <3>2, GoodWalk DEF Walk
    <3> QED
      BY <3>1, <3>2, <3>3
  <2> QED
    BY <2>1, <2>2
<1>5. /\ thread' \in [Threads -> ThreadType]
      /\ \A u \in Threads : u # t => thread'[u] = thread[u]
      /\ thread'[t] = Idle
  <2>1. Idle \in ThreadType
    BY DEF Idle, ThreadType
  <2>2. thread' = [thread EXCEPT ![t] = Idle]
    BY DEF Link
  <2> QED
    BY <1>1, <2>1, <2>2, ThreadMoved
<1>6. TypeOK'
  <2>1. list' \in ListType
    BY <1>4 DEF Good, Linked
  <2>2. flock' \in [Names -> Callers \cup {Evictor, None}]
    BY <1>1 DEF Link, Unlocked, TypeOK
  <2>3. item' \in Nodes \cup {Nil}
    BY <1>1 DEF Link, TypeOK
  <2> QED
    BY <1>1, <1>5, <2>1, <2>2, <2>3 DEF Link, TypeOK, ThreadType, ListType
<1>7. ThreadsHold'
  BY <1>1, <1>5, ThreadFacts DEF Link, ThreadsHold
<1>8. EvictorHolds' /\ OwnNodes' /\ (pending \subseteq Pends)'
  BY <1>1, <1>5, ThreadFacts DEF Link, EvictorHolds, OwnNodes, LruInv
<1>9. AllTracked'
  <2> SUFFICES ASSUME NEW g \in Names \ Pends, nodeMap'[g] # Nil PROVE Tracked(nodeMap[g])'
    BY DEF AllTracked
  <2>1. nodeMap'[g] = nodeMap[g] /\ Tracked(nodeMap[g])
    BY <1>1 DEF AllTracked, Link
  <2>2. On(Walk, nodeMap[g]) => On(Walk', nodeMap[g])
    BY <1>4
  <2>3. deleted' = deleted /\ delItems' = delItems
    BY DEF Link
  <2>4. \A u \in Threads : u = t \/ thread'[u] = thread[u]
    BY <1>5
  <2>5. thread[t].node = nodeMap[g] => On(Walk', nodeMap[g])
    BY <1>4 DEF n
  <2> QED
    BY <2>1, <2>2, <2>3, <2>4, <2>5 DEF Tracked
<1> QED
  BY <1>4, <1>6, <1>7, <1>8, <1>9 DEF LruInv
LEMMA CachePurgeKept ==
    ASSUME LruInv, NEW c \in Callers, NEW f \in Names, CachePurge(c, f)
    PROVE  LruInv'
<1>1. TypeOK /\ EvictorHolds /\ OwnNodes /\ pending \subseteq Pends
  BY DEF LruInv
<1>2. c \in Threads /\ c # Evictor /\ thread[c].pc = "idle"
  BY ThreadFacts DEF CachePurge
<1> DEFINE r == [pc |-> "unlink", name |-> f, node |-> nodeMap[f]]
<1>3. nodeMap[f] \in Nodes /\ NameOf(nodeMap[f]) = f
  BY <1>1 DEF CachePurge, TypeOK, OwnNodes
<1>4. r \in ThreadType /\ r.pc = "unlink" /\ r.node = nodeMap[f] /\ r.name = f
  BY <1>3 DEF ThreadType
<1>5. thread' = [thread EXCEPT ![c] = r]
  BY DEF CachePurge
<1> HIDE DEF r
<1>6. nodeMap' = [nodeMap EXCEPT ![f] = Nil] /\ nodeMap'[f] = Nil
      /\ \A g \in Names : nodeMap'[g] = nodeMap[g] \/ nodeMap'[g] = Nil
  BY <1>1 DEF CachePurge, TypeOK
<1>7. TypeOK'
  <2>1. thread' \in [Threads -> ThreadType]
    BY <1>1, <1>2, <1>4, <1>5, ThreadMoved
  <2>2. flock' \in [Names -> Callers \cup {Evictor, None}] /\ nodeMap' \in [Names -> Nodes \cup {Nil}]
    BY <1>1, <1>6 DEF CachePurge, TypeOK
  <2> QED
    BY <1>1, <2>1, <2>2 DEF CachePurge, TypeOK, ThreadType
<1>8. EvictorHolds' /\ (pending \subseteq Pends)'
  <2>1. thread'[Evictor] = thread[Evictor]
    BY <1>1, <1>2, <1>4, <1>5, ThreadFacts, ThreadMoved
  <2> QED
    BY <1>1, <2>1 DEF CachePurge, EvictorHolds
<1>9. UNCHANGED <<list, deleted, delItems>>
  BY DEF CachePurge
<1>10. nodeMap'[r.name] # r.node /\ NameOf(r.node) = r.name /\ r.node \in Nodes
  BY <1>3, <1>4, <1>6, CellFacts
<1>11. thread[c].pc \notin {"restore", "link"}
  BY <1>2
<1> QED
  BY <1>2, <1>4, <1>5, <1>6, <1>7, <1>8, <1>9, <1>10, <1>11, HandsChanged

LEMMA UnlinkKept ==
    ASSUME LruInv, NEW c \in Callers, Unlink(c)
    PROVE  LruInv'
<1>1. TypeOK /\ ThreadsHold /\ EvictorHolds /\ OwnNodes /\ AllTracked /\ Good(list, Walk)
  BY DEF LruInv
<1>2. c \in Threads /\ c # Evictor
  BY ThreadFacts
<1> DEFINE n == thread[c].node
<1>3. thread[c].pc = "unlink" /\ n \in Nodes /\ NameOf(n) = thread[c].name
      /\ nodeMap[NameOf(n)] # n
  BY <1>1, <1>2 DEF Unlink, ThreadsHold
<1>4. deleted' = deleted \cup {n} /\ list' = extractNode(list, n) /\ thread' = [thread EXCEPT ![c] = Idle]
  BY DEF Unlink
<1> HIDE DEF n
<1>5. Good(list, Walk)' /\ \A d : On(Walk', d) <=> d # n /\ On(Walk, d)
  <2>1. PICK s : Good(extractNode(list, n), s) /\ \A d : On(s, d) <=> d # n /\ On(Walk, d)
    BY <1>1, <1>3, NodeRemoved
  <2>2. Walk' = s
    BY <1>4, <2>1, GoodWalk DEF Walk
  <2> QED
    BY <1>4, <2>1, <2>2
<1>6. /\ thread' \in [Threads -> ThreadType]
      /\ \A u \in Threads : u # c => thread'[u] = thread[u]
      /\ thread'[c] = Idle
  <2>1. Idle \in ThreadType
    BY DEF Idle, ThreadType
  <2> QED
    BY <1>1, <1>2, <1>4, <2>1, ThreadMoved
<1>7. TypeOK'
  <2>1. list' \in ListType
    BY <1>5 DEF Good, Linked
  <2>2. flock' \in [Names -> Callers \cup {Evictor, None}]
    BY <1>1 DEF Unlink, Unlocked, TypeOK
  <2>3. deleted' \subseteq Nodes
    BY <1>1, <1>3, <1>4 DEF TypeOK
  <2> QED
    BY <1>1, <1>6, <2>1, <2>2, <2>3 DEF Unlink, TypeOK, ThreadType, ListType
<1>8. ThreadsHold'
  BY <1>1, <1>6, ThreadFacts DEF Unlink, ThreadsHold
<1>9. EvictorHolds' /\ OwnNodes' /\ (pending \subseteq Pends)'
  BY <1>1, <1>2, <1>6, ThreadFacts DEF Unlink, EvictorHolds, OwnNodes, LruInv
<1>10. AllTracked'
  <2> SUFFICES ASSUME NEW g \in Names \ Pends, nodeMap'[g] # Nil PROVE Tracked(nodeMap[g])'
    BY DEF AllTracked
  <2>1. nodeMap'[g] = nodeMap[g] /\ Tracked(nodeMap[g]) /\ NameOf(nodeMap[g]) = g
    BY <1>1 DEF AllTracked, OwnNodes, Unlink
  <2>2. nodeMap[g] # n
    BY <1>3, <2>1
  <2>3. On(Walk, nodeMap[g]) => On(Walk', nodeMap[g])
    BY <1>5, <2>2
  <2>4. delItems' = delItems
    BY DEF Unlink
  <2>5. \A u \in Threads : thread[u].pc \in {"restore", "link"} => thread'[u] = thread[u]
    BY <1>3, <1>6
  <2> QED
    BY <1>4, <2>1, <2>3, <2>4, <2>5 DEF Tracked
<1> QED
  BY <1>5, <1>7, <1>8, <1>9, <1>10 DEF LruInv

LEMMA IsCachedKept ==
    ASSUME LruInv, NEW c \in Callers, NEW f \in Names, IsCached(c, f)
    PROVE  LruInv'
<1>1. TypeOK /\ EvictorHolds /\ OwnNodes /\ pending \subseteq Pends
  BY DEF LruInv
<1>2. c \in Threads /\ c # Evictor /\ thread[c].pc = "idle"
  BY ThreadFacts DEF IsCached
<1> DEFINE r == [pc |-> "rlock", name |-> f, node |-> nodeMap[f]]
<1>3. r \in ThreadType /\ r.pc = "rlock"
  BY <1>1 DEF IsCached, TypeOK, ThreadType
<1>4. thread' = [thread EXCEPT ![c] = r]
  BY DEF IsCached
<1> HIDE DEF r
<1>5. UNCHANGED <<list, deleted, delItems, nodeMap, evict, pending>>
  BY DEF IsCached
<1>6. TypeOK'
  <2>1. thread' \in [Threads -> ThreadType]
    BY <1>1, <1>2, <1>3, <1>4, ThreadMoved
  <2>2. flock' \in [Names -> Callers \cup {Evictor, None}]
    BY <1>1 DEF IsCached, TypeOK
  <2> QED
    BY <1>1, <2>1, <2>2 DEF IsCached, TypeOK, ThreadType
<1>7. EvictorHolds' /\ (pending \subseteq Pends)'
  <2>1. thread'[Evictor] = thread[Evictor]
    BY <1>1, <1>2, <1>3, <1>4, ThreadFacts, ThreadMoved
  <2> QED
    BY <1>1, <1>5, <2>1 DEF EvictorHolds
<1>8. /\ \A g \in Names : nodeMap'[g] = nodeMap[g] \/ nodeMap'[g] = Nil
      /\ r.pc \notin {"restore", "link", "unlink"} /\ thread[c].pc \notin {"restore", "link"}
  BY <1>2, <1>3, <1>5
<1> QED
  BY <1>2, <1>3, <1>4, <1>5, <1>6, <1>7, <1>8, HandsChanged

LEMMA IsCachedReadKept ==
    ASSUME LruInv, NEW c \in Callers, IsCachedRead(c)
    PROVE  LruInv'
<1>1. TypeOK /\ EvictorHolds /\ pending \subseteq Pends
  BY DEF LruInv
<1>2. c \in Threads /\ c # Evictor /\ thread[c].pc = "rlock"
  BY ThreadFacts DEF IsCachedRead
<1>3. Idle \in ThreadType /\ Idle.pc = "idle"
  BY DEF Idle, ThreadType
<1>4. thread' = [thread EXCEPT ![c] = Idle]
  BY DEF IsCachedRead
<1>5. UNCHANGED <<list, deleted, delItems, nodeMap, evict, pending>>
  BY DEF IsCachedRead
<1>6. TypeOK'
  <2>1. thread' \in [Threads -> ThreadType]
    BY <1>1, <1>2, <1>3, <1>4, ThreadMoved
  <2>2. flock' \in [Names -> Callers \cup {Evictor, None}]
    BY <1>1 DEF IsCachedRead, Unlocked, TypeOK
  <2> QED
    BY <1>1, <2>1, <2>2 DEF IsCachedRead, TypeOK, ThreadType
<1>7. EvictorHolds' /\ (pending \subseteq Pends)'
  <2>1. thread'[Evictor] = thread[Evictor]
    BY <1>1, <1>2, <1>3, <1>4, ThreadFacts, ThreadMoved
  <2> QED
    BY <1>1, <1>5, <2>1 DEF EvictorHolds
<1>8. /\ \A g \in Names : nodeMap'[g] = nodeMap[g] \/ nodeMap'[g] = Nil
      /\ Idle.pc \notin {"restore", "link", "unlink"} /\ thread[c].pc \notin {"restore", "link"}
  BY <1>2, <1>3, <1>5
<1> QED
  BY <1>2, <1>3, <1>4, <1>5, <1>6, <1>7, <1>8, HandsChanged

\* Steps that change neither the list nor what is in hand.
LEMMA AllSame ==
    ASSUME LruInv, UNCHANGED <<list, deleted, nodeMap, thread, evict, delItems>>,
           TypeOK', (pending \subseteq Pends)'
    PROVE  LruInv'
<1>1. ThreadsHold /\ EvictorHolds /\ OwnNodes /\ AllTracked /\ Good(list, Walk)
  BY DEF LruInv
<1>2. Good(list, Walk)' /\ Walk' = Walk
  BY <1>1, SameList
<1>3. ThreadsHold' /\ EvictorHolds' /\ OwnNodes'
  BY <1>1 DEF ThreadsHold, EvictorHolds, OwnNodes
<1>4. AllTracked'
  BY <1>1, <1>2 DEF AllTracked, Tracked, On
<1> QED
  BY <1>2, <1>3, <1>4 DEF LruInv

LEMMA OpenCloseKept ==
    ASSUME LruInv, NEW f \in Names, OpenClose(f)
    PROVE  LruInv'
<1>1. TypeOK' /\ (pending \subseteq Pends)'
  BY DEF OpenClose, LruInv, TypeOK
<1>2. UNCHANGED <<list, deleted, nodeMap, thread, evict, delItems>>
  BY DEF OpenClose
<1> QED
  BY <1>1, <1>2, AllSame

LEMMA QueueDoneKept ==
    ASSUME LruInv, NEW f \in Names, QueueDone(f)
    PROVE  LruInv'
<1>1. TypeOK' /\ (pending \subseteq Pends)'
  BY DEF QueueDone, LruInv, TypeOK
<1>2. UNCHANGED <<list, deleted, nodeMap, thread, evict, delItems>>
  BY DEF QueueDone
<1> QED
  BY <1>1, <1>2, AllSame
-----------------------------------------------------------------------------
(* The steps of clearCache                                                 *)

LEMMA updateMarkerKept ==
    ASSUME LruInv, updateMarker
    PROVE  LruInv'
<1>1. TypeOK /\ ThreadsHold /\ EvictorHolds /\ OwnNodes /\ AllTracked /\ Good(list, Walk)
  BY DEF LruInv
<1>2. list' = Swapped(MoveToHead(list, lastMarker))
  BY DEF updateMarker, Swapped, Swap
<1>3. Good(list, Walk)' /\ \A c : On(Walk, c) <=> On(Walk', c)
  <2>1. PICK s : Good(Swapped(MoveToHead(list, lastMarker)), s) /\ \A c : On(s, c) <=> On(Walk, c)
    BY <1>1, MarkerMoved
  <2>2. Walk' = s
    BY <1>2, <2>1, GoodWalk DEF Walk
  <2> QED
    BY <1>2, <2>1, <2>2
<1>4. /\ UNCHANGED <<deleted, nodeMap, validateChan, thread, delItems, item, flock, open, pending>>
      /\ evict = "idle" /\ evict' = "expire"
  BY DEF updateMarker
<1>5. TypeOK'
  <2>1. list' \in ListType
    BY <1>3 DEF Good, Linked
  <2> QED
    BY <1>1, <1>4, <2>1 DEF TypeOK, ListType
<1>6. ThreadsHold' /\ EvictorHolds' /\ OwnNodes' /\ (pending \subseteq Pends)'
  BY <1>1, <1>4 DEF ThreadsHold, EvictorHolds, OwnNodes, LruInv
<1>7. AllTracked'
  <2> SUFFICES ASSUME NEW g \in Names \ Pends, nodeMap'[g] # Nil PROVE Tracked(nodeMap[g])'
    BY DEF AllTracked
  <2>1. nodeMap'[g] = nodeMap[g] /\ Tracked(nodeMap[g])
    BY <1>1, <1>4 DEF AllTracked
  <2>2. On(Walk, nodeMap[g]) => On(Walk', nodeMap[g])
    BY <1>3
  <2> QED
    BY <1>4, <2>1, <2>2 DEF Tracked
<1> QED
  BY <1>3, <1>5, <1>6, <1>7 DEF LruInv

\* All the nodes beyond the last marker leave the list, and those without a
\* pending operation are in delItems.
LEMMA ExpiredCut ==
    ASSUME RoomToEvict, TypeOK, Good(list, Walk), MarkExpired, list.next[lastMarker] # Nil
    PROVE  /\ Good(list, Walk)' /\ evict' = "items" /\ delItems' \subseteq Nodes
           /\ deleted' = deleted \cup delItems'
           /\ \A n \in Nodes : On(Walk, n) =>
                On(Walk', n) \/ NameOf(n) \in pending \/ n \in delItems'
<1> DEFINE s == Walk
           d == list.next[lastMarker]
           t == Expired(list)
           W == [list EXCEPT !.next[lastMarker] = Nil, !.prev = [list.prev EXCEPT ![d] = Nil]]
<1>1. /\ s \in Seq(Cells) /\ Len(s) \in Nat /\ Good(list, s)
      /\ On(s, lastMarker) /\ \A i \in 1 .. Len(s) : s[i] \in Cells
  BY GoodFacts
<1> HIDE DEF s
<1>2. PICK j \in 1 .. Len(s) : s[j] = lastMarker
  BY <1>1 DEF On
<1>3. Good(W, Upto(s, j)) /\ j < Len(s) /\ d = s[j + 1]
  BY <1>1, <1>2, EndCut, Zenon
<1>4. /\ t = After(s, j) /\ After(s, j) \in Seq(Nodes) /\ Len(After(s, j)) = Len(s) - j
      /\ \A i \in 1 .. Len(s) - j : After(s, j)[i] = s[j + i]
  BY <1>1, <1>2, <1>3, ExpiredAre
<1> HIDE DEF t
<1>5. t \in Seq(Nodes) /\ Len(t) = Len(s) - j /\ \A i \in 1 .. Len(s) - j : t[i] = s[j + i]
  BY <1>4
<1>6. Passed(t) = Len(t) /\ Taken(t, Len(t)) \subseteq Nodes
  BY <1>5, PassedAll
<1>7. /\ delItems' = Taken(t, Len(t)) /\ deleted' = deleted \cup Taken(t, Len(t)) /\ evict' = "items"
      /\ list' = [list EXCEPT !.next[lastMarker] = Nil, !.prev = [list.prev EXCEPT ![d] = Nil]]
  <2>1. ~(Len(t) < Len(t))
    BY <1>1, <1>5
  <2> QED
    BY <1>6, <2>1 DEF MarkExpired, t
<1>8. list' = W
  BY <1>7
<1> HIDE DEF W
<1>9. Walk' = Upto(s, j) /\ Good(list, Walk)'
  <2>1. Good(list', Upto(s, j))
    BY <1>3, <1>8
  <2>2. Walk' = Upto(s, j)
    BY <2>1, GoodWalk DEF Walk
  <2> QED
    BY <2>1, <2>2
<1>10. ASSUME NEW n \in Nodes, On(s, n)
       PROVE  On(Walk', n) \/ NameOf(n) \in pending \/ n \in delItems'
  <2>1. PICK i \in 1 .. Len(s) : s[i] = n
    BY <1>10 DEF On
  <2>2. CASE i <= j
    <3>1. i \in 1 .. j /\ j \in Nat
      BY <1>1, <2>2
    <3>2. Len(Upto(s, j)) = j /\ Upto(s, j)[i] = n
      BY <2>1, <3>1 DEF Upto
    <3> QED
      BY <1>9, <3>1, <3>2 DEF On
  <2>3. CASE i > j
    <3>1. i - j \in 1 .. Len(s) - j /\ j + (i - j) = i /\ i - j \in 1 .. Len(t)
      BY <1>1, <1>5, <2>3
    <3>2. t[i - j] = n
      BY <1>5, <2>1, <3>1
    <3>3. NameOf(n) \notin pending => n \in Taken(t, Len(t))
      BY <3>1, <3>2 DEF Taken
    <3> QED
      BY <1>7, <3>3
  <2> QED
    BY <1>1, <2>2, <2>3
<1> QED
  BY <1>6, <1>7, <1>9, <1>10 DEF s

LEMMA MarkExpiredKept ==
    ASSUME RoomToEvict, LruInv, MarkExpired
    PROVE  LruInv'
<1>1. TypeOK /\ ThreadsHold /\ EvictorHolds /\ OwnNodes /\ AllTracked /\ Good(list, Walk) /\ pending \subseteq Pends
  BY DEF LruInv
<1>2. UNCHANGED <<nodeMap, validateChan, thread, item, flock, open, pending>> /\ evict = "expire" /\ delItems = {}
  BY <1>1 DEF MarkExpired, EvictorHolds
<1>3. CASE list.next[lastMarker] = Nil
  <2>1. evict' = "idle" /\ UNCHANGED <<list, deleted, delItems>>
    BY <1>3 DEF MarkExpired
  <2>2. Good(list, Walk)' /\ Walk' = Walk
    BY <1>1, <2>1, SameList
  <2>3. TypeOK'
    BY <1>1, <1>2, <2>1 DEF TypeOK
  <2>4. ThreadsHold' /\ EvictorHolds' /\ OwnNodes' /\ (pending \subseteq Pends)'
    BY <1>1, <1>2, <2>1 DEF ThreadsHold, EvictorHolds, OwnNodes
  <2>5. AllTracked'
    BY <1>1, <1>2, <2>1, <2>2 DEF AllTracked, Tracked, On
  <2> QED
    BY <2>2, <2>3, <2>4, <2>5 DEF LruInv
<1>4. CASE list.next[lastMarker] # Nil
  <2>1. /\ Good(list, Walk)' /\ evict' = "items" /\ delItems' \subseteq Nodes
        /\ deleted' = deleted \cup delItems'
        /\ \A n \in Nodes : On(Walk, n) => On(Walk', n) \/ NameOf(n) \in pending \/ n \in delItems'
    BY <1>1, <1>4, ExpiredCut
  <2>2. TypeOK'
    <3>1. list' \in ListType
      BY <2>1 DEF Good, Linked
    <3> QED
      BY <1>1, <1>2, <2>1, <3>1 DEF TypeOK, ListType
  <2>3. ThreadsHold' /\ EvictorHolds' /\ OwnNodes' /\ (pending \subseteq Pends)'
    BY <1>1, <1>2, <2>1 DEF ThreadsHold, EvictorHolds, OwnNodes
  <2>4. AllTracked'
    <3> SUFFICES ASSUME NEW g \in Names \ Pends, nodeMap'[g] # Nil PROVE Tracked(nodeMap[g])'
      BY DEF AllTracked
    <3>1. nodeMap'[g] = nodeMap[g] /\ Tracked(nodeMap[g]) /\ NameOf(nodeMap[g]) = g /\ nodeMap[g] \in Nodes
      BY <1>1, <1>2 DEF AllTracked, OwnNodes, TypeOK
    <3>2. On(Walk, nodeMap[g]) => On(Walk', nodeMap[g]) \/ (nodeMap[g] \in delItems' /\ nodeMap[g] \in deleted')
      BY <1>1, <2>1, <3>1
    <3> QED
      BY <1>2, <3>1, <3>2 DEF Tracked
  <2> QED
    BY <2>1, <2>2, <2>3, <2>4 DEF LruInv
<1> QED
  BY <1>3, <1>4

LEMMA EvictItemKept ==
    ASSUME LruInv, NEW n \in Nodes, EvictItem(n)
    PROVE  LruInv'
<1>1. TypeOK /\ ThreadsHold /\ EvictorHolds /\ OwnNodes /\ AllTracked /\ Good(list, Walk)
  BY DEF LruInv
<1>2. /\ UNCHANGED <<list, deleted, validateChan, thread, flock, open, pending>>
      /\ evict = "items" /\ thread[Evictor] = Idle /\ delItems' = delItems \ {n}
  BY DEF EvictItem
<1>3. Good(list, Walk)' /\ Walk' = Walk
  BY <1>1, <1>2, SameList
<1>4. CASE n \in deleted
  <2>1. nodeMap' = [nodeMap EXCEPT ![NameOf(n)] = Nil] /\ item' = n /\ evict' = "delete"
    BY <1>4 DEF EvictItem
  <2>2. /\ nodeMap' \in [Names -> Nodes \cup {Nil}] /\ nodeMap'[NameOf(n)] = Nil
        /\ \A g \in Names : g # NameOf(n) => nodeMap'[g] = nodeMap[g]
    BY <1>1, <2>1, ThreadFacts DEF TypeOK
  <2>3. TypeOK'
    BY <1>1, <1>2, <2>1, <2>2 DEF TypeOK
  <2>4. ThreadsHold'
    <3> SUFFICES ASSUME NEW u \in Threads, thread[u].pc = "unlink"
                 PROVE  nodeMap'[thread[u].name] # thread[u].node
      BY <1>1, <1>2 DEF ThreadsHold
    <3>1. thread[u].node \in Nodes /\ thread[u].name \in Names /\ nodeMap[thread[u].name] # thread[u].node
      BY <1>1, ThreadFacts DEF ThreadsHold
    <3> QED
      BY <2>2, <3>1, CellFacts
  <2>5. EvictorHolds' /\ OwnNodes' /\ (pending \subseteq Pends)'
    BY <1>1, <1>2, <2>1, <2>2 DEF EvictorHolds, OwnNodes, LruInv
  <2>6. AllTracked'
    <3> SUFFICES ASSUME NEW g \in Names \ Pends, nodeMap'[g] # Nil PROVE Tracked(nodeMap[g])'
      BY DEF AllTracked
    <3>1. nodeMap'[g] = nodeMap[g] /\ Tracked(nodeMap[g]) /\ nodeMap[g] # n
      BY <1>1, <2>2 DEF AllTracked, OwnNodes
    <3> QED
      BY <1>2, <1>3, <3>1 DEF Tracked, On
  <2> QED
    BY <1>3, <2>3, <2>4, <2>5, <2>6 DEF LruInv
<1>5. CASE n \notin deleted
  <2>1. UNCHANGED <<nodeMap, item, evict>>
    BY <1>5 DEF EvictItem
  <2>2. TypeOK'
    BY <1>1, <1>2, <2>1 DEF TypeOK
  <2>3. ThreadsHold' /\ EvictorHolds' /\ OwnNodes' /\ (pending \subseteq Pends)'
    BY <1>1, <1>2, <2>1 DEF ThreadsHold, EvictorHolds, OwnNodes, LruInv
  <2>4. AllTracked'
    BY <1>1, <1>2, <1>3, <1>5, <2>1 DEF AllTracked, Tracked, On
  <2> QED
    BY <1>3, <2>2, <2>3, <2>4 DEF LruInv
<1> QED
  BY <1>4, <1>5

LEMMA EvictDoneKept ==
    ASSUME LruInv, EvictDone
    PROVE  LruInv'
<1>1. TypeOK /\ ThreadsHold /\ EvictorHolds /\ OwnNodes /\ AllTracked /\ Good(list, Walk)
  BY DEF LruInv
<1>2. UNCHANGED <<list, deleted, nodeMap, validateChan, thread, delItems, item, flock, open, pending>>
      /\ evict' = "idle" /\ delItems = {}
  BY DEF EvictDone
<1>3. Good(list, Walk)' /\ Walk' = Walk
  BY <1>1, <1>2, SameList
<1>4. TypeOK' /\ ThreadsHold' /\ EvictorHolds' /\ OwnNodes' /\ (pending \subseteq Pends)'
  BY <1>1, <1>2 DEF TypeOK, ThreadsHold, EvictorHolds, OwnNodes, LruInv
<1>5. AllTracked'
  BY <1>1, <1>2, <1>3 DEF AllTracked, Tracked, On
<1> QED
  BY <1>3, <1>4, <1>5 DEF LruInv

LEMMA deleteItemKept ==
    ASSUME LruInv, deleteItem
    PROVE  LruInv'
<1>1. TypeOK /\ EvictorHolds /\ OwnNodes /\ pending \subseteq Pends
  BY DEF LruInv
<1> DEFINE f == NameOf(item)
           r == IF nodeMap[f] = Nil /\ (f \in open \/ f \in pending)
                THEN [Idle EXCEPT !.pc = "create", !.name = f] ELSE thread[Evictor]
<1>2. /\ thread[Evictor] = Idle /\ Evictor \in Threads /\ thread[Evictor].pc = "idle"
      /\ UNCHANGED <<list, deleted, nodeMap, validateChan, delItems, open, pending>> /\ evict' = "items"
  BY <1>1, ThreadFacts DEF deleteItem, EvictorHolds
<1>3. f \in Names \cup {Marker}
  <2>1. item \in Nodes \/ item = Nil
    BY <1>1 DEF TypeOK
  <2>2. NameOf(Nil) = Marker
    BY DEF NameOf, Nil
  <2> QED
    BY <2>1, <2>2, ThreadFacts
<1>4. thread' = [thread EXCEPT ![Evictor] = r]
  <2>1. thread = [thread EXCEPT ![Evictor] = thread[Evictor]]
    BY <1>1 DEF TypeOK
  <2> HIDE DEF f
  <2>2. (nodeMap[f] = Nil /\ (f \in open \/ f \in pending)) =>
          thread' = [thread EXCEPT ![Evictor] = [Idle EXCEPT !.pc = "create", !.name = f]]
    BY DEF deleteItem, f
  <2>3. ~(nodeMap[f] = Nil /\ (f \in open \/ f \in pending)) => thread' = thread
    BY DEF deleteItem, f
  <2> QED
    BY <2>1, <2>2, <2>3
<1>5. r \in ThreadType /\ r.pc \in {"idle", "create"}
  <2>1. Idle \in ThreadType
    BY DEF Idle, ThreadType
  <2> HIDE DEF f
  <2>2. [Idle EXCEPT !.pc = "create", !.name = f] \in ThreadType
        /\ [Idle EXCEPT !.pc = "create", !.name = f].pc = "create"
    BY <1>3 DEF Idle, ThreadType
  <2> QED
    BY <1>2, <2>1, <2>2
<1> HIDE DEF r, f
<1>6. TypeOK'
  <2>1. thread' \in [Threads -> ThreadType]
    BY <1>1, <1>2, <1>4, <1>5, ThreadMoved
  <2>2. flock' \in [Names -> Callers \cup {Evictor, None}] /\ item' \in Nodes \cup {Nil}
    BY <1>1 DEF deleteItem, TypeOK
  <2> QED
    BY <1>1, <1>2, <2>1, <2>2 DEF TypeOK, ThreadType
<1>7. EvictorHolds' /\ (pending \subseteq Pends)'
  BY <1>1, <1>2 DEF EvictorHolds
<1>8. /\ \A g \in Names : nodeMap'[g] = nodeMap[g] \/ nodeMap'[g] = Nil
      /\ r.pc \notin {"restore", "link", "unlink"} /\ thread[Evictor].pc \notin {"restore", "link"}
      /\ UNCHANGED <<list, deleted, delItems>>
  BY <1>2, <1>5
<1> QED
  BY <1>2, <1>4, <1>5, <1>6, <1>7, <1>8, HandsChanged
-----------------------------------------------------------------------------
(* A restart, and the theorems                                             *)

LEMMA LargestIs ==
    ASSUME NEW N \in Nat, NEW S \in SUBSET (1 .. N), S # {}
    PROVE  Max(S) \in S
<1> DEFINE T == {N - i : i \in S}
<1>1. T \in SUBSET Nat /\ T # {}
  <2>1. \A i \in S : N - i \in Nat
    OBVIOUS
  <2> QED
    BY <2>1
<1>2. PICK m \in T : \A k \in T : m <= k
  <2> HIDE DEF T
  <2> QED
    BY <1>1, SmallestNumber
<1>3. PICK x \in S : m = N - x
  BY <1>2
<1>4. \A y \in S : x >= y
  <2> SUFFICES ASSUME NEW y \in S PROVE x >= y
    OBVIOUS
  <2>1. N - y \in T
    OBVIOUS
  <2>2. N - x <= N - y
    BY <1>2, <1>3, <2>1
  <2>3. x \in Int /\ y \in Int
    OBVIOUS
  <2> QED
    BY <2>2, <2>3
<1> QED
  BY <1>4 DEF Max

LEMMA RestartKept ==
    ASSUME LruInv, Restart
    PROVE  LruInv'
<1> DEFINE s == Walk
           ss == createSnapshot(list)
           at(f) == {i \in 1 .. Len(ss.nodeList) : NameOf(ss.nodeList[i]) = f}
<1>1. TypeOK /\ Good(list, s) /\ pending \subseteq Pends
  BY DEF LruInv
<1>2. /\ Stopped /\ list' = loadSnapshot(ss) /\ deleted' = {} /\ validateChan' = {}
      /\ nodeMap' = [f \in Names |-> IF at(f) = {} THEN Nil ELSE ss.nodeList[Max(at(f))]]
      /\ UNCHANGED <<thread, evict, delItems, item, flock, open, pending>>
  BY DEF Restart
<1>3. PICK x, y \in 1 .. Len(s) : x < y /\ s[x] = currMarker /\ s[y] = lastMarker
  BY <1>1 DEF Good, Ordered
<1>4. /\ ss.nodeList \in Seq(Nodes)
      /\ \A j \in 1 .. Len(ss.nodeList) : On(s, ss.nodeList[j])
  <2> HIDE DEF s
  <2>1. /\ ss.nodeList \in Seq(Nodes) /\ Len(ss.nodeList) = Len(s) - 2
        /\ \A j \in 1 .. Len(s) - 2 :
             NodeAt(x, y, j) \in 1 .. Len(s) /\ ss.nodeList[j] = s[NodeAt(x, y, j)]
    BY <1>1, <1>3, SnapshotIs
  <2> HIDE DEF ss
  <2> QED
    BY <2>1 DEF On
<1>5. Good(list', s)
  BY <1>1, <1>2, SnapshotLoaded
<1> HIDE DEF ss
<1>6. Walk' = s /\ Good(list, Walk)'
  <2>1. Walk' = s
    BY <1>5, GoodWalk DEF Walk
  <2> QED
    BY <1>5, <2>1
<1>7. ASSUME NEW f \in Names, nodeMap'[f] # Nil
      PROVE  nodeMap'[f] \in Nodes /\ NameOf(nodeMap'[f]) = f /\ On(s, nodeMap'[f])
  <2> DEFINE N == Len(ss.nodeList)
             A == at(f)
  <2>1. N \in Nat /\ A \in SUBSET (1 .. N) /\ A # {}
    BY <1>2, <1>4, <1>7
  <2> HIDE DEF A, N
  <2>2. Max(A) \in A
    BY <2>1, LargestIs
  <2>3. nodeMap'[f] = ss.nodeList[Max(A)]
    BY <1>2, <2>1 DEF A
  <2> DEFINE k == Max(A)
  <2> HIDE DEF k
  <2>4. k \in 1 .. Len(ss.nodeList) /\ NameOf(ss.nodeList[k]) = f /\ nodeMap'[f] = ss.nodeList[k]
    BY <2>2, <2>3 DEF A, k
  <2> QED
    BY <1>4, <2>4
<1>8. nodeMap' \in [Names -> Nodes \cup {Nil}]
  <2>1. nodeMap' = [f \in Names |-> nodeMap'[f]]
    BY <1>2
  <2> QED
    BY <1>7, <2>1
<1>9. TypeOK'
  <2>1. list' \in ListType
    BY <1>5 DEF Good, Linked
  <2> QED
    BY <1>1, <1>2, <1>8, <2>1 DEF TypeOK, ListType
<1>10. ThreadsHold' /\ EvictorHolds' /\ (pending \subseteq Pends)'
  <2>1. \A t \in Threads : thread'[t] = Idle
    BY <1>2 DEF Stopped
  <2> QED
    BY <1>1, <1>2, <2>1, ThreadFacts DEF ThreadsHold, EvictorHolds, LruInv
<1>11. OwnNodes'
  BY <1>7 DEF OwnNodes
<1>12. AllTracked'
  BY <1>6, <1>7 DEF AllTracked, Tracked, On
<1> QED
  BY <1>6, <1>9, <1>10, <1>11, <1>12 DEF LruInv

LEMMA NextHolds ==
    ASSUME RoomToEvict, LruInv, [Next]_vars
    PROVE  LruInv'
<1>1. CASE \E c \in Callers, f \in Names : CacheValid(c, f) \/ CachePurge(c, f) \/ IsCached(c, f)
  BY <1>1, CacheValidKept, CachePurgeKept, IsCachedKept
<1>2. CASE \E c \in Callers : Unlink(c) \/ IsCachedRead(c)
  BY <1>2, UnlinkKept, IsCachedReadKept
<1>3. CASE \E t \in Threads : LoadOrStore(t) \/ Restore(t) \/ Link(t)
  BY <1>3, LoadOrStoreKept, RestoreKept, LinkKept
<1>4. CASE \E f \in Names : AsyncLoad(f) \/ OpenClose(f) \/ QueueDone(f)
  BY <1>4, AsyncLoadKept, OpenCloseKept, QueueDoneKept
<1>5. CASE \E n \in Nodes : EvictItem(n)
  BY <1>5, EvictItemKept
<1>6. CASE updateMarker \/ MarkExpired \/ EvictDone \/ deleteItem
  BY <1>6, updateMarkerKept, MarkExpiredKept, EvictDoneKept, deleteItemKept
<1>7. CASE Restart
  BY <1>7, RestartKept
<1>8. CASE UNCHANGED vars
  <2>1. TypeOK' /\ (pending \subseteq Pends)'
    BY <1>8 DEF LruInv, TypeOK, vars
  <2>2. UNCHANGED <<list, deleted, nodeMap, thread, evict, delItems>>
    BY <1>8 DEF vars
  <2> QED
    BY <2>1, <2>2, AllSame
<1> QED
  BY <1>1, <1>2, <1>3, <1>4, <1>5, <1>6, <1>7, <1>8 DEF Next

LEMMA LruInvariant == RoomToEvict /\ Spec => []LruInv
<1>1. Init => LruInv
  BY InitHolds
<1>2. RoomToEvict /\ LruInv /\ [Next]_vars => LruInv'
  BY NextHolds
<1>3. RoomToEvict => (Spec => []LruInv)
  <2> SUFFICES ASSUME RoomToEvict PROVE Spec => []LruInv
    OBVIOUS
  <2>1. LruInv /\ [Next]_vars => LruInv'
    BY <1>2
  <2> QED
    BY <1>1, <2>1, PTL DEF Spec
<1> QED
  BY <1>3

\* As long as a pass of clearCache can take all the nodes beyond the last marker, the
\* list that callers, validator and evictor share is a proper doubly linked list with
\* the markers in their order: every section under the policy's lock (setHead, removeNode,
\* updateMarker, deleteExpiredNodes, loadSnapshot) leaves it so.
THEOREM ListKept == RoomToEvict => (Spec => []ListIntact)
<1>1. LruInv => ListIntact
  <2> SUFFICES ASSUME LruInv PROVE ListIntact
    OBVIOUS
  <2> DEFINE s == Walk
  <2>1. TypeOK /\ Good(list, s)
    BY DEF LruInv
  <2> HIDE DEF s
  <2>2. s \in Seq(Cells) /\ Len(s) \in Nat /\ Len(s) >= 2 /\ \A i \in 1 .. Len(s) : s[i] \in Cells
    BY <2>1, GoodFacts
  <2>3. /\ \A i \in 1 .. Len(s) - 1 : list.next[s[i]] = s[i + 1]
        /\ list.next[s[Len(s)]] = Nil /\ s[1] = list.head /\ list.prev[s[1]] = Nil
        /\ \A c, d \in Cells : list.next[c] = d <=> list.prev[d] = c
    BY <2>1 DEF Good, Along, Follows, Linked
  <2>4. list.head # Nil /\ list.prev[list.head] = Nil
    BY <2>2, <2>3, CellFacts
  <2>5. list.next[Last(s)] = Nil
    BY <2>2, <2>3 DEF Last
  <2>6. \A i \in 1 .. Len(s) - 1 : list.prev[s[i + 1]] = s[i]
    <3> SUFFICES ASSUME NEW i \in 1 .. Len(s) - 1 PROVE list.prev[s[i + 1]] = s[i]
      OBVIOUS
    <3>1. i \in 1 .. Len(s) /\ i + 1 \in 1 .. Len(s)
      BY <2>2
    <3> QED
      BY <2>2, <2>3, <3>1
  <2>7. \E i, j \in 1 .. Len(s) : i < j /\ s[i] = currMarker /\ s[j] = lastMarker
    BY <2>1 DEF Good, Ordered
  <2> QED
    BY <2>1, <2>4, <2>5, <2>6, <2>7 DEF ListIntact, s
<1> QED
  BY <1>1, LruInvariant, PTL

\* Under the same condition no cached file is forgotten, whatever clearCache does
\* while cacheValidate and removeNode are between their sections.
THEOREM NoneForgotten == RoomToEvict => (Spec => []CachedListed)
<1>1. LruInv => CachedListed
  <2> SUFFICES ASSUME LruInv, NEW f \in Names \ Pends, nodeMap[f] # Nil
               PROVE  \/ nodeMap[f] \in Range(Walk) \/ nodeMap[f] \in delItems
                      \/ \E t \in Threads : thread[t].node = nodeMap[f]
    BY DEF CachedListed
  <2>1. Tracked(nodeMap[f])
    BY DEF LruInv, AllTracked
  <2>2. Walk \in Seq(Cells) /\ DOMAIN Walk = 1 .. Len(Walk)
    BY GoodFacts DEF LruInv
  <2>3. On(Walk, nodeMap[f]) => nodeMap[f] \in Range(Walk)
    BY <2>2 DEF On, Range
  <2> QED
    BY <2>1, <2>3 DEF Tracked
<1> QED
  BY <1>1, LruInvariant, PTL

\* Under the same condition loadSnapshot undoes createSnapshot, for a list of any
\* length and wherever the markers are.
THEOREM SnapshotExact == RoomToEvict => (Spec => []SnapshotRestores)
<1>1. LruInv => SnapshotRestores
  <2> SUFFICES ASSUME LruInv PROVE SnapshotRestores
    OBVIOUS
  <2>1. Good(loadSnapshot(createSnapshot(list)), Walk)
    BY SnapshotLoaded DEF LruInv
  <2> DEFINE L == loadSnapshot(createSnapshot(list))
  <2>2. Chain(L, L.head) = Walk
    BY <2>1, GoodWalk
  <2> QED
    BY <2>2 DEF SnapshotRestores
<1> QED
  BY <1>1, LruInvariant, PTL
=============================================================================
