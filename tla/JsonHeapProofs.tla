--------------------------- MODULE JsonHeapProofs ---------------------------
(***************************************************************************)
(* The properties of JsonHeap, for any number of items.                    *)
(***************************************************************************)
EXTENDS JsonHeap, FiniteSetTheorems, WellFoundedInduction, TLAPS

-----------------------------------------------------------------------------
(* Counting.                                                               *)

(* A set of numbers that is not empty has a least member.                  *)
LEMMA LeastMember ==
  ASSUME NEW S \in SUBSET Nat, S # {}
  PROVE  \E x \in S : \A y \in S : x <= y
<1>1. \E x \in S : \A y \in S : <<y, x>> \notin OpToRel(<, Nat)
  BY NatLessThanWellFounded, WFMin
<1>2. PICK x \in S : \A y \in S : <<y, x>> \notin OpToRel(<, Nat)
  BY <1>1
<1>3. \A y \in S : ~ (y < x)
  BY <1>2, Zenon DEF OpToRel
<1> QED BY <1>3

(* What holds of 0, and of k + 1 when it holds of k, holds up to N.        *)
LEMMA CountingUp ==
  ASSUME NEW N \in Nat, NEW S, 0 \in S, \A k \in 0..N : k < N /\ k \in S => k + 1 \in S
  PROVE  \A k \in 0..N : k \in S
<1> DEFINE T == {k \in 0..N : k \notin S}
<1>1. SUFFICES ASSUME T # {}
               PROVE  FALSE
  OBVIOUS
<1>2. PICK k \in T : \A j \in T : k <= j
  <2>1. T \in SUBSET Nat
    OBVIOUS
  <2> HIDE DEF T
  <2> QED BY <1>1, <2>1, LeastMember
<1>3. k \in 1..N
  BY <1>2
<1>4. k - 1 \in 0..N /\ k - 1 < N /\ k - 1 \notin T /\ (k - 1) + 1 = k
  BY <1>2, <1>3
<1> QED BY <1>2, <1>4

(* f starts at x and goes on by g.                                         *)
Steps(N, x, g, f) == f[0] = x /\ \A k \in 1..N : f[k] = g[f[k - 1]]

(* Some function on 0..N does.                                             *)
Stepped(N, X, x, g) == \E f \in [0..N -> X] : Steps(N, x, g, f)

Selfmap(X, g) == g \in [X -> X]

(* The same step again and again.                                          *)
LEMMA StepByStep ==
  ASSUME NEW N \in Nat, NEW X, NEW x \in X, NEW g, Selfmap(X, g)
  PROVE  Stepped(N, X, x, g)
<1> DEFINE Good(n, f) == f[0] = x /\ \A k \in 1..n : f[k] = g[f[k - 1]]
           S == {n \in 0..N : \E f \in [0..n -> X] : Good(n, f)}
<1>1. 0 \in S
  <2> DEFINE f == [k \in 0..0 |-> x]
  <2>1. f \in [0..0 -> X] /\ f[0] = x
    OBVIOUS
  <2> HIDE DEF f
  <2>2. Good(0, f)
    BY <2>1
  <2> HIDE DEF Good
  <2> QED BY <2>1, <2>2
<1>2. ASSUME NEW n \in 0..N, n < N, n \in S
      PROVE  n + 1 \in S
  <2>1. PICK f \in [0..n -> X] : Good(n, f)
    BY <1>2
  <2> DEFINE h == [k \in 0..n + 1 |-> IF k = n + 1 THEN g[f[n]] ELSE f[k]]
  <2>2. n + 1 \in 1..N /\ f[n] \in X /\ g[f[n]] \in X
    BY <1>2 DEF Selfmap
  <2>3. h \in [0..n + 1 -> X]
    BY <2>2
  <2>4. ASSUME NEW k \in 1..n + 1
        PROVE  h[k] = g[h[k - 1]]
    <3>1. h[k - 1] = f[k - 1]
      OBVIOUS
    <3>2. CASE k = n + 1
      BY <3>1, <3>2
    <3>3. CASE k # n + 1
      BY <2>1, <3>1, <3>3
    <3> QED BY <3>2, <3>3
  <2>5. h[0] = x
    BY <2>1
  <2> HIDE DEF h
  <2>6. Good(n + 1, h)
    BY <2>4, <2>5
  <2>7. n + 1 \in 0..N
    BY <1>2
  <2> HIDE DEF Good
  <2> QED BY <2>3, <2>6, <2>7
<1> HIDE DEF S
<1>3. \A n \in 0..N : n \in S
  BY <1>1, <1>2, CountingUp
<1>4. N \in S
  BY <1>3
<1> HIDE DEF Good
<1>5. \E f \in [0..N -> X] : Good(N, f)
  BY <1>4 DEF S
<1> QED BY <1>5, Zenon DEF Good, Stepped, Steps

-----------------------------------------------------------------------------
(* Walks.                                                                  *)

Heaps == [Nodes -> Items]
Size == Cardinality(Nodes)

(* There are so many nodes.                                                *)
LEMMA SizeNat == Size \in Nat /\ IsFiniteSet(Nodes)
BY JsonHeapAssumption, FS_CardinalityType DEF Size

(* The fields of an item are what they should be.                          *)
LEMMA FieldTypes ==
  ASSUME NEW h \in Heaps, NEW n \in Nodes
  PROVE  /\ h[n] \in Items
         /\ h[n].next \in Links /\ h[n].prev \in Links /\ h[n].child \in Links
         /\ h[n].ref \in BOOLEAN /\ h[n].const \in BOOLEAN
         /\ h[n].key \in {"none", "copy", "constant"}
<1>1. h[n] \in Items
  BY DEF Heaps
<1> QED BY <1>1 DEF Items

(* What Walk() is.                                                         *)
LEMMA WalkIs ==
  ASSUME NEW h \in Heaps, NEW first \in Links
  PROVE  /\ Walk(h, first) \in [0..Size -> Links]
         /\ Walk(h, first)[0] = first
         /\ \A k \in 1..Size :
              Walk(h, first)[k] = IF Walk(h, first)[k - 1] = Null THEN Null
                                  ELSE h[Walk(h, first)[k - 1]].next
<1> DEFINE step == [m \in Links |-> IF m = Null THEN Null ELSE h[m].next]
           Is(f) == f = [k \in 0..Size |-> IF k = 0 THEN first
                                           ELSE IF f[k - 1] = Null THEN Null
                                           ELSE h[f[k - 1]].next]
           at == Walk(h, first)
<1>1. step \in [Links -> Links]
  BY FieldTypes DEF Links
<1>2. Selfmap(Links, step)
  BY <1>1 DEF Selfmap
<1>3. PICK f \in [0..Size -> Links] : f[0] = first /\ \A k \in 1..Size : f[k] = step[f[k - 1]]
  <2> HIDE DEF step
  <2>1. Stepped(Size, Links, first, step)
    BY <1>2, SizeNat, StepByStep
  <2> QED BY <2>1, Zenon DEF Stepped, Steps
<1>4. Is(f)
  <2>1. ASSUME NEW k \in 1..Size
        PROVE  f[k] = IF f[k - 1] = Null THEN Null ELSE h[f[k - 1]].next
    <3>1. f[k - 1] \in Links
      BY SizeNat
    <3> QED BY <1>3, <3>1
  <2>2. \A k \in 0..Size : k = 0 \/ k \in 1..Size
    BY SizeNat
  <2> QED BY <1>3, <2>1, <2>2
<1>5. Is(at)
  BY <1>4, Zenon DEF Walk, Size
<1> HIDE DEF at
<1>6. \A k \in 0..Size : at[k] = IF k = 0 THEN first ELSE IF at[k - 1] = Null THEN Null
                                 ELSE h[at[k - 1]].next
  BY <1>5
<1>7. at[0] = first
  BY <1>6, SizeNat
<1>8. \A k \in 0..Size : at[k] \in Links
  <2> DEFINE S == {k \in 0..Size : at[k] \in Links}
  <2>1. 0 \in S
    BY <1>7, SizeNat
  <2>2. ASSUME NEW k \in 0..Size, k < Size, k \in S
        PROVE  k + 1 \in S
    <3>1. k + 1 \in 0..Size /\ k + 1 # 0 /\ (k + 1) - 1 = k
      BY <2>2, SizeNat
    <3>2. at[k + 1] = IF at[k] = Null THEN Null ELSE h[at[k]].next
      BY <1>6, <3>1
    <3>3. at[k + 1] \in Links
      BY <2>2, <3>2, FieldTypes DEF Links
    <3> QED BY <3>1, <3>3
  <2> HIDE DEF S
  <2>3. \A k \in 0..Size : k \in S
    BY <2>1, <2>2, CountingUp, SizeNat
  <2> QED BY <2>3 DEF S
<1>9. at \in [0..Size -> Links]
  BY <1>5, <1>8
<1>10. \A k \in 1..Size : at[k] = IF at[k - 1] = Null THEN Null ELSE h[at[k - 1]].next
  BY <1>6, SizeNat
<1> QED BY <1>7, <1>9, <1>10 DEF at

(* A walk stays in any set that it starts in and that next does not leave. *)
LEMMA WalkStays ==
  ASSUME NEW h \in Heaps, NEW T \in SUBSET Nodes, NEW first \in T \cup {Null},
         \A m \in T : h[m].next \in T \cup {Null}
  PROVE  \A k \in 0..Size : Walk(h, first)[k] \in T \cup {Null}
<1> DEFINE at == Walk(h, first)
           S == {k \in 0..Size : at[k] \in T \cup {Null}}
<1>1. /\ at[0] = first
      /\ \A k \in 1..Size : at[k] = IF at[k - 1] = Null THEN Null ELSE h[at[k - 1]].next
  BY WalkIs DEF Links
<1> HIDE DEF at
<1>2. 0 \in S
  BY <1>1, SizeNat
<1>3. ASSUME NEW k \in 0..Size, k < Size, k \in S
      PROVE  k + 1 \in S
  <2>1. k + 1 \in 1..Size /\ (k + 1) - 1 = k
    BY <1>3, SizeNat
  <2>2. at[k + 1] = IF at[k] = Null THEN Null ELSE h[at[k]].next
    BY <1>1, <2>1
  <2>3. at[k + 1] \in T \cup {Null}
    BY <1>3, <2>2
  <2> QED BY <2>1, <2>3
<1> HIDE DEF S
<1>4. \A k \in 0..Size : k \in S
  BY <1>2, <1>3, CountingUp, SizeNat
<1> QED BY <1>4 DEF S, at

-----------------------------------------------------------------------------
(* What can be reached.                                                    *)

(* No link leaves T, the contents of references excepted.                  *)
Closed(h, T) ==
  \A m \in T : /\ h[m].next \in T \cup {Null}
               /\ ~ h[m].ref => h[m].child \in T \cup {Null}

(* What Nearby() adds.                                                     *)
LEMMA NearbyIs ==
  ASSUME NEW h \in Heaps, NEW R \in SUBSET Nodes
  PROVE  /\ Nearby(h, R) \ {Null} \in SUBSET Nodes
         /\ R \subseteq Nearby(h, R) \ {Null}
         /\ Closed(h, R) <=> Nearby(h, R) \ {Null} = R
         /\ \A T \in SUBSET Nodes :
              R \subseteq T /\ Closed(h, T) => Nearby(h, R) \ {Null} \subseteq T
<1>0. Null \notin Nodes
  BY JsonHeapAssumption
<1>1. \A m \in R : h[m].next \in Nodes \cup {Null} /\ h[m].child \in Nodes \cup {Null}
  BY FieldTypes DEF Links
<1>2. \A y : y \in Nearby(h, R) <=>
               \/ y \in R
               \/ \E m \in R : y = h[m].next
               \/ \E m \in R : ~ h[m].ref /\ y = h[m].child
  BY DEF Nearby
<1>3. Nearby(h, R) \ {Null} \in SUBSET Nodes
  BY <1>1, <1>2
<1>4. R \subseteq Nearby(h, R) \ {Null}
  BY <1>0, <1>2
<1>5. \A T \in SUBSET Nodes :
        R \subseteq T /\ Closed(h, T) => Nearby(h, R) \ {Null} \subseteq T
  BY <1>2 DEF Closed
<1>6. Closed(h, R) => Nearby(h, R) \ {Null} = R
  BY <1>4, <1>5
<1>7. Nearby(h, R) \ {Null} = R => Closed(h, R)
  BY <1>2 DEF Closed
<1> QED BY <1>3, <1>4, <1>5, <1>6, <1>7

(* What Reach() is.                                                        *)
LEMMA ReachIs ==
  ASSUME NEW h \in Heaps, NEW n \in Nodes
  PROVE  /\ Reach(h, n) \in [0..Size -> SUBSET Nodes]
         /\ Reach(h, n)[0] = {n}
         /\ \A k \in 1..Size : Reach(h, n)[k] = Nearby(h, Reach(h, n)[k - 1]) \ {Null}
<1> DEFINE Sets == SUBSET Nodes
           step == [R \in Sets |-> Nearby(h, R) \ {Null}]
           Is(f) == f = [k \in 0..Size |-> IF k = 0 THEN {n} ELSE Nearby(h, f[k - 1]) \ {Null}]
           reach == Reach(h, n)
<1>1. step \in [Sets -> Sets]
  BY NearbyIs
<1>2. Selfmap(Sets, step) /\ {n} \in Sets
  BY <1>1 DEF Selfmap
<1>3. PICK f \in [0..Size -> Sets] : f[0] = {n} /\ \A k \in 1..Size : f[k] = step[f[k - 1]]
  <2> HIDE DEF step, Sets
  <2> DEFINE x == {n}
  <2>1. x \in Sets
    BY <1>2
  <2> HIDE DEF x
  <2>2. Stepped(Size, Sets, x, step)
    BY <1>2, <2>1, SizeNat, StepByStep
  <2>3. \E f \in [0..Size -> Sets] : f[0] = x /\ \A k \in 1..Size : f[k] = step[f[k - 1]]
    BY <2>2, Zenon DEF Stepped, Steps
  <2> QED BY <2>3 DEF x
<1>4. Is(f)
  <2>1. ASSUME NEW k \in 1..Size
        PROVE  f[k] = Nearby(h, f[k - 1]) \ {Null}
    <3>1. f[k - 1] \in Sets
      BY SizeNat
    <3> QED BY <1>3, <3>1
  <2>2. \A k \in 0..Size : k = 0 \/ k \in 1..Size
    BY SizeNat
  <2> QED BY <1>3, <2>1, <2>2
<1>5. Is(reach)
  BY <1>4, Zenon DEF Reach, Size
<1> HIDE DEF reach
<1>6. \A k \in 0..Size : reach[k] = IF k = 0 THEN {n} ELSE Nearby(h, reach[k - 1]) \ {Null}
  BY <1>5
<1>7. reach[0] = {n}
  <2>1. 0 \in 0..Size
    BY SizeNat
  <2> QED BY <1>6, <2>1
<1>8. \A k \in 0..Size : reach[k] \in Sets
  <2> DEFINE S == {k \in 0..Size : reach[k] \in Sets}
  <2>1. 0 \in S
    BY <1>7, SizeNat
  <2>2. ASSUME NEW k \in 0..Size, k < Size, k \in S
        PROVE  k + 1 \in S
    <3>1. k + 1 \in 0..Size /\ k + 1 # 0 /\ (k + 1) - 1 = k
      BY <2>2, SizeNat
    <3>2. reach[k + 1] = Nearby(h, reach[k]) \ {Null}
      BY <1>6, <3>1
    <3>3. reach[k + 1] \in Sets
      BY <2>2, <3>2, NearbyIs
    <3> QED BY <3>1, <3>3
  <2> HIDE DEF S
  <2>3. \A k \in 0..Size : k \in S
    BY <2>1, <2>2, CountingUp, SizeNat
  <2> QED BY <2>3 DEF S
<1>9. reach \in [0..Size -> Sets]
  BY <1>5, <1>8
<1>10. \A k \in 1..Size : reach[k] = Nearby(h, reach[k - 1]) \ {Null}
  <2>1. \A k \in 1..Size : k \in 0..Size /\ k # 0
    BY SizeNat
  <2> QED BY <1>6, <2>1
<1> QED BY <1>7, <1>9, <1>10 DEF reach

(* Doomed() is the smallest set that n is in and that no link leaves.      *)
LEMMA DoomedIs ==
  ASSUME NEW h \in Heaps, NEW n \in Nodes
  PROVE  /\ n \in Doomed(h, n) /\ Doomed(h, n) \in SUBSET Nodes
         /\ Closed(h, Doomed(h, n))
         /\ \A T \in SUBSET Nodes : n \in T /\ Closed(h, T) => Doomed(h, n) \subseteq T
<1> DEFINE reach == Reach(h, n)
<1>1. /\ reach \in [0..Size -> SUBSET Nodes] /\ reach[0] = {n}
      /\ \A k \in 1..Size : reach[k] = Nearby(h, reach[k - 1]) \ {Null}
  BY ReachIs
<1>2. Doomed(h, n) = reach[Size]
  BY DEF Doomed, Size
<1> HIDE DEF reach
<1>3. \A k \in 0..Size : k < Size =>
        /\ reach[k] \in SUBSET Nodes
        /\ reach[k + 1] = Nearby(h, reach[k]) \ {Null} /\ reach[k] \subseteq reach[k + 1]
        /\ k + 1 \in 0..Size
  <2> SUFFICES ASSUME NEW k \in 0..Size, k < Size
               PROVE  /\ reach[k] \in SUBSET Nodes
                      /\ reach[k + 1] = Nearby(h, reach[k]) \ {Null}
                      /\ reach[k] \subseteq reach[k + 1]
                      /\ k + 1 \in 0..Size
    OBVIOUS
  <2>1. k + 1 \in 1..Size /\ (k + 1) - 1 = k
    BY SizeNat
  <2>2. reach[k + 1] = Nearby(h, reach[k]) \ {Null}
    BY <1>1, <2>1
  <2>3. reach[k] \in SUBSET Nodes
    BY <1>1
  <2> QED BY <2>1, <2>2, <2>3, NearbyIs
<1>4. n \in reach[Size]
  <2> DEFINE S == {k \in 0..Size : n \in reach[k]}
  <2>1. 0 \in S
    BY <1>1, SizeNat
  <2>2. \A k \in 0..Size : k < Size /\ k \in S => k + 1 \in S
    BY <1>3
  <2> HIDE DEF S
  <2>3. \A k \in 0..Size : k \in S
    BY <2>1, <2>2, CountingUp, SizeNat
  <2> QED BY <2>3, SizeNat DEF S
<1>5. ASSUME NEW T \in SUBSET Nodes, n \in T, Closed(h, T)
      PROVE  reach[Size] \subseteq T
  <2> DEFINE S == {k \in 0..Size : reach[k] \subseteq T}
  <2>1. 0 \in S
    BY <1>1, <1>5, SizeNat
  <2>2. ASSUME NEW k \in 0..Size, k < Size, k \in S
        PROVE  k + 1 \in S
    BY <1>3, <1>5, <2>2, NearbyIs
  <2> HIDE DEF S
  <2>3. \A k \in 0..Size : k \in S
    BY <2>1, <2>2, CountingUp, SizeNat
  <2> QED BY <2>3, SizeNat DEF S
<1>6. Closed(h, reach[Size])
  <2> DEFINE Grows(k) == Cardinality(reach[k]) >= k + 1
             S == {k \in 0..Size : Closed(h, reach[k]) \/ Grows(k)}
  <2>1. 0 \in S
    <3>1. Cardinality(reach[0]) = 1
      BY <1>1, FS_Singleton
    <3> QED BY <3>1, SizeNat
  <2>2. ASSUME NEW k \in 0..Size, k < Size, k \in S
        PROVE  k + 1 \in S
    <3> DEFINE R == reach[k]
               Q == reach[k + 1]
    <3>1. R \in SUBSET Nodes /\ Q = Nearby(h, R) \ {Null} /\ R \subseteq Q /\ k + 1 \in 0..Size
          /\ Q \in SUBSET Nodes
      BY <1>1, <1>3, <2>2
    <3>2. CASE Closed(h, R)
      <4>1. Q = R
        BY <3>1, <3>2, NearbyIs
      <4> QED BY <3>1, <3>2, <4>1
    <3>3. CASE ~ Closed(h, R)
      <4>1. Q # R
        BY <3>1, <3>3, NearbyIs
      <4>2. IsFiniteSet(Q) /\ Cardinality(Q) \in Nat /\ Cardinality(R) \in Nat
        BY <3>1, SizeNat, FS_Subset, FS_CardinalityType
      <4>3. Cardinality(R) <= Cardinality(Q) /\ Cardinality(R) # Cardinality(Q)
        BY <3>1, <4>1, <4>2, FS_Subset
      <4>4. Cardinality(R) >= k + 1
        BY <2>2, <3>3
      <4> HIDE DEF R, Q
      <4>5. Cardinality(Q) >= (k + 1) + 1
        BY <4>2, <4>3, <4>4
      <4> QED BY <3>1, <4>5 DEF Q
    <3> QED BY <3>2, <3>3
  <2> HIDE DEF S
  <2>3. \A k \in 0..Size : k \in S
    BY <2>1, <2>2, CountingUp, SizeNat
  <2>4. Closed(h, reach[Size]) \/ Grows(Size)
    BY <2>3, SizeNat DEF S
  <2>5. reach[Size] \in SUBSET Nodes
    BY <1>1, SizeNat
  <2>6. Cardinality(reach[Size]) <= Size /\ Cardinality(reach[Size]) \in Nat
    BY <2>5, SizeNat, FS_Subset, FS_CardinalityType DEF Size
  <2> QED BY <2>4, <2>6, SizeNat
<1> QED BY <1>1, <1>2, <1>4, <1>5, <1>6, SizeNat

-----------------------------------------------------------------------------
(* A heap seen as functions on nodes, one for each field.  A reference has *)
(* no kid.                                                                 *)

Nx(h) == [n \in Nodes |-> h[n].next]
Pv(h) == [n \in Nodes |-> h[n].prev]
Kd(h) == [n \in Nodes |-> IF h[n].ref THEN Null ELSE h[n].child]
Rf(h) == [n \in Nodes |-> h[n].ref]
Cn(h) == [n \in Nodes |-> h[n].const]
Ky(h) == [n \in Nodes |-> h[n].key]

(* The fields that are not links.                                          *)
SameFlags(h, g) == Rf(g) = Rf(h) /\ Cn(g) = Cn(h) /\ Ky(g) = Ky(h)

(* f with the value v for x, if x is a node.                               *)
Upd(f, x, v) == [k \in Nodes |-> IF k = x THEN v ELSE f[k]]

Maps == [Nodes -> Links]

(* The parts of a heap are maps.                                           *)
LEMMA ViewTypes ==
  ASSUME NEW h \in Heaps
  PROVE  /\ Nx(h) \in Maps /\ Pv(h) \in Maps /\ Kd(h) \in Maps
         /\ Rf(h) \in [Nodes -> BOOLEAN] /\ Cn(h) \in [Nodes -> BOOLEAN]
         /\ Ky(h) \in [Nodes -> {"none", "copy", "constant"}]
<1>1. Null \in Links
  BY DEF Links
<1> QED BY <1>1, FieldTypes DEF Nx, Pv, Kd, Rf, Cn, Ky, Maps

(* So is one of them with another value.                                   *)
LEMMA UpdType ==
  ASSUME NEW f \in Maps, NEW x, NEW v \in Links
  PROVE  Upd(f, x, v) \in Maps
BY DEF Upd, Maps

(* What writing one pointer does.                                          *)
LEMMA SetNextIs ==
  ASSUME NEW h \in Heaps, NEW n \in Links, NEW m \in Links
  PROVE  /\ SetNext(h, n, m) \in Heaps
         /\ Nx(SetNext(h, n, m)) = Upd(Nx(h), n, m)
         /\ Pv(SetNext(h, n, m)) = Pv(h) /\ Kd(SetNext(h, n, m)) = Kd(h)
         /\ SameFlags(h, SetNext(h, n, m))
<1>1. CASE n = Null
  <2>1. SetNext(h, n, m) = h
    BY <1>1 DEF SetNext
  <2>2. Upd(Nx(h), n, m) = Nx(h)
    BY <1>1, JsonHeapAssumption DEF Upd, Nx
  <2> QED BY <2>1, <2>2 DEF SameFlags
<1>2. CASE n \in Nodes
  <2> DEFINE g == SetNext(h, n, m)
  <2>1. g = [h EXCEPT ![n] = [h[n] EXCEPT !.next = m]]
    BY <1>2, JsonHeapAssumption DEF SetNext
  <2>2. h[n] \in Items /\ [h[n] EXCEPT !.next = m] \in Items
    BY <1>2, FieldTypes DEF Items
  <2>3. g \in Heaps
    BY <2>1, <2>2 DEF Heaps
  <2>4. \A k \in Nodes : /\ g[k].next = IF k = n THEN m ELSE h[k].next
                         /\ g[k].prev = h[k].prev /\ g[k].child = h[k].child
                         /\ g[k].ref = h[k].ref /\ g[k].const = h[k].const
                         /\ g[k].key = h[k].key
    BY <2>1, <2>2 DEF Heaps, Items
  <2> HIDE DEF g
  <2>5. Nx(g) = Upd(Nx(h), n, m)
    BY <2>4 DEF Nx, Upd
  <2>6. Pv(g) = Pv(h) /\ Kd(g) = Kd(h) /\ SameFlags(h, g)
    BY <2>4 DEF Pv, Kd, Rf, Cn, Ky, SameFlags
  <2> QED BY <2>3, <2>5, <2>6 DEF g
<1> QED BY <1>1, <1>2 DEF Links

(* What SetPrev() does to the parts of a heap.                             *)
LEMMA SetPrevIs ==
  ASSUME NEW h \in Heaps, NEW n \in Links, NEW m \in Links
  PROVE  /\ SetPrev(h, n, m) \in Heaps
         /\ Pv(SetPrev(h, n, m)) = Upd(Pv(h), n, m)
         /\ Nx(SetPrev(h, n, m)) = Nx(h) /\ Kd(SetPrev(h, n, m)) = Kd(h)
         /\ SameFlags(h, SetPrev(h, n, m))
<1>1. CASE n = Null
  <2>1. SetPrev(h, n, m) = h
    BY <1>1 DEF SetPrev
  <2>2. Upd(Pv(h), n, m) = Pv(h)
    BY <1>1, JsonHeapAssumption DEF Upd, Pv
  <2> QED BY <2>1, <2>2 DEF SameFlags
<1>2. CASE n \in Nodes
  <2> DEFINE g == SetPrev(h, n, m)
  <2>1. g = [h EXCEPT ![n] = [h[n] EXCEPT !.prev = m]]
    BY <1>2, JsonHeapAssumption DEF SetPrev
  <2>2. h[n] \in Items /\ [h[n] EXCEPT !.prev = m] \in Items
    BY <1>2, FieldTypes DEF Items
  <2>3. g \in Heaps
    BY <2>1, <2>2 DEF Heaps
  <2>4. \A k \in Nodes : /\ g[k].prev = IF k = n THEN m ELSE h[k].prev
                         /\ g[k].next = h[k].next /\ g[k].child = h[k].child
                         /\ g[k].ref = h[k].ref /\ g[k].const = h[k].const
                         /\ g[k].key = h[k].key
    BY <2>1, <2>2 DEF Heaps, Items
  <2> HIDE DEF g
  <2>5. Pv(g) = Upd(Pv(h), n, m)
    BY <2>4 DEF Pv, Upd
  <2>6. Nx(g) = Nx(h) /\ Kd(g) = Kd(h) /\ SameFlags(h, g)
    BY <2>4 DEF Nx, Kd, Rf, Cn, Ky, SameFlags
  <2> QED BY <2>3, <2>5, <2>6 DEF g
<1> QED BY <1>1, <1>2 DEF Links

SetChild(h, p, m) == [h EXCEPT ![p].child = m]

(* What a new child pointer does to the parts of a heap.                   *)
LEMMA SetChildIs ==
  ASSUME NEW h \in Heaps, NEW p \in Nodes, NEW m \in Links, h[p].ref = FALSE
  PROVE  /\ SetChild(h, p, m) \in Heaps
         /\ Kd(SetChild(h, p, m)) = Upd(Kd(h), p, m)
         /\ Nx(SetChild(h, p, m)) = Nx(h) /\ Pv(SetChild(h, p, m)) = Pv(h)
         /\ SameFlags(h, SetChild(h, p, m))
<1> DEFINE g == SetChild(h, p, m)
<1>1. g = [h EXCEPT ![p] = [h[p] EXCEPT !.child = m]]
  BY DEF SetChild
<1>2. h[p] \in Items /\ [h[p] EXCEPT !.child = m] \in Items
  BY FieldTypes DEF Items
<1>3. g \in Heaps
  BY <1>1, <1>2 DEF Heaps
<1>4. \A k \in Nodes : /\ g[k].child = IF k = p THEN m ELSE h[k].child
                       /\ g[k].next = h[k].next /\ g[k].prev = h[k].prev
                       /\ g[k].ref = h[k].ref /\ g[k].const = h[k].const
                       /\ g[k].key = h[k].key
  BY <1>1, <1>2 DEF Heaps, Items
<1> HIDE DEF g
<1>5. Kd(g) = Upd(Kd(h), p, m)
  BY <1>4 DEF Kd, Upd
<1>6. Nx(g) = Nx(h) /\ Pv(g) = Pv(h) /\ SameFlags(h, g)
  BY <1>4 DEF Nx, Pv, Rf, Cn, Ky, SameFlags
<1> QED BY <1>3, <1>5, <1>6 DEF g

-----------------------------------------------------------------------------
(* The shape of a heap: L are the nodes in use, H those that are held.     *)

LinksIn(nx, pv, kd, L) ==
  \A n \in L : nx[n] \in L \cup {Null} /\ pv[n] \in L \cup {Null} /\ kd[n] \in L \cup {Null}

TwoWay(nx, pv, L) ==
  \A n \in L : /\ nx[n] # Null => pv[nx[n]] = n
               /\ pv[n] # Null => nx[pv[n]] = n

(* A first kid has nobody in front of it, and one parent.                  *)
FirstKids(pv, kd, L) == \A n \in L : kd[n] # Null => pv[kd[n]] = Null
OneParent(kd, L) == \A m, n \in L : kd[m] = kd[n] /\ kd[m] # Null => m = n

(* What is held is in no list.                                             *)
Roots(nx, pv, kd, L, H) ==
  \A c \in H : nx[c] = Null /\ pv[c] = Null /\ \A n \in L : kd[n] # c

Shape(nx, pv, kd, L, H) ==
  /\ nx \in Maps /\ pv \in Maps /\ kd \in Maps
  /\ L \in SUBSET Nodes /\ H \in SUBSET L
  /\ LinksIn(nx, pv, kd, L)
  /\ TwoWay(nx, pv, L)
  /\ FirstKids(pv, kd, L)
  /\ OneParent(kd, L)
  /\ Roots(nx, pv, kd, L, H)

(* x is in a list.                                                         *)
Listed(pv, kd, L, x) == x \in L /\ (pv[x] # Null \/ \E q \in L : kd[q] = x)

(* A first kid for p, which had none.                                      *)
LEMMA ShapeFirst ==
  ASSUME NEW nx, NEW pv, NEW kd, NEW L, NEW H, Shape(nx, pv, kd, L, H),
         NEW p \in L, NEW c \in H, kd[p] = Null
  PROVE  Shape(nx, pv, Upd(kd, p, c), L, H \ {c})
<1> DEFINE k2 == Upd(kd, p, c)
<1>0. Null \notin Nodes
  BY JsonHeapAssumption
<1>1. /\ nx \in Maps /\ pv \in Maps /\ kd \in Maps /\ L \in SUBSET Nodes /\ H \in SUBSET L
      /\ LinksIn(nx, pv, kd, L) /\ TwoWay(nx, pv, L) /\ FirstKids(pv, kd, L)
      /\ OneParent(kd, L) /\ Roots(nx, pv, kd, L, H)
  BY DEF Shape
<1>2. k2 \in Maps
  BY <1>1, UpdType DEF Links
<1>3. \A n \in L : k2[n] = IF n = p THEN c ELSE kd[n]
  BY <1>1 DEF Upd
<1> HIDE DEF k2
<1>4. nx[c] = Null /\ pv[c] = Null /\ c \in L /\ \A n \in L : kd[n] # c
  BY <1>1 DEF Roots
<1>5. LinksIn(nx, pv, k2, L)
  BY <1>1, <1>3, <1>4 DEF LinksIn
<1>6. FirstKids(pv, k2, L)
  BY <1>1, <1>3, <1>4 DEF FirstKids
<1>7. OneParent(k2, L)
  BY <1>1, <1>3, <1>4 DEF OneParent
<1>8. Roots(nx, pv, k2, L, H \ {c})
  BY <1>1, <1>3 DEF Roots
<1> QED BY <1>1, <1>2, <1>5, <1>6, <1>7, <1>8 DEF Shape, k2

(* A node behind b, the last of its list.                                  *)
LEMMA ShapeLast ==
  ASSUME NEW nx, NEW pv, NEW kd, NEW L, NEW H, Shape(nx, pv, kd, L, H),
         NEW b \in L, NEW c \in H, nx[b] = Null, Listed(pv, kd, L, b)
  PROVE  Shape(Upd(nx, b, c), Upd(pv, c, b), kd, L, H \ {c})
<1> DEFINE n2 == Upd(nx, b, c)
           p2 == Upd(pv, c, b)
<1>0. Null \notin Nodes
  BY JsonHeapAssumption
<1>1. /\ nx \in Maps /\ pv \in Maps /\ kd \in Maps /\ L \in SUBSET Nodes /\ H \in SUBSET L
      /\ LinksIn(nx, pv, kd, L) /\ TwoWay(nx, pv, L) /\ FirstKids(pv, kd, L)
      /\ OneParent(kd, L) /\ Roots(nx, pv, kd, L, H)
  BY DEF Shape
<1>2. n2 \in Maps /\ p2 \in Maps
  BY <1>1, UpdType DEF Links
<1>3. /\ \A n \in L : n2[n] = IF n = b THEN c ELSE nx[n]
      /\ \A n \in L : p2[n] = IF n = c THEN b ELSE pv[n]
  BY <1>1 DEF Upd
<1> HIDE DEF n2, p2
<1>4. nx[c] = Null /\ pv[c] = Null /\ c \in L /\ \A n \in L : kd[n] # c
  BY <1>1 DEF Roots
<1>5. b \notin H /\ b # c /\ b # Null /\ c # Null
  BY <1>0, <1>1 DEF Roots, Listed
<1>6. LinksIn(n2, p2, kd, L)
  BY <1>1, <1>3, <1>4 DEF LinksIn
<1>7. TwoWay(n2, p2, L)
  <2>1. ASSUME NEW n \in L, n2[n] # Null
        PROVE  p2[n2[n]] = n
    <3>1. CASE n = b
      BY <1>3, <1>4, <3>1
    <3>2. CASE n # b
      <4>1. n2[n] = nx[n] /\ nx[n] \in L /\ pv[nx[n]] = n /\ nx[n] # c
        BY <1>0, <1>1, <1>3, <1>4, <2>1, <3>2 DEF TwoWay, LinksIn
      <4> QED BY <1>3, <4>1
    <3> QED BY <3>1, <3>2
  <2>2. ASSUME NEW n \in L, p2[n] # Null
        PROVE  n2[p2[n]] = n
    <3>1. CASE n = c
      BY <1>3, <1>4, <3>1
    <3>2. CASE n # c
      <4>1. p2[n] = pv[n] /\ pv[n] \in L /\ nx[pv[n]] = n /\ pv[n] # b
        BY <1>0, <1>1, <1>3, <1>4, <2>2, <3>2 DEF TwoWay, LinksIn
      <4> QED BY <1>3, <4>1
    <3> QED BY <3>1, <3>2
  <2> QED BY <2>1, <2>2 DEF TwoWay
<1>8. FirstKids(p2, kd, L)
  BY <1>1, <1>3, <1>4 DEF FirstKids, LinksIn
<1>9. Roots(n2, p2, kd, L, H \ {c})
  BY <1>1, <1>3, <1>5 DEF Roots
<1> QED BY <1>1, <1>2, <1>6, <1>7, <1>8, <1>9 DEF Shape, n2, p2

(* x leaves its list and is held: its neighbours, and its parent if it     *)
(* came first, go past it.                                                 *)
LEMMA ShapeOut ==
  ASSUME NEW nx, NEW pv, NEW kd, NEW L, NEW H, Shape(nx, pv, kd, L, H),
         NEW p \in L, NEW x \in L, kd[p] = x \/ pv[x] # Null, nx[x] # x
  PROVE  Shape(Upd(Upd(nx, pv[x], nx[x]), x, Null), Upd(Upd(pv, nx[x], pv[x]), x, Null),
               IF kd[p] = x THEN Upd(kd, p, nx[x]) ELSE kd, L, H \cup {x})
<1> DEFINE n2 == Upd(Upd(nx, pv[x], nx[x]), x, Null)
           p2 == Upd(Upd(pv, nx[x], pv[x]), x, Null)
           k2 == IF kd[p] = x THEN Upd(kd, p, nx[x]) ELSE kd
<1>0. Null \notin Nodes
  BY JsonHeapAssumption
<1>1. /\ nx \in Maps /\ pv \in Maps /\ kd \in Maps /\ L \in SUBSET Nodes /\ H \in SUBSET L
      /\ LinksIn(nx, pv, kd, L) /\ TwoWay(nx, pv, L) /\ FirstKids(pv, kd, L)
      /\ OneParent(kd, L) /\ Roots(nx, pv, kd, L, H)
  BY DEF Shape
<1>2. nx[x] \in L \cup {Null} /\ pv[x] \in L \cup {Null} /\ nx[x] \in Links /\ pv[x] \in Links
      /\ Null \in Links
  BY <1>1 DEF LinksIn, Links
<1>3. n2 \in Maps /\ p2 \in Maps /\ k2 \in Maps
  BY <1>1, <1>2, UpdType
<1>4. /\ \A n \in L : n2[n] = IF n = x THEN Null ELSE IF n = pv[x] THEN nx[x] ELSE nx[n]
      /\ \A n \in L : p2[n] = IF n = x THEN Null ELSE IF n = nx[x] THEN pv[x] ELSE pv[n]
      /\ \A n \in L : k2[n] = IF kd[p] = x /\ n = p THEN nx[x] ELSE kd[n]
  BY <1>1 DEF Upd
<1> HIDE DEF n2, p2, k2
<1>5. nx[x] # x /\ pv[x] # x
  BY <1>0, <1>1 DEF TwoWay
<1>6. \A n \in L : kd[n] = x => kd[p] = x /\ n = p
  BY <1>0, <1>1 DEF OneParent, FirstKids
<1>7. LinksIn(n2, p2, k2, L)
  BY <1>1, <1>2, <1>4 DEF LinksIn
<1>8. TwoWay(n2, p2, L)
  BY <1>0, <1>1, <1>2, <1>4, <1>5 DEF TwoWay, LinksIn
<1>9. FirstKids(p2, k2, L)
  BY <1>0, <1>1, <1>2, <1>4, <1>5, <1>6 DEF FirstKids, LinksIn, TwoWay
<1>10. OneParent(k2, L)
  BY <1>0, <1>1, <1>2, <1>4, <1>6 DEF OneParent, FirstKids, TwoWay
<1>11. Roots(n2, p2, k2, L, H \cup {x})
  BY <1>0, <1>1, <1>2, <1>4, <1>5, <1>6 DEF Roots, TwoWay
<1> QED BY <1>1, <1>3, <1>7, <1>8, <1>9, <1>10, <1>11 DEF Shape, n2, p2, k2

(* c comes in front of x.                                                  *)
LEMMA ShapeBefore ==
  ASSUME NEW nx, NEW pv, NEW kd, NEW L, NEW H, Shape(nx, pv, kd, L, H),
         NEW p \in L, NEW c \in H, NEW x \in L, kd[p] = x \/ pv[x] # Null
  PROVE  Shape(IF kd[p] = x THEN Upd(nx, c, x) ELSE Upd(Upd(nx, c, x), pv[x], c),
               Upd(Upd(pv, c, pv[x]), x, c),
               IF kd[p] = x THEN Upd(kd, p, c) ELSE kd, L, H \ {c})
<1> DEFINE n2 == IF kd[p] = x THEN Upd(nx, c, x) ELSE Upd(Upd(nx, c, x), pv[x], c)
           p2 == Upd(Upd(pv, c, pv[x]), x, c)
           k2 == IF kd[p] = x THEN Upd(kd, p, c) ELSE kd
<1>0. Null \notin Nodes
  BY JsonHeapAssumption
<1>1. /\ nx \in Maps /\ pv \in Maps /\ kd \in Maps /\ L \in SUBSET Nodes /\ H \in SUBSET L
      /\ LinksIn(nx, pv, kd, L) /\ TwoWay(nx, pv, L) /\ FirstKids(pv, kd, L)
      /\ OneParent(kd, L) /\ Roots(nx, pv, kd, L, H)
  BY DEF Shape
<1>2. /\ pv[x] \in L \cup {Null} /\ pv[x] \in Links /\ c \in L
      /\ Null \in Links /\ x \in Links /\ c \in Links
  BY <1>1 DEF LinksIn, Links
<1>3. n2 \in Maps /\ p2 \in Maps /\ k2 \in Maps
  BY <1>1, <1>2, UpdType
<1>4. kd[p] = x => pv[x] = Null
  BY <1>0, <1>1 DEF FirstKids
<1>5. /\ \A n \in L : n2[n] = IF n = pv[x] THEN c ELSE IF n = c THEN x ELSE nx[n]
      /\ \A n \in L : p2[n] = IF n = x THEN c ELSE IF n = c THEN pv[x] ELSE pv[n]
      /\ \A n \in L : k2[n] = IF kd[p] = x /\ n = p THEN c ELSE kd[n]
  BY <1>0, <1>1, <1>4 DEF Upd
<1> HIDE DEF n2, p2, k2
<1>6. nx[c] = Null /\ pv[c] = Null /\ \A n \in L : kd[n] # c
  BY <1>1 DEF Roots
<1>7. x # c /\ pv[x] # c /\ c # Null /\ x # Null
  BY <1>0, <1>1, <1>2, <1>6 DEF TwoWay
<1>8. \A n \in L : kd[n] = x => kd[p] = x /\ n = p
  BY <1>0, <1>1 DEF OneParent, FirstKids
<1>9. LinksIn(n2, p2, k2, L)
  BY <1>1, <1>2, <1>5 DEF LinksIn
<1>10. TwoWay(n2, p2, L)
  <2>1. ASSUME NEW n \in L, n2[n] # Null
        PROVE  p2[n2[n]] = n
    <3>1. CASE n = pv[x]
      BY <1>2, <1>5, <1>7, <3>1
    <3>2. CASE n = c
      BY <1>2, <1>5, <1>7, <3>2
    <3>3. CASE n # c /\ n # pv[x]
      <4>1. n2[n] = nx[n] /\ nx[n] \in L /\ pv[nx[n]] = n /\ nx[n] # c /\ nx[n] # x
        BY <1>0, <1>1, <1>5, <1>6, <2>1, <3>3 DEF TwoWay, LinksIn
      <4> QED BY <1>5, <4>1
    <3> QED BY <3>1, <3>2, <3>3
  <2>2. ASSUME NEW n \in L, p2[n] # Null
        PROVE  n2[p2[n]] = n
    <3>1. CASE n = x
      BY <1>2, <1>5, <1>7, <3>1
    <3>2. CASE n = c
      BY <1>2, <1>5, <1>7, <2>2, <3>2
    <3>3. CASE n # c /\ n # x
      <4>1. p2[n] = pv[n] /\ pv[n] \in L /\ nx[pv[n]] = n /\ pv[n] # c
        BY <1>0, <1>1, <1>5, <1>6, <2>2, <3>3 DEF TwoWay, LinksIn
      <4>2. pv[n] # pv[x]
        BY <1>0, <1>1, <1>2, <3>3, <4>1 DEF TwoWay
      <4> QED BY <1>5, <4>1, <4>2
    <3> QED BY <3>1, <3>2, <3>3
  <2> QED BY <2>1, <2>2 DEF TwoWay
<1>11. FirstKids(p2, k2, L)
  BY <1>0, <1>1, <1>2, <1>4, <1>5, <1>6, <1>7, <1>8 DEF FirstKids, LinksIn
<1>12. OneParent(k2, L)
  BY <1>0, <1>1, <1>5, <1>6, <1>7 DEF OneParent
<1>13. Roots(n2, p2, k2, L, H \ {c})
  BY <1>0, <1>1, <1>2, <1>5, <1>6, <1>7, <1>8 DEF Roots, TwoWay
<1> QED BY <1>1, <1>3, <1>9, <1>10, <1>11, <1>12, <1>13 DEF Shape, n2, p2, k2

(* A new node, without links.                                              *)
LEMMA ShapeNew ==
  ASSUME NEW nx, NEW pv, NEW kd, NEW L, NEW H, Shape(nx, pv, kd, L, H),
         NEW n \in Nodes \ L, nx[n] = Null, pv[n] = Null, kd[n] = Null
  PROVE  Shape(nx, pv, kd, L \cup {n}, H \cup {n})
<1>0. Null \notin Nodes
  BY JsonHeapAssumption
<1>1. /\ nx \in Maps /\ pv \in Maps /\ kd \in Maps /\ L \in SUBSET Nodes /\ H \in SUBSET L
      /\ LinksIn(nx, pv, kd, L) /\ TwoWay(nx, pv, L) /\ FirstKids(pv, kd, L)
      /\ OneParent(kd, L) /\ Roots(nx, pv, kd, L, H)
  BY DEF Shape
<1>2. LinksIn(nx, pv, kd, L \cup {n})
  BY <1>1 DEF LinksIn
<1>3. TwoWay(nx, pv, L \cup {n})
  BY <1>1 DEF TwoWay
<1>4. FirstKids(pv, kd, L \cup {n})
  BY <1>1 DEF FirstKids
<1>5. OneParent(kd, L \cup {n})
  BY <1>1 DEF OneParent
<1>6. Roots(nx, pv, kd, L \cup {n}, H \cup {n})
  BY <1>0, <1>1 DEF Roots, LinksIn
<1> QED BY <1>1, <1>2, <1>3, <1>4, <1>5, <1>6 DEF Shape

(* The nodes in D were all reached from R.                                 *)
ReachedFrom(nx, kd, R, D) ==
  \A m \in D : m \in R \/ \E k \in D : nx[k] = m \/ kd[k] = m

(* What was reached from held nodes is linked to from nowhere else.        *)
LEMMA OutsideStays ==
  ASSUME NEW nx, NEW pv, NEW kd, NEW L, NEW H, Shape(nx, pv, kd, L, H),
         NEW R \in SUBSET H, NEW D \in SUBSET L, ReachedFrom(nx, kd, R, D)
  PROVE  \A m \in L \ D : nx[m] \notin D /\ kd[m] \notin D
<1>0. Null \notin Nodes
  BY JsonHeapAssumption
<1>1. /\ nx \in Maps /\ pv \in Maps /\ kd \in Maps /\ L \in SUBSET Nodes /\ H \in SUBSET L
      /\ LinksIn(nx, pv, kd, L) /\ TwoWay(nx, pv, L) /\ FirstKids(pv, kd, L)
      /\ OneParent(kd, L) /\ Roots(nx, pv, kd, L, H)
  BY DEF Shape
<1>2. \A m \in L : nx[m] \in D => m \in D
  <2> SUFFICES ASSUME NEW m \in L, nx[m] \in D
               PROVE  m \in D
    OBVIOUS
  <2>1. pv[nx[m]] = m /\ nx[m] # Null
    BY <1>0, <1>1 DEF TwoWay
  <2>2. nx[m] \notin R
    BY <1>0, <1>1, <2>1 DEF Roots
  <2>3. PICK k \in D : nx[k] = nx[m] \/ kd[k] = nx[m]
    BY <2>2 DEF ReachedFrom
  <2>4. kd[k] # nx[m]
    BY <1>0, <1>1, <2>1 DEF FirstKids
  <2> QED BY <1>1, <2>1, <2>3, <2>4 DEF TwoWay
<1>3. \A m \in L : kd[m] \in D => m \in D
  <2> SUFFICES ASSUME NEW m \in L, kd[m] \in D
               PROVE  m \in D
    OBVIOUS
  <2>1. pv[kd[m]] = Null /\ kd[m] # Null
    BY <1>0, <1>1 DEF FirstKids
  <2>2. kd[m] \notin R
    BY <1>1 DEF Roots
  <2>3. PICK k \in D : nx[k] = kd[m] \/ kd[k] = kd[m]
    BY <2>2 DEF ReachedFrom
  <2>4. nx[k] # kd[m]
    BY <1>0, <1>1, <2>1 DEF TwoWay
  <2> QED BY <1>1, <2>1, <2>3, <2>4 DEF OneParent
<1> QED BY <1>2, <1>3

(* D and what it links to go, all of it reached from nodes that are held.  *)
LEMMA ShapeFree ==
  ASSUME NEW nx, NEW pv, NEW kd, NEW L, NEW H, Shape(nx, pv, kd, L, H),
         NEW R \in SUBSET H, NEW D \in SUBSET L, R \subseteq D,
         \A m \in D : nx[m] \in D \cup {Null} /\ kd[m] \in D \cup {Null},
         ReachedFrom(nx, kd, R, D),
         NEW n2 \in Maps, NEW p2 \in Maps, NEW k2 \in Maps,
         \A m \in L \ D : n2[m] = nx[m] /\ p2[m] = pv[m] /\ k2[m] = kd[m]
  PROVE  Shape(n2, p2, k2, L \ D, H \ R)
<1>0. Null \notin Nodes
  BY JsonHeapAssumption
<1>1. /\ nx \in Maps /\ pv \in Maps /\ kd \in Maps /\ L \in SUBSET Nodes /\ H \in SUBSET L
      /\ LinksIn(nx, pv, kd, L) /\ TwoWay(nx, pv, L) /\ FirstKids(pv, kd, L)
      /\ OneParent(kd, L) /\ Roots(nx, pv, kd, L, H)
  BY DEF Shape
<1>2. \A m \in L \ D : nx[m] \notin D /\ kd[m] \notin D
  BY OutsideStays
<1>4. \A m \in L \ D : pv[m] \notin D
  BY <1>0, <1>1 DEF TwoWay
<1>5. LinksIn(n2, p2, k2, L \ D)
  BY <1>1, <1>2, <1>4 DEF LinksIn
<1>6. TwoWay(n2, p2, L \ D)
  BY <1>1, <1>2, <1>4 DEF TwoWay, LinksIn
<1>7. FirstKids(p2, k2, L \ D)
  BY <1>1, <1>2 DEF FirstKids, LinksIn
<1>8. OneParent(k2, L \ D)
  BY <1>1 DEF OneParent
<1>9. \A m \in D : m \in H => m \in R
  BY <1>0, <1>1 DEF Roots, TwoWay, ReachedFrom
<1>10. Roots(n2, p2, k2, L \ D, H \ R)
  BY <1>1, <1>9 DEF Roots
<1>11. L \ D \in SUBSET Nodes /\ H \ R \in SUBSET (L \ D)
  BY <1>1, <1>9
<1> QED BY <1>5, <1>6, <1>7, <1>8, <1>10, <1>11 DEF Shape

(* Copies of the nodes in S: those of the ones in U are not finished and   *)
(* in no list yet, nor is that of n.                                       *)
Copied(copy, S, U, m) == IF m \in S \ U THEN copy[m] ELSE Null

(* The next or previous pointers of the copies, and their child pointers.  *)
CopiedBeside(link, copy, S, U, n, link2) ==
  \A s \in S : link2[copy[s]] = IF s \in U \cup {n} THEN Null ELSE Copied(copy, S, U, link[s])
CopiedBelow(kd, copy, S, U, k2) == \A s \in S : k2[copy[s]] = Copied(copy, S, U, kd[s])

(* If its copy is finished, n is what the other nodes in S hang from.      *)
OnTop(nx, kd, S, U, n) ==
  n \in S \ U => /\ nx[n] \notin S \ {n}
                 /\ \A m \in S : m # n => nx[m] # n /\ kd[m] # n
                 /\ kd[n] # n

(* Copies of trees are trees.                                              *)
LEMMA ShapeCopy ==
  ASSUME NEW nx, NEW pv, NEW kd, NEW L, NEW H, Shape(nx, pv, kd, L, H),
         NEW S \in SUBSET L, NEW U \in SUBSET S, NEW n,
         NEW copy \in [S -> Nodes \ L], \A s, t \in S : copy[s] = copy[t] => s = t,
         OnTop(nx, kd, S, U, n),
         NEW n2 \in Maps, NEW p2 \in Maps, NEW k2 \in Maps,
         \A m \in L : n2[m] = nx[m] /\ p2[m] = pv[m] /\ k2[m] = kd[m],
         CopiedBeside(nx, copy, S, U, n, n2), CopiedBeside(pv, copy, S, U, n, p2),
         CopiedBelow(kd, copy, S, U, k2)
  PROVE  Shape(n2, p2, k2, L \cup {copy[s] : s \in S},
               H \cup {copy[s] : s \in S \cap (U \cup {n})})
<1> DEFINE C == {copy[s] : s \in S}
           T == {copy[s] : s \in S \cap (U \cup {n})}
           M(m) == Copied(copy, S, U, m)
<1>0. Null \notin Nodes
  BY JsonHeapAssumption
<1>1. /\ nx \in Maps /\ pv \in Maps /\ kd \in Maps /\ L \in SUBSET Nodes /\ H \in SUBSET L
      /\ LinksIn(nx, pv, kd, L) /\ TwoWay(nx, pv, L) /\ FirstKids(pv, kd, L)
      /\ OneParent(kd, L) /\ Roots(nx, pv, kd, L, H)
  BY DEF Shape
<1>2. /\ \A s \in S : copy[s] \in C /\ copy[s] \in Nodes /\ copy[s] \notin L /\ s \in L
      /\ \A c \in C : \E s \in S : c = copy[s]
      /\ T \subseteq C /\ C \in SUBSET Nodes
      /\ \A s \in S : copy[s] \in T <=> s \in U \cup {n}
      /\ \A c \in T : \E s \in S : c = copy[s] /\ s \in U \cup {n}
  BY <1>1
<1> HIDE DEF C, T
<1>3. \A m : M(m) = Null \/ (m \in S \ U /\ M(m) = copy[m] /\ M(m) \in C /\ M(m) # Null)
  BY <1>0, <1>2 DEF Copied
<1>4. \A m \in S \ U : M(m) = copy[m]
  BY DEF Copied
<1>5. \A s \in S :
        /\ n2[copy[s]] = IF s \in U \cup {n} THEN Null ELSE M(nx[s])
        /\ p2[copy[s]] = IF s \in U \cup {n} THEN Null ELSE M(pv[s])
        /\ k2[copy[s]] = M(kd[s])
  BY DEF CopiedBeside, CopiedBelow
<1> HIDE DEF M
<1>6. LinksIn(n2, p2, k2, L \cup C)
  <2>1. \A m \in L : n2[m] \in L \cup {Null} /\ p2[m] \in L \cup {Null} /\ k2[m] \in L \cup {Null}
    BY <1>1 DEF LinksIn
  <2>2. \A s \in S : n2[copy[s]] \in C \cup {Null} /\ p2[copy[s]] \in C \cup {Null}
                     /\ k2[copy[s]] \in C \cup {Null}
    BY <1>3, <1>5
  <2> QED BY <1>2, <2>1, <2>2 DEF LinksIn
<1>7. TwoWay(n2, p2, L \cup C)
  <2>1. \A m \in L : (n2[m] # Null => p2[n2[m]] = m) /\ (p2[m] # Null => n2[p2[m]] = m)
    BY <1>0, <1>1 DEF TwoWay, LinksIn
  <2>2. ASSUME NEW s \in S, n2[copy[s]] # Null
        PROVE  p2[n2[copy[s]]] = copy[s]
    <3>1. s \notin U /\ s # n /\ n2[copy[s]] = M(nx[s])
      BY <1>5, <2>2
    <3>2. nx[s] \in S \ U /\ n2[copy[s]] = copy[nx[s]]
      BY <1>3, <2>2, <3>1
    <3>3. pv[nx[s]] = s
      BY <1>0, <1>1, <1>2, <3>2 DEF TwoWay
    <3>4. nx[s] # n
      BY <3>1, <3>2 DEF OnTop
    <3> QED BY <1>4, <1>5, <3>1, <3>2, <3>3, <3>4
  <2>3. ASSUME NEW s \in S, p2[copy[s]] # Null
        PROVE  n2[p2[copy[s]]] = copy[s]
    <3>1. s \notin U /\ s # n /\ p2[copy[s]] = M(pv[s])
      BY <1>5, <2>3
    <3>2. pv[s] \in S \ U /\ p2[copy[s]] = copy[pv[s]]
      BY <1>3, <2>3, <3>1
    <3>3. nx[pv[s]] = s
      BY <1>0, <1>1, <1>2, <3>2 DEF TwoWay
    <3>4. pv[s] # n
      BY <3>1, <3>2, <3>3 DEF OnTop
    <3> QED BY <1>4, <1>5, <3>1, <3>2, <3>3, <3>4
  <2> QED BY <1>2, <2>1, <2>2, <2>3 DEF TwoWay
<1>8. FirstKids(p2, k2, L \cup C)
  <2>1. \A m \in L : k2[m] # Null => p2[k2[m]] = Null
    BY <1>0, <1>1 DEF FirstKids, LinksIn
  <2>2. ASSUME NEW s \in S, k2[copy[s]] # Null
        PROVE  p2[k2[copy[s]]] = Null
    <3>1. kd[s] \in S \ U /\ k2[copy[s]] = copy[kd[s]]
      BY <1>3, <1>5, <2>2
    <3>2. pv[kd[s]] = Null
      BY <1>0, <1>1, <1>2, <3>1 DEF FirstKids
    <3>3. M(Null) = Null
      BY <1>0, <1>1, <1>3
    <3> QED BY <1>5, <3>1, <3>2, <3>3
  <2> QED BY <1>2, <2>1, <2>2 DEF FirstKids
<1>9. OneParent(k2, L \cup C)
  <2>1. \A m \in L : k2[m] = kd[m] /\ (k2[m] = Null \/ k2[m] \in L)
    BY <1>1 DEF LinksIn
  <2>2. \A s \in S : k2[copy[s]] = Null \/ (kd[s] \in S /\ k2[copy[s]] = copy[kd[s]])
    BY <1>3, <1>5
  <2>3. ASSUME NEW s \in S, NEW t \in S, k2[copy[s]] = k2[copy[t]], k2[copy[s]] # Null
        PROVE  s = t
    <3>1. kd[s] \in S /\ kd[t] \in S /\ copy[kd[s]] = copy[kd[t]]
      BY <2>2, <2>3
    <3>2. kd[s] = kd[t] /\ kd[s] # Null
      BY <1>0, <1>1, <1>2, <3>1
    <3> QED BY <1>1, <1>2, <3>2 DEF OneParent
  <2>4. ASSUME NEW m \in L, NEW s \in S
        PROVE  k2[m] # k2[copy[s]] \/ k2[m] = Null
    BY <1>0, <1>2, <2>1, <2>2
  <2> QED BY <1>1, <1>2, <2>1, <2>3, <2>4 DEF OneParent
<1>10. Roots(n2, p2, k2, L \cup C, H \cup T)
  <2>1. ASSUME NEW c \in H
        PROVE  n2[c] = Null /\ p2[c] = Null /\ \A m \in L \cup C : k2[m] # c
    <3>1. c \in L /\ nx[c] = Null /\ pv[c] = Null /\ \A m \in L : kd[m] # c
      BY <1>1 DEF Roots
    <3>2. \A s \in S : k2[copy[s]] # c
      BY <1>0, <1>1, <1>2, <1>3, <1>5, <3>1
    <3> QED BY <1>2, <3>1, <3>2
  <2>2. ASSUME NEW s \in S, s \in U \cup {n}
        PROVE  n2[copy[s]] = Null /\ p2[copy[s]] = Null /\ \A m \in L \cup C : k2[m] # copy[s]
    <3>1. \A m \in L : k2[m] # copy[s]
      BY <1>0, <1>1, <1>2 DEF LinksIn
    <3>2. ASSUME NEW t \in S, k2[copy[t]] = copy[s]
          PROVE  FALSE
      <4>1. kd[t] \in S \ U /\ copy[kd[t]] = copy[s]
        BY <1>0, <1>2, <1>3, <1>5, <3>2
      <4>2. kd[t] = s
        BY <4>1
      <4> QED BY <2>2, <4>1, <4>2 DEF OnTop
    <3> QED BY <1>2, <1>5, <2>2, <3>1, <3>2
  <2> QED BY <1>2, <2>1, <2>2 DEF Roots
<1>11. L \cup C \in SUBSET Nodes /\ H \cup T \in SUBSET (L \cup C)
  BY <1>1, <1>2
<1> QED BY <1>6, <1>7, <1>8, <1>9, <1>10, <1>11 DEF Shape, C, T

-----------------------------------------------------------------------------
(* No item is in itself: items can be given levels, the same to what is in *)
(* one list, greater ones to what is in an item.                           *)

Leveled(nx, kd, L, r) ==
  \A n \in L : /\ nx[n] # Null => r[nx[n]] = r[n]
               /\ kd[n] # Null => r[kd[n]] > r[n]

Levels == [Nodes -> Int]

(* A tree may be moved to another level as a whole.                        *)
LEMMA LevelsMove ==
  ASSUME NEW nx, NEW pv, NEW kd, NEW L, NEW H, Shape(nx, pv, kd, L, H),
         NEW r \in Levels, Leveled(nx, kd, L, r),
         NEW c \in H, NEW D \in SUBSET L, c \in D,
         \A m \in D : nx[m] \in D \cup {Null} /\ kd[m] \in D \cup {Null},
         ReachedFrom(nx, kd, {c}, D), NEW v \in Int
  PROVE  \E r2 \in Levels : /\ Leveled(nx, kd, L, r2)
                            /\ r2[c] = v /\ \A m \in L \ D : r2[m] = r[m]
<1> DEFINE r2 == [m \in Nodes |-> IF m \in D THEN r[m] - r[c] + v ELSE r[m]]
<1>0. /\ nx \in Maps /\ pv \in Maps /\ kd \in Maps /\ L \in SUBSET Nodes /\ c \in L
      /\ LinksIn(nx, pv, kd, L) /\ Null \notin Nodes
  BY JsonHeapAssumption DEF Shape
<1>1. \A m \in L \ D : nx[m] \notin D /\ kd[m] \notin D
  BY OutsideStays
<1>2. \A m \in Nodes : r[m] \in Int
  BY DEF Levels
<1>3. r2 \in Levels
  BY <1>0, <1>2 DEF Levels
<1>4. \A m \in L : r2[m] = IF m \in D THEN r[m] - r[c] + v ELSE r[m]
  BY <1>0
<1> HIDE DEF r2
<1>5. r2[c] = v
  BY <1>0, <1>2, <1>4
<1>6. ASSUME NEW m \in L
      PROVE  /\ nx[m] # Null => r2[nx[m]] = r2[m]
             /\ kd[m] # Null => r2[kd[m]] > r2[m]
  <2>1. /\ nx[m] # Null => r[nx[m]] = r[m] /\ nx[m] \in L
        /\ kd[m] # Null => r[kd[m]] > r[m] /\ kd[m] \in L
    BY <1>0 DEF Leveled, LinksIn
  <2>2. /\ nx[m] # Null => (nx[m] \in D <=> m \in D)
        /\ kd[m] # Null => (kd[m] \in D <=> m \in D)
    BY <1>1
  <2>3. nx[m] # Null => r2[nx[m]] = r2[m]
    BY <1>4, <2>1, <2>2
  <2>4. ASSUME kd[m] # Null
        PROVE  r2[kd[m]] > r2[m]
    <3>1. r[kd[m]] \in Int /\ r[m] \in Int /\ r[c] \in Int /\ r[kd[m]] > r[m] /\ kd[m] \in L
      BY <1>0, <1>2, <2>1, <2>4
    <3>2. CASE m \in D
      <4>1. r2[m] = r[m] - r[c] + v /\ r2[kd[m]] = r[kd[m]] - r[c] + v
        BY <1>4, <2>2, <2>4, <3>1, <3>2
      <4> QED BY <3>1, <4>1
    <3>3. CASE m \notin D
      <4>1. r2[m] = r[m] /\ r2[kd[m]] = r[kd[m]]
        BY <1>4, <2>2, <2>4, <3>1, <3>3
      <4> QED BY <3>1, <4>1
    <3> QED BY <3>2, <3>3
  <2> QED BY <2>3, <2>4
<1>7. Leveled(nx, kd, L, r2)
  BY <1>6 DEF Leveled
<1> QED BY <1>0, <1>3, <1>4, <1>5, <1>7

(* A first child may be on any higher level than its parent.               *)
LEMMA LevelsFirst ==
  ASSUME NEW nx, NEW pv, NEW kd, NEW L, NEW H, Shape(nx, pv, kd, L, H),
         NEW r \in Levels, Leveled(nx, kd, L, r),
         NEW p \in L, NEW c \in H, r[c] > r[p]
  PROVE  Leveled(nx, Upd(kd, p, c), L, r)
<1>1. L \in SUBSET Nodes
  BY DEF Shape
<1>2. \A n \in L : Upd(kd, p, c)[n] = IF n = p THEN c ELSE kd[n]
  BY <1>1 DEF Upd
<1> QED BY <1>2 DEF Leveled

(* What comes behind an item has to be on its level.                       *)
LEMMA LevelsLast ==
  ASSUME NEW nx, NEW pv, NEW kd, NEW L, NEW H, Shape(nx, pv, kd, L, H),
         NEW r \in Levels, Leveled(nx, kd, L, r),
         NEW b \in L, NEW c \in H, r[c] = r[b]
  PROVE  Leveled(Upd(nx, b, c), kd, L, r)
<1>1. L \in SUBSET Nodes
  BY DEF Shape
<1>2. \A n \in L : Upd(nx, b, c)[n] = IF n = b THEN c ELSE nx[n]
  BY <1>1 DEF Upd
<1> QED BY <1>2 DEF Leveled

(* So has what comes in front of it.                                       *)
LEMMA LevelsBefore ==
  ASSUME NEW nx, NEW pv, NEW kd, NEW L, NEW H, Shape(nx, pv, kd, L, H),
         NEW r \in Levels, Leveled(nx, kd, L, r),
         NEW p \in L, NEW c \in H, NEW x \in L, kd[p] = x \/ pv[x] # Null, r[c] = r[x]
  PROVE  Leveled(IF kd[p] = x THEN Upd(nx, c, x) ELSE Upd(Upd(nx, c, x), pv[x], c),
                 IF kd[p] = x THEN Upd(kd, p, c) ELSE kd, L, r)
<1> DEFINE n2 == IF kd[p] = x THEN Upd(nx, c, x) ELSE Upd(Upd(nx, c, x), pv[x], c)
           k2 == IF kd[p] = x THEN Upd(kd, p, c) ELSE kd
<1>1. L \in SUBSET Nodes /\ TwoWay(nx, pv, L) /\ LinksIn(nx, pv, kd, L) /\ Null \notin Nodes
  BY JsonHeapAssumption DEF Shape
<1>2. /\ \A n \in L : n2[n] = IF kd[p] # x /\ n = pv[x] THEN c ELSE IF n = c THEN x ELSE nx[n]
      /\ \A n \in L : k2[n] = IF kd[p] = x /\ n = p THEN c ELSE kd[n]
  BY <1>1 DEF Upd
<1>3. kd[p] # x => r[pv[x]] = r[x] /\ pv[x] \in L
  BY <1>1 DEF TwoWay, LinksIn, Leveled
<1>4. kd[p] = x => r[c] > r[p]
  BY <1>1 DEF Leveled
<1> HIDE DEF n2, k2
<1>5. Leveled(n2, k2, L, r)
  BY <1>2, <1>3, <1>4 DEF Leveled
<1> QED BY <1>5 DEF n2, k2

(* An item may leave its list.                                             *)
LEMMA LevelsOut ==
  ASSUME NEW nx, NEW pv, NEW kd, NEW L, NEW H, Shape(nx, pv, kd, L, H),
         NEW r \in Levels, Leveled(nx, kd, L, r),
         NEW p \in L, NEW x \in L, kd[p] = x \/ pv[x] # Null
  PROVE  Leveled(Upd(Upd(nx, pv[x], nx[x]), x, Null),
                 IF kd[p] = x THEN Upd(kd, p, nx[x]) ELSE kd, L, r)
<1> DEFINE n2 == Upd(Upd(nx, pv[x], nx[x]), x, Null)
           k2 == IF kd[p] = x THEN Upd(kd, p, nx[x]) ELSE kd
<1>1. L \in SUBSET Nodes /\ TwoWay(nx, pv, L) /\ LinksIn(nx, pv, kd, L) /\ Null \notin Nodes
  BY JsonHeapAssumption DEF Shape
<1>2. /\ \A n \in L : n2[n] = IF n = x THEN Null ELSE IF n = pv[x] THEN nx[x] ELSE nx[n]
      /\ \A n \in L : k2[n] = IF kd[p] = x /\ n = p THEN nx[x] ELSE kd[n]
  BY <1>1 DEF Upd
<1>3. pv[x] \in L => r[pv[x]] = r[x]
  BY <1>1 DEF TwoWay, Leveled
<1>4. nx[x] # Null => r[nx[x]] = r[x]
  BY DEF Leveled
<1>5. kd[p] = x => r[x] > r[p]
  BY <1>1 DEF Leveled
<1> HIDE DEF n2, k2
<1>6. Leveled(n2, k2, L, r)
  BY <1>2, <1>3, <1>4, <1>5 DEF Leveled
<1> QED BY <1>6 DEF n2, k2

HasLevels(nx, kd, L) == \E r \in Levels : Leveled(nx, kd, L, r)

(* Copies are on the level of what they are copies of.                     *)
LEMMA LevelsCopy ==
  ASSUME NEW nx, NEW pv, NEW kd, NEW L, NEW H, Shape(nx, pv, kd, L, H),
         HasLevels(nx, kd, L),
         NEW S \in SUBSET L, NEW U \in SUBSET S, NEW n,
         NEW copy \in [S -> Nodes \ L], \A s, t \in S : copy[s] = copy[t] => s = t,
         NEW n2, NEW k2,
         \A m \in L : n2[m] = nx[m] /\ k2[m] = kd[m],
         CopiedBeside(nx, copy, S, U, n, n2), CopiedBelow(kd, copy, S, U, k2)
  PROVE  HasLevels(n2, k2, L \cup {copy[s] : s \in S})
<1>0. PICK r \in Levels : Leveled(nx, kd, L, r)
  BY DEF HasLevels
<1> DEFINE C == {copy[s] : s \in S}
           Of(c) == CHOOSE s \in S : copy[s] = c
           r2 == [m \in Nodes |-> IF m \in C THEN r[Of(m)] ELSE r[m]]
<1>1. /\ L \in SUBSET Nodes /\ LinksIn(nx, pv, kd, L) /\ Null \notin Nodes
  BY JsonHeapAssumption DEF Shape
<1>2. \A s \in S : copy[s] \in C /\ copy[s] \in Nodes \ L /\ Of(copy[s]) = s /\ s \in L
  BY <1>1
<1>3. /\ \A c \in C : \E s \in S : c = copy[s]
      /\ \A c \in C : Of(c) \in S
  BY <1>1
<1>4. r2 \in Levels
  BY <1>0, <1>1, <1>3 DEF Levels
<1>5. \A s \in S : r2[copy[s]] = r[s]
  BY <1>2
<1>6. \A m \in L : r2[m] = r[m]
  BY <1>1, <1>2, <1>3
<1> HIDE DEF C, Of, r2
<1>7. \A m \in L : n2[m] # Null => r2[n2[m]] = r2[m]
  BY <1>0, <1>1, <1>6 DEF Leveled, LinksIn
<1>8. \A m \in L : k2[m] # Null => r2[k2[m]] > r2[m]
  BY <1>0, <1>1, <1>6 DEF Leveled, LinksIn
<1>9. ASSUME NEW s \in S, n2[copy[s]] # Null
      PROVE  r2[n2[copy[s]]] = r2[copy[s]]
  <2>1. nx[s] \in S /\ n2[copy[s]] = copy[nx[s]]
    BY <1>9 DEF Copied, CopiedBeside
  <2>2. r[nx[s]] = r[s]
    BY <1>0, <1>1, <2>1 DEF Leveled
  <2> QED BY <1>5, <2>1, <2>2
<1>10. ASSUME NEW s \in S, k2[copy[s]] # Null
       PROVE  r2[k2[copy[s]]] > r2[copy[s]]
  <2>1. kd[s] \in S /\ k2[copy[s]] = copy[kd[s]]
    BY <1>10 DEF Copied, CopiedBelow
  <2>2. r[kd[s]] > r[s]
    BY <1>0, <1>1, <2>1 DEF Leveled
  <2> QED BY <1>5, <2>1, <2>2
<1>11. Leveled(n2, k2, L \cup C, r2)
  BY <1>3, <1>7, <1>8, <1>9, <1>10 DEF Leveled
<1> QED BY <1>4, <1>11 DEF C, HasLevels

-----------------------------------------------------------------------------
(* What is reached from the held nodes.                                    *)

Along(nx, kd, T) == \A m \in T : nx[m] \in T \cup {Null} /\ kd[m] \in T \cup {Null}

(* Whatever has the held nodes and is closed under the links is all of L.  *)
Covered(nx, kd, L, H) == \A T \in SUBSET L : H \subseteq T /\ Along(nx, kd, T) => T = L

(* Whoever walks the list of p comes to x.                                 *)
Within(nx, kd, L, p, x) ==
  \A T \in SUBSET L : kd[p] \in T /\ (\A m \in T : nx[m] \in T \cup {Null}) => x \in T

(* The nodes below p, and others.                                          *)
Below(L, r, p) == {m \in L : r[m] > r[p]}

(* They are closed under the links.                                        *)
LEMMA BelowAlong ==
  ASSUME NEW nx, NEW pv, NEW kd, NEW L, NEW H, Shape(nx, pv, kd, L, H),
         NEW r \in Levels, Leveled(nx, kd, L, r), NEW p \in L
  PROVE  Along(nx, kd, Below(L, r, p)) /\ p \notin Below(L, r, p)
<1>1. L \in SUBSET Nodes /\ LinksIn(nx, pv, kd, L)
  BY DEF Shape
<1>2. \A m \in L : r[m] \in Int
  BY <1>1 DEF Levels
<1>3. p \notin Below(L, r, p)
  BY <1>2 DEF Below
<1>4. ASSUME NEW m \in Below(L, r, p)
      PROVE  nx[m] \in Below(L, r, p) \cup {Null} /\ kd[m] \in Below(L, r, p) \cup {Null}
  <2>1. m \in L /\ r[m] > r[p] /\ nx[m] \in L \cup {Null} /\ kd[m] \in L \cup {Null}
    BY <1>1, <1>4 DEF Below, LinksIn
  <2>2. nx[m] # Null => r[nx[m]] = r[m]
    BY <2>1 DEF Leveled
  <2>3. kd[m] # Null => r[kd[m]] > r[m]
    BY <2>1 DEF Leveled
  <2>4. kd[m] # Null => r[kd[m]] > r[p]
    BY <1>2, <2>1, <2>3
  <2> QED BY <2>1, <2>2, <2>4 DEF Below
<1> QED BY <1>3, <1>4 DEF Along

(* A list of p is below p.                                                 *)
LEMMA WithinBelow ==
  ASSUME NEW nx, NEW pv, NEW kd, NEW L, NEW H, Shape(nx, pv, kd, L, H),
         NEW r \in Levels, Leveled(nx, kd, L, r), NEW p \in L, kd[p] # Null,
         NEW x, Within(nx, kd, L, p, x)
  PROVE  x \in Below(L, r, p)
<1> DEFINE T == Below(L, r, p)
<1>1. Along(nx, kd, T)
  BY BelowAlong
<1>2. kd[p] \in T
  BY DEF Shape, LinksIn, Leveled, Below
<1>3. T \in SUBSET L
  BY DEF Below
<1> HIDE DEF T
<1>4. x \in T
  BY <1>1, <1>2, <1>3 DEF Along, Within
<1> QED BY <1>4 DEF T

(* All is still reached when the links have changed, if what is closed     *)
(* under the new ones would be closed under the old ones too if it had     *)
(* what is below p, and is so by itself if it has p.                       *)
LEMMA CoverVia ==
  ASSUME NEW nx, NEW pv, NEW kd, NEW L, NEW H, Shape(nx, pv, kd, L, H),
         NEW r \in Levels, Leveled(nx, kd, L, r), Covered(nx, kd, L, H), NEW p \in L,
         NEW n2, NEW k2, NEW H2,
         \A T \in SUBSET L : H2 \subseteq T /\ Along(n2, k2, T) =>
           /\ H \subseteq T \cup Below(L, r, p)
           /\ \A m \in T : /\ nx[m] \in T \cup Below(L, r, p) \cup {Null}
                           /\ kd[m] \in T \cup Below(L, r, p) \cup {Null}
           /\ p \in T => H \subseteq T /\ Along(nx, kd, T)
  PROVE  Covered(n2, k2, L, H2)
<1> SUFFICES ASSUME NEW T \in SUBSET L, H2 \subseteq T, Along(n2, k2, T)
             PROVE  T = L
  BY DEF Covered
<1> DEFINE B == Below(L, r, p)
<1>1. Along(nx, kd, B) /\ p \notin B
  BY BelowAlong
<1>2. B \in SUBSET L
  BY DEF Below
<1>3. /\ H \subseteq T \cup B
      /\ \A m \in T : nx[m] \in T \cup B \cup {Null} /\ kd[m] \in T \cup B \cup {Null}
      /\ p \in T => H \subseteq T /\ Along(nx, kd, T)
  OBVIOUS
<1> HIDE DEF B
<1>4. Along(nx, kd, T \cup B)
  BY <1>1, <1>3 DEF Along
<1>5. T \cup B = L
  BY <1>2, <1>3, <1>4 DEF Covered
<1>6. p \in T
  BY <1>1, <1>5
<1> QED BY <1>3, <1>6 DEF Covered

(* c becomes the only item in p.                                           *)
LEMMA CoverFirst ==
  ASSUME NEW nx, NEW pv, NEW kd, NEW L, NEW H, Shape(nx, pv, kd, L, H),
         NEW r \in Levels, Leveled(nx, kd, L, r), Covered(nx, kd, L, H),
         NEW p \in L, NEW c \in H, kd[p] = Null, r[c] > r[p]
  PROVE  Covered(nx, Upd(kd, p, c), L, H \ {c})
<1> DEFINE k2 == Upd(kd, p, c)
           H2 == H \ {c}
<1>0. L \in SUBSET Nodes /\ H \in SUBSET L
  BY DEF Shape
<1>1. \A m \in L : k2[m] = IF m = p THEN c ELSE kd[m]
  BY <1>0 DEF Upd
<1>2. c \in Below(L, r, p)
  BY <1>0 DEF Below
<1> HIDE DEF k2
<1>3. ASSUME NEW T \in SUBSET L, H2 \subseteq T, Along(nx, k2, T)
      PROVE  /\ H \subseteq T \cup Below(L, r, p)
             /\ \A m \in T : /\ nx[m] \in T \cup Below(L, r, p) \cup {Null}
                             /\ kd[m] \in T \cup Below(L, r, p) \cup {Null}
             /\ p \in T => H \subseteq T /\ Along(nx, kd, T)
  <2>1. \A m \in T : nx[m] \in T \cup {Null} /\ kd[m] \in T \cup {Null}
    BY <1>1, <1>3 DEF Along
  <2>2. p \in T => c \in T
    BY <1>0, <1>1, <1>3, JsonHeapAssumption DEF Along
  <2> QED BY <1>2, <1>3, <2>1, <2>2 DEF Along
<1> HIDE DEF H2
<1>4. Covered(nx, k2, L, H2)
  BY <1>3, CoverVia
<1> QED BY <1>4 DEF k2, H2

(* c becomes the last item of the list of p, which ended with b.           *)
LEMMA CoverLast ==
  ASSUME NEW nx, NEW pv, NEW kd, NEW L, NEW H, Shape(nx, pv, kd, L, H),
         NEW r \in Levels, Leveled(nx, kd, L, r), Covered(nx, kd, L, H),
         NEW p \in L, NEW c \in H, kd[p] # Null,
         NEW b \in L, nx[b] = Null, Within(nx, kd, L, p, b), r[c] = r[b]
  PROVE  Covered(Upd(nx, b, c), kd, L, H \ {c})
<1> DEFINE n2 == Upd(nx, b, c)
           H2 == H \ {c}
<1>0. L \in SUBSET Nodes /\ H \in SUBSET L
  BY DEF Shape
<1>1. \A m \in L : n2[m] = IF m = b THEN c ELSE nx[m]
  BY <1>0 DEF Upd
<1>2. c \in Below(L, r, p)
  <2>1. b \in Below(L, r, p)
    BY WithinBelow
  <2> QED BY <1>0, <2>1 DEF Below
<1> HIDE DEF n2
<1>3. ASSUME NEW T \in SUBSET L, H2 \subseteq T, Along(n2, kd, T)
      PROVE  /\ H \subseteq T \cup Below(L, r, p)
             /\ \A m \in T : /\ nx[m] \in T \cup Below(L, r, p) \cup {Null}
                             /\ kd[m] \in T \cup Below(L, r, p) \cup {Null}
             /\ p \in T => H \subseteq T /\ Along(nx, kd, T)
  <2>1. \A m \in T : nx[m] \in T \cup {Null} /\ kd[m] \in T \cup {Null}
    BY <1>1, <1>3 DEF Along
  <2>2. ASSUME p \in T
        PROVE  c \in T
    <3>1. kd[p] \in T
      BY <2>1, <2>2
    <3>2. b \in T
      BY <2>1, <3>1 DEF Within
    <3>3. n2[b] = c
      BY <1>1
    <3>4. c # Null
      BY <1>0, JsonHeapAssumption
    <3> QED BY <1>3, <3>2, <3>3, <3>4 DEF Along
  <2> QED BY <1>2, <1>3, <2>1, <2>2 DEF Along
<1> HIDE DEF H2
<1>4. Covered(n2, kd, L, H2)
  BY <1>3, CoverVia
<1> QED BY <1>4 DEF n2, H2

(* If x is in the list of p but not first, whoever walks it comes to the   *)
(* item in front of x.                                                     *)
LEMMA WithinFront ==
  ASSUME NEW nx, NEW pv, NEW kd, NEW L, NEW H, Shape(nx, pv, kd, L, H),
         NEW p \in L, NEW x \in L, Within(nx, kd, L, p, x), kd[p] # x,
         NEW T \in SUBSET L, kd[p] \in T,
         \A m \in T \ {x, pv[x]} : nx[m] \in T \cup {Null}
  PROVE  pv[x] \in T
<1> SUFFICES ASSUME pv[x] \notin T
             PROVE  FALSE
  OBVIOUS
<1> DEFINE V == T \ {x}
<1>1. \A m \in V : nx[m] \in V \cup {Null}
  <2> SUFFICES ASSUME NEW m \in V, nx[m] # Null
               PROVE  nx[m] \in V
    OBVIOUS
  <2>1. nx[m] \in T
    OBVIOUS
  <2>2. pv[nx[m]] = m
    BY DEF Shape, TwoWay
  <2> QED BY <2>1, <2>2
<1>2. V \in SUBSET L /\ kd[p] \in V
  OBVIOUS
<1>3. x \in V
  BY <1>1, <1>2 DEF Within
<1> QED BY <1>3

(* x leaves the list of p and is held.                                     *)
LEMMA CoverOut ==
  ASSUME NEW nx, NEW pv, NEW kd, NEW L, NEW H, Shape(nx, pv, kd, L, H),
         NEW r \in Levels, Leveled(nx, kd, L, r), Covered(nx, kd, L, H),
         NEW p \in L, NEW x \in L, kd[p] = x \/ pv[x] # Null, nx[x] # x,
         kd[p] # Null, Within(nx, kd, L, p, x)
  PROVE  Covered(Upd(Upd(nx, pv[x], nx[x]), x, Null),
                 IF kd[p] = x THEN Upd(kd, p, nx[x]) ELSE kd, L, H \cup {x})
<1> DEFINE a == pv[x]
           y == nx[x]
           n2 == Upd(Upd(nx, a, y), x, Null)
           k2 == IF kd[p] = x THEN Upd(kd, p, y) ELSE kd
           H2 == H \cup {x}
<1>0. /\ L \in SUBSET Nodes /\ H \in SUBSET L /\ Null \notin L
      /\ LinksIn(nx, pv, kd, L) /\ TwoWay(nx, pv, L) /\ FirstKids(pv, kd, L) /\ OneParent(kd, L)
  BY JsonHeapAssumption DEF Shape
<1>1. /\ a \in L \cup {Null} /\ y \in L \cup {Null} /\ a # x
      /\ a # Null => nx[a] = x
      /\ \A m \in L : nx[m] = x => m = a
      /\ \A m \in L : kd[m] = x => m = p /\ kd[p] = x
  <2>1. a \in L \cup {Null} /\ y \in L \cup {Null} /\ (a # Null => nx[a] = x)
    BY <1>0 DEF LinksIn, TwoWay
  <2>2. \A m \in L : nx[m] = x => m = a
    BY <1>0 DEF TwoWay
  <2>3. \A m \in L : kd[m] = x => m = p /\ kd[p] = x
    <3> SUFFICES ASSUME NEW m \in L, kd[m] = x
                 PROVE  m = p /\ kd[p] = x
      OBVIOUS
    <3>1. x # Null
      BY <1>0
    <3>2. a = Null
      BY <1>0, <3>1 DEF FirstKids
    <3> QED BY <1>0, <3>1, <3>2 DEF OneParent
  <2>4. a # x
    BY <1>0, <2>1
  <2> QED BY <2>1, <2>2, <2>3, <2>4
<1>2. /\ \A m \in L : n2[m] = IF m = x THEN Null ELSE IF m = a THEN y ELSE nx[m]
      /\ \A m \in L : k2[m] = IF kd[p] = x /\ m = p THEN y ELSE kd[m]
  BY <1>0 DEF Upd
<1>3. y \in Below(L, r, p) \cup {Null}
  <2>1. x \in Below(L, r, p)
    BY WithinBelow
  <2>2. y # Null => r[y] = r[x]
    BY DEF Leveled
  <2> QED BY <1>1, <2>1, <2>2 DEF Below
<1> HIDE DEF a, y, n2, k2
<1>4. ASSUME NEW T \in SUBSET L, H2 \subseteq T, Along(n2, k2, T)
      PROVE  /\ H \subseteq T \cup Below(L, r, p)
             /\ \A m \in T : /\ nx[m] \in T \cup Below(L, r, p) \cup {Null}
                             /\ kd[m] \in T \cup Below(L, r, p) \cup {Null}
             /\ p \in T => H \subseteq T /\ Along(nx, kd, T)
  <2>0. x \in T /\ H \subseteq T
    BY <1>4
  <2>1. \A m \in T : kd[m] \in T \cup {Null}
    BY <1>2, <1>4, <2>0 DEF Along
  <2>2. \A m \in T : m # x => nx[m] \in T \cup {Null}
    <3> SUFFICES ASSUME NEW m \in T, m # x
                 PROVE  nx[m] \in T \cup {Null}
      OBVIOUS
    <3>1. CASE m = a
      BY <1>0, <1>1, <2>0, <3>1
    <3>2. CASE m # a
      BY <1>2, <1>4, <3>2 DEF Along
    <3> QED BY <3>1, <3>2
  <2>3. nx[x] = y
    BY DEF y
  <2>4. ASSUME p \in T
        PROVE  y \in T \cup {Null}
    <3>1. CASE kd[p] = x
      BY <1>2, <1>4, <2>4, <3>1 DEF Along
    <3>2. CASE kd[p] # x
      <4>1. kd[p] \in T
        BY <2>1, <2>4
      <4>2. a \in T
        BY <2>2, <3>2, <4>1, WithinFront DEF a
      <4>3. n2[a] = y
        BY <1>1, <1>2, <4>2
      <4> QED BY <1>4, <4>2, <4>3 DEF Along
    <3> QED BY <3>1, <3>2
  <2> QED BY <1>3, <2>0, <2>1, <2>2, <2>3, <2>4 DEF Along
<1> HIDE DEF H2
<1>5. Covered(n2, k2, L, H2)
  BY <1>4, CoverVia
<1> QED BY <1>5 DEF n2, k2, H2, a, y

(* c comes into the list of p in front of x.                               *)
LEMMA CoverBefore ==
  ASSUME NEW nx, NEW pv, NEW kd, NEW L, NEW H, Shape(nx, pv, kd, L, H),
         NEW r \in Levels, Leveled(nx, kd, L, r), Covered(nx, kd, L, H),
         NEW p \in L, NEW c \in H, NEW x \in L, kd[p] = x \/ pv[x] # Null,
         kd[p] # Null, Within(nx, kd, L, p, x), r[c] = r[x]
  PROVE  LET n2 == IF kd[p] = x THEN Upd(nx, c, x) ELSE Upd(Upd(nx, c, x), pv[x], c)
             k2 == IF kd[p] = x THEN Upd(kd, p, c) ELSE kd
         IN  Covered(n2, k2, L, H \ {c}) /\ Within(n2, k2, L, p, x)
<1> DEFINE a == pv[x]
           n2 == IF kd[p] = x THEN Upd(nx, c, x) ELSE Upd(Upd(nx, c, x), a, c)
           k2 == IF kd[p] = x THEN Upd(kd, p, c) ELSE kd
           H2 == H \ {c}
<1>0. /\ L \in SUBSET Nodes /\ H \in SUBSET L /\ Null \notin L /\ c \in L
      /\ LinksIn(nx, pv, kd, L) /\ TwoWay(nx, pv, L) /\ Roots(nx, pv, kd, L, H)
  BY JsonHeapAssumption DEF Shape
<1>1. /\ nx[c] = Null /\ (a # Null => a \in L /\ nx[a] = x /\ a # c)
      /\ kd[p] # x => a \in L
  BY <1>0 DEF LinksIn, TwoWay, Roots
<1>2. /\ \A m \in L : n2[m] = IF kd[p] # x /\ m = a THEN c ELSE IF m = c THEN x ELSE nx[m]
      /\ \A m \in L : k2[m] = IF kd[p] = x /\ m = p THEN c ELSE kd[m]
  BY <1>0 DEF Upd
<1>3. c \in Below(L, r, p)
  <2>1. x \in Below(L, r, p)
    BY WithinBelow
  <2> QED BY <1>0, <2>1 DEF Below
<1> HIDE DEF a, n2, k2
<1>10. ASSUME NEW T \in SUBSET L, \A m \in T : n2[m] \in T \cup {Null}
       PROVE  /\ \A m \in T : nx[m] \in T \cup {Null}
              /\ c \in T => x \in T
  <2>1. c \in T => x \in T
    BY <1>0, <1>1, <1>2, <1>10
  <2> SUFFICES ASSUME NEW m \in T
               PROVE  nx[m] \in T \cup {Null}
    BY <2>1
  <2>2. CASE m = c
    BY <1>1, <2>2
  <2>3. CASE m # c /\ kd[p] # x /\ m = a
    <3>1. n2[m] = c
      BY <1>2, <2>3
    <3>2. c \in T
      BY <1>0, <1>10, <3>1
    <3> QED BY <1>0, <1>1, <2>1, <2>3, <3>2
  <2>4. CASE m # c /\ ~ (kd[p] # x /\ m = a)
    BY <1>2, <1>10, <2>4
  <2> QED BY <2>2, <2>3, <2>4
<1>4. ASSUME NEW T \in SUBSET L, H2 \subseteq T, Along(n2, k2, T)
      PROVE  /\ H \subseteq T \cup Below(L, r, p)
             /\ \A m \in T : /\ nx[m] \in T \cup Below(L, r, p) \cup {Null}
                             /\ kd[m] \in T \cup Below(L, r, p) \cup {Null}
             /\ p \in T => H \subseteq T /\ Along(nx, kd, T)
  <2>1. (\A m \in T : nx[m] \in T \cup {Null}) /\ (c \in T => x \in T)
    BY <1>4, <1>10 DEF Along
  <2>2. \A m \in T : kd[m] \in T \cup {Null}
    <3> SUFFICES ASSUME NEW m \in T
                 PROVE  kd[m] \in T \cup {Null}
      OBVIOUS
    <3>1. CASE kd[p] = x /\ m = p
      <4>1. c \in T
        BY <1>0, <1>2, <1>4, <3>1 DEF Along
      <4> QED BY <2>1, <3>1, <4>1
    <3>2. CASE ~ (kd[p] = x /\ m = p)
      BY <1>2, <1>4, <3>2 DEF Along
    <3> QED BY <3>1, <3>2
  <2>3. ASSUME p \in T
        PROVE  c \in T
    <3>1. CASE kd[p] = x
      BY <1>0, <1>2, <1>4, <2>3, <3>1 DEF Along
    <3>2. CASE kd[p] # x
      <4>1. kd[p] \in T
        BY <2>2, <2>3
      <4>2. a \in T
        BY <2>1, <3>2, <4>1, WithinFront DEF a
      <4>3. n2[a] = c
        BY <1>1, <1>2, <3>2
      <4> QED BY <1>0, <1>4, <4>2, <4>3 DEF Along
    <3> QED BY <3>1, <3>2
  <2> QED BY <1>3, <1>4, <2>1, <2>2, <2>3 DEF Along
<1>5. Covered(n2, k2, L, H2)
  <2> HIDE DEF H2
  <2> QED BY <1>4, CoverVia
<1>6. Within(n2, k2, L, p, x)
  <2> SUFFICES ASSUME NEW T \in SUBSET L, k2[p] \in T, \A m \in T : n2[m] \in T \cup {Null}
               PROVE  x \in T
    BY DEF Within
  <2>1. (\A m \in T : nx[m] \in T \cup {Null}) /\ (c \in T => x \in T)
    BY <1>10
  <2>2. CASE kd[p] = x
    BY <1>2, <2>1, <2>2
  <2>3. CASE kd[p] # x
    <3>1. kd[p] \in T
      BY <1>2, <2>3
    <3> QED BY <2>1, <3>1 DEF Within
  <2> QED BY <2>2, <2>3
<1> QED BY <1>5, <1>6 DEF n2, k2, H2, a

(* A new node is held.                                                     *)
LEMMA CoverNew ==
  ASSUME NEW nx, NEW pv, NEW kd, NEW L, NEW H, Shape(nx, pv, kd, L, H),
         Covered(nx, kd, L, H), NEW n \in Nodes \ L
  PROVE  Covered(nx, kd, L \cup {n}, H \cup {n})
<1> SUFFICES ASSUME NEW T \in SUBSET (L \cup {n}), H \cup {n} \subseteq T, Along(nx, kd, T)
             PROVE  T = L \cup {n}
  BY DEF Covered
<1> DEFINE V == T \cap L
<1>1. H \in SUBSET L /\ LinksIn(nx, pv, kd, L)
  BY DEF Shape
<1>2. V \in SUBSET L /\ H \subseteq V
  BY <1>1
<1>3. Along(nx, kd, V)
  BY <1>1 DEF Along, LinksIn
<1> HIDE DEF V
<1>4. V = L
  BY <1>2, <1>3 DEF Covered
<1> QED BY <1>4 DEF V

(* The links of the nodes in S are what they were.                         *)
Unmoved(n2, k2, nx, kd, S) == \A m \in S : n2[m] = nx[m] /\ k2[m] = kd[m]

(* What is reached from some held nodes goes with them.                    *)
LEMMA CoverFree ==
  ASSUME NEW nx, NEW kd, NEW L, NEW H, Covered(nx, kd, L, H),
         NEW R \in SUBSET H, NEW D \in SUBSET L, R \subseteq D, Along(nx, kd, D),
         NEW n2, NEW k2, Unmoved(n2, k2, nx, kd, L \ D)
  PROVE  Covered(n2, k2, L \ D, H \ R)
<1> SUFFICES ASSUME NEW T \in SUBSET (L \ D), H \ R \subseteq T, Along(n2, k2, T)
             PROVE  T = L \ D
  BY DEF Covered
<1>1. T \cup D \in SUBSET L /\ H \subseteq T \cup D
  OBVIOUS
<1>2. Along(nx, kd, T \cup D)
  BY DEF Along, Unmoved
<1>3. T \cup D = L
  BY <1>1, <1>2 DEF Covered
<1> QED BY <1>3

(* What is in front of an item of S, or above it, is in S and copied with  *)
(* its link, unless the copy of the item is loose.                         *)
Inside(nx, kd, L, H, S, U, n) ==
  \A s \in S \ (U \cup {n}) :
    /\ s \notin H
    /\ \A m \in L : /\ nx[m] = s => m \in S \ (U \cup {n})
                    /\ kd[m] = s => m \in S

(* All copies are reached from the loose ones.                             *)
LEMMA CoverCopy ==
  ASSUME NEW nx, NEW pv, NEW kd, NEW L, NEW H, Shape(nx, pv, kd, L, H),
         Covered(nx, kd, L, H),
         NEW S \in SUBSET L, NEW U \in SUBSET S, NEW n,
         NEW copy \in [S -> Nodes \ L], \A s, t \in S : copy[s] = copy[t] => s = t,
         Inside(nx, kd, L, H, S, U, n),
         NEW n2, NEW k2,
         \A m \in L : n2[m] = nx[m] /\ k2[m] = kd[m],
         CopiedBeside(nx, copy, S, U, n, n2), CopiedBelow(kd, copy, S, U, k2)
  PROVE  Covered(n2, k2, L \cup {copy[s] : s \in S},
                 H \cup {copy[s] : s \in S \cap (U \cup {n})})
<1> DEFINE M == {copy[s] : s \in S}
           H2 == H \cup {copy[s] : s \in S \cap (U \cup {n})}
<1> SUFFICES ASSUME NEW T \in SUBSET (L \cup M), H2 \subseteq T, Along(n2, k2, T)
             PROVE  L \cup M \subseteq T
  BY DEF Covered
<1>0. /\ L \in SUBSET Nodes /\ H \in SUBSET L /\ Null \notin Nodes /\ LinksIn(nx, pv, kd, L)
  BY JsonHeapAssumption DEF Shape
<1>1. \A s \in S : copy[s] \in Nodes \ L
  OBVIOUS
<1>2. T \cap L = L
  <2> DEFINE V == T \cap L
  <2>1. V \in SUBSET L /\ H \subseteq V
    BY <1>0
  <2>2. Along(nx, kd, V)
    BY <1>0 DEF Along, LinksIn
  <2> HIDE DEF V
  <2>3. V = L
    BY <2>1, <2>2 DEF Covered
  <2> QED BY <2>3 DEF V
<1> DEFINE V == {m \in L : m \in S => copy[m] \in T}
<1>3. V \in SUBSET L /\ H \subseteq V
  <2>1. \A s \in S \cap H : s \in U \cup {n}
    BY DEF Inside
  <2> QED BY <1>0, <2>1
<1>4. \A s \in S : s \notin V => s \in S \ (U \cup {n}) /\ copy[s] \notin T
  OBVIOUS
<1>5. ASSUME NEW m \in V, nx[m] # Null
      PROVE  nx[m] \in V
  <2>1. m \in L /\ nx[m] \in L
    <3>1. m \in L
      OBVIOUS
    <3> QED BY <1>0, <1>5, <3>1 DEF LinksIn
  <2> SUFFICES ASSUME nx[m] \in S, nx[m] \notin V
               PROVE  FALSE
    BY <2>1
  <2>2. nx[m] \in S \ (U \cup {n}) /\ copy[nx[m]] \notin T
    BY <1>4
  <2>3. m \in S \ (U \cup {n})
    BY <2>2 DEF Inside
  <2>4. n2[copy[m]] = copy[nx[m]]
    BY <2>2, <2>3 DEF CopiedBeside, Copied
  <2>5. copy[m] \in T
    BY <2>3
  <2>6. copy[nx[m]] # Null
    BY <1>0, <1>1, <2>2
  <2> QED BY <2>2, <2>4, <2>5, <2>6 DEF Along
<1>6. ASSUME NEW m \in V, kd[m] # Null
      PROVE  kd[m] \in V
  <2>1. m \in L /\ kd[m] \in L
    <3>1. m \in L
      OBVIOUS
    <3> QED BY <1>0, <1>6, <3>1 DEF LinksIn
  <2> SUFFICES ASSUME kd[m] \in S, kd[m] \notin V
               PROVE  FALSE
    BY <2>1
  <2>2. kd[m] \in S \ (U \cup {n}) /\ copy[kd[m]] \notin T
    BY <1>4
  <2>3. m \in S
    BY <2>2 DEF Inside
  <2>4. k2[copy[m]] = copy[kd[m]]
    BY <2>2, <2>3 DEF CopiedBelow, Copied
  <2>5. copy[m] \in T
    BY <2>3
  <2>6. copy[kd[m]] # Null
    BY <1>0, <1>1, <2>2
  <2> QED BY <2>2, <2>4, <2>5, <2>6 DEF Along
<1>7. V = L
  <2> HIDE DEF V
  <2>1. Along(nx, kd, V)
    BY <1>5, <1>6 DEF Along
  <2> QED BY <1>3, <2>1 DEF Covered
<1>8. \A s \in S : copy[s] \in T
  BY <1>7
<1> QED BY <1>2, <1>8

-----------------------------------------------------------------------------
(* Walking in a forest.                                                    *)

(* No node is inside itself, and all are reached from the held ones.       *)
Forest(nx, pv, kd, L, H) ==
  /\ Shape(nx, pv, kd, L, H)
  /\ \E r \in Levels : Leveled(nx, kd, L, r)
  /\ Covered(nx, kd, L, H)

HeapForest(h, L, H) == h \in Heaps /\ Forest(Nx(h), Pv(h), Kd(h), L, H)

(* What there is to know about a heap that is a forest.                    *)
LEMMA HeapForestIs ==
  ASSUME NEW h, NEW L, NEW H, HeapForest(h, L, H)
  PROVE  /\ h \in Heaps /\ L \in SUBSET Nodes /\ H \in SUBSET L /\ Null \notin Nodes
         /\ Nx(h) \in Maps /\ Pv(h) \in Maps /\ Kd(h) \in Maps
         /\ Shape(Nx(h), Pv(h), Kd(h), L, H)
         /\ LinksIn(Nx(h), Pv(h), Kd(h), L) /\ TwoWay(Nx(h), Pv(h), L)
         /\ FirstKids(Pv(h), Kd(h), L) /\ OneParent(Kd(h), L)
         /\ Roots(Nx(h), Pv(h), Kd(h), L, H)
         /\ \E r \in Levels : Leveled(Nx(h), Kd(h), L, r)
         /\ Covered(Nx(h), Kd(h), L, H)
         /\ \A n \in Nodes : Nx(h)[n] = h[n].next /\ Pv(h)[n] = h[n].prev
         /\ \A n \in Nodes : h[n].ref = FALSE => Kd(h)[n] = h[n].child
<1>1. \A n \in Nodes : Nx(h)[n] = h[n].next /\ Pv(h)[n] = h[n].prev
  BY DEF Nx, Pv
<1>2. \A n \in Nodes : h[n].ref = FALSE => Kd(h)[n] = h[n].child
  BY DEF Kd
<1> QED BY <1>1, <1>2, JsonHeapAssumption DEF HeapForest, Forest, Shape

(* No list is a ring: nothing outside would lead to it.                    *)
LEMMA NoRing ==
  ASSUME NEW h, NEW L, NEW H, HeapForest(h, L, H),
         NEW W \in SUBSET L, \A w \in W : \E v \in W : Nx(h)[v] = w
  PROVE  W = {}
<1> DEFINE T == L \ W
<1>0. /\ L \in SUBSET Nodes /\ H \in SUBSET L /\ Null \notin Nodes
      /\ LinksIn(Nx(h), Pv(h), Kd(h), L) /\ TwoWay(Nx(h), Pv(h), L)
      /\ FirstKids(Pv(h), Kd(h), L) /\ Roots(Nx(h), Pv(h), Kd(h), L, H)
      /\ Covered(Nx(h), Kd(h), L, H)
  BY HeapForestIs
<1>1. \A w \in W : Pv(h)[w] \in W /\ Pv(h)[w] # Null
  <2> SUFFICES ASSUME NEW w \in W
               PROVE  Pv(h)[w] \in W /\ Pv(h)[w] # Null
    OBVIOUS
  <2>1. PICK v \in W : Nx(h)[v] = w
    OBVIOUS
  <2>2. Pv(h)[w] = v
    BY <1>0, <2>1 DEF TwoWay
  <2> QED BY <1>0, <2>2
<1>2. H \subseteq T
  BY <1>0, <1>1 DEF Roots
<1>3. Along(Nx(h), Kd(h), T)
  <2> SUFFICES ASSUME NEW m \in T
               PROVE  Nx(h)[m] \in T \cup {Null} /\ Kd(h)[m] \in T \cup {Null}
    BY DEF Along
  <2>1. Nx(h)[m] \in L \cup {Null} /\ Kd(h)[m] \in L \cup {Null}
    BY <1>0 DEF LinksIn
  <2>2. Nx(h)[m] \notin W
    BY <1>0, <1>1 DEF TwoWay
  <2>3. Kd(h)[m] \notin W
    BY <1>0, <1>1 DEF FirstKids
  <2> QED BY <2>1, <2>2, <2>3
<1>4. T = L
  <2> HIDE DEF T
  <2>1. T \in SUBSET L
    BY DEF T
  <2> QED BY <1>0, <1>2, <1>3, <2>1 DEF Covered
<1> QED BY <1>4

(* A walk comes to an end: it meets no node twice.                         *)
LEMMA WalkEnds ==
  ASSUME NEW h, NEW L, NEW H, HeapForest(h, L, H), NEW f \in L
  PROVE  \E k \in 0..Size : Walk(h, f)[k] = Null
<1> DEFINE at == Walk(h, f)
<1>0. /\ h \in Heaps /\ L \in SUBSET Nodes /\ Null \notin Nodes
      /\ LinksIn(Nx(h), Pv(h), Kd(h), L)
      /\ \A n \in Nodes : Nx(h)[n] = h[n].next
  BY HeapForestIs, ZenonT(60)
<1>1. SUFFICES ASSUME \A k \in 0..Size : at[k] # Null
               PROVE  FALSE
  OBVIOUS
<1>2. f \in Links
  BY <1>0 DEF Links
<1>3. /\ at \in [0..Size -> Links] /\ at[0] = f
      /\ \A k \in 1..Size : at[k] = IF at[k - 1] = Null THEN Null ELSE h[at[k - 1]].next
  BY <1>0, <1>2, WalkIs
<1>4. \A k \in 0..Size : at[k] \in L \cup {Null}
  <2>1. \A m \in L : h[m].next \in L \cup {Null}
    BY <1>0 DEF LinksIn
  <2> QED BY <1>0, <2>1, WalkStays
<1> HIDE DEF at
<1>5. \A k \in 0..Size : at[k] \in L
  BY <1>1, <1>4
<1>6. \A k \in 1..Size : k - 1 \in 0..Size /\ k \in 0..Size /\ Nx(h)[at[k - 1]] = at[k]
  <2> SUFFICES ASSUME NEW k \in 1..Size
               PROVE  k - 1 \in 0..Size /\ k \in 0..Size /\ Nx(h)[at[k - 1]] = at[k]
    OBVIOUS
  <2>1. k - 1 \in 0..Size /\ k \in 0..Size
    BY SizeNat
  <2> QED BY <1>0, <1>1, <1>3, <1>5, <2>1
<1>8. at \in [0..Size -> Nodes]
  BY <1>0, <1>3, <1>5
<1>9. IsFiniteSet(0..Size) /\ Cardinality(Nodes) < Cardinality(0..Size)
  BY SizeNat, FS_Interval DEF Size
<1>10. \E i, j \in 0..Size : i # j /\ at[i] = at[j]
  BY <1>8, <1>9, SizeNat, FS_PigeonHole
<1>11. PICK i \in 0..Size, j \in 0..Size : i < j /\ at[i] = at[j]
  <2>1. PICK i \in 0..Size, j \in 0..Size : i # j /\ at[i] = at[j]
    BY <1>10
  <2>2. i < j \/ j < i
    BY <2>1, SizeNat
  <2> QED BY <2>1, <2>2
<1> DEFINE W == {at[k] : k \in i..j}
<1>12. \A k \in i..j : k \in 0..Size
  BY SizeNat
<1>13. W \in SUBSET L /\ at[i] \in W
  BY <1>5, <1>11, <1>12, SizeNat
<1>14. \A w \in W : \E v \in W : Nx(h)[v] = w
  <2> SUFFICES ASSUME NEW k \in i..j
               PROVE  \E v \in W : Nx(h)[v] = at[k]
    OBVIOUS
  <2>1. CASE k # i
    <3>1. k \in 1..Size /\ k - 1 \in i..j
      BY <2>1, SizeNat
    <3> QED BY <1>6, <3>1
  <2>2. CASE k = i
    <3>1. j \in 1..Size /\ j - 1 \in i..j
      BY <1>11, SizeNat
    <3> QED BY <1>6, <1>11, <2>2, <3>1
  <2> QED BY <2>1, <2>2
<1> HIDE DEF W
<1>15. W = {}
  BY <1>13, <1>14, NoRing
<1> QED BY <1>13, <1>15

(* The siblings from f on, in order, up to one with nobody behind it.      *)
LEMMA SiblingsAre ==
  ASSUME NEW h, NEW L, NEW H, HeapForest(h, L, H),
         NEW f \in L
  PROVE  LET s == Siblings(h, f)
         IN  /\ s \in Seq(L) /\ Len(s) \in 1..Size /\ s[1] = f
             /\ \A i \in 1..Len(s) : i + 1 \in 1..Len(s) =>
                  Nx(h)[s[i]] = s[i + 1] /\ Pv(h)[s[i + 1]] = s[i]
             /\ Nx(h)[s[Len(s)]] = Null
<1> DEFINE at == Walk(h, f)
           s == Siblings(h, f)
<1>0. /\ h \in Heaps /\ L \in SUBSET Nodes /\ Null \notin Nodes
      /\ LinksIn(Nx(h), Pv(h), Kd(h), L) /\ TwoWay(Nx(h), Pv(h), L)
      /\ \A n \in Nodes : Nx(h)[n] = h[n].next
  BY HeapForestIs, ZenonT(60)
<1>1. f \in Links
  BY <1>0 DEF Links
<1>2. /\ at[0] = f
      /\ \A k \in 1..Size : at[k] = IF at[k - 1] = Null THEN Null ELSE h[at[k - 1]].next
  BY <1>0, <1>1, WalkIs
<1>3. \A k \in 0..Size : at[k] \in L \cup {Null}
  <2>1. \A m \in L : h[m].next \in L \cup {Null}
    BY <1>0 DEF LinksIn
  <2> QED BY <1>0, <2>1, WalkStays
<1> HIDE DEF at
<1>4. PICK e \in 0..Size : at[e] = Null /\ \A k \in 0..Size : at[k] = Null => e <= k
  <2> DEFINE T == {k \in 0..Size : at[k] = Null}
  <2>1. T # {} /\ T \in SUBSET Nat
    BY WalkEnds DEF at
  <2>2. PICK e \in T : \A k \in T : e <= k
    <3> HIDE DEF T
    <3> QED BY <2>1, LeastMember
  <2> QED BY <2>2
<1>5. e \in 1..Size
  BY <1>0, <1>2, <1>4, SizeNat
<1>6. \A k \in 0..Size : k < e => at[k] \in L
  BY <1>3, <1>4, SizeNat
<1>7. \A k \in 0..Size : k >= e => at[k] = Null
  <2> DEFINE S == {k \in 0..Size : k >= e => at[k] = Null}
  <2>1. 0 \in S
    BY <1>5, SizeNat
  <2>2. ASSUME NEW k \in 0..Size, k < Size, k \in S
        PROVE  k + 1 \in S
    <3>1. k + 1 \in 1..Size /\ k + 1 \in 0..Size /\ (k + 1) - 1 = k
      BY <2>2, SizeNat
    <3>2. at[k + 1] = IF at[k] = Null THEN Null ELSE h[at[k]].next
      BY <1>2, <3>1
    <3>3. CASE k >= e
      BY <2>2, <3>1, <3>2, <3>3
    <3>4. CASE k + 1 = e
      BY <1>4, <3>1, <3>4
    <3>5. CASE k + 1 < e
      BY <1>5, <3>1, <3>5, SizeNat
    <3> QED BY <1>5, <3>3, <3>4, <3>5
  <2> HIDE DEF S
  <2>3. \A k \in 0..Size : k \in S
    BY <2>1, <2>2, CountingUp, SizeNat
  <2> QED BY <2>3 DEF S
<1>8. {k \in 0..Size : at[k] # Null} = 0..e - 1
  BY <1>0, <1>5, <1>6, <1>7, SizeNat
<1>9. Cardinality({k \in 0..Size : at[k] # Null}) = e
  <2>1. e \in Int /\ e - 1 \in Int /\ 0 \in Int /\ e \in Nat /\ ~ (0 > e - 1)
    BY <1>5, SizeNat
  <2>2. Cardinality(0..e - 1) = (e - 1) - 0 + 1
    BY <2>1, FS_Interval
  <2>3. Cardinality(0..e - 1) = e
    BY <2>1, <2>2
  <2> QED BY <1>8, <2>3, Zenon
<1>10. s = [i \in 1..e |-> at[i - 1]]
  BY <1>9 DEF Siblings, at, Size
<1> HIDE DEF s
<1>11. \A i \in 1..e : s[i] = at[i - 1] /\ s[i] \in L /\ i - 1 \in 0..Size
  BY <1>5, <1>6, <1>10, SizeNat
<1>12. s \in Seq(L) /\ Len(s) = e
  BY <1>5, <1>10, <1>11
<1>13. s[1] = f
  BY <1>2, <1>5, <1>11
<1>14. ASSUME NEW i \in 1..e, i + 1 \in 1..e
       PROVE  Nx(h)[s[i]] = s[i + 1] /\ Pv(h)[s[i + 1]] = s[i]
  <2>1. s[i] = at[i - 1] /\ s[i + 1] = at[i] /\ s[i] \in L /\ s[i + 1] \in L /\ i \in 1..Size
    BY <1>5, <1>11, <1>14, SizeNat
  <2>2. s[i + 1] = Nx(h)[s[i]]
    BY <1>0, <1>2, <2>1
  <2> QED BY <1>0, <2>1, <2>2 DEF TwoWay
<1>15. Nx(h)[s[e]] = Null
  <2>1. s[e] = at[e - 1] /\ s[e] \in L
    BY <1>5, <1>11
  <2>2. at[e] = h[at[e - 1]].next
    BY <1>0, <1>2, <1>5, <2>1
  <2> QED BY <1>0, <1>4, <2>1, <2>2
<1> QED BY <1>5, <1>12, <1>13, <1>14, <1>15 DEF s

(* Siblings from f on are in any set that f is in and next does not leave. *)
LEMMA SiblingsStay ==
  ASSUME NEW h \in Heaps, NEW T \in SUBSET Nodes, NEW first \in T,
         \A m \in T : h[m].next \in T \cup {Null}
  PROVE  /\ Siblings(h, first) \in Seq(T \cup {Null})
         /\ Siblings(h, first) # <<>>
<1> DEFINE at == Walk(h, first)
           K == {k \in 0..Size : at[k] # Null}
           s == Siblings(h, first)
           N == Cardinality(K)
<1>1. \A k \in 0..Size : at[k] \in T \cup {Null}
  BY WalkStays
<1>2. at[0] = first /\ first # Null
  BY WalkIs, JsonHeapAssumption DEF Links
<1> HIDE DEF at
<1>3. IsFiniteSet(0..Size) /\ Cardinality(0..Size) = Size + 1 /\ Size \in Nat
  <2>1. 0 \in Int /\ Size \in Int /\ Size \in Nat /\ ~ (0 > Size)
    BY SizeNat
  <2>2. IsFiniteSet(0..Size) /\ Cardinality(0..Size) = Size - 0 + 1
    BY <2>1, FS_Interval
  <2> QED BY <2>1, <2>2
<1>4. 0 \in K /\ K \in SUBSET (0..Size)
  BY <1>2, <1>3
<1>5. s = [i \in 1..N |-> at[i - 1]]
  BY DEF Siblings, at, Size
<1> HIDE DEF K, s
<1>6. N \in Nat /\ N <= Size + 1 /\ N # 0
  <2>1. IsFiniteSet(K) /\ N <= Size + 1
    BY <1>3, <1>4, FS_Subset
  <2>2. N \in Nat
    BY <2>1, FS_CardinalityType
  <2>3. N # 0
    BY <1>4, <2>1, FS_EmptySet
  <2> QED BY <2>1, <2>2, <2>3
<1> HIDE DEF N
<1>7. \A i \in 1..N : i - 1 \in 0..Size
  BY <1>3, <1>6
<1>8. s \in Seq(T \cup {Null}) /\ Len(s) = N
  BY <1>1, <1>5, <1>6, <1>7
<1> QED BY <1>6, <1>8 DEF s

(* The items in p.                                                         *)
LEMMA MembersAre ==
  ASSUME NEW h, NEW L, NEW H, HeapForest(h, L, H),
         NEW p \in L, h[p].ref = FALSE, NEW x, x \in ToSet(Members(h, p))
  PROVE  /\ x \in L /\ Nx(h)[x] # x /\ Kd(h)[p] \in L
         /\ Kd(h)[p] = x \/ Pv(h)[x] # Null
         /\ Within(Nx(h), Kd(h), L, p, x)
<1> DEFINE f == h[p].child
<1>0. /\ h \in Heaps /\ L \in SUBSET Nodes /\ Null \notin Nodes
      /\ LinksIn(Nx(h), Pv(h), Kd(h), L) /\ TwoWay(Nx(h), Pv(h), L)
      /\ FirstKids(Pv(h), Kd(h), L)
      /\ \A n \in Nodes : Nx(h)[n] = h[n].next
      /\ Kd(h)[p] = f
  BY HeapForestIs
<1>1. x \in ToSet(Siblings(h, f))
  BY DEF Members
<1>2. f \in L
  <2>1. SUFFICES ASSUME f = Null
                 PROVE  FALSE
    BY <1>0 DEF LinksIn
  <2> DEFINE at == Walk(h, Null)
             K == {k \in 0..Size : at[k] # Null}
  <2>2. \A k \in 0..Size : at[k] \in {} \cup {Null}
    BY <1>0, WalkStays
  <2>3. K = {}
    BY <2>2
  <2>4. Siblings(h, f) = [i \in 1..Cardinality(K) |-> at[i - 1]]
    BY <2>1 DEF Siblings, Size
  <2> HIDE DEF K, at
  <2>5. Cardinality(K) = 0
    BY <2>3, FS_EmptySet
  <2>6. Siblings(h, f) = <<>>
    BY <2>4, <2>5
  <2> QED BY <1>1, <2>6 DEF ToSet
<1>6. x \in L
  <2>1. Pv(h)[f] = Null
    BY <1>0, <1>2 DEF FirstKids
  <2>2. Siblings(h, f) \in Seq(L)
    BY <1>2, <2>1, SiblingsAre
  <2> QED BY <1>1, <2>2 DEF ToSet
<1>3. \A T \in SUBSET L :
        f \in T /\ (\A m \in T : Nx(h)[m] \in T \cup {Null}) => x \in T
  <2> SUFFICES ASSUME NEW T \in SUBSET L, f \in T, \A m \in T : Nx(h)[m] \in T \cup {Null}
               PROVE  x \in T
    OBVIOUS
  <2>1. T \in SUBSET Nodes /\ \A m \in T : h[m].next \in T \cup {Null}
    BY <1>0
  <2>2. Siblings(h, f) \in Seq(T \cup {Null})
    BY <1>0, <2>1, SiblingsStay
  <2>3. x \in T \cup {Null}
    BY <1>1, <2>2 DEF ToSet
  <2> QED BY <1>0, <1>6, <2>3
<1>4. x \in L /\ (f = x \/ Pv(h)[x] # Null)
  <2> DEFINE T == {m \in L : f = m \/ Pv(h)[m] # Null}
  <2>1. \A m \in T : Nx(h)[m] \in T \cup {Null}
    BY <1>0 DEF LinksIn, TwoWay
  <2> QED BY <1>2, <1>3, <2>1
<1>5. Nx(h)[x] # x
  <2> DEFINE T == {m \in L : Nx(h)[m] # m}
  <2>1. f \in T
    BY <1>0, <1>2 DEF FirstKids, TwoWay
  <2>2. \A m \in T : Nx(h)[m] \in T \cup {Null}
    BY <1>0 DEF LinksIn, TwoWay
  <2> QED BY <1>3, <2>1, <2>2
<1>7. Within(Nx(h), Kd(h), L, p, x)
  BY <1>0, <1>3 DEF Within
<1> QED BY <1>0, <1>2, <1>4, <1>5, <1>7

(* The last item in p, when there is one.                                  *)
LastIn(h, p) == Last(Siblings(h, h[p].child))

(* What LastIn() is: the listed node that nothing follows.                 *)
LEMMA LastMember ==
  ASSUME NEW h, NEW L, NEW H, HeapForest(h, L, H),
         NEW p \in L, h[p].ref = FALSE, h[p].child # Null
  PROVE  /\ LastIn(h, p) \in L /\ Nx(h)[LastIn(h, p)] = Null
         /\ Listed(Pv(h), Kd(h), L, LastIn(h, p))
         /\ Within(Nx(h), Kd(h), L, p, LastIn(h, p))
<1> DEFINE b == LastIn(h, p)
<1> DEFINE f == h[p].child
           s == Siblings(h, f)
<1>0. /\ h \in Heaps /\ L \in SUBSET Nodes /\ Null \notin Nodes
      /\ LinksIn(Nx(h), Pv(h), Kd(h), L) /\ TwoWay(Nx(h), Pv(h), L)
      /\ FirstKids(Pv(h), Kd(h), L)
      /\ \A n \in Nodes : Nx(h)[n] = h[n].next
      /\ Kd(h)[p] = f
  BY HeapForestIs, ZenonT(60)
<1>1. f \in L /\ Pv(h)[f] = Null
  BY <1>0 DEF LinksIn, FirstKids
<1>2. /\ s \in Seq(L) /\ Len(s) \in 1..Size /\ s[1] = f
      /\ \A i \in 1..Len(s) : i + 1 \in 1..Len(s) =>
           Nx(h)[s[i]] = s[i + 1] /\ Pv(h)[s[i + 1]] = s[i]
      /\ Nx(h)[s[Len(s)]] = Null
  BY <1>0, <1>1, SiblingsAre, SMTT(40)
<1>3. b = s[Len(s)]
  BY DEF Last, LastIn
<1>4. \A T \in SUBSET L :
        f \in T /\ (\A m \in T : Nx(h)[m] \in T \cup {Null}) => b \in T
  <2> SUFFICES ASSUME NEW T \in SUBSET L, f \in T, \A m \in T : Nx(h)[m] \in T \cup {Null}
               PROVE  b \in T
    OBVIOUS
  <2>1. T \in SUBSET Nodes /\ \A m \in T : h[m].next \in T \cup {Null}
    BY <1>0
  <2>2. s \in Seq(T \cup {Null})
    BY <1>0, <2>1, SiblingsStay
  <2> HIDE DEF s
  <2>3. b \in T \cup {Null} /\ b \in L
    BY <1>2, <1>3, <2>2
  <2> QED BY <1>0, <2>3
<1> HIDE DEF s, b
<1>5. b \in L /\ Nx(h)[b] = Null
  BY <1>2, <1>3
<1>6. Listed(Pv(h), Kd(h), L, b)
  <2> DEFINE T == {m \in L : f = m \/ Pv(h)[m] # Null}
  <2>1. \A m \in T : Nx(h)[m] \in T \cup {Null}
    BY <1>0 DEF LinksIn, TwoWay
  <2>2. b \in T
    BY <1>1, <1>4, <2>1
  <2> QED BY <1>0, <2>2 DEF Listed
<1>7. Within(Nx(h), Kd(h), L, p, b)
  BY <1>0, <1>4 DEF Within
<1> QED BY <1>5, <1>6, <1>7 DEF b

-----------------------------------------------------------------------------
(* What is reached in a forest.                                            *)

(* What is doomed with n was reached from n.                               *)
LEMMA DoomedForest ==
  ASSUME NEW h, NEW L, NEW H, HeapForest(h, L, H), NEW n \in L
  PROVE  LET D == Doomed(h, n)
         IN  /\ n \in D /\ D \in SUBSET L
             /\ \A m \in D : Nx(h)[m] \in D \cup {Null} /\ Kd(h)[m] \in D \cup {Null}
             /\ ReachedFrom(Nx(h), Kd(h), {n}, D)
             /\ \A T \in SUBSET L :
                  /\ n \in T
                  /\ \A m \in T : Nx(h)[m] \in T \cup {Null} /\ Kd(h)[m] \in T \cup {Null}
                  => D \subseteq T
<1> DEFINE D == Doomed(h, n)
<1>0. /\ h \in Heaps /\ L \in SUBSET Nodes /\ Null \notin Nodes
      /\ LinksIn(Nx(h), Pv(h), Kd(h), L)
  BY HeapForestIs
<1>1. \A T \in SUBSET Nodes :
        Closed(h, T) <=> \A m \in T : Nx(h)[m] \in T \cup {Null} /\ Kd(h)[m] \in T \cup {Null}
  BY DEF Closed, Nx, Kd
<1>2. /\ n \in D /\ D \in SUBSET Nodes /\ Closed(h, D)
      /\ \A T \in SUBSET Nodes : n \in T /\ Closed(h, T) => D \subseteq T
  BY <1>0, DoomedIs
<1> HIDE DEF D
<1>3. D \subseteq L
  BY <1>0, <1>1, <1>2 DEF LinksIn
<1>4. ReachedFrom(Nx(h), Kd(h), {n}, D)
  <2> DEFINE T == {m \in D : m = n \/ \E k \in D : Nx(h)[k] = m \/ Kd(h)[k] = m}
  <2>1. n \in T /\ \A m \in T : Nx(h)[m] \in T \cup {Null} /\ Kd(h)[m] \in T \cup {Null}
    BY <1>1, <1>2
  <2>2. D \subseteq T
    BY <1>1, <1>2, <2>1
  <2> QED BY <2>2 DEF ReachedFrom
<1>5. \A T \in SUBSET L :
        /\ n \in T
        /\ \A m \in T : Nx(h)[m] \in T \cup {Null} /\ Kd(h)[m] \in T \cup {Null}
        => D \subseteq T
  BY <1>0, <1>1, <1>2
<1> QED BY <1>1, <1>2, <1>3, <1>4, <1>5 DEF D

(* What is closed under the links has all of it.                           *)
LEMMA DoomedLeast ==
  ASSUME NEW h, NEW L, NEW H, HeapForest(h, L, H), NEW n \in L,
         NEW T \in SUBSET L, n \in T, Along(Nx(h), Kd(h), T)
  PROVE  Doomed(h, n) \subseteq T
<1>1. \A m \in T : Nx(h)[m] \in T \cup {Null} /\ Kd(h)[m] \in T \cup {Null}
  BY DEF Along
<1>2. \A R \in SUBSET L :
        /\ n \in R
        /\ \A m \in R : Nx(h)[m] \in R \cup {Null} /\ Kd(h)[m] \in R \cup {Null}
        => Doomed(h, n) \subseteq R
  BY DoomedForest
<1> QED BY <1>1, <1>2

(* A node without links takes nobody along.                                *)
LEMMA DoomedAlone ==
  ASSUME NEW h, NEW L, NEW H, HeapForest(h, L, H), NEW n \in L,
         Nx(h)[n] = Null, Kd(h)[n] = Null
  PROVE  Doomed(h, n) = {n}
<1> DEFINE T == {n}
<1>1. T \in SUBSET L /\ n \in T
      /\ \A m \in T : Nx(h)[m] \in T \cup {Null} /\ Kd(h)[m] \in T \cup {Null}
  OBVIOUS
<1> HIDE DEF T
<1>2. Doomed(h, n) \subseteq T /\ n \in Doomed(h, n)
  BY <1>1, DoomedForest
<1> QED BY <1>2 DEF T

(* The items in an item of p, and p, are not reached from c if p is not.   *)
LEMMA MembersOutside ==
  ASSUME NEW h, NEW L, NEW H, HeapForest(h, L, H), NEW c \in H,
         NEW p \in L, h[p].ref = FALSE, p \notin Doomed(h, c)
  PROVE  /\ \A x : x \in ToSet(Members(h, p)) => x \notin Doomed(h, c)
         /\ h[p].child # Null => LastIn(h, p) \notin Doomed(h, c)
<1> DEFINE D == Doomed(h, c)
           T == L \ D
<1>0. /\ h \in Heaps /\ L \in SUBSET Nodes /\ Null \notin Nodes /\ c \in L
      /\ Shape(Nx(h), Pv(h), Kd(h), L, H)
      /\ LinksIn(Nx(h), Pv(h), Kd(h), L)
      /\ Kd(h)[p] = h[p].child
  BY HeapForestIs
<1>1. /\ D \in SUBSET L /\ ReachedFrom(Nx(h), Kd(h), {c}, D) /\ {c} \in SUBSET H
  BY <1>0, DoomedForest
<1> HIDE DEF D
<1>2. \A m \in T : Nx(h)[m] \notin D /\ Kd(h)[m] \notin D
  BY <1>0, <1>1, OutsideStays
<1>3. T \in SUBSET L /\ p \in T
  BY DEF D
<1>4. \A m \in T : Nx(h)[m] \in T \cup {Null}
  BY <1>0, <1>2 DEF LinksIn
<1>5. Kd(h)[p] # Null => Kd(h)[p] \in T
  BY <1>0, <1>2, <1>3 DEF LinksIn
<1>6. ASSUME NEW x, x \in ToSet(Members(h, p))
      PROVE  x \notin D
  <2>1. x \in L /\ Kd(h)[p] \in L /\ Within(Nx(h), Kd(h), L, p, x)
    BY <1>6, MembersAre
  <2> HIDE DEF T
  <2>2. x \in T
    BY <1>0, <1>3, <1>4, <1>5, <2>1 DEF Within
  <2> QED BY <2>2 DEF T
<1>7. ASSUME h[p].child # Null
      PROVE  LastIn(h, p) \notin D
  <2>1. Within(Nx(h), Kd(h), L, p, LastIn(h, p))
    BY <1>7, LastMember
  <2> HIDE DEF T
  <2>2. LastIn(h, p) \in T
    BY <1>0, <1>3, <1>4, <1>5, <1>7, <2>1 DEF Within
  <2> QED BY <2>2 DEF T
<1> QED BY <1>6, <1>7 DEF D

-----------------------------------------------------------------------------
(* What the functions make of a forest.                                    *)

(* Nothing changed but links of nodes in L.                                *)
Relinked(h, g, L) ==
  /\ SameFlags(h, g)
  /\ \A m \in Nodes \ L : Nx(g)[m] = Nx(h)[m] /\ Pv(g)[m] = Pv(h)[m] /\ Kd(g)[m] = Kd(h)[m]

(* A tree may be moved to any level, and what is not in it stays.          *)
LEMMA ForestMove ==
  ASSUME NEW h, NEW L, NEW H, HeapForest(h, L, H), NEW c \in H,
         NEW q \in L, q \notin Doomed(h, c), NEW d \in {0, 1}
  PROVE  \E r \in Levels : Leveled(Nx(h), Kd(h), L, r) /\ r[c] = r[q] + d
<1>0. /\ L \in SUBSET Nodes /\ c \in L /\ Shape(Nx(h), Pv(h), Kd(h), L, H)
      /\ \E r \in Levels : Leveled(Nx(h), Kd(h), L, r)
  BY HeapForestIs
<1>1. PICK r \in Levels : Leveled(Nx(h), Kd(h), L, r)
  BY <1>0
<1> DEFINE D == Doomed(h, c)
           v == r[q] + d
<1>2. /\ c \in D /\ D \in SUBSET L
      /\ \A m \in D : Nx(h)[m] \in D \cup {Null} /\ Kd(h)[m] \in D \cup {Null}
      /\ ReachedFrom(Nx(h), Kd(h), {c}, D)
  BY <1>0, DoomedForest
<1>3. v \in Int
  BY <1>0 DEF Levels
<1> HIDE DEF D, v
<1>4. \E r2 \in Levels : /\ Leveled(Nx(h), Kd(h), L, r2)
                         /\ r2[c] = v /\ \A m \in L \ D : r2[m] = r[m]
  BY <1>0, <1>1, <1>2, <1>3, LevelsMove
<1>5. q \in L \ D
  BY DEF D
<1> QED BY <1>4, <1>5 DEF v

(* The links after each function, from h to g.                             *)
AppendedLinks(h, g, p, c) ==
  IF Kd(h)[p] = Null THEN Nx(g) = Nx(h) /\ Kd(g) = Upd(Kd(h), p, c)
  ELSE Nx(g) = Upd(Nx(h), LastIn(h, p), c) /\ Kd(g) = Kd(h)

UnlinkedLinks(h, g, p, x) ==
  /\ Nx(g) = Upd(Upd(Nx(h), Pv(h)[x], Nx(h)[x]), x, Null)
  /\ Kd(g) = IF Kd(h)[p] = x THEN Upd(Kd(h), p, Nx(h)[x]) ELSE Kd(h)

InsertedLinks(h, g, p, x, c) ==
  /\ Nx(g) = IF Kd(h)[p] = x THEN Upd(Nx(h), c, x) ELSE Upd(Upd(Nx(h), c, x), Pv(h)[x], c)
  /\ Kd(g) = IF Kd(h)[p] = x THEN Upd(Kd(h), p, c) ELSE Kd(h)

PutLinks(h, g, p, x, c) ==
  /\ Nx(g) = Upd(IF Kd(h)[p] = x THEN Upd(Nx(h), c, Nx(h)[x])
                 ELSE Upd(Upd(Nx(h), c, Nx(h)[x]), Pv(h)[x], c), x, Null)
  /\ Kd(g) = IF Kd(h)[p] = x THEN Upd(Kd(h), p, c) ELSE Kd(h)

(* Appended() puts c at the end of the list of p.                          *)
LEMMA AppendedForest ==
  ASSUME NEW h, NEW L, NEW H, HeapForest(h, L, H),
         NEW p \in L, h[p].ref = FALSE, NEW c \in H, p \notin Doomed(h, c)
  PROVE  /\ HeapForest(Appended(h, p, c), L, H \ {c})
         /\ Relinked(h, Appended(h, p, c), L)
         /\ AppendedLinks(h, Appended(h, p, c), p, c)
<1> DEFINE g == Appended(h, p, c)
           b == LastIn(h, p)
<1>0. /\ h \in Heaps /\ L \in SUBSET Nodes /\ H \in SUBSET L /\ Null \notin Nodes
      /\ Shape(Nx(h), Pv(h), Kd(h), L, H) /\ Kd(h)[p] = h[p].child
      /\ Covered(Nx(h), Kd(h), L, H)
      /\ p \in Nodes /\ c \in Nodes /\ c \in Links
  BY HeapForestIs DEF Links
<1>1. CASE h[p].child = Null
  <2>1. g = SetChild(h, p, c)
    BY <1>1 DEF Appended, SetChild
  <2> HIDE DEF g
  <2>3. /\ g \in Heaps /\ Kd(g) = Upd(Kd(h), p, c)
        /\ Nx(g) = Nx(h) /\ Pv(g) = Pv(h) /\ SameFlags(h, g)
    BY <1>0, <2>1, SetChildIs
  <2>4. Shape(Nx(h), Pv(h), Upd(Kd(h), p, c), L, H \ {c})
    BY <1>0, <1>1, ShapeFirst
  <2>5. PICK r \in Levels : Leveled(Nx(h), Kd(h), L, r) /\ r[c] = r[p] + 1
    BY ForestMove
  <2>6. r[c] > r[p]
    BY <1>0, <2>5 DEF Levels
  <2>7. Leveled(Nx(h), Upd(Kd(h), p, c), L, r)
    BY <1>0, <2>5, <2>6, LevelsFirst
  <2>10. Covered(Nx(h), Upd(Kd(h), p, c), L, H \ {c})
    BY <1>0, <1>1, <2>5, <2>6, CoverFirst
  <2>8. HeapForest(g, L, H \ {c})
    BY <2>3, <2>4, <2>5, <2>7, <2>10 DEF HeapForest, Forest
  <2>9. Relinked(h, g, L)
    BY <2>3 DEF Relinked, Upd
  <2>11. AppendedLinks(h, g, p, c)
    BY <1>0, <1>1, <2>3 DEF AppendedLinks
  <2> QED BY <2>8, <2>9, <2>11 DEF g
<1>2. CASE h[p].child # Null
  <2>1. g = SetPrev(SetNext(h, b, c), c, b)
    BY <1>2 DEF Appended, LastIn
  <2>2. b \in L /\ Nx(h)[b] = Null /\ Listed(Pv(h), Kd(h), L, b) /\ b \notin Doomed(h, c)
    BY <1>0, <1>2, LastMember, MembersOutside
  <2>3. b \in Links /\ b \in Nodes
    BY <1>0, <2>2 DEF Links
  <2> HIDE DEF g, b
  <2> DEFINE g1 == SetNext(h, b, c)
  <2>4. /\ g1 \in Heaps /\ Nx(g1) = Upd(Nx(h), b, c)
        /\ Pv(g1) = Pv(h) /\ Kd(g1) = Kd(h) /\ SameFlags(h, g1)
    BY <1>0, <2>3, SetNextIs
  <2> HIDE DEF g1
  <2>5. g = SetPrev(g1, c, b)
    BY <2>1 DEF g1
  <2>6. /\ g \in Heaps /\ Pv(g) = Upd(Pv(g1), c, b)
        /\ Nx(g) = Nx(g1) /\ Kd(g) = Kd(g1) /\ SameFlags(g1, g)
    BY <1>0, <2>3, <2>4, <2>5, SetPrevIs
  <2>7. Shape(Upd(Nx(h), b, c), Upd(Pv(h), c, b), Kd(h), L, H \ {c})
    BY <1>0, <2>2, ShapeLast
  <2>8. PICK r \in Levels : Leveled(Nx(h), Kd(h), L, r) /\ r[c] = r[b] + 0
    BY <2>2, ForestMove
  <2>9. r[c] = r[b]
    BY <2>3, <2>8 DEF Levels
  <2>10. Leveled(Upd(Nx(h), b, c), Kd(h), L, r)
    BY <1>0, <2>2, <2>8, <2>9, LevelsLast
  <2>14. Covered(Upd(Nx(h), b, c), Kd(h), L, H \ {c})
    <3>1. Within(Nx(h), Kd(h), L, p, b)
      BY <1>2, LastMember DEF b
    <3> QED BY <1>0, <1>2, <2>2, <2>8, <2>9, <3>1, CoverLast
  <2>11. HeapForest(g, L, H \ {c})
    BY <2>4, <2>6, <2>7, <2>8, <2>10, <2>14 DEF HeapForest, Forest
  <2>12. \A m \in Nodes \ L : Nx(g)[m] = Nx(h)[m] /\ Pv(g)[m] = Pv(h)[m] /\ Kd(g)[m] = Kd(h)[m]
    BY <1>0, <2>2, <2>4, <2>6 DEF Upd
  <2>13. Relinked(h, g, L)
    BY <2>4, <2>6, <2>12 DEF Relinked, SameFlags
  <2>15. AppendedLinks(h, g, p, c)
    BY <1>0, <1>2, <2>4, <2>6 DEF AppendedLinks, b
  <2> QED BY <2>11, <2>13, <2>15 DEF g
<1> QED BY <1>1, <1>2

(* Unlinked() takes x out of the list of p.                                *)
LEMMA UnlinkedForest ==
  ASSUME NEW h, NEW L, NEW H, HeapForest(h, L, H),
         NEW p \in L, h[p].ref = FALSE, NEW x \in L,
         Kd(h)[p] = x \/ Pv(h)[x] # Null, Nx(h)[x] # x,
         Kd(h)[p] # Null, Within(Nx(h), Kd(h), L, p, x)
  PROVE  /\ HeapForest(Unlinked(h, p, x), L, H \cup {x})
         /\ Relinked(h, Unlinked(h, p, x), L)
         /\ UnlinkedLinks(h, Unlinked(h, p, x), p, x)
<1> DEFINE a == Pv(h)[x]
           b == Nx(h)[x]
           g1 == SetNext(h, a, b)
           g2 == SetPrev(g1, b, a)
           g3 == IF x = Kd(h)[p] THEN SetChild(g2, p, b) ELSE g2
           g4 == SetNext(g3, x, Null)
           g == SetPrev(g4, x, Null)
           n2 == Upd(Upd(Nx(h), a, b), x, Null)
           p2 == Upd(Upd(Pv(h), b, a), x, Null)
           k2 == IF Kd(h)[p] = x THEN Upd(Kd(h), p, b) ELSE Kd(h)
<1>0. /\ h \in Heaps /\ L \in SUBSET Nodes /\ H \in SUBSET L /\ Null \notin Nodes
      /\ Shape(Nx(h), Pv(h), Kd(h), L, H) /\ Kd(h)[p] = h[p].child
      /\ \E r \in Levels : Leveled(Nx(h), Kd(h), L, r)
      /\ Covered(Nx(h), Kd(h), L, H) /\ LinksIn(Nx(h), Pv(h), Kd(h), L)
      /\ \A n \in Nodes : Nx(h)[n] = h[n].next /\ Pv(h)[n] = h[n].prev
  BY HeapForestIs
<1>20. /\ p \in Nodes /\ x \in Nodes /\ x \in Links /\ Null \in Links
       /\ a \in L \cup {Null} /\ b \in L \cup {Null} /\ a \in Links /\ b \in Links
  BY <1>0 DEF Links, LinksIn
<1>21. a = h[x].prev /\ b = h[x].next
  BY <1>0, <1>20
<1>1. g = Unlinked(h, p, x)
  BY <1>0, <1>21 DEF Unlinked, Bypassed, SetChild
<1>2. Shape(n2, p2, k2, L, H \cup {x})
  BY <1>0, ShapeOut, Zenon
<1>3. PICK r \in Levels : Leveled(Nx(h), Kd(h), L, r)
  BY <1>0
<1>4. Leveled(n2, k2, L, r)
  BY <1>0, <1>3, LevelsOut
<1>15. Covered(n2, k2, L, H \cup {x})
  BY <1>0, <1>3, CoverOut
<1> HIDE DEF a, b, g1, g2, g3, g4, g
<1>5. /\ g1 \in Heaps /\ Nx(g1) = Upd(Nx(h), a, b) /\ Pv(g1) = Pv(h) /\ Kd(g1) = Kd(h)
      /\ SameFlags(h, g1)
  BY <1>0, <1>20, SetNextIs DEF g1
<1>6. /\ g2 \in Heaps /\ Pv(g2) = Upd(Pv(g1), b, a) /\ Nx(g2) = Nx(g1) /\ Kd(g2) = Kd(g1)
      /\ SameFlags(g1, g2)
  BY <1>0, <1>20, <1>5, SetPrevIs DEF g2
<1>7. g2[p].ref = FALSE
  BY <1>0, <1>20, <1>5, <1>6 DEF SameFlags, Rf
<1>8. /\ g3 \in Heaps /\ Nx(g3) = Nx(g2) /\ Pv(g3) = Pv(g2) /\ SameFlags(g2, g3)
      /\ Kd(g3) = IF Kd(h)[p] = x THEN Upd(Kd(g2), p, b) ELSE Kd(g2)
  <2>1. CASE x = Kd(h)[p]
    <3>1. g3 = SetChild(g2, p, b)
      BY <2>1 DEF g3
    <3>2. /\ g3 \in Heaps /\ Nx(g3) = Nx(g2) /\ Pv(g3) = Pv(g2) /\ SameFlags(g2, g3)
          /\ Kd(g3) = Upd(Kd(g2), p, b)
      BY <1>20, <1>6, <1>7, <3>1, SetChildIs
    <3> QED BY <2>1, <3>2
  <2>2. CASE x # Kd(h)[p]
    BY <1>6, <2>2 DEF g3, SameFlags
  <2> QED BY <2>1, <2>2
<1>9. /\ g4 \in Heaps /\ Nx(g4) = Upd(Nx(g3), x, Null) /\ Pv(g4) = Pv(g3) /\ Kd(g4) = Kd(g3)
      /\ SameFlags(g3, g4)
  BY <1>0, <1>20, <1>8, SetNextIs DEF g4
<1>10. /\ g \in Heaps /\ Pv(g) = Upd(Pv(g4), x, Null) /\ Nx(g) = Nx(g4) /\ Kd(g) = Kd(g4)
       /\ SameFlags(g4, g)
  BY <1>0, <1>20, <1>9, SetPrevIs DEF g
<1>11. Nx(g) = n2 /\ Pv(g) = p2 /\ Kd(g) = k2 /\ SameFlags(h, g)
  BY <1>5, <1>6, <1>8, <1>9, <1>10 DEF SameFlags
<1>12. HeapForest(g, L, H \cup {x})
  BY <1>2, <1>3, <1>4, <1>10, <1>11, <1>15 DEF HeapForest, Forest
<1>13. \A m \in Nodes \ L : n2[m] = Nx(h)[m] /\ p2[m] = Pv(h)[m] /\ k2[m] = Kd(h)[m]
  BY <1>0, <1>20 DEF Upd
<1>14. Relinked(h, g, L)
  BY <1>11, <1>13 DEF Relinked
<1>16. UnlinkedLinks(h, g, p, x)
  BY <1>11 DEF UnlinkedLinks, a, b
<1> QED BY <1>1, <1>12, <1>14, <1>16

(* InsertedBefore() puts c in front of x.                                  *)
LEMMA InsertedForest ==
  ASSUME NEW h, NEW L, NEW H, HeapForest(h, L, H),
         NEW p \in L, h[p].ref = FALSE, NEW x \in L,
         Kd(h)[p] = x \/ Pv(h)[x] # Null, NEW c \in H, x \notin Doomed(h, c),
         Kd(h)[p] # Null, Within(Nx(h), Kd(h), L, p, x)
  PROVE  /\ HeapForest(InsertedBefore(h, p, x, c), L, H \ {c})
         /\ Relinked(h, InsertedBefore(h, p, x, c), L)
         /\ InsertedLinks(h, InsertedBefore(h, p, x, c), p, x, c)
<1> DEFINE a == Pv(h)[x]
           g1 == SetNext(h, c, x)
           g2 == SetPrev(g1, c, h[x].prev)
           g3 == SetPrev(g2, x, c)
           g == IF x = g3[p].child THEN SetChild(g3, p, c) ELSE SetNext(g3, h[x].prev, c)
           n2 == IF Kd(h)[p] = x THEN Upd(Nx(h), c, x) ELSE Upd(Upd(Nx(h), c, x), a, c)
           p2 == Upd(Upd(Pv(h), c, a), x, c)
           k2 == IF Kd(h)[p] = x THEN Upd(Kd(h), p, c) ELSE Kd(h)
<1>0. /\ h \in Heaps /\ L \in SUBSET Nodes /\ H \in SUBSET L /\ Null \notin Nodes
      /\ Shape(Nx(h), Pv(h), Kd(h), L, H) /\ Kd(h)[p] = h[p].child
      /\ Covered(Nx(h), Kd(h), L, H) /\ LinksIn(Nx(h), Pv(h), Kd(h), L)
      /\ \A n \in Nodes : Nx(h)[n] = h[n].next /\ Pv(h)[n] = h[n].prev
  BY HeapForestIs
<1>20. /\ p \in Nodes /\ x \in Nodes /\ x \in Links /\ c \in Links /\ c \in L
       /\ a \in L \cup {Null} /\ a \in Links
  BY <1>0 DEF Links, LinksIn
<1>21. a = h[x].prev
  BY <1>0, <1>20
<1>2. Shape(n2, p2, k2, L, H \ {c})
  BY <1>0, ShapeBefore, Zenon
<1>3. PICK r \in Levels : Leveled(Nx(h), Kd(h), L, r) /\ r[c] = r[x] + 0
  BY ForestMove
<1>4. Leveled(n2, k2, L, r) /\ Covered(n2, k2, L, H \ {c})
  <2>1. r[c] = r[x]
    BY <1>0, <1>3 DEF Levels
  <2>2. Leveled(n2, k2, L, r)
    BY <1>0, <1>3, <2>1, LevelsBefore
  <2>3. Covered(n2, k2, L, H \ {c})
    <3>1. /\ Kd(h)[p] = x \/ Pv(h)[x] # Null
          /\ Kd(h)[p] # Null /\ Within(Nx(h), Kd(h), L, p, x)
      OBVIOUS
    <3>2. /\ Shape(Nx(h), Pv(h), Kd(h), L, H) /\ Leveled(Nx(h), Kd(h), L, r)
          /\ Covered(Nx(h), Kd(h), L, H) /\ p \in L /\ c \in H /\ x \in L /\ r \in Levels
      BY <1>0, <1>3
    <3> QED BY <2>1, <3>1, <3>2, CoverBefore, ZenonT(60)
  <2> QED BY <2>2, <2>3
<1>5. g = InsertedBefore(h, p, x, c)
  BY DEF InsertedBefore, Redirected, SetChild
<1> HIDE DEF a, g1, g2, g3, g
<1>6. /\ g1 \in Heaps /\ Nx(g1) = Upd(Nx(h), c, x) /\ Pv(g1) = Pv(h) /\ Kd(g1) = Kd(h)
      /\ SameFlags(h, g1)
  BY <1>0, <1>20, SetNextIs DEF g1
<1>7. /\ g2 \in Heaps /\ Pv(g2) = Upd(Pv(g1), c, a) /\ Nx(g2) = Nx(g1) /\ Kd(g2) = Kd(g1)
      /\ SameFlags(g1, g2)
  BY <1>0, <1>20, <1>21, <1>6, SetPrevIs DEF g2
<1>8. /\ g3 \in Heaps /\ Pv(g3) = Upd(Pv(g2), x, c) /\ Nx(g3) = Nx(g2) /\ Kd(g3) = Kd(g2)
      /\ SameFlags(g2, g3)
  BY <1>0, <1>20, <1>7, SetPrevIs DEF g3
<1>9. g3[p].ref = FALSE /\ g3[p].child = Kd(h)[p]
  <2>1. g3[p].ref = FALSE
    BY <1>0, <1>20, <1>6, <1>7, <1>8 DEF SameFlags, Rf
  <2>2. Kd(g3)[p] = g3[p].child
    BY <1>20, <2>1 DEF Kd
  <2> QED BY <1>6, <1>7, <1>8, <2>1, <2>2
<1>10. g \in Heaps /\ Nx(g) = n2 /\ Pv(g) = p2 /\ Kd(g) = k2 /\ SameFlags(h, g)
  <2>1. CASE x = Kd(h)[p]
    <3>1. g = SetChild(g3, p, c)
      BY <1>9, <2>1 DEF g
    <3>2. /\ g \in Heaps /\ Nx(g) = Nx(g3) /\ Pv(g) = Pv(g3) /\ SameFlags(g3, g)
          /\ Kd(g) = Upd(Kd(g3), p, c)
      BY <1>0, <1>20, <1>8, <1>9, <3>1, SetChildIs
    <3> QED BY <1>6, <1>7, <1>8, <2>1, <3>2 DEF SameFlags
  <2>2. CASE x # Kd(h)[p]
    <3>1. g = SetNext(g3, a, c)
      BY <1>9, <1>21, <2>2 DEF g
    <3>2. /\ g \in Heaps /\ Kd(g) = Kd(g3) /\ Pv(g) = Pv(g3) /\ SameFlags(g3, g)
          /\ Nx(g) = Upd(Nx(g3), a, c)
      BY <1>0, <1>20, <1>8, <3>1, SetNextIs
    <3> QED BY <1>6, <1>7, <1>8, <2>2, <3>2 DEF SameFlags
  <2> QED BY <2>1, <2>2
<1>11. HeapForest(g, L, H \ {c})
  BY <1>2, <1>3, <1>4, <1>10 DEF HeapForest, Forest
<1>12. \A m \in Nodes \ L : n2[m] = Nx(h)[m] /\ p2[m] = Pv(h)[m] /\ k2[m] = Kd(h)[m]
  BY <1>0, <1>20 DEF Upd
<1>13. Relinked(h, g, L)
  BY <1>10, <1>12 DEF Relinked
<1>14. InsertedLinks(h, g, p, x, c)
  BY <1>10 DEF InsertedLinks, a
<1> QED BY <1>5, <1>11, <1>13, <1>14

(* PutInPlace() puts c where x was: that is inserting c and taking x out.  *)
LEMMA PutForest ==
  ASSUME NEW h, NEW L, NEW H, HeapForest(h, L, H),
         NEW p \in L, h[p].ref = FALSE, NEW x \in L,
         Kd(h)[p] = x \/ Pv(h)[x] # Null, Nx(h)[x] # x,
         NEW c \in H, x \notin Doomed(h, c),
         Kd(h)[p] # Null, Within(Nx(h), Kd(h), L, p, x)
  PROVE  /\ HeapForest(PutInPlace(h, p, x, c), L, (H \ {c}) \cup {x})
         /\ Relinked(h, PutInPlace(h, p, x, c), L)
         /\ PutLinks(h, PutInPlace(h, p, x, c), p, x, c)
<1> DEFINE a == Pv(h)[x]
           b == Nx(h)[x]
           g1 == SetNext(h, c, h[x].next)
           g2 == SetPrev(g1, c, h[x].prev)
           g3 == SetPrev(g2, h[x].next, c)
           g4 == IF x = g3[p].child THEN SetChild(g3, p, c) ELSE SetNext(g3, h[x].prev, c)
           g5 == SetNext(g4, x, Null)
           g == SetPrev(g5, x, Null)
           n1 == IF Kd(h)[p] = x THEN Upd(Nx(h), c, x) ELSE Upd(Upd(Nx(h), c, x), Pv(h)[x], c)
           p1 == Upd(Upd(Pv(h), c, Pv(h)[x]), x, c)
           k1 == IF Kd(h)[p] = x THEN Upd(Kd(h), p, c) ELSE Kd(h)
           n2 == Upd(IF Kd(h)[p] = x THEN Upd(Nx(h), c, b) ELSE Upd(Upd(Nx(h), c, b), a, c), x, Null)
           p2 == Upd(Upd(Upd(Pv(h), c, a), b, c), x, Null)
<1>0. /\ h \in Heaps /\ L \in SUBSET Nodes /\ H \in SUBSET L /\ Null \notin Nodes
      /\ Shape(Nx(h), Pv(h), Kd(h), L, H) /\ Kd(h)[p] = h[p].child
      /\ Nx(h) \in Maps /\ Pv(h) \in Maps /\ Kd(h) \in Maps
      /\ LinksIn(Nx(h), Pv(h), Kd(h), L) /\ TwoWay(Nx(h), Pv(h), L)
      /\ FirstKids(Pv(h), Kd(h), L) /\ Roots(Nx(h), Pv(h), Kd(h), L, H)
      /\ Covered(Nx(h), Kd(h), L, H)
      /\ \A n \in Nodes : Nx(h)[n] = h[n].next /\ Pv(h)[n] = h[n].prev
  BY HeapForestIs
<1>1. /\ p \in Nodes /\ x \in Nodes /\ x \in Links /\ c \in Links /\ c \in L /\ c \in Nodes
      /\ a \in L \cup {Null} /\ a \in Links /\ b \in L \cup {Null} /\ b \in Links
      /\ Null \in Links
  BY <1>0 DEF Links, LinksIn
<1>2. a = h[x].prev /\ b = h[x].next
  BY <1>0, <1>1
<1>3. /\ x # c /\ a # x /\ a # c /\ b # c
      /\ Kd(h)[p] = x => a = Null
  <2>1. Nx(h)[c] = Null /\ Pv(h)[c] = Null /\ Kd(h)[p] # c
    BY <1>0 DEF Roots
  <2>2. x # c
    BY <2>1
  <2>3. a # c /\ b # c /\ a # x
    BY <1>0, <1>1, <2>1 DEF TwoWay
  <2> QED BY <1>0, <1>1, <2>2, <2>3 DEF FirstKids
<1>4. /\ k1[p] # x /\ p1[x] = c /\ n1[x] = Nx(h)[x]
      /\ Upd(Upd(n1, p1[x], n1[x]), x, Null) = n2
      /\ Upd(Upd(p1, n1[x], p1[x]), x, Null) = p2
  <2>1. /\ \A k \in Nodes : n1[k] = IF Kd(h)[p] # x /\ k = a THEN c
                                    ELSE IF k = c THEN x ELSE Nx(h)[k]
        /\ \A k \in Nodes : p1[k] = IF k = x THEN c ELSE IF k = c THEN a ELSE Pv(h)[k]
        /\ \A k \in Nodes : k1[k] = IF Kd(h)[p] = x /\ k = p THEN c ELSE Kd(h)[k]
    BY DEF Upd
  <2> HIDE DEF n1, p1, k1
  <2>2. k1[p] # x /\ p1[x] = c /\ n1[x] = b
    BY <1>1, <1>3, <2>1
  <2>3. Upd(Upd(n1, p1[x], n1[x]), x, Null) = n2
    BY <1>0, <1>1, <1>3, <2>1, <2>2 DEF Upd
  <2>4. Upd(Upd(p1, n1[x], p1[x]), x, Null) = p2
    BY <1>0, <1>1, <1>3, <2>1, <2>2 DEF Upd
  <2> QED BY <2>2, <2>3, <2>4
<1>5. Shape(n1, p1, k1, L, H \ {c})
  BY <1>0, ShapeBefore, Zenon
<1>6. PICK r \in Levels : Leveled(Nx(h), Kd(h), L, r) /\ r[c] = r[x] + 0
  BY ForestMove
<1>7. /\ Leveled(n1, k1, L, r) /\ Covered(n1, k1, L, H \ {c}) /\ Within(n1, k1, L, p, x)
      /\ k1[p] # Null
  <2>1. r[c] = r[x]
    BY <1>0, <1>6 DEF Levels
  <2>2. Leveled(n1, k1, L, r)
    BY <1>0, <1>6, <2>1, LevelsBefore
  <2>3. Covered(n1, k1, L, H \ {c}) /\ Within(n1, k1, L, p, x)
    BY <1>0, <1>6, <2>1, CoverBefore
  <2>4. k1[p] # Null
    BY <1>0, <1>1 DEF Upd
  <2> QED BY <2>2, <2>3, <2>4
<1>8. /\ Shape(n2, p2, k1, L, (H \ {c}) \cup {x}) /\ Leveled(n2, k1, L, r)
      /\ Covered(n2, k1, L, (H \ {c}) \cup {x})
  <2> HIDE DEF n1, p1, k1, n2, p2
  <2>1. p1[x] # Null /\ n1[x] # x
    BY <1>0, <1>1, <1>4
  <2>2. Shape(Upd(Upd(n1, p1[x], n1[x]), x, Null), Upd(Upd(p1, n1[x], p1[x]), x, Null),
              IF k1[p] = x THEN Upd(k1, p, n1[x]) ELSE k1, L, (H \ {c}) \cup {x})
    BY <1>5, <2>1, ShapeOut, Zenon
  <2>3. Leveled(Upd(Upd(n1, p1[x], n1[x]), x, Null),
                IF k1[p] = x THEN Upd(k1, p, n1[x]) ELSE k1, L, r)
    BY <1>5, <1>7, <2>1, LevelsOut, Zenon
  <2>4. Covered(Upd(Upd(n1, p1[x], n1[x]), x, Null),
                IF k1[p] = x THEN Upd(k1, p, n1[x]) ELSE k1, L, (H \ {c}) \cup {x})
    BY <1>5, <1>7, <2>1, CoverOut, Zenon
  <2> QED BY <1>4, <2>2, <2>3, <2>4
<1>9. g = PutInPlace(h, p, x, c)
  BY DEF PutInPlace, Redirected, SetChild
<1> HIDE DEF a, b, g1, g2, g3, g4, g5, g
<1>10. /\ g1 \in Heaps /\ Nx(g1) = Upd(Nx(h), c, b) /\ Pv(g1) = Pv(h) /\ Kd(g1) = Kd(h)
       /\ SameFlags(h, g1)
  BY <1>0, <1>1, <1>2, SetNextIs DEF g1
<1>11. /\ g2 \in Heaps /\ Pv(g2) = Upd(Pv(g1), c, a) /\ Nx(g2) = Nx(g1) /\ Kd(g2) = Kd(g1)
       /\ SameFlags(g1, g2)
  BY <1>1, <1>2, <1>10, SetPrevIs DEF g2
<1>12. /\ g3 \in Heaps /\ Pv(g3) = Upd(Pv(g2), b, c) /\ Nx(g3) = Nx(g2) /\ Kd(g3) = Kd(g2)
       /\ SameFlags(g2, g3)
  BY <1>1, <1>2, <1>11, SetPrevIs DEF g3
<1>13. g3[p].ref = FALSE /\ g3[p].child = Kd(h)[p]
  <2>1. g3[p].ref = FALSE
    BY <1>0, <1>1, <1>10, <1>11, <1>12 DEF SameFlags, Rf
  <2>2. Kd(g3)[p] = g3[p].child
    BY <1>1, <2>1 DEF Kd
  <2> QED BY <1>10, <1>11, <1>12, <2>1, <2>2
<1>14. /\ g4 \in Heaps /\ Pv(g4) = Pv(g3) /\ Kd(g4) = k1 /\ SameFlags(g3, g4)
       /\ Nx(g4) = IF Kd(h)[p] = x THEN Nx(g3) ELSE Upd(Nx(g3), a, c)
  <2>1. CASE x = Kd(h)[p]
    <3>1. g4 = SetChild(g3, p, c)
      BY <1>13, <2>1 DEF g4
    <3>2. /\ g4 \in Heaps /\ Nx(g4) = Nx(g3) /\ Pv(g4) = Pv(g3) /\ SameFlags(g3, g4)
          /\ Kd(g4) = Upd(Kd(g3), p, c)
      BY <1>1, <1>12, <1>13, <3>1, SetChildIs
    <3> QED BY <1>10, <1>11, <1>12, <2>1, <3>2
  <2>2. CASE x # Kd(h)[p]
    <3>1. g4 = SetNext(g3, a, c)
      BY <1>2, <1>13, <2>2 DEF g4
    <3>2. /\ g4 \in Heaps /\ Kd(g4) = Kd(g3) /\ Pv(g4) = Pv(g3) /\ SameFlags(g3, g4)
          /\ Nx(g4) = Upd(Nx(g3), a, c)
      BY <1>1, <1>12, <3>1, SetNextIs
    <3> QED BY <1>10, <1>11, <1>12, <2>2, <3>2
  <2> QED BY <2>1, <2>2
<1>15. /\ g5 \in Heaps /\ Nx(g5) = Upd(Nx(g4), x, Null) /\ Pv(g5) = Pv(g4) /\ Kd(g5) = Kd(g4)
       /\ SameFlags(g4, g5)
  BY <1>1, <1>14, SetNextIs DEF g5
<1>16. /\ g \in Heaps /\ Pv(g) = Upd(Pv(g5), x, Null) /\ Nx(g) = Nx(g5) /\ Kd(g) = Kd(g5)
       /\ SameFlags(g5, g)
  BY <1>1, <1>15, SetPrevIs DEF g
<1>17. Nx(g) = n2 /\ Pv(g) = p2 /\ Kd(g) = k1
  BY <1>10, <1>11, <1>12, <1>14, <1>15, <1>16
<1>18. SameFlags(h, g)
  BY <1>10, <1>11, <1>12, <1>14, <1>15, <1>16 DEF SameFlags
<1>19. HeapForest(g, L, (H \ {c}) \cup {x})
  BY <1>6, <1>8, <1>16, <1>17 DEF HeapForest, Forest
<1>20. \A m \in Nodes \ L : n2[m] = Nx(h)[m] /\ p2[m] = Pv(h)[m] /\ k1[m] = Kd(h)[m]
  BY <1>0, <1>1 DEF Upd
<1>21. Relinked(h, g, L)
  BY <1>17, <1>18, <1>20 DEF Relinked
<1>22. PutLinks(h, g, p, x, c)
  BY <1>17 DEF PutLinks, a, b
<1> QED BY <1>9, <1>19, <1>21, <1>22

-----------------------------------------------------------------------------
(* Freeing.                                                                *)

(* Nodes that are not in use are blank.                                    *)
Vacant(h, L) == \A m \in Nodes \ L : h[m] = Blank

(* The flag fits the key: no constant will be freed, no copy kept.         *)
FitsAt(h, m) ==
  h[m].key \in IF h[m].const THEN {"none", "constant"} ELSE {"none", "copy"}
FittingOn(h, S) == \A m \in S : FitsAt(h, m)

(* The nodes outside S have the same keys and flags in h and g.            *)
SameKeysBut(h, g, S) == \A m \in Nodes \ S : g[m].const = h[m].const /\ g[m].key = h[m].key
SameKeys(h, g) == SameKeysBut(h, g, {})

(* The nodes in S have no keys.                                            *)
Unkeyed(h, S) == \A m \in S : h[m].const = FALSE /\ h[m].key = "none"

(* Keys that stay stay on.                                                 *)
LEMMA SameKeysThrough ==
  ASSUME NEW f, NEW g, NEW h, SameKeys(f, g), SameKeys(g, h)
  PROVE  SameKeys(f, h)
BY DEF SameKeys, SameKeysBut

(* A blank node is an item.                                                *)
LEMMA BlankIs ==
  /\ Blank \in Items
  /\ Blank.next = Null /\ Blank.prev = Null /\ Blank.child = Null
  /\ Blank.ref = FALSE /\ Blank.const = FALSE /\ Blank.key = "none"
BY DEF Blank, Items, Links

(* The nodes in S have the links in g that they had in h.                  *)
KeptLinks(h, g, S) == \A m \in S : Nx(g)[m] = Nx(h)[m] /\ Kd(g)[m] = Kd(h)[m]

(* D is what goes with the nodes in R.                                     *)
AllDoomed(h, R, D) == \A m : m \in D <=> \E c \in R : m \in Doomed(h, c)

(* A forest without the trees of some held nodes.                          *)
LEMMA GoneForest ==
  ASSUME NEW h, NEW L, NEW H, HeapForest(h, L, H), NEW R \in SUBSET H,
         NEW D, AllDoomed(h, R, D),
         NEW g \in Heaps,
         \A m \in L \ D : Nx(g)[m] = Nx(h)[m] /\ Pv(g)[m] = Pv(h)[m] /\ Kd(g)[m] = Kd(h)[m]
  PROVE  D \subseteq L /\ HeapForest(g, L \ D, H \ R)
<1>0. /\ L \in SUBSET Nodes /\ H \in SUBSET L /\ Shape(Nx(h), Pv(h), Kd(h), L, H)
      /\ \E r \in Levels : Leveled(Nx(h), Kd(h), L, r)
      /\ Covered(Nx(h), Kd(h), L, H) /\ LinksIn(Nx(h), Pv(h), Kd(h), L)
  BY HeapForestIs
<1>1. \A c \in R : /\ c \in Doomed(h, c) /\ Doomed(h, c) \in SUBSET L
                   /\ \A m \in Doomed(h, c) : /\ Nx(h)[m] \in Doomed(h, c) \cup {Null}
                                              /\ Kd(h)[m] \in Doomed(h, c) \cup {Null}
                   /\ ReachedFrom(Nx(h), Kd(h), {c}, Doomed(h, c))
  <2> SUFFICES ASSUME NEW c \in R
               PROVE  /\ c \in Doomed(h, c) /\ Doomed(h, c) \in SUBSET L
                      /\ \A m \in Doomed(h, c) : /\ Nx(h)[m] \in Doomed(h, c) \cup {Null}
                                                 /\ Kd(h)[m] \in Doomed(h, c) \cup {Null}
                      /\ ReachedFrom(Nx(h), Kd(h), {c}, Doomed(h, c))
    OBVIOUS
  <2>1. c \in L
    BY <1>0
  <2> QED BY <2>1, DoomedForest
<1>2. \A m : m \in D <=> \E c \in R : m \in Doomed(h, c)
  BY DEF AllDoomed
<1>3. D \in SUBSET L /\ R \subseteq D
  BY <1>1, <1>2
<1>4. \A m \in D : Nx(h)[m] \in D \cup {Null} /\ Kd(h)[m] \in D \cup {Null}
  BY <1>1, <1>2
<1>5. ReachedFrom(Nx(h), Kd(h), R, D)
  <2> SUFFICES ASSUME NEW m \in D
               PROVE  m \in R \/ \E k \in D : Nx(h)[k] = m \/ Kd(h)[k] = m
    BY DEF ReachedFrom
  <2>1. PICK c \in R : m \in Doomed(h, c)
    BY <1>2
  <2>2. m = c \/ \E k \in Doomed(h, c) : Nx(h)[k] = m \/ Kd(h)[k] = m
    BY <1>1, <2>1 DEF ReachedFrom
  <2> QED BY <1>2, <2>1, <2>2
<1>6. Nx(g) \in Maps /\ Pv(g) \in Maps /\ Kd(g) \in Maps
  BY ViewTypes
<1>7. Shape(Nx(g), Pv(g), Kd(g), L \ D, H \ R)
  BY <1>0, <1>3, <1>4, <1>5, <1>6, ShapeFree
<1>8. PICK r \in Levels : Leveled(Nx(h), Kd(h), L, r)
  BY <1>0
<1>9. Leveled(Nx(g), Kd(g), L \ D, r)
  BY <1>8 DEF Leveled
<1>10. Covered(Nx(g), Kd(g), L \ D, H \ R)
  <2>1. Along(Nx(h), Kd(h), D)
    BY <1>4 DEF Along
  <2>2. /\ Covered(Nx(h), Kd(h), L, H) /\ R \in SUBSET H
        /\ D \in SUBSET L /\ R \subseteq D
        /\ Unmoved(Nx(g), Kd(g), Nx(h), Kd(h), L \ D)
    BY <1>0, <1>3 DEF Unmoved
  <2> QED BY <2>1, <2>2, CoverFree
<1> QED BY <1>3, <1>7, <1>8, <1>9, <1>10 DEF HeapForest, Forest

(* Freed() is the forest without the tree of c.                            *)
LEMMA FreedForest ==
  ASSUME NEW h, NEW L, NEW H, HeapForest(h, L, H), Vacant(h, L), NEW c \in H
  PROVE  /\ HeapForest(Freed(h, c), L \ Doomed(h, c), H \ {c})
         /\ Vacant(Freed(h, c), L \ Doomed(h, c))
         /\ SameKeysBut(h, Freed(h, c), Doomed(h, c))
         /\ Unkeyed(Freed(h, c), Doomed(h, c))
         /\ KeptLinks(h, Freed(h, c), L \ Doomed(h, c))
<1> DEFINE D == Doomed(h, c)
           g == Freed(h, c)
           R == {c}
<1>0. h \in Heaps /\ L \in SUBSET Nodes /\ H \in SUBSET L /\ Null \notin Nodes /\ c \in L
  BY HeapForestIs
<1>1. D \in SUBSET L /\ \A m : m \in D <=> \E k \in R : m \in Doomed(h, k)
  <2>1. D \in SUBSET L
    BY <1>0, DoomedForest
  <2> QED BY <2>1
<1>2. g = [m \in Nodes |-> IF m \in D THEN Blank
                           ELSE IF h[m].ref /\ h[m].child \in D THEN [h[m] EXCEPT !.child = Null]
                           ELSE h[m]]
  BY DEF Freed
<1> HIDE DEF D, g
<1>3. \A m \in D : m \in Nodes /\ g[m] = Blank
  BY <1>0, <1>1, <1>2
<1>4. \A m \in Nodes \ D :
        /\ g[m] \in Items
        /\ g[m].next = h[m].next /\ g[m].prev = h[m].prev /\ g[m].ref = h[m].ref
        /\ h[m].ref = FALSE => g[m].child = h[m].child
        /\ g[m].const = h[m].const /\ g[m].key = h[m].key
  <2> SUFFICES ASSUME NEW m \in Nodes \ D
               PROVE  /\ g[m] \in Items
                      /\ g[m].next = h[m].next /\ g[m].prev = h[m].prev /\ g[m].ref = h[m].ref
                      /\ h[m].ref = FALSE => g[m].child = h[m].child
                      /\ g[m].const = h[m].const /\ g[m].key = h[m].key
    OBVIOUS
  <2>1. h[m] \in Items
    BY <1>0, FieldTypes
  <2>2. CASE h[m].ref /\ h[m].child \in D
    <3>1. g[m] = [h[m] EXCEPT !.child = Null]
      BY <1>2, <2>2
    <3> QED BY <2>1, <2>2, <3>1 DEF Items, Links
  <2>3. CASE ~ (h[m].ref /\ h[m].child \in D)
    <3>1. g[m] = h[m]
      BY <1>2, <2>3
    <3> QED BY <2>1, <3>1
  <2> QED BY <2>2, <2>3
<1>5. g \in Heaps
  BY <1>2, <1>3, <1>4, BlankIs DEF Heaps
<1>6. \A m \in L \ D : Nx(g)[m] = Nx(h)[m] /\ Pv(g)[m] = Pv(h)[m] /\ Kd(g)[m] = Kd(h)[m]
  <2> SUFFICES ASSUME NEW m \in L \ D
               PROVE  Nx(g)[m] = Nx(h)[m] /\ Pv(g)[m] = Pv(h)[m] /\ Kd(g)[m] = Kd(h)[m]
    OBVIOUS
  <2>1. m \in Nodes \ D
    BY <1>0
  <2>2. h[m].ref \in BOOLEAN
    BY <1>0, <2>1, FieldTypes
  <2> QED BY <1>4, <2>1, <2>2 DEF Nx, Pv, Kd
<1>7. HeapForest(g, L \ D, H \ R)
  <2>1. R \in SUBSET H /\ AllDoomed(h, R, D)
    BY <1>1 DEF AllDoomed
  <2> HIDE DEF R
  <2> QED BY <1>5, <1>6, <2>1, GoneForest
<1>8. Vacant(g, L \ D)
  <2> SUFFICES ASSUME NEW m \in Nodes \ L, m \notin D
               PROVE  g[m] = Blank
    BY <1>3 DEF Vacant
  <2>1. h[m] = Blank
    BY DEF Vacant
  <2>2. ~ h[m].ref
    BY <2>1, BlankIs
  <2> QED BY <1>2, <2>1, <2>2
<1>9. SameKeysBut(h, g, D) /\ Unkeyed(g, D)
  BY <1>3, <1>4, BlankIs DEF SameKeysBut, Unkeyed
<1>10. KeptLinks(h, g, L \ D)
  BY <1>6 DEF KeptLinks
<1> QED BY <1>7, <1>8, <1>9, <1>10 DEF D, g, R

(* A heap with the same links has the same shape.                          *)
LEMMA SameLinks ==
  ASSUME NEW h, NEW L, NEW H, HeapForest(h, L, H), NEW g \in Heaps,
         Nx(g) = Nx(h), Pv(g) = Pv(h), Kd(g) = Kd(h)
  PROVE  HeapForest(g, L, H)
BY DEF HeapForest

(* A node that is taken into use has no links yet and is held.             *)
LEMMA NewForest ==
  ASSUME NEW h, NEW L, NEW H, HeapForest(h, L, H), NEW n \in Nodes \ L,
         Nx(h)[n] = Null, Pv(h)[n] = Null, Kd(h)[n] = Null
  PROVE  HeapForest(h, L \cup {n}, H \cup {n})
<1>0. /\ h \in Heaps /\ Shape(Nx(h), Pv(h), Kd(h), L, H)
      /\ \E r \in Levels : Leveled(Nx(h), Kd(h), L, r)
      /\ Covered(Nx(h), Kd(h), L, H)
  BY HeapForestIs
<1>1. Shape(Nx(h), Pv(h), Kd(h), L \cup {n}, H \cup {n})
  BY <1>0, ShapeNew
<1>2. PICK r \in Levels : Leveled(Nx(h), Kd(h), L, r)
  BY <1>0
<1>3. Leveled(Nx(h), Kd(h), L \cup {n}, r)
  BY <1>2 DEF Leveled
<1>4. Covered(Nx(h), Kd(h), L \cup {n}, H \cup {n})
  BY <1>0, CoverNew
<1> QED BY <1>0, <1>1, <1>2, <1>3, <1>4 DEF HeapForest, Forest

(* What is not in use stays blank, and all keys stay.                      *)
LEMMA RelinkedKeeps ==
  ASSUME NEW h \in Heaps, NEW g \in Heaps, NEW L, Relinked(h, g, L)
  PROVE  /\ Vacant(h, L) => Vacant(g, L)
         /\ SameKeys(h, g)
<1>1. \A m \in Nodes : /\ g[m].ref = h[m].ref /\ g[m].const = h[m].const /\ g[m].key = h[m].key
  <2>1. \A m \in Nodes : Rf(g)[m] = Rf(h)[m] /\ Cn(g)[m] = Cn(h)[m] /\ Ky(g)[m] = Ky(h)[m]
    BY DEF Relinked, SameFlags
  <2> QED BY <2>1 DEF Rf, Cn, Ky
<1>2. ASSUME Vacant(h, L), NEW m \in Nodes \ L
      PROVE  g[m] = Blank
  <2>1. h[m] = Blank
    BY <1>2 DEF Vacant
  <2>2. g[m].ref = FALSE /\ g[m].const = FALSE /\ g[m].key = "none"
    BY <1>1, <2>1, BlankIs
  <2>3. Nx(g)[m] = Nx(h)[m] /\ Pv(g)[m] = Pv(h)[m] /\ Kd(g)[m] = Kd(h)[m]
    BY DEF Relinked
  <2>4. Nx(h)[m] = Null /\ Pv(h)[m] = Null /\ Kd(h)[m] = Null
    BY <2>1, BlankIs DEF Nx, Pv, Kd
  <2>5. g[m].next = Null /\ g[m].prev = Null /\ g[m].child = Null
    BY <2>2, <2>3, <2>4 DEF Nx, Pv, Kd
  <2>6. g[m] \in Items
    BY FieldTypes
  <2> QED BY <2>2, <2>5, <2>6 DEF Items, Blank
<1> QED BY <1>1, <1>2 DEF Vacant, SameKeys, SameKeysBut

-----------------------------------------------------------------------------
(* Lists as sequences.                                                     *)

(* The item at place k, or Null.                                           *)
At(s, k) == IF k \in 1..Len(s) THEN s[k] ELSE Null

(* s is what is met along nx from f on.                                    *)
IsList(nx, f, s) ==
  s \in Seq(Nodes) /\ f = At(s, 1) /\ \A i \in 1..Len(s) : nx[s[i]] = At(s, i + 1)

(* No item stands at two places.                                           *)
NoTwice(s) == \A i, j \in 1..Len(s) : s[i] = s[j] => i = j

(* One sequence behind another.                                            *)
LEMMA ConcatIs ==
  ASSUME NEW S, NEW u \in Seq(S), NEW v \in Seq(S)
  PROVE  /\ u \o v \in Seq(S) /\ Len(u \o v) = Len(u) + Len(v)
         /\ \A k \in 1..Len(u) + Len(v) :
              (u \o v)[k] = IF k <= Len(u) THEN u[k] ELSE v[k - Len(u)]
OBVIOUS

(* There is one such sequence.                                             *)
LEMMA OneList ==
  ASSUME NEW nx, NEW f, NEW s, NEW t, IsList(nx, f, s), IsList(nx, f, t)
  PROVE  s = t
<1>0. /\ s \in Seq(Nodes) /\ f = At(s, 1) /\ \A i \in 1..Len(s) : nx[s[i]] = At(s, i + 1)
      /\ t \in Seq(Nodes) /\ f = At(t, 1) /\ \A i \in 1..Len(t) : nx[t[i]] = At(t, i + 1)
      /\ Null \notin Nodes
  BY JsonHeapAssumption DEF IsList
<1> DEFINE M == Len(s)
           N == Len(t)
<1>1. /\ M \in Nat /\ N \in Nat
      /\ \A k \in 1..M : s[k] \in Nodes
      /\ \A k \in 1..N : t[k] \in Nodes
  BY <1>0
<1>2. \A k \in 0..M : At(s, k + 1) = At(t, k + 1)
  <2> DEFINE S == {k \in 0..M : At(s, k + 1) = At(t, k + 1)}
  <2>1. 0 \in S
    BY <1>0, <1>1
  <2>2. ASSUME NEW k \in 0..M, k < M, k \in S
        PROVE  k + 1 \in S
    <3>1. k + 1 \in 1..M /\ k + 1 \in 0..M
      BY <1>1, <2>2
    <3>2. At(s, k + 1) = s[k + 1] /\ s[k + 1] \in Nodes
      BY <1>1, <3>1 DEF At
    <3>3. At(t, k + 1) = s[k + 1]
      BY <2>2, <3>2
    <3>4. k + 1 \in 1..N /\ t[k + 1] = s[k + 1]
      BY <1>0, <3>2, <3>3 DEF At
    <3>5. nx[s[k + 1]] = At(s, (k + 1) + 1) /\ nx[t[k + 1]] = At(t, (k + 1) + 1)
      BY <1>0, <3>1, <3>4
    <3> QED BY <3>1, <3>4, <3>5
  <2> HIDE DEF S
  <2>3. \A k \in 0..M : k \in S
    BY <1>1, <2>1, <2>2, CountingUp
  <2> QED BY <2>3 DEF S
<1>3. \A k \in 1..M : At(s, k) = At(t, k)
  <2> SUFFICES ASSUME NEW k \in 1..M
               PROVE  At(s, k) = At(t, k)
    OBVIOUS
  <2>1. k - 1 \in 0..M /\ (k - 1) + 1 = k
    BY <1>1
  <2> QED BY <1>2, <2>1
<1>4. \A k \in 1..M : k \in 1..N /\ t[k] = s[k]
  BY <1>0, <1>1, <1>3 DEF At
<1>5. N <= M
  <2> SUFFICES ASSUME M < N
               PROVE  FALSE
    BY <1>1
  <2>1. M + 1 \in 1..N /\ M \in 0..M /\ M + 1 \notin 1..M
    BY <1>1
  <2>2. At(s, M + 1) = Null /\ At(t, M + 1) \in Nodes
    BY <1>1, <2>1 DEF At
  <2> QED BY <1>0, <1>2, <2>1, <2>2
<1>6. M = N
  <2>1. CASE M = 0
    BY <1>1, <1>5, <2>1
  <2>2. CASE M # 0
    <3>1. M \in 1..M
      BY <1>1, <2>2
    <3>2. M \in 1..N
      BY <1>4, <3>1
    <3> QED BY <1>1, <1>5, <3>2
  <2> QED BY <2>1, <2>2
<1> QED BY <1>0, <1>4, <1>6

(* c comes in at place i.                                                  *)
LEMMA ListInsert ==
  ASSUME NEW nx, NEW n2, NEW f, NEW f2, NEW s, IsList(nx, f, s),
         NEW c \in Nodes, NEW i \in 1..Len(s) + 1,
         n2[c] = At(s, i), f2 = (IF i = 1 THEN c ELSE f),
         \A k \in 1..Len(s) : n2[s[k]] = IF k + 1 = i THEN c ELSE nx[s[k]]
  PROVE  IsList(n2, f2, InsertAt(s, i, c))
<1> DEFINE t == InsertAt(s, i, c)
           N == Len(s)
<1>0. s \in Seq(Nodes) /\ f = At(s, 1) /\ \A k \in 1..N : nx[s[k]] = At(s, k + 1)
  BY DEF IsList
<1>1. N \in Nat /\ i \in Int /\ 1 <= i /\ i <= N + 1
  BY <1>0
<1>2. t \in Seq(Nodes) /\ Len(t) = N + 1
      /\ \A k \in 1..N + 1 : t[k] = IF k < i THEN s[k] ELSE IF k = i THEN c ELSE s[k - 1]
  <2> DEFINE u == SubSeq(s, 1, i - 1)
             v == SubSeq(s, i, N)
  <2>1. u \in Seq(Nodes) /\ Len(u) = i - 1 /\ \A k \in 1..i - 1 : u[k] = s[k]
    BY <1>0, <1>1
  <2>2. v \in Seq(Nodes) /\ Len(v) = N - i + 1 /\ \A k \in 1..N - i + 1 : v[k] = s[k + i - 1]
    BY <1>0, <1>1
  <2>3. t = u \o <<c>> \o v
    BY DEF InsertAt
  <2> HIDE DEF u, v, t
  <2> DEFINE w == u \o <<c>>
  <2>4. w \in Seq(Nodes) /\ Len(w) = i /\ \A k \in 1..i : w[k] = IF k < i THEN s[k] ELSE c
    BY <1>1, <2>1
  <2>5. t = w \o v
    BY <2>3
  <2> HIDE DEF w
  <2>6. t \in Seq(Nodes) /\ Len(t) = N + 1
    <3>1. t \in Seq(Nodes) /\ Len(t) = Len(w) + Len(v)
      BY <2>2, <2>4, <2>5, ConcatIs
    <3> QED BY <1>1, <2>2, <2>4, <3>1
  <2>7. \A k \in 1..N + 1 : t[k] = IF k <= i THEN w[k] ELSE v[k - i]
    <3>1. Len(w) + Len(v) = N + 1 /\ Len(w) = i
      BY <1>1, <2>2, <2>4
    <3>2. \A k \in 1..Len(w) + Len(v) : t[k] = IF k <= Len(w) THEN w[k] ELSE v[k - Len(w)]
      BY <2>2, <2>4, <2>5, ConcatIs
    <3> QED BY <3>1, <3>2
  <2>8. ASSUME NEW k \in 1..N + 1
        PROVE  t[k] = IF k < i THEN s[k] ELSE IF k = i THEN c ELSE s[k - 1]
    <3>1. CASE k <= i
      <4>1. k \in 1..i
        BY <1>1, <3>1
      <4> QED BY <1>1, <2>4, <2>7, <3>1, <4>1
    <3>2. CASE k > i
      <4>1. k - i \in 1..N - i + 1 /\ (k - i) + i - 1 = k - 1
        BY <1>1, <3>2
      <4> QED BY <1>1, <2>2, <2>7, <3>2, <4>1
    <3> QED BY <1>1, <3>1, <3>2
  <2> QED BY <2>6, <2>8
<1> HIDE DEF t
<1>3. f2 = At(t, 1)
  BY <1>0, <1>1, <1>2 DEF At
<1>4. ASSUME NEW k \in 1..N + 1
      PROVE  n2[t[k]] = At(t, k + 1)
  <2>1. CASE k = i
    <3>1. n2[t[k]] = At(s, i)
      BY <1>2, <2>1
    <3>2. At(s, i) = At(t, k + 1)
      BY <1>1, <1>2, <2>1 DEF At
    <3> QED BY <3>1, <3>2
  <2>2. CASE k < i
    <3>1. k \in 1..N /\ t[k] = s[k]
      BY <1>1, <1>2, <2>2
    <3>2. n2[s[k]] = IF k + 1 = i THEN c ELSE At(s, k + 1)
      BY <1>0, <3>1
    <3>3. At(t, k + 1) = IF k + 1 = i THEN c ELSE At(s, k + 1)
      BY <1>1, <1>2, <2>2, <3>1 DEF At
    <3> QED BY <3>1, <3>2, <3>3
  <2>3. CASE k > i
    <3>1. k - 1 \in 1..N /\ t[k] = s[k - 1] /\ (k - 1) + 1 = k
      BY <1>1, <1>2, <2>3
    <3>2. n2[s[k - 1]] = At(s, k)
      BY <1>0, <1>1, <2>3, <3>1
    <3>3. At(t, k + 1) = At(s, k)
      BY <1>1, <1>2, <2>3, <3>1 DEF At
    <3> QED BY <3>1, <3>2, <3>3
  <2> QED BY <1>1, <2>1, <2>2, <2>3
<1> QED BY <1>2, <1>3, <1>4 DEF IsList, t

(* The item at place i goes.                                               *)
LEMMA ListRemove ==
  ASSUME NEW nx, NEW n2, NEW f, NEW f2, NEW s, IsList(nx, f, s), NEW i \in 1..Len(s),
         f2 = (IF i = 1 THEN At(s, 2) ELSE f),
         \A k \in 1..Len(s) : k # i => n2[s[k]] = IF k + 1 = i THEN At(s, i + 1) ELSE nx[s[k]]
  PROVE  IsList(n2, f2, RemoveAt(s, i))
<1> DEFINE t == RemoveAt(s, i)
           N == Len(s)
<1>0. s \in Seq(Nodes) /\ f = At(s, 1) /\ \A k \in 1..N : nx[s[k]] = At(s, k + 1)
  BY DEF IsList
<1>1. N \in Nat /\ i \in Int /\ 1 <= i /\ i <= N
  BY <1>0
<1>2. t \in Seq(Nodes) /\ Len(t) = N - 1
      /\ \A k \in 1..N - 1 : t[k] = IF k < i THEN s[k] ELSE s[k + 1]
  <2> DEFINE u == SubSeq(s, 1, i - 1)
             v == SubSeq(s, i + 1, N)
  <2>1. u \in Seq(Nodes) /\ Len(u) = i - 1 /\ \A k \in 1..i - 1 : u[k] = s[k]
    BY <1>0, <1>1
  <2>2. v \in Seq(Nodes) /\ Len(v) = N - i /\ \A k \in 1..N - i : v[k] = s[k + i]
    BY <1>0, <1>1
  <2>3. t = u \o v
    BY DEF RemoveAt
  <2> HIDE DEF u, v, t
  <2>4. t \in Seq(Nodes) /\ Len(t) = N - 1
    <3>1. t \in Seq(Nodes) /\ Len(t) = Len(u) + Len(v)
      BY <2>1, <2>2, <2>3, ConcatIs
    <3> QED BY <1>1, <2>1, <2>2, <3>1
  <2>5. \A k \in 1..N - 1 : t[k] = IF k < i THEN u[k] ELSE v[k - i + 1]
    <3>1. Len(u) + Len(v) = N - 1 /\ Len(u) = i - 1
      BY <1>1, <2>1, <2>2
    <3>2. \A k \in 1..Len(u) + Len(v) : t[k] = IF k <= Len(u) THEN u[k] ELSE v[k - Len(u)]
      BY <2>1, <2>2, <2>3, ConcatIs
    <3> QED BY <1>1, <3>1, <3>2
  <2>6. ASSUME NEW k \in 1..N - 1
        PROVE  t[k] = IF k < i THEN s[k] ELSE s[k + 1]
    <3>1. CASE k < i
      <4>1. k \in 1..i - 1
        BY <1>1, <3>1
      <4> QED BY <2>1, <2>5, <3>1, <4>1
    <3>2. CASE ~ (k < i)
      <4>1. k - i + 1 \in 1..N - i /\ (k - i + 1) + i = k + 1
        BY <1>1, <3>2
      <4> QED BY <2>2, <2>5, <3>2, <4>1
    <3> QED BY <3>1, <3>2
  <2> QED BY <2>4, <2>6
<1> HIDE DEF t
<1>3. f2 = At(t, 1)
  BY <1>0, <1>1, <1>2 DEF At
<1>4. ASSUME NEW k \in 1..N - 1
      PROVE  n2[t[k]] = At(t, k + 1)
  <2>1. CASE k < i
    <3>1. k \in 1..N /\ t[k] = s[k] /\ k # i
      BY <1>1, <1>2, <2>1
    <3>2. n2[s[k]] = IF k + 1 = i THEN At(s, i + 1) ELSE At(s, k + 1)
      BY <1>0, <3>1
    <3>3. At(t, k + 1) = IF k + 1 = i THEN At(s, i + 1) ELSE At(s, k + 1)
      BY <1>1, <1>2, <2>1, <3>1 DEF At
    <3> QED BY <3>1, <3>2, <3>3
  <2>2. CASE ~ (k < i)
    <3>1. k + 1 \in 1..N /\ t[k] = s[k + 1] /\ k + 1 # i /\ (k + 1) + 1 # i
      BY <1>1, <1>2, <2>2
    <3>2. n2[s[k + 1]] = At(s, (k + 1) + 1)
      BY <1>0, <3>1
    <3>3. At(t, k + 1) = At(s, (k + 1) + 1)
      BY <1>1, <1>2, <2>2, <3>1 DEF At
    <3> QED BY <3>1, <3>2, <3>3
  <2> QED BY <2>1, <2>2
<1> QED BY <1>2, <1>3, <1>4 DEF IsList, t

(* c stands at place i instead.                                            *)
LEMMA ListPut ==
  ASSUME NEW nx, NEW n2, NEW f, NEW f2, NEW s, IsList(nx, f, s),
         NEW c \in Nodes, NEW i \in 1..Len(s),
         n2[c] = At(s, i + 1), f2 = (IF i = 1 THEN c ELSE f),
         \A k \in 1..Len(s) : k # i => n2[s[k]] = IF k + 1 = i THEN c ELSE nx[s[k]]
  PROVE  IsList(n2, f2, [s EXCEPT ![i] = c])
<1> DEFINE t == [s EXCEPT ![i] = c]
           N == Len(s)
<1>0. s \in Seq(Nodes) /\ f = At(s, 1) /\ \A k \in 1..N : nx[s[k]] = At(s, k + 1)
  BY DEF IsList
<1>1. N \in Nat /\ i \in Int /\ 1 <= i /\ i <= N
  BY <1>0
<1>2. t \in Seq(Nodes) /\ Len(t) = N /\ \A k \in 1..N : t[k] = IF k = i THEN c ELSE s[k]
  BY <1>0
<1> HIDE DEF t
<1>3. f2 = At(t, 1)
  BY <1>0, <1>1, <1>2 DEF At
<1>4. ASSUME NEW k \in 1..N
      PROVE  n2[t[k]] = At(t, k + 1)
  <2>1. At(t, k + 1) = IF k + 1 = i THEN c ELSE At(s, k + 1)
    BY <1>1, <1>2 DEF At
  <2>2. CASE k = i
    BY <1>1, <1>2, <2>1, <2>2
  <2>3. CASE k # i
    BY <1>0, <1>2, <2>1, <2>3
  <2> QED BY <2>2, <2>3
<1> QED BY <1>2, <1>3, <1>4 DEF IsList, t

(* Nobody follows Null.                                                    *)
LEMMA SiblingsOfNull ==
  ASSUME NEW h \in Heaps
  PROVE  Siblings(h, Null) = <<>>
<1> DEFINE at == Walk(h, Null)
           K == {k \in 0..Size : at[k] # Null}
<1>1. \A k \in 0..Size : at[k] \in {} \cup {Null}
  BY WalkStays
<1>2. K = {}
  BY <1>1
<1>3. Siblings(h, Null) = [i \in 1..Cardinality(K) |-> at[i - 1]]
  BY DEF Siblings, Size
<1> HIDE DEF K, at
<1>4. Cardinality(K) = 0
  BY <1>2, FS_EmptySet
<1> QED BY <1>3, <1>4

(* The items in p are the list that begins with its kid, and prev leads    *)
(* back through it.                                                        *)
LEMMA MembersList ==
  ASSUME NEW h, NEW L, NEW H, HeapForest(h, L, H), NEW p \in L
  PROVE  /\ IsList(Nx(h), Kd(h)[p], Members(h, p)) /\ Members(h, p) \in Seq(L)
         /\ \A i \in 1..Len(Members(h, p)) : Pv(h)[Members(h, p)[i]] = At(Members(h, p), i - 1)
<1> DEFINE s == Members(h, p)
           f == h[p].child
<1>0. /\ h \in Heaps /\ L \in SUBSET Nodes /\ Null \notin Nodes /\ p \in Nodes
      /\ LinksIn(Nx(h), Pv(h), Kd(h), L) /\ FirstKids(Pv(h), Kd(h), L)
  BY HeapForestIs
<1>1. h[p].ref \in BOOLEAN
  BY <1>0, FieldTypes
<1>2. Kd(h)[p] = IF h[p].ref THEN Null ELSE f
  BY <1>0 DEF Kd
<1>3. CASE Kd(h)[p] = Null
  <2>1. s = <<>>
    <3>1. CASE h[p].ref
      BY <3>1 DEF Members
    <3>2. CASE ~ h[p].ref
      <4>1. s = Siblings(h, Null)
        BY <1>2, <1>3, <3>2 DEF Members
      <4> QED BY <1>0, <4>1, SiblingsOfNull
    <3> QED BY <3>1, <3>2
  <2> HIDE DEF s
  <2>2. IsList(Nx(h), Kd(h)[p], <<>>)
    BY <1>3 DEF IsList, At
  <2>3. <<>> \in Seq(L) /\ Len(<<>>) = 0
    OBVIOUS
  <2>4. s \in Seq(L) /\ IsList(Nx(h), Kd(h)[p], s) /\ 1..Len(s) = {}
    BY <2>1, <2>2, <2>3
  <2> QED BY <2>4 DEF s
<1>4. CASE Kd(h)[p] # Null
  <2>1. ~ h[p].ref /\ f = Kd(h)[p] /\ f \in L /\ Pv(h)[f] = Null
    BY <1>0, <1>2, <1>4 DEF LinksIn, FirstKids
  <2>2. s = Siblings(h, f)
    BY <2>1 DEF Members
  <2> HIDE DEF f, s
  <2>3. /\ s \in Seq(L) /\ Len(s) \in 1..Size /\ s[1] = f
        /\ \A i \in 1..Len(s) : i + 1 \in 1..Len(s) =>
             Nx(h)[s[i]] = s[i + 1] /\ Pv(h)[s[i + 1]] = s[i]
        /\ Nx(h)[s[Len(s)]] = Null
    BY <2>1, <2>2, SiblingsAre, SMTT(40)
  <2>4. Len(s) \in Nat /\ Len(s) >= 1 /\ s \in Seq(Nodes)
    BY <1>0, <2>3, SizeNat
  <2>5. f = At(s, 1)
    BY <2>3, <2>4 DEF At
  <2>6. ASSUME NEW i \in 1..Len(s)
        PROVE  Nx(h)[s[i]] = At(s, i + 1)
    <3>1. CASE i = Len(s)
      <4>1. At(s, i + 1) = Null
        BY <2>4, <3>1 DEF At
      <4> QED BY <2>3, <3>1, <4>1
    <3>2. CASE i # Len(s)
      <4>1. i + 1 \in 1..Len(s)
        BY <2>4, <3>2
      <4> QED BY <2>3, <4>1 DEF At
    <3> QED BY <3>1, <3>2
  <2>7. ASSUME NEW i \in 1..Len(s)
        PROVE  Pv(h)[s[i]] = At(s, i - 1)
    <3>1. CASE i = 1
      <4>1. At(s, i - 1) = Null
        BY <2>4, <3>1 DEF At
      <4> QED BY <2>1, <2>3, <3>1, <4>1
    <3>2. CASE i # 1
      <4>1. i - 1 \in 1..Len(s) /\ (i - 1) + 1 = i
        BY <2>4, <3>2
      <4>2. Pv(h)[s[(i - 1) + 1]] = s[i - 1]
        BY <2>3, <4>1
      <4> QED BY <4>1, <4>2 DEF At
    <3> QED BY <3>1, <3>2
  <2>8. IsList(Nx(h), Kd(h)[p], s)
    BY <2>1, <2>4, <2>5, <2>6 DEF IsList
  <2> QED BY <2>3, <2>7, <2>8 DEF s
<1> QED BY <1>3, <1>4

(* The members of a list.                                                  *)
LEMMA SeqSet ==
  ASSUME NEW S, NEW s \in Seq(S)
  PROVE  ToSet(s) = {s[i] : i \in 1..Len(s)} /\ ToSet(s) \subseteq S
BY DEF ToSet

(* No item is twice in p.                                                  *)
LEMMA MembersDistinct ==
  ASSUME NEW h, NEW L, NEW H, HeapForest(h, L, H), NEW p \in L
  PROVE  NoTwice(Members(h, p))
<1> DEFINE s == Members(h, p)
           N == Len(s)
<1>0. /\ s \in Seq(L) /\ L \in SUBSET Nodes /\ Null \notin Nodes
      /\ \A i \in 1..N : Pv(h)[s[i]] = At(s, i - 1)
  <2>1. s \in Seq(L) /\ \A i \in 1..N : Pv(h)[s[i]] = At(s, i - 1)
    BY MembersList
  <2>2. L \in SUBSET Nodes /\ Null \notin Nodes
    BY HeapForestIs
  <2> QED BY <2>1, <2>2
<1>1. N \in Nat /\ \A i \in 1..N : s[i] \in L /\ s[i] # Null
  BY <1>0
<1> HIDE DEF s, N
<1>2. ASSUME NEW k \in Nat, k # 0
      PROVE  \A i \in 1..N : i + k \in 1..N => s[i + k] # s[i]
  <2> DEFINE T == {i \in 0..N : i \in 1..N /\ i + k \in 1..N => s[i + k] # s[i]}
  <2>1. 0 \in T
    BY <1>1
  <2>2. ASSUME NEW i \in 0..N, i < N, i \in T
        PROVE  i + 1 \in T
    <3>1. i + 1 \in 0..N
      BY <1>1, <2>2
    <3>2. SUFFICES ASSUME (i + 1) + k \in 1..N, s[(i + 1) + k] = s[i + 1]
                   PROVE  FALSE
      BY <3>1
    <3>3. /\ i + 1 \in 1..N /\ (i + 1) - 1 = i /\ ((i + 1) + k) - 1 = i + k
          /\ i + k \in 1..N
      BY <1>1, <1>2, <2>2, <3>2
    <3>4. Pv(h)[s[i + 1]] = At(s, i) /\ Pv(h)[s[(i + 1) + k]] = At(s, i + k)
      BY <1>0, <3>2, <3>3 DEF N
    <3>5. At(s, i) = s[i + k] /\ s[i + k] # Null
      BY <1>1, <3>2, <3>3, <3>4 DEF At, N
    <3>6. i \in 1..N /\ s[i] = s[i + k]
      BY <3>5 DEF At, N
    <3> QED BY <2>2, <3>3, <3>6
  <2> HIDE DEF T
  <2>3. \A i \in 0..N : i \in T
    BY <1>1, <2>1, <2>2, CountingUp
  <2>4. \A i \in 1..N : i \in 0..N
    BY <1>1
  <2> QED BY <2>3, <2>4 DEF T
<1>3. ASSUME NEW i \in 1..N, NEW j \in 1..N, i < j
      PROVE  s[i] # s[j]
  <2>1. j - i \in Nat /\ j - i # 0 /\ i + (j - i) = j
    BY <1>1, <1>3
  <2> QED BY <1>2, <2>1
<1>4. \A i, j \in 1..N : s[i] = s[j] => i = j
  BY <1>1, <1>3
<1> QED BY <1>4 DEF NoTwice, s, N

(* The items in p are the list that begins with its kid.                   *)
LEMMA MembersWhen ==
  ASSUME NEW h, NEW L, NEW H, HeapForest(h, L, H), NEW p \in L,
         NEW t, IsList(Nx(h), Kd(h)[p], t)
  PROVE  Members(h, p) = t
BY MembersList, OneList

(* An item without a first item has none in it.                            *)
LEMMA NoKids ==
  ASSUME NEW h, NEW L, NEW H, HeapForest(h, L, H), NEW p \in L, Kd(h)[p] = Null
  PROVE  Members(h, p) = <<>>
<1> DEFINE s == Members(h, p)
<1>1. IsList(Nx(h), Kd(h)[p], s) /\ s \in Seq(L)
  BY MembersList
<1>2. Null \notin L
  BY HeapForestIs
<1> HIDE DEF s
<1>3. At(s, 1) = Null
  BY <1>1 DEF IsList
<1>4. Len(s) = 0
  BY <1>1, <1>2, <1>3 DEF At
<1>5. s = <<>>
  BY <1>1, <1>4
<1> QED BY <1>5 DEF s

(* An item is in one item at most.                                         *)
LEMMA MembersApart ==
  ASSUME NEW h, NEW L, NEW H, HeapForest(h, L, H), NEW p \in L, NEW q \in L,
         NEW x, x \in ToSet(Members(h, p)), x \in ToSet(Members(h, q))
  PROVE  p = q
<1> DEFINE s == Members(h, p)
           t == Members(h, q)
           N == Len(s)
           M == Len(t)
<1>0. /\ s \in Seq(L) /\ t \in Seq(L) /\ Null \notin L /\ OneParent(Kd(h), L)
      /\ Kd(h)[p] = At(s, 1) /\ Kd(h)[q] = At(t, 1)
      /\ \A i \in 1..N : Pv(h)[s[i]] = At(s, i - 1)
      /\ \A i \in 1..M : Pv(h)[t[i]] = At(t, i - 1)
  <2>1. L \in SUBSET Nodes /\ Null \notin Nodes /\ OneParent(Kd(h), L)
    BY HeapForestIs
  <2>2. /\ IsList(Nx(h), Kd(h)[p], s) /\ IsList(Nx(h), Kd(h)[q], t)
        /\ s \in Seq(L) /\ t \in Seq(L)
        /\ \A i \in 1..N : Pv(h)[s[i]] = At(s, i - 1)
        /\ \A i \in 1..M : Pv(h)[t[i]] = At(t, i - 1)
    BY MembersList
  <2> HIDE DEF s, t
  <2> QED BY <2>1, <2>2 DEF IsList
<1>1. /\ N \in Nat /\ M \in Nat
      /\ \A i \in 1..N : s[i] \in L
      /\ \A i \in 1..M : t[i] \in L
  BY <1>0
<1>2. PICK i \in 1..N : x = s[i]
  BY <1>0, SeqSet
<1>3. PICK j \in 1..M : x = t[j]
  BY <1>0, SeqSet
<1> HIDE DEF s, t, N, M
<1>4. ASSUME NEW a \in 1..N, NEW b \in 1..M, s[a] = t[b], a > 1
      PROVE  b > 1 /\ s[a - 1] = t[b - 1]
  <2>1. a - 1 \in 1..N
    BY <1>1, <1>4
  <2>2. At(s, a - 1) = s[a - 1] /\ s[a - 1] \in L
    BY <1>1, <2>1 DEF At, N
  <2>3. At(t, b - 1) = s[a - 1]
    BY <1>0, <1>4, <2>2 DEF N, M
  <2>4. b - 1 \in 1..M /\ t[b - 1] = s[a - 1]
    BY <1>0, <2>2, <2>3 DEF At, M
  <2> QED BY <1>1, <2>4
<1> DEFINE T == {k \in 0..N : \A a \in 1..N : \A b \in 1..M :
                                a <= k /\ s[a] = t[b] => s[1] = t[1] /\ 1 \in 1..M}
<1>5. 0 \in T
  BY <1>1
<1>6. ASSUME NEW k \in 0..N, k < N, k \in T
      PROVE  k + 1 \in T
  <2>1. k + 1 \in 0..N
    BY <1>1, <1>6
  <2> SUFFICES ASSUME NEW a \in 1..N, NEW b \in 1..M, a <= k + 1, s[a] = t[b]
               PROVE  s[1] = t[1] /\ 1 \in 1..M
    BY <2>1
  <2>2. CASE a = 1
    <3>1. Pv(h)[s[a]] = At(s, 0) /\ At(s, 0) = Null
      BY <1>0, <1>1, <2>2 DEF At, N
    <3>2. Pv(h)[t[b]] = At(t, b - 1)
      BY <1>0 DEF M
    <3>3. b = 1
      BY <1>0, <1>1, <3>1, <3>2 DEF At, M
    <3> QED BY <2>2, <3>3
  <2>3. CASE a > 1
    <3>1. b > 1 /\ s[a - 1] = t[b - 1]
      BY <1>4, <2>3
    <3>2. a - 1 \in 1..N /\ b - 1 \in 1..M /\ a - 1 <= k
      BY <1>1, <2>3, <3>1
    <3> QED BY <1>6, <3>1, <3>2
  <2> QED BY <1>1, <2>2, <2>3
<1> HIDE DEF T
<1>7. \A k \in 0..N : k \in T
  BY <1>1, <1>5, <1>6, CountingUp
<1>8. N \in T /\ N \in 0..N /\ i <= N /\ 1 \in 1..N
  BY <1>1, <1>7
<1>9. s[1] = t[1] /\ 1 \in 1..M
  BY <1>2, <1>3, <1>8 DEF T
<1>10. Kd(h)[p] = s[1] /\ Kd(h)[q] = s[1] /\ s[1] # Null
  BY <1>0, <1>1, <1>8, <1>9 DEF At, N, M
<1> QED BY <1>0, <1>10 DEF OneParent

(* What is held is in no item.                                             *)
LEMMA RootApart ==
  ASSUME NEW h, NEW L, NEW H, HeapForest(h, L, H), NEW p \in L, NEW c \in H
  PROVE  c \notin ToSet(Members(h, p))
<1> DEFINE s == Members(h, p)
<1>1. Null \notin L /\ Roots(Nx(h), Pv(h), Kd(h), L, H) /\ L \in SUBSET Nodes
  BY HeapForestIs
<1>2. /\ IsList(Nx(h), Kd(h)[p], s) /\ s \in Seq(L)
      /\ \A i \in 1..Len(s) : Pv(h)[s[i]] = At(s, i - 1)
  BY MembersList
<1> HIDE DEF s
<1>3. Kd(h)[p] = At(s, 1)
  BY <1>2 DEF IsList
<1>4. ToSet(s) = {s[i] : i \in 1..Len(s)} /\ Len(s) \in Nat
  BY <1>2, SeqSet
<1> SUFFICES ASSUME NEW i \in 1..Len(s), c = s[i]
             PROVE  FALSE
  BY <1>4 DEF s
<1>5. Pv(h)[c] = Null /\ Kd(h)[p] # c
  BY <1>1 DEF Roots
<1>6. CASE i = 1
  BY <1>3, <1>5, <1>6 DEF At
<1>7. CASE i # 1
  <2>1. i - 1 \in 1..Len(s)
    BY <1>4, <1>7
  <2>2. At(s, i - 1) \in L
    BY <1>2, <2>1 DEF At
  <2> QED BY <1>1, <1>2, <1>5, <2>2
<1> QED BY <1>6, <1>7

(* A list whose links stay as they are stays as it is.                     *)
LEMMA MembersSame ==
  ASSUME NEW h, NEW L, NEW H, HeapForest(h, L, H), NEW g, NEW L2, NEW H2, HeapForest(g, L2, H2),
         NEW q \in L, q \in L2, Kd(g)[q] = Kd(h)[q],
         \A x \in ToSet(Members(h, q)) : Nx(g)[x] = Nx(h)[x]
  PROVE  Members(g, q) = Members(h, q)
<1> DEFINE s == Members(h, q)
<1>1. IsList(Nx(h), Kd(h)[q], s) /\ s \in Seq(L)
  BY MembersList
<1>2. ToSet(s) = {s[i] : i \in 1..Len(s)}
  BY <1>1, SeqSet
<1>3. \A i \in 1..Len(s) : Nx(g)[s[i]] = Nx(h)[s[i]]
  BY <1>2
<1>4. IsList(Nx(g), Kd(g)[q], s)
  <2> HIDE DEF s
  <2> QED BY <1>1, <1>3 DEF IsList
<1> HIDE DEF s
<1>5. Members(g, q) = s
  BY <1>4, MembersWhen
<1> QED BY <1>5 DEF s

-----------------------------------------------------------------------------
(* What the functions do to the items in an item.                          *)

(* One more item of e.                                                     *)
LEMMA OneMore ==
  ASSUME NEW S, NEW e \in Seq(S), NEW k \in 0..Len(e), k < Len(e)
  PROVE  InsertAt(SubSeq(e, 1, k), Len(SubSeq(e, 1, k)) + 1, e[k + 1]) = SubSeq(e, 1, k + 1)
<1> DEFINE s == SubSeq(e, 1, k)
           c == e[k + 1]
           t == SubSeq(e, 1, k + 1)
<1>1. /\ s \in Seq(S) /\ Len(s) = k /\ \A i \in 1..k : s[i] = e[i]
      /\ t \in Seq(S) /\ Len(t) = k + 1 /\ \A i \in 1..k + 1 : t[i] = e[i]
      /\ c \in S /\ k \in Nat /\ c = e[k + 1]
  OBVIOUS
<1> HIDE DEF s, t, c
<1>3. InsertAt(s, Len(s) + 1, c) = s \o <<c>> \o <<>>
  <2> DEFINE i == Len(s) + 1
  <2>1. SubSeq(s, 1, i - 1) = s /\ SubSeq(s, i, Len(s)) = <<>>
    BY <1>1
  <2> HIDE DEF i
  <2>2. InsertAt(s, i, c) = s \o <<c>> \o <<>>
    BY <2>1, Zenon DEF InsertAt
  <2> QED BY <2>2 DEF i
<1> DEFINE w == s \o <<c>>
<1>4. w \in Seq(S) /\ Len(w) = k + 1 /\ \A i \in 1..k + 1 : w[i] = IF i <= k THEN s[i] ELSE c
  BY <1>1
<1>5. w \o <<>> = w
  BY <1>4
<1> HIDE DEF w
<1>6. \A i \in 1..k + 1 : w[i] = t[i]
  <2> SUFFICES ASSUME NEW i \in 1..k + 1
               PROVE  w[i] = t[i]
    OBVIOUS
  <2>1. CASE i = k + 1
    BY <1>1, <1>4, <2>1
  <2>2. CASE i # k + 1
    <3>1. i \in 1..k
      BY <1>1, <2>2
    <3>2. w[i] = s[i]
      BY <1>4, <3>1
    <3> QED BY <1>1, <3>1, <3>2
  <2> QED BY <2>1, <2>2
<1>7. w = t
  BY <1>1, <1>4, <1>6
<1> QED BY <1>3, <1>5, <1>7 DEF w, s, t, c

(* Nothing is in a node that is not in use.                                *)
LEMMA VacantMembers ==
  ASSUME NEW h \in Heaps, NEW L, Vacant(h, L), NEW m \in Nodes \ L
  PROVE  Members(h, m) = <<>>
<1>1. h[m].ref = FALSE /\ h[m].child = Null
  BY BlankIs DEF Vacant
<1>2. Members(h, m) = Siblings(h, Null)
  BY <1>1 DEF Members
<1> QED BY <1>2, SiblingsOfNull

(* The item at place i of p, its neighbours and where p points.            *)
LEMMA PlaceIs ==
  ASSUME NEW h, NEW L, NEW H, HeapForest(h, L, H), NEW p \in L, NEW i \in 1..Len(Members(h, p))
  PROVE  /\ Members(h, p)[i] \in L /\ Members(h, p)[i] \in ToSet(Members(h, p))
         /\ Nx(h)[Members(h, p)[i]] = At(Members(h, p), i + 1)
         /\ Pv(h)[Members(h, p)[i]] = At(Members(h, p), i - 1)
         /\ Kd(h)[p] = Members(h, p)[i] <=> i = 1
<1> DEFINE s == Members(h, p)
<1>1. /\ IsList(Nx(h), Kd(h)[p], s) /\ s \in Seq(L)
      /\ \A k \in 1..Len(s) : Pv(h)[s[k]] = At(s, k - 1)
  BY MembersList
<1>2. NoTwice(s)
  BY MembersDistinct
<1> HIDE DEF s
<1>3. /\ Kd(h)[p] = At(s, 1) /\ Nx(h)[s[i]] = At(s, i + 1) /\ Pv(h)[s[i]] = At(s, i - 1)
  BY <1>1 DEF IsList, s
<1>4. Len(s) \in Nat /\ i \in 1..Len(s) /\ 1 \in 1..Len(s)
  BY <1>1 DEF s
<1>5. s[i] \in L /\ s[i] \in ToSet(s)
  BY <1>1, <1>4, SeqSet
<1>6. Kd(h)[p] = s[1]
  BY <1>3, <1>4 DEF At
<1>7. s[1] = s[i] <=> i = 1
  BY <1>2, <1>4 DEF NoTwice
<1> QED BY <1>3, <1>5, <1>6, <1>7 DEF s

(* The item in front of place i, if any.                                   *)
LEMMA FrontIs ==
  ASSUME NEW h, NEW L, NEW H, HeapForest(h, L, H), NEW p \in L,
         NEW i \in 1..Len(Members(h, p)) + 1, NEW k \in 1..Len(Members(h, p))
  PROVE  Members(h, p)[k] = At(Members(h, p), i - 1) <=> k + 1 = i
<1> DEFINE s == Members(h, p)
<1>1. s \in Seq(L) /\ Null \notin L
  <2>1. s \in Seq(L)
    BY MembersList
  <2>2. L \in SUBSET Nodes /\ Null \notin Nodes
    BY HeapForestIs
  <2> QED BY <2>1, <2>2
<1>2. NoTwice(s)
  BY MembersDistinct
<1>3. k \in 1..Len(s) /\ i \in 1..Len(s) + 1 /\ Len(s) \in Nat
  BY <1>1
<1> HIDE DEF s
<1>4. s[k] \in L
  BY <1>1, <1>3
<1> SUFFICES s[k] = At(s, i - 1) <=> k + 1 = i
  BY DEF s
<1>5. CASE i = 1
  <2>1. At(s, i - 1) = Null
    BY <1>3, <1>5 DEF At
  <2>2. s[k] # Null /\ k + 1 # i
    BY <1>1, <1>3, <1>4, <1>5
  <2> QED BY <2>1, <2>2
<1>6. CASE i # 1
  <2>1. i - 1 \in 1..Len(s)
    BY <1>3, <1>6
  <2>2. At(s, i - 1) = s[i - 1]
    BY <2>1 DEF At
  <2>3. s[k] = s[i - 1] => k = i - 1
    BY <1>2, <1>3, <2>1 DEF NoTwice
  <2>4. k = i - 1 <=> k + 1 = i
    BY <1>3
  <2> QED BY <2>2, <2>3, <2>4
<1> QED BY <1>5, <1>6

(* The links of L after c has come in at place i of p.                     *)
CameIn(h, g, L, p, i, c) ==
  \A m \in L :
    /\ Nx(g)[m] = IF m = c THEN At(Members(h, p), i)
                  ELSE IF m = At(Members(h, p), i - 1) THEN c ELSE Nx(h)[m]
    /\ Kd(g)[m] = IF m = p /\ i = 1 THEN c ELSE Kd(h)[m]

(* ... after the item at place i of p has gone.                            *)
WentOut(h, g, L, p, i) ==
  \A m \in L :
    /\ Nx(g)[m] = IF m = Members(h, p)[i] THEN Null
                  ELSE IF m = At(Members(h, p), i - 1) THEN At(Members(h, p), i + 1)
                  ELSE Nx(h)[m]
    /\ Kd(g)[m] = IF m = p /\ i = 1 THEN At(Members(h, p), 2) ELSE Kd(h)[m]

(* ... after c has taken the place of the item at place i of p.            *)
TookPlace(h, g, L, p, i, c) ==
  \A m \in L :
    /\ Nx(g)[m] = IF m = Members(h, p)[i] THEN Null
                  ELSE IF m = c THEN At(Members(h, p), i + 1)
                  ELSE IF m = At(Members(h, p), i - 1) THEN c ELSE Nx(h)[m]
    /\ Kd(g)[m] = IF m = p /\ i = 1 THEN c ELSE Kd(h)[m]

(* Members() of the other items are what they were.                        *)
OthersSame(h, g, L, p) == \A q \in L : q # p => Members(g, q) = Members(h, q)

(* What is in p, and in nothing else, has changed.                         *)
NowHolds(h, g, L, p, s) == Members(g, p) = s /\ OthersSame(h, g, L, p)

(* The other lists keep their links, if only items in p and c change them. *)
LEMMA OthersKeep ==
  ASSUME NEW h, NEW L, NEW H, HeapForest(h, L, H), NEW g, NEW H2, HeapForest(g, L, H2),
         NEW p \in L, NEW R \in SUBSET H,
         \A q \in L : q # p => Kd(g)[q] = Kd(h)[q],
         \A m \in L : m \notin R /\ m \notin ToSet(Members(h, p)) => Nx(g)[m] = Nx(h)[m]
  PROVE  OthersSame(h, g, L, p)
<1> SUFFICES ASSUME NEW q \in L, q # p
             PROVE  Members(g, q) = Members(h, q)
  BY DEF OthersSame
<1>1. Members(h, q) \in Seq(L)
  BY MembersList
<1>2. ToSet(Members(h, q)) \subseteq L
  BY <1>1, SeqSet
<1>3. \A x \in ToSet(Members(h, q)) : x \notin ToSet(Members(h, p))
  BY MembersApart
<1>4. \A x \in ToSet(Members(h, q)) : x \notin R
  BY RootApart
<1>5. \A x \in ToSet(Members(h, q)) : Nx(g)[x] = Nx(h)[x]
  BY <1>2, <1>3, <1>4
<1>6. Kd(g)[q] = Kd(h)[q]
  OBVIOUS
<1> QED BY <1>5, <1>6, MembersSame

(* c comes in at place i of p.                                             *)
LEMMA MembersInserted ==
  ASSUME NEW h, NEW L, NEW H, HeapForest(h, L, H), NEW g, NEW H2, HeapForest(g, L, H2),
         NEW p \in L, NEW c \in H, NEW i \in 1..Len(Members(h, p)) + 1, CameIn(h, g, L, p, i, c)
  PROVE  Members(g, p) = InsertAt(Members(h, p), i, c) /\ OthersSame(h, g, L, p)
<1> DEFINE s == Members(h, p)
<1>0. /\ L \in SUBSET Nodes /\ H \in SUBSET L /\ Null \notin Nodes
      /\ Roots(Nx(h), Pv(h), Kd(h), L, H)
  BY HeapForestIs
<1>1. /\ IsList(Nx(h), Kd(h)[p], s) /\ s \in Seq(L)
  BY MembersList
<1>2. c \notin ToSet(s)
  BY RootApart
<1>3. ToSet(s) = {s[k] : k \in 1..Len(s)} /\ ToSet(s) \subseteq L
  BY <1>1, SeqSet
<1>4. \A k \in 1..Len(s) : s[k] = At(s, i - 1) <=> k + 1 = i
  BY FrontIs
<1>5. c \in Nodes /\ c \in L
  BY <1>0
<1>6. /\ \A m \in L : Nx(g)[m] = IF m = c THEN At(s, i)
                                 ELSE IF m = At(s, i - 1) THEN c ELSE Nx(h)[m]
      /\ \A m \in L : Kd(g)[m] = IF m = p /\ i = 1 THEN c ELSE Kd(h)[m]
  BY DEF CameIn
<1>7. At(s, i - 1) \in ToSet(s) \cup {Null}
  BY <1>3 DEF At
<1>8. i \in 1..Len(s) + 1
  OBVIOUS
<1>9. \A k \in 1..Len(s) : s[k] \in L /\ s[k] # c
  BY <1>2, <1>3
<1> HIDE DEF s
<1>10. Members(g, p) = InsertAt(s, i, c)
  <2>1. Nx(g)[c] = At(s, i)
    BY <1>5, <1>6
  <2>2. Kd(g)[p] = IF i = 1 THEN c ELSE Kd(h)[p]
    BY <1>6
  <2>3. \A k \in 1..Len(s) : Nx(g)[s[k]] = IF k + 1 = i THEN c ELSE Nx(h)[s[k]]
    BY <1>4, <1>6, <1>9
  <2>4. IsList(Nx(g), Kd(g)[p], InsertAt(s, i, c))
    BY <1>1, <1>5, <1>8, <2>1, <2>2, <2>3, ListInsert
  <2> QED BY <2>4, MembersWhen
<1>11. OthersSame(h, g, L, p)
  <2> DEFINE R == {c}
  <2>1. R \in SUBSET H /\ \A q \in L : q # p => Kd(g)[q] = Kd(h)[q]
    BY <1>6
  <2>2. \A m \in L : m \notin R /\ m \notin ToSet(s) => Nx(g)[m] = Nx(h)[m]
    BY <1>0, <1>6, <1>7
  <2> HIDE DEF R
  <2> QED BY <2>1, <2>2, OthersKeep DEF s
<1> QED BY <1>10, <1>11 DEF s

(* The item at place i of p goes.                                          *)
LEMMA MembersRemoved ==
  ASSUME NEW h, NEW L, NEW H, HeapForest(h, L, H), NEW g, NEW H2, HeapForest(g, L, H2),
         NEW p \in L, NEW i \in 1..Len(Members(h, p)), WentOut(h, g, L, p, i)
  PROVE  Members(g, p) = RemoveAt(Members(h, p), i) /\ OthersSame(h, g, L, p)
<1> DEFINE s == Members(h, p)
<1>0. L \in SUBSET Nodes /\ Null \notin Nodes
  BY HeapForestIs
<1>1. /\ IsList(Nx(h), Kd(h)[p], s) /\ s \in Seq(L)
  BY MembersList
<1>2. NoTwice(s)
  BY MembersDistinct
<1>3. ToSet(s) = {s[k] : k \in 1..Len(s)} /\ ToSet(s) \subseteq L
  BY <1>1, SeqSet
<1>8. i \in 1..Len(s) /\ i \in 1..Len(s) + 1 /\ Len(s) \in Nat
  BY <1>1
<1>4. \A k \in 1..Len(s) : s[k] = At(s, i - 1) <=> k + 1 = i
  BY <1>8, FrontIs
<1>6. /\ \A m \in L : Nx(g)[m] = IF m = s[i] THEN Null
                                 ELSE IF m = At(s, i - 1) THEN At(s, i + 1) ELSE Nx(h)[m]
      /\ \A m \in L : Kd(g)[m] = IF m = p /\ i = 1 THEN At(s, 2) ELSE Kd(h)[m]
  BY DEF WentOut
<1>7. At(s, i - 1) \in ToSet(s) \cup {Null}
  BY <1>3 DEF At
<1>9. \A k \in 1..Len(s) : s[k] \in L /\ (k # i => s[k] # s[i])
  BY <1>2, <1>3, <1>8 DEF NoTwice
<1> HIDE DEF s
<1>10. Members(g, p) = RemoveAt(s, i)
  <2>2. Kd(g)[p] = IF i = 1 THEN At(s, 2) ELSE Kd(h)[p]
    BY <1>6
  <2>3. \A k \in 1..Len(s) : k # i =>
          Nx(g)[s[k]] = IF k + 1 = i THEN At(s, i + 1) ELSE Nx(h)[s[k]]
    BY <1>4, <1>6, <1>9
  <2>4. IsList(Nx(g), Kd(g)[p], RemoveAt(s, i))
    BY <1>1, <1>8, <2>2, <2>3, ListRemove
  <2> QED BY <2>4, MembersWhen
<1>11. OthersSame(h, g, L, p)
  <2> DEFINE R == {}
  <2>1. R \in SUBSET H /\ \A q \in L : q # p => Kd(g)[q] = Kd(h)[q]
    BY <1>6
  <2>2. \A m \in L : m \notin R /\ m \notin ToSet(s) => Nx(g)[m] = Nx(h)[m]
    BY <1>0, <1>3, <1>6, <1>7, <1>8
  <2> HIDE DEF R
  <2> QED BY <2>1, <2>2, OthersKeep DEF s
<1> QED BY <1>10, <1>11 DEF s

(* c takes the place of the item at place i of p.                          *)
LEMMA MembersPut ==
  ASSUME NEW h, NEW L, NEW H, HeapForest(h, L, H), NEW g, NEW H2, HeapForest(g, L, H2),
         NEW p \in L, NEW c \in H, NEW i \in 1..Len(Members(h, p)), TookPlace(h, g, L, p, i, c)
  PROVE  Members(g, p) = [Members(h, p) EXCEPT ![i] = c] /\ OthersSame(h, g, L, p)
<1> DEFINE s == Members(h, p)
<1>0. L \in SUBSET Nodes /\ H \in SUBSET L /\ Null \notin Nodes
  BY HeapForestIs
<1>1. /\ IsList(Nx(h), Kd(h)[p], s) /\ s \in Seq(L)
  BY MembersList
<1>2. NoTwice(s)
  BY MembersDistinct
<1>3. ToSet(s) = {s[k] : k \in 1..Len(s)} /\ ToSet(s) \subseteq L
  BY <1>1, SeqSet
<1>5. c \notin ToSet(s) /\ c \in Nodes /\ c \in L
  BY <1>0, RootApart
<1>8. i \in 1..Len(s) /\ i \in 1..Len(s) + 1 /\ Len(s) \in Nat
  BY <1>1
<1>4. \A k \in 1..Len(s) : s[k] = At(s, i - 1) <=> k + 1 = i
  BY <1>8, FrontIs
<1>6. /\ \A m \in L : Nx(g)[m] = IF m = s[i] THEN Null ELSE IF m = c THEN At(s, i + 1)
                                 ELSE IF m = At(s, i - 1) THEN c ELSE Nx(h)[m]
      /\ \A m \in L : Kd(g)[m] = IF m = p /\ i = 1 THEN c ELSE Kd(h)[m]
  BY DEF TookPlace
<1>7. At(s, i - 1) \in ToSet(s) \cup {Null}
  BY <1>3 DEF At
<1>9. \A k \in 1..Len(s) : s[k] \in L /\ s[k] # c /\ (k # i => s[k] # s[i])
  BY <1>2, <1>3, <1>5, <1>8 DEF NoTwice
<1> HIDE DEF s
<1>10. Members(g, p) = [s EXCEPT ![i] = c]
  <2>1. Nx(g)[c] = At(s, i + 1)
    BY <1>5, <1>6, <1>8, <1>9
  <2>2. Kd(g)[p] = IF i = 1 THEN c ELSE Kd(h)[p]
    BY <1>6
  <2>3. \A k \in 1..Len(s) : k # i => Nx(g)[s[k]] = IF k + 1 = i THEN c ELSE Nx(h)[s[k]]
    BY <1>4, <1>6, <1>9
  <2>4. IsList(Nx(g), Kd(g)[p], [s EXCEPT ![i] = c])
    BY <1>1, <1>5, <1>8, <2>1, <2>2, <2>3, ListPut
  <2> QED BY <2>4, MembersWhen
<1>11. OthersSame(h, g, L, p)
  <2> DEFINE R == {c}
  <2>1. R \in SUBSET H /\ \A q \in L : q # p => Kd(g)[q] = Kd(h)[q]
    BY <1>6
  <2>2. \A m \in L : m \notin R /\ m \notin ToSet(s) => Nx(g)[m] = Nx(h)[m]
    BY <1>0, <1>3, <1>6, <1>7, <1>8
  <2> HIDE DEF R
  <2> QED BY <2>1, <2>2, OthersKeep DEF s
<1> QED BY <1>10, <1>11 DEF s

(* Appended() puts c behind the items in p.                                *)
LEMMA AppendedMembers ==
  ASSUME NEW h, NEW L, NEW H, HeapForest(h, L, H),
         NEW p \in L, h[p].ref = FALSE, NEW c \in H, p \notin Doomed(h, c)
  PROVE  NowHolds(h, Appended(h, p, c), L, p,
                  InsertAt(Members(h, p), Len(Members(h, p)) + 1, c))
<1> DEFINE g == Appended(h, p, c)
           s == Members(h, p)
           i == Len(s) + 1
           b == LastIn(h, p)
<1>0. /\ L \in SUBSET Nodes /\ H \in SUBSET L /\ Null \notin Nodes /\ Kd(h)[p] = h[p].child
      /\ Roots(Nx(h), Pv(h), Kd(h), L, H) /\ Nx(h) \in Maps /\ Kd(h) \in Maps
  BY HeapForestIs
<1>1. HeapForest(g, L, H \ {c}) /\ AppendedLinks(h, g, p, c)
  BY AppendedForest
<1>2. /\ Kd(h)[p] = At(s, 1) /\ s \in Seq(L)
  <2>1. IsList(Nx(h), Kd(h)[p], s) /\ s \in Seq(L)
    BY MembersList
  <2> HIDE DEF s
  <2> QED BY <2>1 DEF IsList
<1>3. c \notin ToSet(s) /\ Nx(h)[c] = Null /\ c \in L /\ c \in Nodes
  BY <1>0, RootApart DEF Roots
<1>4. Len(s) \in Nat /\ i \in 1..Len(s) + 1 /\ At(s, i) = Null
  BY <1>2 DEF At
<1>5. s = Siblings(h, h[p].child)
  BY DEF Members
<1>6. CameIn(h, g, L, p, i, c)
  <2>1. CASE Kd(h)[p] = Null
    <3>1. Nx(g) = Nx(h) /\ Kd(g) = Upd(Kd(h), p, c)
      BY <1>1, <2>1 DEF AppendedLinks
    <3>2. Len(s) = 0
      <4> SUFFICES ASSUME 1 \in 1..Len(s)
                   PROVE  FALSE
        BY <1>4
      <4>1. At(s, 1) \in L
        BY <1>2 DEF At
      <4> QED BY <1>0, <1>2, <2>1, <4>1
    <3>3. i = 1 /\ At(s, i - 1) = Null
      BY <3>2 DEF At
    <3> HIDE DEF i, g, s
    <3>4. \A m \in L : Kd(g)[m] = IF m = p /\ i = 1 THEN c ELSE Kd(h)[m]
      BY <1>0, <3>1, <3>3 DEF Upd
    <3>5. \A m \in L : Nx(g)[m] = IF m = c THEN At(s, i)
                                  ELSE IF m = At(s, i - 1) THEN c ELSE Nx(h)[m]
      BY <1>0, <1>3, <1>4, <3>1, <3>3
    <3> QED BY <3>4, <3>5 DEF CameIn, s
  <2>2. CASE Kd(h)[p] # Null
    <3>1. Nx(g) = Upd(Nx(h), b, c) /\ Kd(g) = Kd(h)
      BY <1>1, <2>2 DEF AppendedLinks
    <3>2. Len(s) # 0
      BY <1>2, <2>2 DEF At
    <3>3. i # 1 /\ i - 1 \in 1..Len(s) /\ i - 1 = Len(s)
      BY <1>4, <3>2
    <3>4. At(s, i - 1) = b /\ b \in ToSet(s)
      <4>1. b = s[Len(s)]
        BY <1>5 DEF LastIn, Last
      <4> HIDE DEF s
      <4>2. b \in ToSet(s)
        BY <1>2, <3>3, <4>1, SeqSet
      <4> QED BY <3>3, <4>1, <4>2 DEF At
    <3>5. b # c
      BY <1>3, <3>4
    <3> HIDE DEF i, g, s, b
    <3>6. \A m \in L : Kd(g)[m] = IF m = p /\ i = 1 THEN c ELSE Kd(h)[m]
      BY <3>1, <3>3
    <3>7. \A m \in L : Nx(g)[m] = IF m = c THEN At(s, i)
                                  ELSE IF m = At(s, i - 1) THEN c ELSE Nx(h)[m]
      BY <1>0, <1>3, <1>4, <3>1, <3>4, <3>5 DEF Upd
    <3> QED BY <3>6, <3>7 DEF CameIn, s
  <2> QED BY <2>1, <2>2
<1> HIDE DEF g, i
<1>7. Members(g, p) = InsertAt(s, i, c) /\ OthersSame(h, g, L, p)
  BY <1>1, <1>4, <1>6, MembersInserted
<1> QED BY <1>7 DEF g, i, NowHolds

(* What the lemmas on the forest ask of an item in p.                      *)
Member(h, L, p, x) ==
  /\ x \in L /\ Nx(h)[x] # x
  /\ Kd(h)[p] = x \/ Pv(h)[x] # Null
  /\ Kd(h)[p] # Null /\ Within(Nx(h), Kd(h), L, p, x)

(* The items in p have it.                                                 *)
LEMMA MemberIs ==
  ASSUME NEW h, NEW L, NEW H, HeapForest(h, L, H),
         NEW p \in L, h[p].ref = FALSE, NEW x, x \in ToSet(Members(h, p))
  PROVE  Member(h, L, p, x)
<1>1. x \in L /\ Nx(h)[x] # x
  BY MembersAre
<1>2. Kd(h)[p] = x \/ Pv(h)[x] # Null
  BY MembersAre, ZenonT(60)
<1>3. Kd(h)[p] # Null /\ Within(Nx(h), Kd(h), L, p, x)
  <2>1. x \in ToSet(Members(h, p))
    OBVIOUS
  <2>2. Kd(h)[p] \in L /\ Within(Nx(h), Kd(h), L, p, x)
    BY <2>1, MembersAre
  <2>3. L \in SUBSET Nodes /\ Null \notin Nodes
    BY HeapForestIs
  <2> QED BY <2>2, <2>3
<1> QED BY <1>1, <1>2, <1>3 DEF Member

(* Unlinked() takes it out.                                                *)
LEMMA UnlinkedMembers ==
  ASSUME NEW h, NEW L, NEW H, HeapForest(h, L, H), NEW p \in L, h[p].ref = FALSE,
         NEW i \in 1..Len(Members(h, p)), NEW x, x = Members(h, p)[i]
  PROVE  NowHolds(h, Unlinked(h, p, x), L, p, RemoveAt(Members(h, p), i))
<1> DEFINE g == Unlinked(h, p, x)
           s == Members(h, p)
<1>0. /\ L \in SUBSET Nodes /\ Null \notin Nodes /\ Nx(h) \in Maps /\ Kd(h) \in Maps
  BY HeapForestIs
<1>1. /\ x \in L /\ x \in ToSet(s) /\ Nx(h)[x] = At(s, i + 1) /\ Pv(h)[x] = At(s, i - 1)
      /\ Kd(h)[p] = x <=> i = 1
  BY PlaceIs
<1>2. /\ Nx(h)[x] # x
      /\ Kd(h)[p] = x \/ Pv(h)[x] # Null
      /\ Kd(h)[p] # Null /\ Within(Nx(h), Kd(h), L, p, x)
  <2>1. Member(h, L, p, x)
    BY <1>1, MemberIs
  <2> QED BY <2>1 DEF Member
<1>3. HeapForest(g, L, H \cup {x}) /\ UnlinkedLinks(h, g, p, x)
  BY <1>1, <1>2, UnlinkedForest
<1> HIDE DEF g, s
<1>4. /\ Nx(g) = Upd(Upd(Nx(h), At(s, i - 1), At(s, i + 1)), x, Null)
      /\ Kd(g) = IF i = 1 THEN Upd(Kd(h), p, At(s, i + 1)) ELSE Kd(h)
  BY <1>1, <1>3 DEF UnlinkedLinks
<1>5. \A m \in L : Nx(g)[m] = IF m = x THEN Null
                              ELSE IF m = At(s, i - 1) THEN At(s, i + 1) ELSE Nx(h)[m]
  BY <1>0, <1>4 DEF Upd
<1>6. \A m \in L : Kd(g)[m] = IF m = p /\ i = 1 THEN At(s, 2) ELSE Kd(h)[m]
  BY <1>0, <1>4 DEF Upd
<1>7. WentOut(h, g, L, p, i)
  BY <1>5, <1>6 DEF WentOut, s
<1>8. Members(g, p) = RemoveAt(s, i) /\ OthersSame(h, g, L, p)
  BY <1>3, <1>7, MembersRemoved DEF s
<1> QED BY <1>8 DEF g, s, NowHolds

(* InsertedBefore() puts c in front of it.                                 *)
LEMMA InsertedMembers ==
  ASSUME NEW h, NEW L, NEW H, HeapForest(h, L, H), NEW p \in L, h[p].ref = FALSE,
         NEW i \in 1..Len(Members(h, p)), NEW x, x = Members(h, p)[i],
         NEW c \in H, x \notin Doomed(h, c)
  PROVE  NowHolds(h, InsertedBefore(h, p, x, c), L, p, InsertAt(Members(h, p), i, c))
<1> DEFINE g == InsertedBefore(h, p, x, c)
           s == Members(h, p)
<1>0. /\ L \in SUBSET Nodes /\ H \in SUBSET L /\ Null \notin Nodes
      /\ Nx(h) \in Maps /\ Kd(h) \in Maps
  BY HeapForestIs
<1>1. /\ x \in L /\ x \in ToSet(s) /\ Pv(h)[x] = At(s, i - 1)
      /\ Kd(h)[p] = x <=> i = 1
  BY PlaceIs
<1>2. /\ Kd(h)[p] = x \/ Pv(h)[x] # Null
      /\ Kd(h)[p] # Null /\ Within(Nx(h), Kd(h), L, p, x)
  <2>1. Member(h, L, p, x)
    BY <1>1, MemberIs
  <2> QED BY <2>1 DEF Member
<1>3. HeapForest(g, L, H \ {c}) /\ InsertedLinks(h, g, p, x, c)
  BY <1>1, <1>2, InsertedForest
<1>4. i \in 1..Len(s) + 1 /\ At(s, i) = x /\ (i = 1 => At(s, i - 1) = Null)
  <2>1. s \in Seq(L)
    BY MembersList
  <2> HIDE DEF s
  <2>2. i \in 1..Len(s) /\ Len(s) \in Nat /\ s[i] = x
    BY <2>1 DEF s
  <2> QED BY <2>2 DEF At
<1>5. c \notin ToSet(s) /\ c \in L
  BY <1>0, RootApart
<1>6. At(s, i - 1) \in ToSet(s) \cup {Null}
  <2>1. s \in Seq(L)
    BY MembersList
  <2> HIDE DEF s
  <2> QED BY <2>1, SeqSet DEF At
<1> HIDE DEF g, s
<1>7. /\ Nx(g) = IF i = 1 THEN Upd(Nx(h), c, x) ELSE Upd(Upd(Nx(h), c, x), At(s, i - 1), c)
      /\ Kd(g) = IF i = 1 THEN Upd(Kd(h), p, c) ELSE Kd(h)
  BY <1>1, <1>3 DEF InsertedLinks
<1>8. \A m \in L : Nx(g)[m] = IF m = c THEN At(s, i)
                              ELSE IF m = At(s, i - 1) THEN c ELSE Nx(h)[m]
  <2>1. At(s, i - 1) # c
    BY <1>0, <1>5, <1>6
  <2> QED BY <1>0, <1>4, <1>7, <2>1 DEF Upd
<1>9. \A m \in L : Kd(g)[m] = IF m = p /\ i = 1 THEN c ELSE Kd(h)[m]
  BY <1>0, <1>7 DEF Upd
<1>10. CameIn(h, g, L, p, i, c)
  BY <1>8, <1>9 DEF CameIn, s
<1>11. Members(g, p) = InsertAt(s, i, c) /\ OthersSame(h, g, L, p)
  BY <1>3, <1>4, <1>10, MembersInserted DEF s
<1> QED BY <1>11 DEF g, s, NowHolds

(* PutInPlace() puts c in its place.                                       *)
LEMMA PutMembers ==
  ASSUME NEW h, NEW L, NEW H, HeapForest(h, L, H), NEW p \in L, h[p].ref = FALSE,
         NEW i \in 1..Len(Members(h, p)), NEW x, x = Members(h, p)[i],
         NEW c \in H, x \notin Doomed(h, c)
  PROVE  /\ NowHolds(h, PutInPlace(h, p, x, c), L, p, [Members(h, p) EXCEPT ![i] = c])
         /\ TookPlace(h, PutInPlace(h, p, x, c), L, p, i, c)
<1> DEFINE g == PutInPlace(h, p, x, c)
           s == Members(h, p)
<1>0. /\ L \in SUBSET Nodes /\ H \in SUBSET L /\ Null \notin Nodes
      /\ Nx(h) \in Maps /\ Kd(h) \in Maps
  BY HeapForestIs
<1>1. /\ x \in L /\ x \in ToSet(s) /\ Nx(h)[x] = At(s, i + 1) /\ Pv(h)[x] = At(s, i - 1)
      /\ Kd(h)[p] = x <=> i = 1
  BY PlaceIs
<1>2. /\ Nx(h)[x] # x
      /\ Kd(h)[p] = x \/ Pv(h)[x] # Null
      /\ Kd(h)[p] # Null /\ Within(Nx(h), Kd(h), L, p, x)
  <2>1. Member(h, L, p, x)
    BY <1>1, MemberIs
  <2> QED BY <2>1 DEF Member
<1>3. HeapForest(g, L, (H \ {c}) \cup {x}) /\ PutLinks(h, g, p, x, c)
  BY <1>1, <1>2, PutForest
<1>4. i = 1 => At(s, i - 1) = Null
  BY DEF At
<1>5. c \notin ToSet(s) /\ c \in L
  BY <1>0, RootApart
<1>6. At(s, i - 1) \in ToSet(s) \cup {Null}
  <2>1. s \in Seq(L)
    BY MembersList
  <2> HIDE DEF s
  <2> QED BY <2>1, SeqSet DEF At
<1> HIDE DEF g, s
<1>7. /\ Nx(g) = Upd(IF i = 1 THEN Upd(Nx(h), c, At(s, i + 1))
                     ELSE Upd(Upd(Nx(h), c, At(s, i + 1)), At(s, i - 1), c), x, Null)
      /\ Kd(g) = IF i = 1 THEN Upd(Kd(h), p, c) ELSE Kd(h)
  BY <1>1, <1>3 DEF PutLinks
<1>8. \A m \in L : Nx(g)[m] = IF m = x THEN Null ELSE IF m = c THEN At(s, i + 1)
                              ELSE IF m = At(s, i - 1) THEN c ELSE Nx(h)[m]
  <2>1. At(s, i - 1) # c
    BY <1>0, <1>5, <1>6
  <2> QED BY <1>0, <1>4, <1>7, <2>1 DEF Upd
<1>9. \A m \in L : Kd(g)[m] = IF m = p /\ i = 1 THEN c ELSE Kd(h)[m]
  BY <1>0, <1>7 DEF Upd
<1>10. TookPlace(h, g, L, p, i, c)
  BY <1>8, <1>9 DEF TookPlace, s
<1>11. Members(g, p) = [s EXCEPT ![i] = c] /\ OthersSame(h, g, L, p)
  BY <1>3, <1>10, MembersPut DEF s
<1>12. NowHolds(h, g, L, p, [s EXCEPT ![i] = c])
  BY <1>11 DEF NowHolds
<1> QED BY <1>10, <1>12 DEF g, s

(* Freed() empties what is freed; what is in the other items stays.        *)
LEMMA FreedMembers ==
  ASSUME NEW h, NEW L, NEW H, HeapForest(h, L, H), Vacant(h, L), NEW c \in H,
         NEW q \in L, q \notin Doomed(h, c)
  PROVE  Members(Freed(h, c), q) = Members(h, q)
<1> DEFINE D == Doomed(h, c)
           g == Freed(h, c)
<1>0. h \in Heaps /\ L \in SUBSET Nodes /\ q \in L /\ q \notin D
  BY HeapForestIs
<1>1. /\ HeapForest(g, L \ D, H \ {c})
      /\ \A m \in L \ D : Nx(g)[m] = Nx(h)[m] /\ Kd(g)[m] = Kd(h)[m]
  <2>1. HeapForest(g, L \ D, H \ {c})
    BY FreedForest
  <2>2. KeptLinks(h, g, L \ D)
    BY FreedForest
  <2> QED BY <2>1, <2>2 DEF KeptLinks
<1>2. \A x \in ToSet(Members(h, q)) : x \in L \ D
  <2>1. CASE h[q].ref = TRUE
    BY <2>1 DEF Members, ToSet
  <2>2. CASE h[q].ref = FALSE
    <3>1. \A x \in ToSet(Members(h, q)) : x \in L
      BY <1>0, <2>2, MembersAre
    <3>2. \A x \in ToSet(Members(h, q)) : x \notin D
      BY <1>0, <2>2, MembersOutside
    <3> QED BY <3>1, <3>2
  <2>3. h[q].ref \in BOOLEAN
    BY <1>0, FieldTypes
  <2> QED BY <2>1, <2>2, <2>3
<1> HIDE DEF D, g
<1>3. q \in L \ D /\ Kd(g)[q] = Kd(h)[q]
  BY <1>0, <1>1
<1>4. \A x \in ToSet(Members(h, q)) : Nx(g)[x] = Nx(h)[x]
  BY <1>1, <1>2
<1>5. Members(g, q) = Members(h, q)
  BY <1>1, <1>3, <1>4, MembersSame
<1> QED BY <1>5 DEF g

(* Whoever has the same links has the same items in it.                    *)
LEMMA SameMembers ==
  ASSUME NEW h, NEW L, NEW H, HeapForest(h, L, H), NEW g, NEW L2, NEW H2, HeapForest(g, L2, H2),
         L \subseteq L2, KeptLinks(h, g, L), NEW q \in L
  PROVE  Members(g, q) = Members(h, q)
<1>1. Members(h, q) \in Seq(L)
  BY MembersList
<1>2. ToSet(Members(h, q)) \subseteq L
  BY <1>1, SeqSet
<1>3. q \in L2 /\ Kd(g)[q] = Kd(h)[q] /\ \A x \in ToSet(Members(h, q)) : Nx(g)[x] = Nx(h)[x]
  BY <1>2 DEF KeptLinks
<1> QED BY <1>3, MembersSame

-----------------------------------------------------------------------------
(* The inductive invariant.                                                *)

(* The nodes in use are a forest, the others are blank.                    *)
Forested == HeapForest(heap, live, held) /\ Vacant(heap, live)

(* k keys are allocated, those of the nodes of h, and every flag fits.     *)
Balanced(h, k) == FittingOn(h, Nodes) /\ k = Cardinality(CopiedKeys(h, Nodes))

(* Until a call strays, the keys are counted as they are.                  *)
KeysKept ==
  /\ strayed \in BOOLEAN /\ strings \in Int
  /\ strayed = FALSE => Balanced(heap, strings)

IInv == Forested /\ KeysKept

(* What the caller may put into p does not have p in it.                   *)
LEMMA FamilyIs ==
  ASSUME Forested, NEW n \in live
  PROVE  /\ n \in Family(n) /\ Family(n) \in SUBSET live
         /\ \A m \in Family(n) : Kd(heap)[m] \in Family(n) \cup {Null}
         /\ \A m \in Family(n) : m # n => Nx(heap)[m] \in Family(n) \cup {Null}
         /\ Family(n) \subseteq Doomed(heap, n)
         /\ n \in held => Doomed(heap, n) = Family(n)
<1> DEFINE D == Doomed(heap, n)
           f == Kd(heap)[n]
           F == Doomed(heap, f)
<1>0. /\ heap \in Heaps /\ live \in SUBSET Nodes /\ held \in SUBSET live /\ Null \notin Nodes
      /\ LinksIn(Nx(heap), Pv(heap), Kd(heap), live)
      /\ Roots(Nx(heap), Pv(heap), Kd(heap), live, held)
      /\ n \in Nodes /\ HeapForest(heap, live, held)
  BY HeapForestIs DEF Forested
<1>1. heap[n].ref \in BOOLEAN
  BY <1>0, FieldTypes
<1>2. f = IF heap[n].ref THEN Null ELSE heap[n].child
  BY <1>0 DEF Kd
<1>3. Family(n) = {n} \cup IF f = Null THEN {} ELSE F
  <2>1. CASE heap[n].ref
    BY <1>2, <2>1 DEF Family
  <2>2. CASE ~ heap[n].ref
    <3>1. f = heap[n].child
      BY <1>2, <2>2
    <3> HIDE DEF f, F
    <3>2. Family(n) = {n} \cup IF f = Null THEN {} ELSE Doomed(heap, f)
      BY <2>2, <3>1 DEF Family
    <3> QED BY <3>2 DEF F
  <2> QED BY <2>1, <2>2
<1>4. /\ n \in D /\ D \in SUBSET live
      /\ \A m \in D : Nx(heap)[m] \in D \cup {Null} /\ Kd(heap)[m] \in D \cup {Null}
      /\ \A T \in SUBSET live :
           /\ n \in T
           /\ \A m \in T : Nx(heap)[m] \in T \cup {Null} /\ Kd(heap)[m] \in T \cup {Null}
           => D \subseteq T
  BY <1>0, DoomedForest
<1>5. ASSUME f # Null
      PROVE  /\ f \in live /\ f \in F /\ F \in SUBSET live
             /\ \A m \in F : Nx(heap)[m] \in F \cup {Null} /\ Kd(heap)[m] \in F \cup {Null}
             /\ F \subseteq D
  <2>1. f \in live
    BY <1>0, <1>5 DEF LinksIn
  <2> HIDE DEF f
  <2>2. /\ f \in F /\ F \in SUBSET live
        /\ \A m \in F : Nx(heap)[m] \in F \cup {Null} /\ Kd(heap)[m] \in F \cup {Null}
        /\ \A T \in SUBSET live :
             /\ f \in T
             /\ \A m \in T : Nx(heap)[m] \in T \cup {Null} /\ Kd(heap)[m] \in T \cup {Null}
             => F \subseteq T
    BY <1>0, <2>1, DoomedForest
  <2>3. f \in D
    BY <1>4, <1>5 DEF f
  <2> HIDE DEF D, F
  <2>4. F \subseteq D
    BY <1>4, <2>2, <2>3
  <2> QED BY <2>1, <2>2, <2>4
<1> HIDE DEF D, F
<1>6. /\ n \in Family(n) /\ Family(n) \in SUBSET live
      /\ \A m \in Family(n) : Kd(heap)[m] \in Family(n) \cup {Null}
      /\ \A m \in Family(n) : m # n => Nx(heap)[m] \in Family(n) \cup {Null}
      /\ Family(n) \subseteq D
  BY <1>3, <1>4, <1>5
<1>7. ASSUME n \in held
      PROVE  D = Family(n)
  <2>1. Nx(heap)[n] = Null
    BY <1>0, <1>7 DEF Roots
  <2> QED BY <1>4, <1>6, <2>1
<1> QED BY <1>6, <1>7 DEF D

(* The item into which the caller puts another one is not in that one.     *)
LEMMA FitsOutside ==
  ASSUME Forested, NEW p, NEW c, Fits(p, c)
  PROVE  /\ p \in live /\ heap[p].ref = FALSE /\ p \in Nodes /\ c \in held /\ c \in live
         /\ c \in Nodes /\ p \notin Doomed(heap, c)
<1>1. /\ heap \in Heaps /\ live \in SUBSET Nodes /\ held \in SUBSET live
  BY HeapForestIs DEF Forested
<1>2. p \in live /\ ~ heap[p].ref /\ c \in held /\ p \notin Family(c)
  BY DEF Fits, Container
<1>3. c \in live /\ p \in Nodes /\ c \in Nodes
  BY <1>1, <1>2
<1>4. heap[p].ref \in BOOLEAN
  BY <1>1, <1>3, FieldTypes
<1>5. Doomed(heap, c) = Family(c)
  BY <1>2, <1>3, FamilyIs
<1> QED BY <1>2, <1>3, <1>4, <1>5

Written(h, n, item) == [h EXCEPT ![n] = item]

(* One node is written, with the links that it had.                        *)
LEMMA OneWritten ==
  ASSUME NEW h \in Heaps, NEW n \in Nodes, NEW item \in Items,
         item.next = Nx(h)[n], item.prev = Pv(h)[n],
         (IF item.ref THEN Null ELSE item.child) = Kd(h)[n]
  PROVE  /\ Written(h, n, item) \in Heaps /\ Written(h, n, item)[n] = item
         /\ \A m \in Nodes : m # n => Written(h, n, item)[m] = h[m]
         /\ Nx(Written(h, n, item)) = Nx(h) /\ Pv(Written(h, n, item)) = Pv(h)
         /\ Kd(Written(h, n, item)) = Kd(h)
<1> DEFINE g == Written(h, n, item)
<1>1. g \in Heaps
  BY DEF Heaps, Written
<1>2. g[n] = item /\ \A m \in Nodes : m # n => g[m] = h[m]
  BY DEF Heaps, Written
<1> HIDE DEF g
<1>3. Nx(g) = Nx(h) /\ Pv(g) = Pv(h)
  BY <1>2 DEF Nx, Pv
<1>4. Kd(g) = Kd(h)
  BY <1>2 DEF Kd
<1> QED BY <1>1, <1>2, <1>3, <1>4 DEF g

(* The same links doom the same nodes.                                     *)
LEMMA DoomedSame ==
  ASSUME NEW h, NEW g, NEW L, NEW H, HeapForest(h, L, H), HeapForest(g, L, H),
         Nx(g) = Nx(h), Kd(g) = Kd(h), NEW n \in L
  PROVE  Doomed(g, n) = Doomed(h, n)
<1>1. /\ n \in Doomed(h, n) /\ Doomed(h, n) \in SUBSET L
      /\ \A m \in Doomed(h, n) : /\ Nx(h)[m] \in Doomed(h, n) \cup {Null}
                                 /\ Kd(h)[m] \in Doomed(h, n) \cup {Null}
      /\ \A T \in SUBSET L :
           /\ n \in T
           /\ \A m \in T : Nx(h)[m] \in T \cup {Null} /\ Kd(h)[m] \in T \cup {Null}
           => Doomed(h, n) \subseteq T
  BY DoomedForest
<1>2. /\ n \in Doomed(g, n) /\ Doomed(g, n) \in SUBSET L
      /\ \A m \in Doomed(g, n) : /\ Nx(g)[m] \in Doomed(g, n) \cup {Null}
                                 /\ Kd(g)[m] \in Doomed(g, n) \cup {Null}
      /\ \A T \in SUBSET L :
           /\ n \in T
           /\ \A m \in T : Nx(g)[m] \in T \cup {Null} /\ Kd(g)[m] \in T \cup {Null}
           => Doomed(g, n) \subseteq T
  BY DoomedForest
<1> QED BY <1>1, <1>2

(* An item of the caller may get another key, or flag, before it is put    *)
(* into p.                                                                 *)
LEMMA AppendedRekeyed ==
  ASSUME Forested, NEW p, NEW c, Fits(p, c), NEW g \in Heaps,
         \A m \in Nodes : m # c => g[m] = heap[m],
         g[c].ref = heap[c].ref,
         Nx(g) = Nx(heap), Pv(g) = Pv(heap), Kd(g) = Kd(heap)
  PROVE  /\ HeapForest(Appended(g, p, c), live, held \ {c})
         /\ Vacant(Appended(g, p, c), live)
         /\ SameKeys(g, Appended(g, p, c))
<1>1. /\ p \in live /\ heap[p].ref = FALSE /\ p \in Nodes /\ c \in held /\ c \in live
      /\ c \in Nodes /\ p \notin Doomed(heap, c)
  BY FitsOutside
<1>2. HeapForest(g, live, held)
  BY SameLinks DEF Forested
<1>3. Vacant(g, live)
  BY <1>1 DEF Vacant, Forested
<1>4. Doomed(g, c) = Doomed(heap, c)
  BY <1>1, <1>2, DoomedSame DEF Forested
<1>5. g[p].ref = FALSE
  BY <1>1
<1>6. /\ HeapForest(Appended(g, p, c), live, held \ {c})
      /\ Relinked(g, Appended(g, p, c), live)
  BY <1>1, <1>2, <1>4, <1>5, AppendedForest
<1>7. Appended(g, p, c) \in Heaps
  BY <1>6, Zenon DEF HeapForest
<1> QED BY <1>3, <1>6, <1>7, RelinkedKeeps

-----------------------------------------------------------------------------
(* Keys.                                                                   *)

(* The copied keys in S and those outside of it.                           *)
LEMMA CopiedSplit ==
  ASSUME NEW h, NEW S \in SUBSET Nodes
  PROVE  /\ Cardinality(CopiedKeys(h, S)) \in Nat
         /\ Cardinality(CopiedKeys(h, Nodes \ S)) \in Nat
         /\ Cardinality(CopiedKeys(h, Nodes))
              = Cardinality(CopiedKeys(h, Nodes \ S)) + Cardinality(CopiedKeys(h, S))
<1> DEFINE A == CopiedKeys(h, S)
           B == CopiedKeys(h, Nodes \ S)
<1>1. A \in SUBSET Nodes /\ B \in SUBSET Nodes
  BY DEF CopiedKeys
<1>2. A \cap B = {} /\ CopiedKeys(h, Nodes) = A \cup B
  BY DEF CopiedKeys
<1> HIDE DEF A, B
<1>3. IsFiniteSet(A) /\ IsFiniteSet(B)
  BY <1>1, JsonHeapAssumption, FS_Subset
<1>4. Cardinality(A) \in Nat /\ Cardinality(B) \in Nat /\ Cardinality({}) = 0
  BY <1>3, FS_CardinalityType, FS_EmptySet
<1>5. Cardinality(A \cup B) = Cardinality(A) + Cardinality(B) - Cardinality(A \cap B)
  BY <1>3, FS_Union
<1>6. Cardinality(A \cup B) = Cardinality(B) + Cardinality(A)
  <2> DEFINE a == Cardinality(A)
             b == Cardinality(B)
             ab == Cardinality(A \cup B)
  <2>1. ab = a + b - 0 /\ a \in Nat /\ b \in Nat
    BY <1>2, <1>4, <1>5, Zenon
  <2> HIDE DEF a, b, ab
  <2>2. ab = b + a
    BY <2>1
  <2> QED BY <2>2 DEF a, b, ab
<1> QED BY <1>2, <1>4, <1>6 DEF A, B

(* The nodes in S get other keys.                                          *)
LEMMA KeysExchanged ==
  ASSUME NEW h, NEW g, NEW k, Balanced(h, k), NEW S \in SUBSET Nodes,
         SameKeysBut(h, g, S), FittingOn(g, S)
  PROVE  /\ k \in Nat
         /\ Cardinality(CopiedKeys(h, S)) \in Nat /\ Cardinality(CopiedKeys(g, S)) \in Nat
         /\ Balanced(g, k + Cardinality(CopiedKeys(g, S)) - Cardinality(CopiedKeys(h, S)))
<1> DEFINE rest == Cardinality(CopiedKeys(h, Nodes \ S))
           old == Cardinality(CopiedKeys(h, S))
           new == Cardinality(CopiedKeys(g, S))
           all == Cardinality(CopiedKeys(g, Nodes))
<1>1. CopiedKeys(g, Nodes \ S) = CopiedKeys(h, Nodes \ S)
  BY DEF SameKeysBut, CopiedKeys
<1>2. old \in Nat /\ rest \in Nat /\ k = rest + old
  BY CopiedSplit DEF Balanced
<1>3. new \in Nat /\ all = rest + new
  BY <1>1, CopiedSplit
<1>4. FittingOn(g, Nodes)
  BY DEF Balanced, FittingOn, FitsAt, SameKeysBut
<1> HIDE DEF rest, old, new, all
<1>5. all = k + new - old /\ k \in Nat
  BY <1>2, <1>3
<1> QED BY <1>2, <1>3, <1>4, <1>5 DEF Balanced, old, new, all

(* No node gets another key.                                               *)
LEMMA KeysStay ==
  ASSUME NEW h, NEW g, NEW k, Balanced(h, k), SameKeys(h, g)
  PROVE  Balanced(g, k)
<1>1. CopiedKeys(g, Nodes) = CopiedKeys(h, Nodes)
  BY DEF SameKeys, SameKeysBut, CopiedKeys
<1>2. FittingOn(g, Nodes)
  BY DEF Balanced, FittingOn, FitsAt, SameKeys, SameKeysBut
<1> QED BY <1>1, <1>2 DEF Balanced

(* What is freed with the nodes in S are their copied keys.                *)
LEMMA KeysGone ==
  ASSUME NEW h, NEW g, NEW k, Balanced(h, k), NEW S \in SUBSET Nodes,
         SameKeysBut(h, g, S), Unkeyed(g, S)
  PROVE  /\ k \in Nat /\ Cardinality(FreedKeys(h, S)) \in Nat
         /\ Balanced(g, k - Cardinality(FreedKeys(h, S)))
<1> DEFINE old == Cardinality(CopiedKeys(h, S))
           new == Cardinality(CopiedKeys(g, S))
<1>1. FreedKeys(h, S) = CopiedKeys(h, S)
  BY DEF Balanced, FittingOn, FitsAt, FreedKeys, CopiedKeys
<1>2. FittingOn(g, S) /\ CopiedKeys(g, S) = {}
  BY DEF Unkeyed, FittingOn, FitsAt, CopiedKeys
<1>3. new = 0
  BY <1>2, FS_EmptySet
<1>4. k \in Nat /\ old \in Nat /\ new \in Nat /\ Balanced(g, k + new - old)
  BY <1>2, KeysExchanged
<1> HIDE DEF old, new
<1>5. k + new - old = k - old
  BY <1>3, <1>4
<1> QED BY <1>1, <1>4, <1>5 DEF old

(* The nodes in S had no keys before.                                      *)
LEMMA KeysAdded ==
  ASSUME NEW h, NEW g, NEW k, Balanced(h, k), NEW S \in SUBSET Nodes,
         SameKeysBut(h, g, S), Unkeyed(h, S), FittingOn(g, S)
  PROVE  /\ k \in Nat /\ Cardinality(CopiedKeys(g, S)) \in Nat
         /\ Balanced(g, k + Cardinality(CopiedKeys(g, S)))
<1> DEFINE old == Cardinality(CopiedKeys(h, S))
           new == Cardinality(CopiedKeys(g, S))
<1>1. CopiedKeys(h, S) = {}
  BY DEF Unkeyed, CopiedKeys
<1>2. old = 0
  BY <1>1, FS_EmptySet
<1>3. k \in Nat /\ new \in Nat /\ Balanced(g, k + new - old)
  BY KeysExchanged
<1> HIDE DEF old, new
<1>4. k + new - old = k + new
  BY <1>2, <1>3
<1> QED BY <1>3, <1>4 DEF new

(* One node gets another key.                                              *)
KeyCount(h, c) == IF h[c].key = "copy" THEN 1 ELSE 0

LEMMA KeyChanged ==
  ASSUME NEW h, NEW g, NEW k, Balanced(h, k), NEW c \in Nodes,
         SameKeysBut(h, g, {c}), FitsAt(g, c)
  PROVE  k \in Nat /\ Balanced(g, k + KeyCount(g, c) - KeyCount(h, c))
<1>1. \A f : Cardinality(CopiedKeys(f, {c})) = KeyCount(f, c)
  <2> SUFFICES ASSUME NEW f
               PROVE  Cardinality(CopiedKeys(f, {c})) = KeyCount(f, c)
    OBVIOUS
  <2>1. CopiedKeys(f, {c}) = IF f[c].key = "copy" THEN {c} ELSE {}
    BY DEF CopiedKeys
  <2>2. Cardinality({c}) = 1 /\ Cardinality({}) = 0
    BY FS_Singleton, FS_EmptySet
  <2> QED BY <2>1, <2>2 DEF KeyCount
<1>2. FittingOn(g, {c}) /\ {c} \in SUBSET Nodes
  BY DEF FittingOn
<1> QED BY <1>1, <1>2, KeysExchanged

(* A step counts its keys, or strays.                                      *)
LEMMA KeysStep ==
  ASSUME KeysKept, NEW made, NEW freed, NEW strays, Keys(made, freed, strays),
         strayed = FALSE /\ ~strays => Balanced(heap', strings + made - freed)
  PROVE  KeysKept'
<1>1. strayed' = (strayed \/ strays) /\ strings' = IF strayed' THEN 0 ELSE strings + made - freed
  BY DEF Keys
<1>2. strayed \in BOOLEAN
  BY DEF KeysKept
<1>3. strayed' \in BOOLEAN /\ (strayed' = FALSE => strayed = FALSE /\ ~strays)
  BY <1>1, <1>2
<1>4. CASE strayed' = TRUE
  BY <1>1, <1>3, <1>4 DEF KeysKept
<1>5. CASE strayed' = FALSE
  <2>1. Balanced(heap', strings')
    BY <1>1, <1>3, <1>5
  <2>2. strings' \in Nat
    BY <2>1, CopiedSplit DEF Balanced
  <2> QED BY <1>3, <2>1, <2>2 DEF KeysKept, Balanced
<1> QED BY <1>3, <1>4, <1>5

(* A step that leaves all keys as they are.                                *)
LEMMA KeysStill ==
  ASSUME KeysKept, strings' = strings, strayed' = strayed, SameKeys(heap, heap')
  PROVE  KeysKept'
<1>1. strayed \in BOOLEAN /\ strings \in Int /\ (strayed = FALSE => Balanced(heap, strings))
  BY DEF KeysKept
<1>2. strayed = FALSE => Balanced(heap', strings)
  BY <1>1, KeysStay
<1> QED BY <1>1, <1>2 DEF KeysKept, Balanced

-----------------------------------------------------------------------------
(* The steps.                                                              *)

(* The start: no node is in use.                                           *)
LEMMA InitForest == Init => IInv
<1> SUFFICES ASSUME Init
             PROVE  IInv
  OBVIOUS
<1>1. /\ heap = [n \in Nodes |-> Blank] /\ live = {} /\ held = {}
      /\ strings = 0 /\ strayed = FALSE
  BY DEF Init
<1>2. heap \in Heaps /\ \A n \in Nodes : heap[n] = Blank
  BY <1>1, BlankIs DEF Heaps
<1>3. Nx(heap) \in Maps /\ Pv(heap) \in Maps /\ Kd(heap) \in Maps
  BY <1>2, ViewTypes
<1>4. Shape(Nx(heap), Pv(heap), Kd(heap), {}, {})
  BY <1>3 DEF Shape, LinksIn, TwoWay, FirstKids, OneParent, Roots
<1>5. \E r \in Levels : Leveled(Nx(heap), Kd(heap), {}, r)
  <2>1. [n \in Nodes |-> 0] \in Levels
    BY DEF Levels
  <2> QED BY <2>1 DEF Leveled
<1>9. Covered(Nx(heap), Kd(heap), {}, {})
  BY DEF Covered
<1>6. HeapForest(heap, live, held)
  BY <1>1, <1>2, <1>4, <1>5, <1>9 DEF HeapForest, Forest
<1>7. Vacant(heap, live)
  BY <1>2 DEF Vacant
<1>8. KeysKept
  <2>1. CopiedKeys(heap, Nodes) = {} /\ FittingOn(heap, Nodes)
    BY <1>2, BlankIs DEF CopiedKeys, FittingOn, FitsAt
  <2>2. Balanced(heap, 0)
    BY <2>1, FS_EmptySet DEF Balanced
  <2>3. strings \in Int /\ Balanced(heap, strings)
    BY <1>1, <2>2
  <2>4. strayed \in BOOLEAN
    BY <1>1
  <2> QED BY <2>3, <2>4, Zenon DEF KeysKept
<1> QED BY <1>6, <1>7, <1>8 DEF IInv, Forested

(* A new item has no links.                                                *)
LEMMA CreateForest ==
  ASSUME IInv, NEW n \in Nodes, Create(n)
  PROVE  IInv'
<1>1. /\ n \notin live /\ live' = live \cup {n} /\ held' = held \cup {n}
      /\ heap' = heap /\ strings' = strings /\ strayed' = strayed
  BY DEF Create
<1>2. HeapForest(heap, live, held) /\ Vacant(heap, live) /\ KeysKept
  BY DEF IInv, Forested
<1>3. Nx(heap)[n] = Null /\ Pv(heap)[n] = Null /\ Kd(heap)[n] = Null
  BY <1>1, <1>2, BlankIs DEF Vacant, Nx, Pv, Kd
<1>4. HeapForest(heap, live \cup {n}, held \cup {n})
  BY <1>1, <1>2, <1>3, NewForest
<1>5. Vacant(heap, live \cup {n})
  BY <1>2 DEF Vacant
<1>6. Forested'
  BY <1>1, <1>4, <1>5 DEF Forested
<1>7. KeysKept'
  BY <1>1, <1>2 DEF KeysKept, Balanced
<1> QED BY <1>6, <1>7 DEF IInv

(* cJSON_AddItemToArray().                                                 *)
LEMMA AddItemToArrayForest ==
  ASSUME IInv, NEW p \in Nodes, NEW c \in Nodes, AddItemToArray(p, c)
  PROVE  IInv'
<1>1. /\ Fits(p, c) /\ heap' = Appended(heap, p, c) /\ held' = held \ {c}
      /\ live' = live /\ strings' = strings /\ strayed' = strayed
  BY DEF AddItemToArray
<1>2. Forested /\ KeysKept /\ heap \in Heaps
  BY DEF IInv, Forested, HeapForest
<1>3. /\ HeapForest(Appended(heap, p, c), live, held \ {c})
      /\ Vacant(Appended(heap, p, c), live)
      /\ SameKeys(heap, Appended(heap, p, c))
  BY <1>1, <1>2, AppendedRekeyed
<1>4. Forested'
  BY <1>1, <1>3 DEF Forested
<1>5. KeysKept'
  BY <1>1, <1>2, <1>3, KeysStill
<1> QED BY <1>4, <1>5 DEF IInv

Rekeyed(h, c, key, const) == [h EXCEPT ![c] = [h[c] EXCEPT !.key = key, !.const = const]]

(* The item c of g has this key and this flag; all else is as in h.        *)
RekeyedTo(h, g, c, key, const) ==
  /\ g \in Heaps /\ \A m \in Nodes : m # c => g[m] = h[m]
  /\ g[c].ref = h[c].ref /\ g[c].key = key /\ g[c].const = const
  /\ Nx(g) = Nx(h) /\ Pv(g) = Pv(h) /\ Kd(g) = Kd(h)
  /\ SameKeysBut(h, g, {c})

(* A new key for one node.                                                 *)
LEMMA WithKeyIs ==
  ASSUME NEW h \in Heaps, NEW c \in Nodes, NEW key \in {"none", "copy", "constant"},
         NEW const \in BOOLEAN
  PROVE  RekeyedTo(h, Rekeyed(h, c, key, const), c, key, const)
<1> DEFINE item == [h[c] EXCEPT !.key = key, !.const = const]
           g == Rekeyed(h, c, key, const)
<1>1. h[c] \in Items
  BY FieldTypes
<1>2. /\ item \in Items /\ item.next = h[c].next /\ item.prev = h[c].prev
      /\ item.child = h[c].child /\ item.ref = h[c].ref
      /\ item.key = key /\ item.const = const
  BY <1>1 DEF Items
<1>4. g = Written(h, c, item)
  BY DEF Rekeyed, Written
<1> HIDE DEF item, g
<1>3. /\ item.next = Nx(h)[c] /\ item.prev = Pv(h)[c]
      /\ (IF item.ref THEN Null ELSE item.child) = Kd(h)[c]
  BY <1>2 DEF Nx, Pv, Kd
<1>5. /\ g \in Heaps /\ g[c] = item /\ \A m \in Nodes : m # c => g[m] = h[m]
      /\ Nx(g) = Nx(h) /\ Pv(g) = Pv(h) /\ Kd(g) = Kd(h)
  BY <1>2, <1>3, <1>4, OneWritten
<1>6. SameKeysBut(h, g, {c})
  BY <1>5 DEF SameKeysBut
<1>7. g[c].ref = h[c].ref /\ g[c].key = key /\ g[c].const = const
  BY <1>2, <1>5
<1>8. RekeyedTo(h, g, c, key, const)
  BY <1>5, <1>6, <1>7 DEF RekeyedTo
<1> QED BY <1>8 DEF g

(* WithKey() leaves the flag alone.                                        *)
LEMMA WithKeyKeeps ==
  ASSUME NEW h \in Heaps, NEW c \in Nodes, NEW key \in {"none", "copy"}
  PROVE  RekeyedTo(h, WithKey(h, c, key), c, key, h[c].const)
<1> DEFINE const == h[c].const
<1>1. h[c] \in Items /\ const \in BOOLEAN
  BY FieldTypes
<1>2. [h[c] EXCEPT !.key = key, !.const = const] = [h[c] EXCEPT !.key = key]
  BY <1>1 DEF Items
<1>3. WithKey(h, c, key) = Rekeyed(h, c, key, const)
  BY <1>2 DEF WithKey, Rekeyed
<1>4. key \in {"none", "copy", "constant"}
  OBVIOUS
<1> HIDE DEF const
<1>5. RekeyedTo(h, Rekeyed(h, c, key, const), c, key, const)
  BY <1>1, <1>4, WithKeyIs
<1> QED BY <1>3, <1>5 DEF const

(* cJSON_AddItemToObject().                                                *)
LEMMA AddItemToObjectForest ==
  ASSUME IInv, NEW p \in Nodes, NEW c \in Nodes, AddItemToObject(p, c)
  PROVE  IInv'
<1>1. Fits(p, c) /\ held' = held \ {c} /\ live' = live
  BY DEF AddItemToObject
<1>2. PICK key \in {"copy", "none"} :
        /\ heap' = Appended(WithKey(heap, c, key), p, c)
        /\ Keys(Block(key), Block(heap[c].key), heap[c].const)
  BY DEF AddItemToObject
<1>3. Forested /\ KeysKept /\ heap \in Heaps
  BY DEF IInv, Forested, HeapForest
<1> DEFINE g == WithKey(heap, c, key)
<1>4. /\ g \in Heaps /\ \A m \in Nodes : m # c => g[m] = heap[m]
      /\ g[c].ref = heap[c].ref
      /\ Nx(g) = Nx(heap) /\ Pv(g) = Pv(heap) /\ Kd(g) = Kd(heap)
      /\ g[c].key = key /\ g[c].const = heap[c].const
      /\ SameKeysBut(heap, g, {c})
  <2>1. key \in {"none", "copy"}
    OBVIOUS
  <2>2. RekeyedTo(heap, g, c, key, heap[c].const)
    BY <1>3, <2>1, WithKeyKeeps
  <2> HIDE DEF g
  <2> QED BY <2>2 DEF RekeyedTo
<1>5. heap' = Appended(g, p, c)
  BY <1>2
<1> HIDE DEF g
<1>6. /\ HeapForest(Appended(g, p, c), live, held \ {c})
      /\ Vacant(Appended(g, p, c), live)
      /\ SameKeys(g, Appended(g, p, c))
  BY <1>1, <1>3, <1>4, AppendedRekeyed
<1>7. Forested'
  BY <1>1, <1>5, <1>6 DEF Forested
<1>8. KeysKept'
  <2> DEFINE made == Block(key)
             freed == Block(heap[c].key)
  <2>1. ASSUME strayed = FALSE, ~heap[c].const
        PROVE  Balanced(heap', strings + made - freed)
    <3>1. Balanced(heap, strings)
      BY <1>3, <2>1 DEF KeysKept
    <3>2. FitsAt(heap, c) /\ FitsAt(g, c)
      BY <1>4, <2>1, <3>1 DEF Balanced, FittingOn, FitsAt
    <3>3. Balanced(g, strings + KeyCount(g, c) - KeyCount(heap, c))
      BY <1>4, <3>1, <3>2, KeyChanged
    <3>4. KeyCount(g, c) = made /\ KeyCount(heap, c) = freed
      BY <1>4, <2>1, <3>2 DEF KeyCount, Block, FitsAt
    <3> HIDE DEF made, freed
    <3> QED BY <1>5, <1>6, <3>3, <3>4, KeysStay
  <2>2. Keys(made, freed, heap[c].const)
    BY <1>2
  <2> HIDE DEF made, freed
  <2> QED BY <1>3, <2>1, <2>2, KeysStep
<1> QED BY <1>7, <1>8 DEF IInv

(* cJSON_AddItemToObjectCS().                                              *)
LEMMA AddItemToObjectCSForest ==
  ASSUME IInv, NEW p \in Nodes, NEW c \in Nodes, AddItemToObjectCS(p, c)
  PROVE  IInv'
<1>0. PICK const \in BOOLEAN : const = TRUE
  OBVIOUS
<1> DEFINE g == Rekeyed(heap, c, "constant", const)
<1>1. /\ Fits(p, c) /\ held' = held \ {c} /\ live' = live
      /\ Keys(0, IF heap[c].const THEN 0 ELSE Block(heap[c].key), FALSE)
      /\ heap' = Appended([heap EXCEPT ![c].key = "constant", ![c].const = TRUE], p, c)
  BY DEF AddItemToObjectCS
<1>2. Forested /\ KeysKept /\ heap \in Heaps
  BY DEF IInv, Forested, HeapForest
<1>3. [heap EXCEPT ![c].key = "constant", ![c].const = TRUE] = g
  <2>1. heap[c] \in Items
    BY <1>2, FieldTypes
  <2> QED BY <1>0, <1>2, <2>1 DEF Rekeyed, Heaps, Items
<1>4. /\ g \in Heaps /\ \A m \in Nodes : m # c => g[m] = heap[m]
      /\ g[c].ref = heap[c].ref
      /\ Nx(g) = Nx(heap) /\ Pv(g) = Pv(heap) /\ Kd(g) = Kd(heap)
      /\ g[c].key = "constant" /\ g[c].const = const
  <2>1. "constant" \in {"none", "copy", "constant"}
    OBVIOUS
  <2>2. RekeyedTo(heap, g, c, "constant", const)
    BY <1>2, <2>1, WithKeyIs
  <2> HIDE DEF g
  <2> QED BY <2>2 DEF RekeyedTo
<1>5. heap' = Appended(g, p, c)
  BY <1>1, <1>3
<1> HIDE DEF g
<1>6. /\ HeapForest(Appended(g, p, c), live, held \ {c})
      /\ Vacant(Appended(g, p, c), live)
      /\ SameKeys(g, Appended(g, p, c))
  BY <1>1, <1>2, <1>4, AppendedRekeyed
<1>7. Forested'
  BY <1>1, <1>5, <1>6 DEF Forested
<1>8. KeysKept'
  <2> DEFINE freed == IF heap[c].const THEN 0 ELSE Block(heap[c].key)
  <2>1. ASSUME strayed = FALSE
        PROVE  Balanced(heap', strings + 0 - freed)
    <3>1. Balanced(heap, strings)
      BY <1>2, <2>1 DEF KeysKept
    <3>2. FitsAt(heap, c) /\ FitsAt(g, c) /\ SameKeysBut(heap, g, {c})
      BY <1>0, <1>4, <3>1 DEF Balanced, FittingOn, FitsAt, SameKeysBut
    <3>3. Balanced(g, strings + KeyCount(g, c) - KeyCount(heap, c))
      BY <3>1, <3>2, KeyChanged
    <3>4. KeyCount(g, c) = 0 /\ KeyCount(heap, c) = freed
      BY <1>4, <3>2 DEF KeyCount, Block, FitsAt
    <3> HIDE DEF freed
    <3> QED BY <1>5, <1>6, <3>3, <3>4, KeysStay
  <2>2. Keys(0, freed, FALSE)
    BY <1>1
  <2> HIDE DEF freed
  <2> QED BY <1>2, <2>1, <2>2, KeysStep
<1> QED BY <1>7, <1>8 DEF IInv

(* The heap g, in which the new item n is not in p yet.                    *)
WithNew(g, p, n) ==
  /\ HeapForest(g, live \cup {n}, held \cup {n}) /\ Vacant(g, live \cup {n})
  /\ p \in live /\ g[p].ref = FALSE /\ p \notin Doomed(g, n)
  /\ Nx(g) = Nx(heap) /\ Kd(g) = Kd(heap)
  /\ \E made \in Int, strays \in BOOLEAN :
       /\ Keys(made, 0, strays)
       /\ strays = FALSE => \A k : Balanced(heap, k) => Balanced(g, k + made - 0)

(* A reference is a new item without a kid of its own.                     *)
LEMMA ReferenceIs ==
  ASSUME Forested, NEW p \in Nodes, NEW c \in Nodes, NEW n \in Nodes, AddItemReference(p, c, n)
  PROVE  \E g \in Heaps : heap' = Appended(g, p, n) /\ WithNew(g, p, n)
<1>1. /\ Container(p) /\ c \in live /\ n \notin live
  BY DEF AddItemReference
<1>2. PICK key \in {"none", "copy"} :
        /\ heap' = Appended([heap EXCEPT ![n] = [Reference(c) EXCEPT !.key = key]], p, n)
        /\ Keys(Block(key), 0, heap[c].const /\ key # "none")
  BY DEF AddItemReference
<1>3. /\ heap \in Heaps /\ HeapForest(heap, live, held)
      /\ Vacant(heap, live) /\ live \in SUBSET Nodes /\ held \in SUBSET live
  BY HeapForestIs DEF Forested
<1> DEFINE item == [Reference(c) EXCEPT !.key = key]
           g == Written(heap, n, item)
<1>4. /\ item \in Items /\ item.next = Null /\ item.prev = Null /\ item.ref = TRUE
      /\ item.const = heap[c].const /\ item.key = key
  <2>1. heap[c] \in Items
    BY <1>3, FieldTypes
  <2> QED BY <2>1 DEF Reference, Items, Links
<1>5. heap' = Appended(g, p, n)
  BY <1>2 DEF Written
<1> HIDE DEF item
<1>6. Nx(heap)[n] = Null /\ Pv(heap)[n] = Null /\ Kd(heap)[n] = Null
  BY <1>1, <1>3, BlankIs DEF Vacant, Nx, Pv, Kd
<1>7. /\ g \in Heaps /\ g[n] = item /\ \A m \in Nodes : m # n => g[m] = heap[m]
      /\ Nx(g) = Nx(heap) /\ Pv(g) = Pv(heap) /\ Kd(g) = Kd(heap)
  BY <1>3, <1>4, <1>6, OneWritten
<1> HIDE DEF g
<1>8. HeapForest(g, live \cup {n}, held \cup {n})
  <2>1. HeapForest(g, live, held)
    BY <1>3, <1>7, SameLinks
  <2> QED BY <1>1, <1>6, <1>7, <2>1, NewForest
<1>9. Vacant(g, live \cup {n})
  BY <1>3, <1>7 DEF Vacant
<1>10. p \in live /\ p # n /\ g[p].ref = FALSE
  <2>1. p \in live /\ ~ heap[p].ref /\ heap[p].ref \in BOOLEAN
    BY <1>1, <1>3, FieldTypes DEF Container
  <2> QED BY <1>1, <1>7, <2>1
<1>11. p \notin Doomed(g, n)
  <2>1. n \in live \cup {n} /\ Nx(g)[n] = Null /\ Kd(g)[n] = Null
    BY <1>6, <1>7
  <2>2. Doomed(g, n) = {n}
    BY <1>8, <2>1, DoomedAlone
  <2> QED BY <1>10, <2>2
<1>12. \E made \in Int, strays \in BOOLEAN :
         /\ Keys(made, 0, strays)
         /\ strays = FALSE => \A k : Balanced(heap, k) => Balanced(g, k + made - 0)
  <2> DEFINE made == Block(key)
             strays == heap[c].const /\ key # "none"
  <2>1. made \in Int /\ strays \in BOOLEAN /\ Keys(made, 0, strays)
    BY <1>2 DEF Block
  <2>2. ASSUME strays = FALSE, NEW k, Balanced(heap, k)
        PROVE  Balanced(g, k + made - 0)
    <3>1. FitsAt(g, n) /\ SameKeysBut(heap, g, {n})
      BY <1>4, <1>7, <2>2 DEF FitsAt, SameKeysBut
    <3>2. Balanced(g, k + KeyCount(g, n) - KeyCount(heap, n))
      BY <2>2, <3>1, KeyChanged
    <3>3. KeyCount(heap, n) = 0
      BY <1>1, <1>3, BlankIs DEF Vacant, KeyCount
    <3>4. KeyCount(g, n) = made
      BY <1>4, <1>7 DEF KeyCount, Block
    <3> QED BY <3>2, <3>3, <3>4
  <2> HIDE DEF made, strays
  <2> QED BY <2>1, <2>2
<1>13. WithNew(g, p, n)
  BY <1>7, <1>8, <1>9, <1>10, <1>11, <1>12 DEF WithNew
<1> QED BY <1>5, <1>7, <1>13

(* cJSON_AddItemReferenceToArray(), ...ToObject().                         *)
LEMMA AddItemReferenceForest ==
  ASSUME IInv, NEW p \in Nodes, NEW c \in Nodes, NEW n \in Nodes, AddItemReference(p, c, n)
  PROVE  IInv'
<1>1. /\ n \notin live
      /\ live' = live \cup {n} /\ held' = held
  BY DEF AddItemReference
<1>2. Forested /\ KeysKept /\ held \in SUBSET live
  BY HeapForestIs DEF IInv, Forested
<1>3. PICK g \in Heaps : heap' = Appended(g, p, n) /\ WithNew(g, p, n)
  BY <1>2, ReferenceIs
<1> DEFINE L == live \cup {n}
           H == held \cup {n}
<1>4. /\ p \in L /\ n \in H /\ H \ {n} = held /\ HeapForest(g, L, H) /\ Vacant(g, L)
      /\ g[p].ref = FALSE /\ p \notin Doomed(g, n)
  BY <1>1, <1>2, <1>3 DEF WithNew
<1> HIDE DEF L, H
<1>5. /\ HeapForest(Appended(g, p, n), L, H \ {n})
      /\ Relinked(g, Appended(g, p, n), L)
  BY <1>4, AppendedForest
<1>6. Appended(g, p, n) \in Heaps
  BY <1>5, Zenon DEF HeapForest
<1>7. Vacant(Appended(g, p, n), L) /\ SameKeys(g, Appended(g, p, n))
  BY <1>4, <1>5, <1>6, RelinkedKeeps
<1>8. Forested'
  BY <1>1, <1>3, <1>4, <1>5, <1>7 DEF Forested, L
<1>9. KeysKept'
  <2>1. PICK made \in Int, strays \in BOOLEAN :
          /\ Keys(made, 0, strays)
          /\ strays = FALSE => \A k : Balanced(heap, k) => Balanced(g, k + made - 0)
    BY <1>3, Zenon DEF WithNew
  <2>2. ASSUME strayed = FALSE, ~strays
        PROVE  Balanced(heap', strings + made - 0)
    <3>1. Balanced(heap, strings)
      BY <1>2, <2>2 DEF KeysKept
    <3>2. Balanced(g, strings + made - 0)
      BY <2>1, <2>2, <3>1
    <3> QED BY <1>3, <1>7, <3>2, KeysStay
  <2> QED BY <1>2, <2>1, <2>2, KeysStep
<1> QED BY <1>8, <1>9 DEF IInv

(* cJSON_DetachItemFromArray(), ...FromObject().                           *)
LEMMA DetachForest ==
  ASSUME IInv, NEW p \in Nodes, NEW x \in Nodes, Detach(p, x)
  PROVE  IInv'
<1>1. /\ Container(p) /\ x \in ToSet(Members(heap, p))
      /\ heap' = Unlinked(heap, p, x) /\ held' = held \cup {x}
      /\ live' = live /\ strings' = strings /\ strayed' = strayed
  BY DEF Detach
<1>2. KeysKept /\ heap \in Heaps /\ HeapForest(heap, live, held) /\ Vacant(heap, live)
  BY HeapForestIs DEF IInv, Forested
<1>3. p \in live /\ heap[p].ref = FALSE
  BY <1>1, <1>2, FieldTypes DEF Container
<1>4. /\ x \in live /\ Nx(heap)[x] # x
      /\ Kd(heap)[p] = x \/ Pv(heap)[x] # Null
      /\ Kd(heap)[p] # Null /\ Within(Nx(heap), Kd(heap), live, p, x)
  <2>1. HeapForest(heap, live, held) /\ p \in live /\ heap[p].ref = FALSE
        /\ x \in ToSet(Members(heap, p))
    BY <1>1, <1>2, <1>3
  <2>2. x \in live /\ Nx(heap)[x] # x
    BY <2>1, MembersAre
  <2>3. Kd(heap)[p] = x \/ Pv(heap)[x] # Null
    BY <2>1, MembersAre
  <2>4. Kd(heap)[p] # Null /\ Within(Nx(heap), Kd(heap), live, p, x)
    <3>1. Kd(heap)[p] \in live /\ Within(Nx(heap), Kd(heap), live, p, x)
      BY <2>1, MembersAre
    <3>2. live \in SUBSET Nodes /\ Null \notin Nodes
      BY <2>1, HeapForestIs
    <3> QED BY <3>1, <3>2
  <2> QED BY <2>2, <2>3, <2>4
<1>5. /\ HeapForest(Unlinked(heap, p, x), live, held \cup {x})
      /\ Relinked(heap, Unlinked(heap, p, x), live)
  BY <1>2, <1>3, <1>4, UnlinkedForest
<1>6. Unlinked(heap, p, x) \in Heaps
  BY <1>5, Zenon DEF HeapForest
<1>7. /\ Vacant(Unlinked(heap, p, x), live)
      /\ SameKeys(heap, Unlinked(heap, p, x))
  BY <1>2, <1>5, <1>6, RelinkedKeeps
<1>8. Forested'
  BY <1>1, <1>5, <1>7 DEF Forested
<1>9. KeysKept'
  BY <1>1, <1>2, <1>7, KeysStill
<1> QED BY <1>8, <1>9 DEF IInv

(* cJSON_Delete().                                                         *)
LEMMA DeleteForest ==
  ASSUME IInv, NEW c \in Nodes, Delete(c)
  PROVE  IInv'
<1>1. /\ c \in held /\ heap' = Freed(heap, c) /\ live' = live \ Doomed(heap, c)
      /\ held' = held \ {c}
      /\ Keys(0, Cardinality(FreedKeys(heap, Doomed(heap, c))), FALSE)
  BY DEF Delete
<1>2. KeysKept /\ heap \in Heaps /\ HeapForest(heap, live, held) /\ Vacant(heap, live)
  BY HeapForestIs DEF IInv, Forested
<1>3. /\ HeapForest(Freed(heap, c), live \ Doomed(heap, c), held \ {c})
      /\ Vacant(Freed(heap, c), live \ Doomed(heap, c))
      /\ SameKeysBut(heap, Freed(heap, c), Doomed(heap, c))
      /\ Unkeyed(Freed(heap, c), Doomed(heap, c))
  BY <1>1, <1>2, FreedForest
<1>4. Forested'
  BY <1>1, <1>3 DEF Forested
<1>5. KeysKept'
  <2> DEFINE freed == Cardinality(FreedKeys(heap, Doomed(heap, c)))
  <2>1. Doomed(heap, c) \in SUBSET Nodes
    BY <1>2, DoomedIs
  <2>2. ASSUME strayed = FALSE
        PROVE  Balanced(heap', strings + 0 - freed)
    <3>1. Balanced(heap, strings)
      BY <1>2, <2>2 DEF KeysKept
    <3>2. strings \in Nat /\ freed \in Nat /\ Balanced(heap', strings - freed)
      BY <1>1, <1>3, <2>1, <3>1, KeysGone
    <3> HIDE DEF freed
    <3>3. strings + 0 - freed = strings - freed
      BY <3>2
    <3> QED BY <3>2, <3>3
  <2>3. Keys(0, freed, FALSE)
    BY <1>1
  <2> HIDE DEF freed
  <2> QED BY <1>2, <2>2, <2>3, KeysStep
<1> QED BY <1>4, <1>5 DEF IInv

(* The item x in p, and an item c for which p is no part of: neither is x. *)
LEMMA MemberOutside ==
  ASSUME Forested, NEW p, NEW c, Fits(p, c), NEW x, x \in ToSet(Members(heap, p))
  PROVE  /\ x \in live /\ Nx(heap)[x] # x /\ x \notin Doomed(heap, c)
         /\ Kd(heap)[p] = x \/ Pv(heap)[x] # Null
         /\ Kd(heap)[p] # Null /\ Within(Nx(heap), Kd(heap), live, p, x)
<1>1. /\ p \in live /\ heap[p].ref = FALSE /\ c \in held /\ p \notin Doomed(heap, c)
      /\ HeapForest(heap, live, held)
  BY FitsOutside DEF Forested
<1>2. x \in live /\ Nx(heap)[x] # x
  BY <1>1, MembersAre
<1>3. Kd(heap)[p] = x \/ Pv(heap)[x] # Null
  BY <1>1, MembersAre, ZenonT(60)
<1>4. x \notin Doomed(heap, c)
  BY <1>1, MembersOutside
<1>5. Kd(heap)[p] # Null /\ Within(Nx(heap), Kd(heap), live, p, x)
  <2>1. x \in ToSet(Members(heap, p))
    OBVIOUS
  <2>2. Kd(heap)[p] \in live /\ Within(Nx(heap), Kd(heap), live, p, x)
    BY <1>1, <2>1, MembersAre
  <2>3. live \in SUBSET Nodes /\ Null \notin Nodes
    BY <1>1, HeapForestIs
  <2> QED BY <2>2, <2>3
<1> QED BY <1>2, <1>3, <1>4, <1>5

(* cJSON_InsertItemInArray().                                              *)
LEMMA InsertItemInArrayForest ==
  ASSUME IInv, NEW p \in Nodes, NEW c \in Nodes, NEW x \in Links, InsertItemInArray(p, x, c)
  PROVE  IInv'
<1>1. /\ Fits(p, c) /\ held' = held \ {c}
      /\ live' = live /\ strings' = strings /\ strayed' = strayed
  BY DEF InsertItemInArray
<1>2. /\ Forested /\ KeysKept /\ heap \in Heaps /\ HeapForest(heap, live, held)
      /\ Vacant(heap, live)
  BY DEF IInv, Forested, HeapForest
<1>3. /\ HeapForest(heap', live, held \ {c})
      /\ Vacant(heap', live)
      /\ SameKeys(heap, heap')
  <2>1. CASE x = Null /\ heap' = Appended(heap, p, c)
    BY <1>1, <1>2, <2>1, AppendedRekeyed
  <2>2. CASE x \in ToSet(Members(heap, p)) /\ heap' = InsertedBefore(heap, p, x, c)
    <3> DEFINE g == InsertedBefore(heap, p, x, c)
    <3>1. /\ p \in live /\ heap[p].ref = FALSE /\ c \in held
      BY <1>1, <1>2, FitsOutside
    <3>3. /\ x \in live /\ x \notin Doomed(heap, c)
          /\ Kd(heap)[p] = x \/ Pv(heap)[x] # Null
          /\ Kd(heap)[p] # Null /\ Within(Nx(heap), Kd(heap), live, p, x)
      BY <1>1, <1>2, <2>2, MemberOutside
    <3>4. HeapForest(g, live, held \ {c}) /\ Relinked(heap, g, live)
      BY <1>2, <3>1, <3>3, InsertedForest
    <3> HIDE DEF g
    <3>5. g \in Heaps
      BY <3>4, Zenon DEF HeapForest
    <3>6. Vacant(g, live) /\ SameKeys(heap, g)
      BY <1>2, <3>4, <3>5, RelinkedKeeps
    <3> QED BY <2>2, <3>4, <3>6 DEF g
  <2> QED BY <2>1, <2>2 DEF InsertItemInArray
<1>4. Forested'
  BY <1>1, <1>3 DEF Forested
<1>5. KeysKept'
  BY <1>1, <1>2, <1>3, KeysStill
<1> QED BY <1>4, <1>5 DEF IInv

(* x is replaced by c, then freed with everything in it.                   *)
LEMMA ReplacedForest ==
  ASSUME NEW h, NEW L, NEW H, HeapForest(h, L, H), Vacant(h, L),
         NEW p \in L, h[p].ref = FALSE, NEW x \in L,
         Kd(h)[p] = x \/ Pv(h)[x] # Null, Nx(h)[x] # x,
         NEW c \in H, x \notin Doomed(h, c),
         Kd(h)[p] # Null, Within(Nx(h), Kd(h), L, p, x)
  PROVE  /\ HeapForest(Freed(PutInPlace(h, p, x, c), x), L \ Doomed(PutInPlace(h, p, x, c), x), H \ {c})
         /\ Vacant(Freed(PutInPlace(h, p, x, c), x), L \ Doomed(PutInPlace(h, p, x, c), x))
         /\ PutInPlace(h, p, x, c) \in Heaps /\ x \in Nodes
         /\ SameKeys(h, PutInPlace(h, p, x, c))
         /\ SameKeysBut(PutInPlace(h, p, x, c), Freed(PutInPlace(h, p, x, c), x),
                        Doomed(PutInPlace(h, p, x, c), x))
         /\ Unkeyed(Freed(PutInPlace(h, p, x, c), x), Doomed(PutInPlace(h, p, x, c), x))
<1> DEFINE H2 == (H \ {c}) \cup {x}
           after == PutInPlace(h, p, x, c)
<1>0. /\ h \in Heaps /\ L \in SUBSET Nodes /\ Null \notin Nodes /\ x \in Nodes
      /\ Roots(Nx(h), Pv(h), Kd(h), L, H)
  BY HeapForestIs
<1>1. HeapForest(after, L, H2) /\ Relinked(h, after, L)
  BY PutForest
<1>2. after \in Heaps
  BY <1>1, Zenon DEF HeapForest
<1>3. Vacant(after, L) /\ SameKeys(h, after)
  BY <1>0, <1>1, <1>2, RelinkedKeeps
<1>4. x \notin H
  BY <1>0 DEF Roots
<1>5. x \in H2 /\ H2 \ {x} = H \ {c}
  BY <1>4
<1> HIDE DEF H2, after
<1>6. /\ HeapForest(Freed(after, x), L \ Doomed(after, x), H2 \ {x})
      /\ Vacant(Freed(after, x), L \ Doomed(after, x))
      /\ SameKeysBut(after, Freed(after, x), Doomed(after, x))
      /\ Unkeyed(Freed(after, x), Doomed(after, x))
  BY <1>1, <1>3, <1>5, FreedForest
<1> QED BY <1>0, <1>2, <1>3, <1>5, <1>6 DEF after

(* A replacement, of a heap with the links of the one before.              *)
LEMMA ReplaceInForest ==
  ASSUME IInv, NEW p, NEW x, NEW c, Fits(p, c), x \in ToSet(Members(heap, p)),
         NEW h \in Heaps, \A m \in Nodes : m # c => h[m] = heap[m],
         h[c].ref = heap[c].ref,
         Nx(h) = Nx(heap), Pv(h) = Pv(heap), Kd(h) = Kd(heap),
         NEW made \in Int, NEW strays, ReplaceIn(h, p, x, c, made, strays),
         ~strays => \A k : Balanced(heap, k) => Balanced(h, k + made)
  PROVE  IInv'
<1> DEFINE after == PutInPlace(h, p, x, c)
<1>1. /\ heap' = Freed(after, x) /\ live' = live \ Doomed(after, x) /\ held' = held \ {c}
      /\ Keys(made, Cardinality(FreedKeys(after, Doomed(after, x))), strays)
  BY DEF ReplaceIn
<1>2. Forested /\ KeysKept
  BY DEF IInv
<1>3. /\ p \in live /\ heap[p].ref = FALSE /\ p \in Nodes /\ c \in held /\ c \in live
      /\ c \in Nodes /\ p \notin Doomed(heap, c)
  BY <1>2, FitsOutside
<1>4. /\ x \in live /\ Nx(heap)[x] # x /\ x \notin Doomed(heap, c)
      /\ Kd(heap)[p] = x \/ Pv(heap)[x] # Null
      /\ Kd(heap)[p] # Null /\ Within(Nx(heap), Kd(heap), live, p, x)
  BY <1>2, MemberOutside
<1>5. HeapForest(h, live, held)
  BY <1>2, SameLinks DEF Forested
<1>6. Vacant(h, live)
  BY <1>2, <1>3 DEF Vacant, Forested
<1>7. Doomed(h, c) = Doomed(heap, c)
  BY <1>2, <1>3, <1>5, DoomedSame DEF Forested
<1>8. h[p].ref = FALSE
  BY <1>3
<1> HIDE DEF after
<1>9. /\ HeapForest(Freed(after, x), live \ Doomed(after, x), held \ {c})
      /\ Vacant(Freed(after, x), live \ Doomed(after, x))
      /\ after \in Heaps /\ x \in Nodes
      /\ SameKeys(h, after) /\ SameKeysBut(after, Freed(after, x), Doomed(after, x))
      /\ Unkeyed(Freed(after, x), Doomed(after, x))
  <2>2. Kd(h)[p] = x \/ Pv(h)[x] # Null
    BY <1>4
  <2>3. Nx(h)[x] # x /\ x \notin Doomed(h, c)
    BY <1>4, <1>7
  <2>4. Kd(h)[p] # Null /\ Within(Nx(h), Kd(h), live, p, x)
    BY <1>4
  <2> QED BY <1>3, <1>4, <1>5, <1>6, <1>8, <2>2, <2>3, <2>4, ReplacedForest DEF after
<1>10. Forested'
  BY <1>1, <1>9 DEF Forested
<1>11. KeysKept'
  <2> DEFINE freed == Cardinality(FreedKeys(after, Doomed(after, x)))
  <2>1. Doomed(after, x) \in SUBSET Nodes
    BY <1>9, DoomedIs
  <2>2. ASSUME strayed = FALSE, ~strays
        PROVE  Balanced(heap', strings + made - freed)
    <3>1. Balanced(heap, strings)
      BY <1>2, <2>2 DEF KeysKept
    <3>2. Balanced(after, strings + made)
      <4>1. Balanced(h, strings + made)
        BY <2>2, <3>1
      <4> QED BY <1>9, <4>1, KeysStay
    <3> DEFINE k == strings + made
               gone == Doomed(after, x)
               left == Freed(after, x)
    <3>3. Balanced(after, k) /\ gone \in SUBSET Nodes
          /\ SameKeysBut(after, left, gone) /\ Unkeyed(left, gone)
      BY <1>9, <2>1, <3>2
    <3> HIDE DEF k, gone, left
    <3> DEFINE lost == Cardinality(FreedKeys(after, gone))
    <3>4. k \in Nat /\ lost \in Nat /\ Balanced(left, k - lost)
      BY <3>3, KeysGone
    <3>5. strings \in Int /\ heap' = left /\ lost = freed
      BY <1>1, <1>2 DEF KeysKept, left, gone
    <3> HIDE DEF lost, freed
    <3>6. k - lost = strings + made - freed
      BY <3>4, <3>5 DEF k
    <3> QED BY <3>4, <3>5, <3>6
  <2>3. Keys(made, freed, strays)
    BY <1>1
  <2> HIDE DEF freed
  <2> QED BY <1>2, <2>2, <2>3, KeysStep
<1> QED BY <1>10, <1>11 DEF IInv

(* cJSON_ReplaceItemInArray().                                             *)
LEMMA ReplaceItemInArrayForest ==
  ASSUME IInv, NEW p \in Nodes, NEW x \in Nodes, NEW c \in Nodes, ReplaceItemInArray(p, x, c)
  PROVE  IInv'
<1>1. /\ Fits(p, c) /\ x \in ToSet(Members(heap, p))
      /\ ReplaceIn(heap, p, x, c, 0, FALSE)
  BY DEF ReplaceItemInArray
<1>2. heap \in Heaps
  BY DEF IInv, Forested, HeapForest
<1>3. ASSUME NEW k, Balanced(heap, k)
      PROVE  Balanced(heap, k + 0)
  <2>1. k \in Nat
    BY <1>3, CopiedSplit DEF Balanced
  <2>2. k + 0 = k
    BY <2>1
  <2> QED BY <1>3, <2>2
<1>4. PICK strays \in BOOLEAN : strays = FALSE
  OBVIOUS
<1>5. ReplaceIn(heap, p, x, c, 0, strays)
  BY <1>1, <1>4
<1> QED BY <1>1, <1>2, <1>3, <1>5, ReplaceInForest

(* cJSON_ReplaceItemInObject().                                            *)
LEMMA ReplaceItemInObjectForest ==
  ASSUME IInv, NEW p \in Nodes, NEW x \in Nodes, NEW c \in Nodes, ReplaceItemInObject(p, x, c)
  PROVE  IInv'
<1> DEFINE strays == heap[c].const \/ heap[c].key # "none"
<1>1. Fits(p, c) /\ x \in ToSet(Members(heap, p))
  BY DEF ReplaceItemInObject
<1>2. PICK key \in {"copy", "none"} : ReplaceIn(WithKey(heap, c, key), p, x, c, Block(key), strays)
  BY DEF ReplaceItemInObject
<1>4. heap \in Heaps
  BY DEF IInv, Forested, HeapForest
<1> DEFINE g == WithKey(heap, c, key)
           made == Block(key)
<1>5. /\ g \in Heaps /\ \A m \in Nodes : m # c => g[m] = heap[m]
      /\ g[c].ref = heap[c].ref
      /\ Nx(g) = Nx(heap) /\ Pv(g) = Pv(heap) /\ Kd(g) = Kd(heap)
      /\ g[c].key = key /\ g[c].const = heap[c].const
      /\ SameKeysBut(heap, g, {c})
  <2>1. key \in {"none", "copy"}
    OBVIOUS
  <2>2. RekeyedTo(heap, g, c, key, heap[c].const)
    BY <1>4, <2>1, WithKeyKeeps
  <2> HIDE DEF g
  <2> QED BY <2>2 DEF RekeyedTo
<1>6. ReplaceIn(g, p, x, c, made, strays) /\ made \in Int
  BY <1>2 DEF Block
<1> HIDE DEF g
<1>7. ASSUME ~strays, NEW k, Balanced(heap, k)
      PROVE  Balanced(g, k + made)
  <2>1. FitsAt(g, c)
    BY <1>5, <1>7 DEF FitsAt
  <2>2. k \in Nat /\ Balanced(g, k + KeyCount(g, c) - KeyCount(heap, c))
    BY <1>5, <1>7, <2>1, KeyChanged
  <2>3. KeyCount(heap, c) = 0 /\ KeyCount(g, c) = made
    BY <1>5, <1>7 DEF KeyCount, Block
  <2>4. k + KeyCount(g, c) - KeyCount(heap, c) = k + made
    BY <1>6, <2>2, <2>3
  <2> QED BY <2>2, <2>4
<1> HIDE DEF strays, made
<1> QED BY <1>1, <1>5, <1>6, <1>7, ReplaceInForest

(* Appended() leaves a heap a heap.                                        *)
LEMMA AppendedType ==
  ASSUME NEW h \in Heaps, NEW p \in Nodes, NEW c \in Nodes
  PROVE  Appended(h, p, c) \in Heaps
<1>0. c \in Links /\ h[p].child \in Links /\ h[p] \in Items /\ Null \notin Nodes
  BY FieldTypes, JsonHeapAssumption DEF Links
<1>1. CASE h[p].child = Null
  <2>1. Appended(h, p, c) = [h EXCEPT ![p] = [h[p] EXCEPT !.child = c]]
    BY <1>1 DEF Appended
  <2>2. [h[p] EXCEPT !.child = c] \in Items
    BY <1>0 DEF Items
  <2> QED BY <2>1, <2>2 DEF Heaps
<1>2. CASE h[p].child # Null
  <2> DEFINE b == LastIn(h, p)
             f == h[p].child
  <2>1. f \in Nodes /\ \A m \in Nodes : h[m].next \in Nodes \cup {Null}
    BY <1>0, <1>2, FieldTypes DEF Links
  <2>2. Siblings(h, f) \in Seq(Nodes \cup {Null}) /\ Siblings(h, f) # <<>>
    BY <2>1, SiblingsStay
  <2>3. b \in Links
    BY <2>2 DEF LastIn, Last, Links
  <2>4. Appended(h, p, c) = SetPrev(SetNext(h, b, c), c, b)
    BY <1>2 DEF Appended, LastIn
  <2> HIDE DEF b
  <2>5. SetNext(h, b, c) \in Heaps
    BY <1>0, <2>3, SetNextIs
  <2>6. SetPrev(SetNext(h, b, c), c, b) \in Heaps
    BY <1>0, <2>3, <2>5, SetPrevIs
  <2> QED BY <2>4, <2>6
<1> QED BY <1>1, <1>2

(* What h has become when the new node n was put behind what is in p.      *)
GrewBy(h, g, L, H, p, n) ==
  /\ HeapForest(g, L \cup {n}, H) /\ Vacant(g, L \cup {n}) /\ g[p].ref = FALSE
  /\ SameKeys(h, g)
  /\ Members(g, p) = InsertAt(Members(h, p), Len(Members(h, p)) + 1, n)
  /\ \A q \in Nodes \ {p} : Members(g, q) = Members(h, q)

(* A new node at the end of the list of p.                                 *)
LEMMA AppendNew ==
  ASSUME NEW h, NEW L, NEW H, HeapForest(h, L, H), Vacant(h, L),
         NEW p \in L, h[p].ref = FALSE, NEW n \in Nodes \ L
  PROVE  GrewBy(h, Appended(h, p, n), L, H, p, n)
<1> DEFINE L2 == L \cup {n}
           H2 == H \cup {n}
           g == Appended(h, p, n)
<1>0. h \in Heaps /\ L \in SUBSET Nodes /\ H \in SUBSET L
  BY DEF HeapForest, Forest, Shape
<1>1. Nx(h)[n] = Null /\ Pv(h)[n] = Null /\ Kd(h)[n] = Null
  BY BlankIs DEF Vacant, Nx, Pv, Kd
<1>2. HeapForest(h, L2, H2)
  BY <1>1, NewForest
<1>3. Vacant(h, L2) /\ p \in L2 /\ n \in H2 /\ n \in L2 /\ p # n /\ H2 \ {n} = H
  BY <1>0 DEF Vacant
<1> HIDE DEF L2, H2, g
<1>4. Doomed(h, n) = {n}
  BY <1>1, <1>2, <1>3, DoomedAlone
<1>5. p \notin Doomed(h, n)
  BY <1>3, <1>4
<1>6. HeapForest(g, L2, H2 \ {n}) /\ Relinked(h, g, L2)
  BY <1>2, <1>3, <1>5, AppendedForest DEF g
<1>7. g \in Heaps
  BY <1>6, Zenon DEF HeapForest
<1>8. Vacant(g, L2) /\ SameKeys(h, g)
  BY <1>0, <1>3, <1>6, <1>7, RelinkedKeeps
<1>9. g[p].ref = FALSE
  <2>1. Rf(g)[p] = Rf(h)[p]
    BY <1>6 DEF Relinked, SameFlags
  <2> QED BY <1>0, <2>1 DEF Rf
<1>10. /\ Members(g, p) = InsertAt(Members(h, p), Len(Members(h, p)) + 1, n)
       /\ OthersSame(h, g, L2, p)
  <2>1. NowHolds(h, g, L2, p, InsertAt(Members(h, p), Len(Members(h, p)) + 1, n))
    BY <1>2, <1>3, <1>5, AppendedMembers DEF g
  <2> QED BY <2>1 DEF NowHolds
<1>11. ASSUME NEW q \in Nodes \ {p}
       PROVE  Members(g, q) = Members(h, q)
  <2>1. CASE q \in L2
    BY <1>10, <1>11, <2>1 DEF OthersSame
  <2>2. CASE q \notin L2
    <3>1. Members(h, q) = <<>>
      BY <1>0, <1>3, <2>2, VacantMembers
    <3>2. Vacant(g, L2)
      BY <1>3, <1>8
    <3>3. Members(g, q) = <<>>
      BY <1>7, <2>2, <3>2, VacantMembers
    <3> QED BY <3>1, <3>3
  <2> QED BY <2>1, <2>2
<1>12. HeapForest(g, L2, H) /\ Vacant(g, L2) /\ SameKeys(h, g)
  BY <1>3, <1>6, <1>8
<1> QED BY <1>9, <1>10, <1>11, <1>12 DEF g, L2, GrewBy

(* There is a heap for every item that has been put into a.                *)
LEMMA ChainExists ==
  ASSUME NEW a \in Nodes, NEW e \in Seq(Nodes), NEW h \in Heaps
  PROVE  \E f \in [0..Len(e) -> Heaps] :
           f[0] = h /\ \A k \in 1..Len(e) : f[k] = Appended(f[k - 1], a, e[k])
<1> DEFINE N == Len(e)
           Good(n, f) == f[0] = h /\ \A k \in 1..n : f[k] = Appended(f[k - 1], a, e[k])
           S == {n \in 0..N : \E f \in [0..n -> Heaps] : Good(n, f)}
<1>0. N \in Nat /\ \A k \in 1..N : e[k] \in Nodes
  OBVIOUS
<1> HIDE DEF N
<1>1. 0 \in S
  <2> DEFINE f == [k \in 0..0 |-> h]
  <2>1. f \in [0..0 -> Heaps] /\ f[0] = h
    OBVIOUS
  <2> HIDE DEF f
  <2>2. Good(0, f)
    BY <2>1
  <2>3. 0 \in 0..N
    BY <1>0
  <2> HIDE DEF Good
  <2> QED BY <2>1, <2>2, <2>3
<1>2. ASSUME NEW n \in 0..N, n < N, n \in S
      PROVE  n + 1 \in S
  <2>1. PICK f \in [0..n -> Heaps] : Good(n, f)
    BY <1>2
  <2> DEFINE next == Appended(f[n], a, e[n + 1])
             g == [k \in 0..n + 1 |-> IF k = n + 1 THEN next ELSE f[k]]
  <2>2. n + 1 \in 1..N /\ f[n] \in Heaps /\ e[n + 1] \in Nodes
    BY <1>0, <1>2
  <2>3. next \in Heaps
    BY <2>2, AppendedType
  <2> HIDE DEF next
  <2>4. g \in [0..n + 1 -> Heaps] /\ g[n + 1] = next /\ \A k \in 0..n : g[k] = f[k]
    BY <1>0, <2>3
  <2> HIDE DEF g
  <2>5. ASSUME NEW k \in 1..n + 1
        PROVE  g[k] = Appended(g[k - 1], a, e[k])
    <3>1. g[k - 1] = f[k - 1]
      BY <1>0, <2>4
    <3>2. CASE k = n + 1
      <4>1. k - 1 = n
        BY <3>2
      <4> QED BY <2>4, <3>1, <3>2, <4>1 DEF next
    <3>3. CASE k # n + 1
      <4>1. k \in 1..n /\ k \in 0..n
        BY <1>0, <3>3
      <4>2. g[k] = f[k]
        BY <2>4, <4>1
      <4>3. f[k] = Appended(f[k - 1], a, e[k])
        BY <2>1, <4>1
      <4> QED BY <3>1, <4>2, <4>3
    <3> QED BY <3>2, <3>3
  <2>6. g[0] = h
    <3>1. 0 \in 0..n
      BY <1>0
    <3> QED BY <2>1, <2>4, <3>1
  <2>7. Good(n + 1, g)
    BY <2>5, <2>6
  <2>8. n + 1 \in 0..N
    BY <1>0, <1>2
  <2> HIDE DEF Good
  <2> QED BY <2>4, <2>7, <2>8
<1> HIDE DEF S
<1>3. \A n \in 0..N : n \in S
  BY <1>0, <1>1, <1>2, CountingUp
<1>4. N \in S
  BY <1>0, <1>3
<1> QED BY <1>4 DEF S, N

(* The new array a with the new items of e in it.                          *)
LEMMA ChainedForest ==
  ASSUME Forested, NEW a \in Nodes \ live, NEW e \in Seq(Nodes \ live),
         \A i, j \in 1..Len(e) : e[i] = e[j] => i = j,
         \A i \in 1..Len(e) : e[i] # a
  PROVE  /\ HeapForest(Chained(a, e), live \cup {a} \cup ToSet(e), held \cup {a})
         /\ Vacant(Chained(a, e), live \cup {a} \cup ToSet(e))
         /\ SameKeys(heap, Chained(a, e))
         /\ Members(Chained(a, e), a) = e
         /\ \A q \in Nodes \ {a} : Members(Chained(a, e), q) = Members(heap, q)
<1> DEFINE N == Len(e)
           Is(f) == f = [k \in 0..N |-> IF k = 0 THEN heap ELSE Appended(f[k - 1], a, e[k])]
           linked == CHOOSE f : Is(f)
           L(k) == live \cup {a} \cup {e[i] : i \in 1..k}
           H == held \cup {a}
           Good(k) == /\ HeapForest(linked[k], L(k), H) /\ Vacant(linked[k], L(k))
                      /\ linked[k][a].ref = FALSE
                      /\ SameKeys(heap, linked[k])
                      /\ Members(linked[k], a) = SubSeq(e, 1, k)
                      /\ \A q \in Nodes \ {a} : Members(linked[k], q) = Members(heap, q)
<1>0. /\ heap \in Heaps /\ HeapForest(heap, live, held) /\ Vacant(heap, live)
      /\ live \in SUBSET Nodes /\ held \in SUBSET live /\ N \in Nat
      /\ \A k \in 1..N : e[k] \in Nodes \ live
  <2>1. HeapForest(heap, live, held) /\ Vacant(heap, live)
    BY DEF Forested
  <2>2. heap \in Heaps /\ live \in SUBSET Nodes /\ held \in SUBSET live
    BY <2>1 DEF HeapForest, Forest, Shape
  <2> QED BY <2>1, <2>2
<1>2. \E f : Is(f)
  <2>0. e \in Seq(Nodes) /\ a \in Nodes /\ heap \in Heaps
    BY <1>0
  <2>1. \E f \in [0..N -> Heaps] :
          f[0] = heap /\ \A k \in 1..N : f[k] = Appended(f[k - 1], a, e[k])
    BY <2>0, ChainExists
  <2>2. PICK f \in [0..N -> Heaps] :
          f[0] = heap /\ \A k \in 1..N : f[k] = Appended(f[k - 1], a, e[k])
    BY <2>1
  <2>3. \A k \in 0..N : k = 0 \/ k \in 1..N
    BY <1>0
  <2>4. Is(f)
    BY <2>2, <2>3
  <2> QED BY <2>4
<1>3. Is(linked)
  BY <1>2, Zenon
<1>4. Chained(a, e) = linked[N]
  BY Zenon DEF Chained
<1> HIDE DEF linked
<1>5. linked[0] = heap /\ \A k \in 1..N : linked[k] = Appended(linked[k - 1], a, e[k])
  BY <1>0, <1>3
<1> DEFINE S == {k \in 0..N : Good(k)}
<1>6. 0 \in S
  <2>1. Nx(heap)[a] = Null /\ Pv(heap)[a] = Null /\ Kd(heap)[a] = Null /\ heap[a].ref = FALSE
    BY <1>0, BlankIs DEF Vacant, Nx, Pv, Kd
  <2>2. HeapForest(heap, live \cup {a}, held \cup {a})
    BY <1>0, <2>1, NewForest
  <2>3. Vacant(heap, live \cup {a})
    BY <1>0 DEF Vacant
  <2>4. L(0) = live \cup {a}
    BY <1>0
  <2>6. Members(heap, a) = SubSeq(e, 1, 0)
    <3>1. Members(heap, a) = <<>>
      BY <1>0, VacantMembers
    <3>2. SubSeq(e, 1, 0) = <<>>
      OBVIOUS
    <3> QED BY <3>1, <3>2
  <2>7. SameKeys(heap, heap)
    BY DEF SameKeys, SameKeysBut
  <2>5. Good(0)
    BY <1>5, <2>1, <2>2, <2>3, <2>4, <2>6, <2>7
  <2> HIDE DEF Good
  <2> QED BY <1>0, <2>5
<1>7. ASSUME NEW k \in 0..N, k < N, k \in S
      PROVE  k + 1 \in S
  <2> DEFINE n == e[k + 1]
  <2>1. k + 1 \in 0..N /\ k + 1 \in 1..N /\ (k + 1) - 1 = k /\ k + 1 # 0
    BY <1>0, <1>7
  <2>2. n \in Nodes \ L(k) /\ a \in L(k)
    BY <1>0, <2>1
  <2>3. L(k + 1) = L(k) \cup {n}
    <3>1. \A i \in 1..k + 1 : i = k + 1 \/ i \in 1..k
      BY <1>0
    <3>2. \A i \in 1..k : i \in 1..k + 1
      BY <1>0
    <3>3. k + 1 \in 1..k + 1
      BY <1>0
    <3> QED BY <3>1, <3>2, <3>3
  <2>4. linked[k + 1] = Appended(linked[k], a, n)
    BY <1>5, <2>1
  <2>5. Good(k)
    BY <1>7
  <2> HIDE DEF n, L, H
  <2>6. GrewBy(linked[k], Appended(linked[k], a, n), L(k), H, a, n)
    BY <2>2, <2>5, AppendNew
  <2>9. InsertAt(SubSeq(e, 1, k), Len(SubSeq(e, 1, k)) + 1, n) = SubSeq(e, 1, k + 1)
    BY <1>0, <1>7, <2>1, OneMore DEF N, n
  <2>7. Good(k + 1)
    <3> DEFINE g == Appended(linked[k], a, n)
    <3> HIDE DEF g
    <3>1. GrewBy(linked[k], g, L(k), H, a, n) /\ linked[k + 1] = g
      BY <2>4, <2>6 DEF g
    <3>2. /\ Members(g, a) = SubSeq(e, 1, k + 1)
          /\ \A q \in Nodes \ {a} : Members(g, q) = Members(heap, q)
      BY <2>5, <2>9, <3>1 DEF GrewBy
    <3>3. HeapForest(g, L(k + 1), H) /\ Vacant(g, L(k + 1)) /\ g[a].ref = FALSE
      BY <2>3, <2>5, <3>1, Zenon DEF GrewBy
    <3>4. SameKeys(heap, linked[k]) /\ SameKeys(linked[k], g)
      BY <2>5, <3>1, Zenon DEF GrewBy
    <3>5. SameKeys(heap, g)
      BY <3>4, SameKeysThrough
    <3> QED BY <3>1, <3>2, <3>3, <3>5
  <2> HIDE DEF Good
  <2> QED BY <2>1, <2>7
<1> HIDE DEF S, Good, N
<1>8. \A k \in 0..N : k \in S
  BY <1>0, <1>6, <1>7, CountingUp
<1>9. Good(N)
  BY <1>0, <1>8 DEF S
<1>10. L(N) = live \cup {a} \cup ToSet(e)
  BY DEF ToSet, N
<1>11. SubSeq(e, 1, N) = e
  BY DEF N
<1> HIDE DEF L
<1> QED BY <1>4, <1>9, <1>10, <1>11 DEF Good

(* The items of a new list are different from each other and from the      *)
(* array that they go into.                                                *)
Distinct(a, e) ==
  /\ \A i, j \in 1..Len(e) : e[i] = e[j] => i = j
  /\ \A i \in 1..Len(e) : e[i] # a

(* The memory for a list makes an array and its items.                     *)
LEMMA ListParts ==
  ASSUME NEW X, NEW k \in Nat, k >= 1, NEW new \in Injection(1..k + 1, X)
  PROVE  /\ Head(new) \in X
         /\ Tail(new) \in Seq(X) /\ Distinct(Head(new), Tail(new))
         /\ Front(Tail(new)) \in Seq(X) /\ Distinct(Head(new), Front(Tail(new)))
<1> DEFINE e == Tail(new)
           f == Front(e)
<1>1. new \in [1..k + 1 -> X] /\ \A i, j \in 1..k + 1 : new[i] = new[j] => i = j
  BY DEF Injection, IsInjective
<1>2. new \in Seq(X) /\ Len(new) = k + 1 /\ new # <<>>
  BY <1>1
<1>3. Head(new) = new[1] /\ Head(new) \in X
  BY <1>1, <1>2
<1>4. e \in Seq(X) /\ Len(e) = k /\ \A i \in 1..k : e[i] = new[i + 1]
  BY <1>1, <1>2
<1> HIDE DEF e
<1>5. \A i, j \in 1..k : e[i] = e[j] => i = j
  <2> SUFFICES ASSUME NEW i \in 1..k, NEW j \in 1..k, e[i] = e[j]
               PROVE  i = j
    OBVIOUS
  <2>1. i + 1 \in 1..k + 1 /\ j + 1 \in 1..k + 1 /\ new[i + 1] = new[j + 1]
    BY <1>4
  <2>2. i + 1 = j + 1
    BY <1>1, <2>1
  <2> QED BY <2>2
<1>6. \A i \in 1..k : e[i] # Head(new)
  <2> SUFFICES ASSUME NEW i \in 1..k, e[i] = Head(new)
               PROVE  FALSE
    OBVIOUS
  <2>1. i + 1 \in 1..k + 1 /\ 1 \in 1..k + 1 /\ new[i + 1] = new[1]
    BY <1>3, <1>4
  <2>2. i + 1 = 1
    BY <1>1, <2>1
  <2> QED BY <2>2
<1>7. f \in Seq(X) /\ Len(f) = k - 1 /\ \A i \in 1..k - 1 : f[i] = e[i]
  BY <1>4 DEF Front
<1> HIDE DEF f
<1>8. \A i \in 1..k - 1 : i \in 1..k
  OBVIOUS
<1>9. Distinct(Head(new), e)
  BY <1>4, <1>5, <1>6 DEF Distinct
<1>10. Distinct(Head(new), f)
  BY <1>5, <1>6, <1>7, <1>8 DEF Distinct
<1> QED BY <1>3, <1>4, <1>7, <1>9, <1>10 DEF e, f

(* The array of a list that could not be made goes with what is in it.     *)
LEMMA ChainDoomed ==
  ASSUME Forested, NEW a \in Nodes \ live, NEW f \in Seq(Nodes \ live), Distinct(a, f),
         NEW h, NEW L, NEW H, HeapForest(h, L, H), a \in H, L = live \cup {a} \cup ToSet(f),
         Members(h, a) = f, \A q \in Nodes \ {a} : Members(h, q) = Members(heap, q)
  PROVE  Doomed(h, a) \cap live = {}
<1>0. /\ live \in SUBSET Nodes /\ heap \in Heaps /\ Vacant(heap, live) /\ L \in SUBSET Nodes
      /\ Roots(Nx(h), Pv(h), Kd(h), L, H)
  <2>0. HeapForest(h, L, H)
    OBVIOUS
  <2>1. L \in SUBSET Nodes /\ Roots(Nx(h), Pv(h), Kd(h), L, H)
    BY ONLY <2>0, HeapForestIs
  <2>2. HeapForest(heap, live, held) /\ Vacant(heap, live)
    BY DEF Forested
  <2>3. live \in SUBSET Nodes /\ heap \in Heaps
    BY <2>2 DEF HeapForest, Forest, Shape
  <2> QED BY <2>1, <2>2, <2>3
<1> DEFINE T == {a} \cup ToSet(f)
<1>1. /\ T \in SUBSET L /\ a \in T /\ a \in L /\ T \cap live = {}
      /\ \A i \in 1..Len(f) : f[i] \in T /\ f[i] \in L /\ f[i] # a
  BY DEF ToSet, Distinct
<1>2. IsList(Nx(h), Kd(h)[a], f)
  BY <1>1, MembersList
<1>3. \A k : At(f, k) \in T \cup {Null}
  BY <1>1 DEF At
<1>4. Nx(h)[a] = Null /\ Kd(h)[a] \in T \cup {Null}
  BY <1>0, <1>2, <1>3 DEF Roots, IsList
<1>5. ASSUME NEW i \in 1..Len(f)
      PROVE  Nx(h)[f[i]] \in T \cup {Null} /\ Kd(h)[f[i]] = Null
  <2>1. Nx(h)[f[i]] \in T \cup {Null}
    BY <1>2, <1>3 DEF IsList
  <2> DEFINE x == f[i]
  <2>2. x \in L /\ x \in Nodes \ live /\ x # a
    BY <1>1
  <2> HIDE DEF x, T
  <2>3. Members(heap, x) = <<>>
    BY <1>0, <2>2, VacantMembers
  <2>4. Members(h, x) = <<>>
    BY <2>2, <2>3
  <2>5. IsList(Nx(h), Kd(h)[x], Members(h, x))
    BY <2>2, MembersList
  <2>6. Kd(h)[x] = Null
    BY <2>4, <2>5 DEF IsList, At
  <2> QED BY <2>1, <2>6 DEF x
<1>6. Along(Nx(h), Kd(h), T)
  <2> SUFFICES ASSUME NEW m \in T
               PROVE  Nx(h)[m] \in T \cup {Null} /\ Kd(h)[m] \in T \cup {Null}
    BY DEF Along
  <2>1. m = a \/ \E i \in 1..Len(f) : m = f[i]
    BY DEF ToSet
  <2> QED BY <1>4, <1>5, <2>1
<1> HIDE DEF T
<1>7. Doomed(h, a) \subseteq T
  BY <1>1, <1>6, DoomedLeast
<1> QED BY <1>1, <1>7

(* cJSON_CreateIntArray() and its sisters, with a failure on the way.      *)
LEMMA CreateListsForest ==
  ASSUME IInv, CreateLists
  PROVE  IInv'
<1>0. Forested /\ KeysKept /\ live \in SUBSET Nodes /\ held \in SUBSET live
  BY HeapForestIs DEF IInv, Forested
<1>1. PICK k \in 1..Cardinality(Nodes \ live) - 1 :
        \E new \in Injection(1..k + 1, Nodes \ live) : CreateList(Head(new), Tail(new))
  BY DEF CreateLists
<1>2. PICK new \in Injection(1..k + 1, Nodes \ live) : CreateList(Head(new), Tail(new))
  BY <1>1
<1> DEFINE a == Head(new)
           e == Tail(new)
           f == Front(e)
<1>3. k \in Nat /\ k >= 1
  <2>1. Cardinality(Nodes \ live) \in Nat
    BY JsonHeapAssumption, FS_Subset, FS_CardinalityType
  <2> QED BY <2>1
<1>4. /\ a \in Nodes \ live /\ e \in Seq(Nodes \ live) /\ f \in Seq(Nodes \ live)
      /\ Distinct(a, e) /\ Distinct(a, f)
  BY <1>3, ListParts
<1>5. /\ strings' = strings /\ strayed' = strayed
      /\ \/ /\ heap' = Chained(a, e)
            /\ live' = live \cup {a} \cup ToSet(e)
            /\ held' = held \cup {a}
         \/ /\ heap' = Freed(Chained(a, f), a)
            /\ live' = (live \cup {a} \cup ToSet(f)) \ Doomed(Chained(a, f), a)
            /\ held' = held
  BY <1>2, Zenon DEF CreateList
<1> HIDE DEF a, e, f
<1>6. CASE /\ heap' = Chained(a, e)
           /\ live' = live \cup {a} \cup ToSet(e)
           /\ held' = held \cup {a}
  <2>1. /\ HeapForest(Chained(a, e), live \cup {a} \cup ToSet(e), held \cup {a})
        /\ Vacant(Chained(a, e), live \cup {a} \cup ToSet(e))
        /\ SameKeys(heap, Chained(a, e))
    BY <1>0, <1>4, ChainedForest DEF Distinct
  <2>2. Forested'
    BY <1>6, <2>1 DEF Forested
  <2>4. KeysKept'
    BY <1>0, <1>5, <1>6, <2>1, KeysStill
  <2> QED BY <2>2, <2>4 DEF IInv
<1>7. CASE /\ heap' = Freed(Chained(a, f), a)
           /\ live' = (live \cup {a} \cup ToSet(f)) \ Doomed(Chained(a, f), a)
           /\ held' = held
  <2> DEFINE h == Chained(a, f)
             L == live \cup {a} \cup ToSet(f)
             H == held \cup {a}
  <2>1. /\ HeapForest(h, L, H) /\ Vacant(h, L) /\ SameKeys(heap, h)
        /\ Members(h, a) = f
        /\ \A q \in Nodes \ {a} : Members(h, q) = Members(heap, q)
    BY <1>0, <1>4, ChainedForest DEF Distinct
  <2>2. a \in H /\ H \ {a} = held
    BY <1>0, <1>4
  <2>3. heap' = Freed(h, a) /\ live' = L \ Doomed(h, a)
    BY <1>7
  <2>8. L = live \cup {a} \cup ToSet(f)
    OBVIOUS
  <2> HIDE DEF h, L, H
  <2>4. /\ HeapForest(Freed(h, a), L \ Doomed(h, a), H \ {a})
        /\ Vacant(Freed(h, a), L \ Doomed(h, a))
        /\ SameKeysBut(h, Freed(h, a), Doomed(h, a)) /\ Unkeyed(Freed(h, a), Doomed(h, a))
    BY <2>1, <2>2, FreedForest
  <2>5. Forested'
    BY <1>7, <2>2, <2>3, <2>4 DEF Forested
  <2>6. SameKeys(heap, heap')
    <3>1. Doomed(h, a) \cap live = {}
      BY <1>0, <1>4, <2>1, <2>2, <2>8, ChainDoomed
    <3>2. \A m \in Doomed(h, a) \cap Nodes :
            heap[m].const = FALSE /\ heap[m].key = "none"
      BY <1>0, <3>1, BlankIs DEF Forested, Vacant
    <3> QED BY <2>1, <2>3, <2>4, <3>2 DEF SameKeys, SameKeysBut, Unkeyed
  <2>7. KeysKept'
    BY <1>0, <1>5, <2>6, KeysStill
  <2> QED BY <2>5, <2>7 DEF IInv
<1> QED BY <1>5, <1>6, <1>7

-----------------------------------------------------------------------------
(* Copies.                                                                 *)

(* The copies of the items in S, and those that are in no list.            *)
Made(copy, S) == {copy[s] : s \in S}
Loose(copy, S, U, n) == {copy[s] : s \in S \cap (U \cup {n})}

(* The copy of s, of which the items in U are unfinished.                  *)
CopyItem(copy, S, U, n, s) ==
  [next |-> IF s \in U \cup {n} THEN Null ELSE Copied(copy, S, U, Nx(heap)[s]),
   prev |-> IF s \in U \cup {n} THEN Null ELSE Copied(copy, S, U, Pv(heap)[s]),
   child |-> Copied(copy, S, U, Kd(heap)[s]),
   ref |-> FALSE, const |-> heap[s].const,
   key |-> IF heap[s].key = "none" THEN "none" ELSE "copy"]

(* The heap h has the copies, and what was there before.                   *)
CopiedTo(h, copy, S, U, n) ==
  /\ \A s \in S : h[copy[s]] = CopyItem(copy, S, U, n, s)
  /\ \A m \in Nodes \ Made(copy, S) : h[m] = heap[m]

(* What Copies() is for items that are no references.                      *)
LEMMA CopiesAre ==
  ASSUME Forested, NEW n \in live, NEW S \in SUBSET live, NEW U \in SUBSET S,
         NEW copy \in Injection(S, Nodes \ live), \A s \in S : heap[s].ref = FALSE
  PROVE  /\ copy \in [S -> Nodes \ live] /\ \A s, t \in S : copy[s] = copy[t] => s = t
         /\ Range(copy) = Made(copy, S)
         /\ CopiedTo(Copies(copy, n, U), copy, S, U, n)
         /\ Copies(copy, n, U) \in Heaps
<1> DEFINE h == Copies(copy, n, U)
<1>1. copy \in [S -> Nodes \ live] /\ \A s, t \in S : copy[s] = copy[t] => s = t
  BY DEF Injection, IsInjective
<1>2. Range(copy) = Made(copy, S)
  BY <1>1 DEF Range, Made
<1>3. heap \in Heaps /\ live \in SUBSET Nodes
  BY HeapForestIs DEF Forested
<1>4. \A s \in S : copy[s] \in Nodes /\ copy[s] \in Range(copy) /\ s \in Nodes
  BY <1>1, <1>2, <1>3 DEF Made
<1>5. \A s \in S : AntiFunction(copy)[copy[s]] = s
  <2> SUFFICES ASSUME NEW s \in S
               PROVE  AntiFunction(copy)[copy[s]] = s
    OBVIOUS
  <2>1. AntiFunction(copy)[copy[s]]
          = CHOOSE t \in S : copy[s] \in Range(copy) => copy[t] = copy[s]
    BY <1>1, <1>4 DEF AntiFunction, Inverse
  <2>2. \A t \in S : copy[t] = copy[s] => t = s
    BY <1>1
  <2> QED BY <1>4, <2>1, <2>2
<1>6. \A s \in S : /\ Nx(heap)[s] = heap[s].next /\ Pv(heap)[s] = heap[s].prev
                   /\ Kd(heap)[s] = heap[s].child
  BY <1>4 DEF Nx, Pv, Kd
<1>7. ASSUME NEW s \in S
      PROVE  h[copy[s]] = CopyItem(copy, S, U, n, s)
  <2>1. DOMAIN copy = S
    BY <1>1
  <2>2. /\ AntiFunction(copy)[copy[s]] = s /\ copy[s] \in Nodes /\ copy[s] \in Range(copy)
        /\ Nx(heap)[s] = heap[s].next /\ Pv(heap)[s] = heap[s].prev /\ Kd(heap)[s] = heap[s].child
    BY <1>4, <1>5, <1>6
  <2> QED BY <2>1, <2>2, Zenon DEF Copies, CopyItem, Copied
<1>8. \A m \in Nodes \ Made(copy, S) : h[m] = heap[m]
  BY <1>2, Zenon DEF Copies
<1>9. h \in Heaps
  <2>1. \A m \in Links : Copied(copy, S, U, m) \in Links
    BY <1>1 DEF Copied, Links
  <2>2. ASSUME NEW s \in S
        PROVE  CopyItem(copy, S, U, n, s) \in Items
    <3>1. /\ Nx(heap)[s] \in Links /\ Pv(heap)[s] \in Links /\ Kd(heap)[s] \in Links
          /\ heap[s].const \in BOOLEAN /\ heap[s].key \in {"none", "copy", "constant"}
      BY <1>3, <1>4, <1>6, FieldTypes
    <3>2. Null \in Links
      BY DEF Links
    <3> QED BY <2>1, <3>1, <3>2 DEF CopyItem, Items
  <2>3. \A m \in Nodes : h[m] \in Items
    <3> SUFFICES ASSUME NEW m \in Nodes
                 PROVE  h[m] \in Items
      OBVIOUS
    <3>1. CASE m \in Made(copy, S)
      BY <1>7, <2>2, <3>1 DEF Made
    <3>2. CASE m \notin Made(copy, S)
      BY <1>3, <1>8, <3>2, FieldTypes
    <3> QED BY <3>1, <3>2
  <2>4. h = [m \in Nodes |-> h[m]]
    BY DEF Copies
  <2> HIDE DEF h
  <2> QED BY <2>3, <2>4 DEF Heaps
<1>10. CopiedTo(h, copy, S, U, n)
  BY <1>7, <1>8 DEF CopiedTo
<1> QED BY <1>1, <1>2, <1>9, <1>10

(* The copies are trees of their own.                                      *)
LEMMA CopiesForest ==
  ASSUME Forested, NEW n \in live, NEW S \in SUBSET live, NEW U \in SUBSET S,
         NEW copy \in Injection(S, Nodes \ live), \A s \in S : heap[s].ref = FALSE,
         OnTop(Nx(heap), Kd(heap), S, U, n), Inside(Nx(heap), Kd(heap), live, held, S, U, n)
  PROVE  /\ HeapForest(Copies(copy, n, U), live \cup Made(copy, S),
                       held \cup Loose(copy, S, U, n))
         /\ Vacant(Copies(copy, n, U), live \cup Made(copy, S))
         /\ SameKeysBut(heap, Copies(copy, n, U), Made(copy, S))
         /\ FittingOn(heap, Nodes) /\ ~FlagKept(S)
              => FittingOn(Copies(copy, n, U), Made(copy, S))
<1> DEFINE h == Copies(copy, n, U)
<1>1. /\ copy \in [S -> Nodes \ live] /\ \A s, t \in S : copy[s] = copy[t] => s = t
      /\ Range(copy) = Made(copy, S)
      /\ \A s \in S : h[copy[s]] = CopyItem(copy, S, U, n, s)
      /\ \A m \in Nodes \ Made(copy, S) : h[m] = heap[m]
      /\ h \in Heaps
  <2>1. /\ copy \in [S -> Nodes \ live] /\ \A s, t \in S : copy[s] = copy[t] => s = t
        /\ Range(copy) = Made(copy, S)
        /\ CopiedTo(h, copy, S, U, n)
        /\ h \in Heaps
    BY CopiesAre
  <2> HIDE DEF h
  <2> QED BY <2>1 DEF CopiedTo
<1>2. /\ Vacant(heap, live) /\ live \in SUBSET Nodes /\ heap \in Heaps
      /\ Shape(Nx(heap), Pv(heap), Kd(heap), live, held)
      /\ \E r \in Levels : Leveled(Nx(heap), Kd(heap), live, r)
      /\ Covered(Nx(heap), Kd(heap), live, held)
  BY HeapForestIs DEF Forested
<1> HIDE DEF h
<1>3. Nx(h) \in Maps /\ Pv(h) \in Maps /\ Kd(h) \in Maps
  BY <1>1, ViewTypes
<1>4. \A m \in live : m \in Nodes /\ m \notin Made(copy, S)
  BY <1>1, <1>2 DEF Made
<1>5. \A m \in live : Nx(h)[m] = Nx(heap)[m] /\ Pv(h)[m] = Pv(heap)[m] /\ Kd(h)[m] = Kd(heap)[m]
  BY <1>1, <1>4 DEF Nx, Pv, Kd
<1>6. \A s \in S :
        /\ Nx(h)[copy[s]] = IF s \in U \cup {n} THEN Null ELSE Copied(copy, S, U, Nx(heap)[s])
        /\ Pv(h)[copy[s]] = IF s \in U \cup {n} THEN Null ELSE Copied(copy, S, U, Pv(heap)[s])
        /\ Kd(h)[copy[s]] = Copied(copy, S, U, Kd(heap)[s])
  <2> SUFFICES ASSUME NEW s \in S
               PROVE  /\ Nx(h)[copy[s]] = IF s \in U \cup {n} THEN Null
                                          ELSE Copied(copy, S, U, Nx(heap)[s])
                      /\ Pv(h)[copy[s]] = IF s \in U \cup {n} THEN Null
                                          ELSE Copied(copy, S, U, Pv(heap)[s])
                      /\ Kd(h)[copy[s]] = Copied(copy, S, U, Kd(heap)[s])
    OBVIOUS
  <2> DEFINE item == CopyItem(copy, S, U, n, s)
  <2>1. copy[s] \in Nodes /\ h[copy[s]] = item
    BY <1>1
  <2>2. /\ item.next = IF s \in U \cup {n} THEN Null ELSE Copied(copy, S, U, Nx(heap)[s])
        /\ item.prev = IF s \in U \cup {n} THEN Null ELSE Copied(copy, S, U, Pv(heap)[s])
        /\ item.child = Copied(copy, S, U, Kd(heap)[s]) /\ item.ref = FALSE
    BY DEF CopyItem
  <2> HIDE DEF item
  <2>3. Nx(h)[copy[s]] = item.next /\ Pv(h)[copy[s]] = item.prev /\ Kd(h)[copy[s]] = item.child
    BY <2>1, <2>2 DEF Nx, Pv, Kd
  <2> QED BY <2>2, <2>3
<1> DEFINE nx == Nx(heap)
           pv == Pv(heap)
           kd == Kd(heap)
           n2 == Nx(h)
           p2 == Pv(h)
           k2 == Kd(h)
<1>7. /\ Shape(nx, pv, kd, live, held) /\ n2 \in Maps /\ p2 \in Maps /\ k2 \in Maps
      /\ \A m \in live : n2[m] = nx[m] /\ p2[m] = pv[m] /\ k2[m] = kd[m]
      /\ CopiedBeside(nx, copy, S, U, n, n2) /\ CopiedBeside(pv, copy, S, U, n, p2)
      /\ CopiedBelow(kd, copy, S, U, k2) /\ OnTop(nx, kd, S, U, n)
  BY <1>2, <1>3, <1>5, <1>6, Zenon DEF CopiedBeside, CopiedBelow
<1>8. /\ Shape(n2, p2, k2, live \cup {copy[s] : s \in S},
              held \cup {copy[s] : s \in S \cap (U \cup {n})})
      /\ HasLevels(n2, k2, live \cup {copy[s] : s \in S})
      /\ Covered(n2, k2, live \cup {copy[s] : s \in S},
                 held \cup {copy[s] : s \in S \cap (U \cup {n})})
  <2>1. HasLevels(nx, kd, live) /\ Covered(nx, kd, live, held)
        /\ Inside(nx, kd, live, held, S, U, n)
    BY <1>2 DEF HasLevels
  <2> HIDE DEF nx, pv, kd, n2, p2, k2
  <2>2. Shape(n2, p2, k2, live \cup {copy[s] : s \in S},
              held \cup {copy[s] : s \in S \cap (U \cup {n})})
    BY <1>1, <1>7, ShapeCopy
  <2>3. \A m \in live : n2[m] = nx[m] /\ k2[m] = kd[m]
    BY <1>7
  <2>4. HasLevels(n2, k2, live \cup {copy[s] : s \in S})
    BY <1>1, <1>7, <2>1, <2>3, LevelsCopy
  <2>5. Covered(n2, k2, live \cup {copy[s] : s \in S},
                held \cup {copy[s] : s \in S \cap (U \cup {n})})
    BY <1>1, <1>7, <2>1, <2>3, CoverCopy
  <2> QED BY <2>2, <2>4, <2>5
<1>9. HeapForest(h, live \cup Made(copy, S), held \cup Loose(copy, S, U, n))
  BY <1>1, <1>8 DEF HeapForest, Forest, HasLevels, Made, Loose
<1>10. Vacant(h, live \cup Made(copy, S))
  BY <1>1, <1>2 DEF Vacant
<1>11. SameKeysBut(heap, h, Made(copy, S))
  BY <1>1 DEF SameKeysBut
<1>12. ASSUME FittingOn(heap, Nodes), ~FlagKept(S), NEW m \in Made(copy, S)
       PROVE  FitsAt(h, m)
  <2>1. PICK s \in S : m = copy[s]
    BY <1>12 DEF Made
  <2>2. h[m] = CopyItem(copy, S, U, n, s) /\ s \in Nodes
    BY <1>1, <1>2, <2>1
  <2>3. h[m].const = heap[s].const /\ h[m].key = IF heap[s].key = "none" THEN "none" ELSE "copy"
    BY <2>2 DEF CopyItem
  <2>4. ~(heap[s].const /\ heap[s].key # "none") /\ FitsAt(heap, s)
    BY <1>12, <2>2 DEF FlagKept, FittingOn
  <2> QED BY <2>3, <2>4 DEF FitsAt
<1>13. FittingOn(heap, Nodes) /\ ~FlagKept(S) => FittingOn(h, Made(copy, S))
  BY <1>12, Zenon DEF FittingOn
<1> QED BY <1>9, <1>10, <1>11, <1>13 DEF h

-----------------------------------------------------------------------------
(* What is copied.                                                         *)

(* What is in an item: no link leads out of it, and none from a sibling    *)
(* into it.                                                                *)
Contents(n) == IF Kd(heap)[n] = Null THEN {} ELSE Doomed(heap, Kd(heap)[n])

(* What Contents() is.                                                     *)
LEMMA ContentsAre ==
  ASSUME Forested, NEW n \in live
  PROVE  /\ Contents(n) \in SUBSET live /\ Family(n) = {n} \cup Contents(n)
         /\ Kd(heap)[n] \in Contents(n) \cup {Null}
         /\ \A m \in Contents(n) : /\ Nx(heap)[m] \in Contents(n) \cup {Null}
                                   /\ Kd(heap)[m] \in Contents(n) \cup {Null}
         /\ \A m \in Contents(n) : Pv(heap)[m] \in Contents(n) \cup {Null}
         /\ \A T \in SUBSET live :
              /\ Kd(heap)[n] \in T \cup {Null}
              /\ \A m \in T : Nx(heap)[m] \in T \cup {Null} /\ Kd(heap)[m] \in T \cup {Null}
              => Contents(n) \subseteq T
<1> DEFINE D == Contents(n)
           c == Kd(heap)[n]
<1>1. /\ HeapForest(heap, live, held) /\ Null \notin Nodes /\ live \in SUBSET Nodes
      /\ LinksIn(Nx(heap), Pv(heap), Kd(heap), live) /\ TwoWay(Nx(heap), Pv(heap), live)
      /\ FirstKids(Pv(heap), Kd(heap), live) /\ heap \in Heaps
  BY HeapForestIs DEF Forested
<1>2. c \in live \cup {Null} /\ Null \notin live
  BY <1>1 DEF LinksIn
<1>3. Family(n) = {n} \cup D
  <2>1. n \in Nodes /\ heap[n].ref \in BOOLEAN
    BY <1>1, FieldTypes
  <2>2. c = IF heap[n].ref THEN Null ELSE heap[n].child
    BY <2>1 DEF Kd
  <2>3. CASE heap[n].ref
    BY <2>2, <2>3 DEF Family, Contents
  <2>4. CASE ~ heap[n].ref
    BY <2>2, <2>4 DEF Family, Contents
  <2> QED BY <2>1, <2>3, <2>4
<1>4. CASE c = Null
  <2>1. D = {}
    BY <1>4 DEF Contents
  <2> QED BY <1>3, <1>4, <2>1
<1>5. CASE c # Null
  <2>1. D = Doomed(heap, c) /\ c \in live
    BY <1>2, <1>5 DEF Contents
  <2> HIDE DEF D, c
  <2>2. /\ c \in D /\ D \in SUBSET live
        /\ \A m \in D : Nx(heap)[m] \in D \cup {Null} /\ Kd(heap)[m] \in D \cup {Null}
        /\ ReachedFrom(Nx(heap), Kd(heap), {c}, D)
        /\ \A T \in SUBSET live :
             /\ c \in T
             /\ \A m \in T : Nx(heap)[m] \in T \cup {Null} /\ Kd(heap)[m] \in T \cup {Null}
             => D \subseteq T
    BY <1>1, <2>1, DoomedForest
  <2> USE DEF c
  <2>3. ASSUME NEW m \in D
        PROVE  Pv(heap)[m] \in D \cup {Null}
    <3>1. CASE m = c
      BY <1>1, <1>2, <1>5, <3>1 DEF FirstKids
    <3>2. CASE m # c
      <4>1. PICK k \in D : Nx(heap)[k] = m \/ Kd(heap)[k] = m
        BY <2>2, <3>2 DEF ReachedFrom
      <4>2. k \in live /\ m \in live /\ m # Null
        BY <1>2, <2>2
      <4>3. CASE Nx(heap)[k] = m
        BY <1>1, <4>1, <4>2, <4>3 DEF TwoWay
      <4>4. CASE Kd(heap)[k] = m
        BY <1>1, <4>2, <4>4 DEF FirstKids
      <4> QED BY <4>1, <4>3, <4>4
    <3> QED BY <3>1, <3>2
  <2>4. \A T \in SUBSET live : c \in T \cup {Null} => c \in T
    BY <1>5
  <2> HIDE DEF c
  <2> QED BY <1>3, <2>2, <2>3, <2>4 DEF D, c
<1> QED BY <1>4, <1>5

(* What is in an item is on a higher level.                                *)
LEMMA ContentsAbove ==
  ASSUME Forested, NEW n \in live
  PROVE  \E r \in Levels : /\ Leveled(Nx(heap), Kd(heap), live, r)
                           /\ \A x \in live : \A m \in Contents(x) : r[m] > r[x]
<1>1. /\ \E r \in Levels : Leveled(Nx(heap), Kd(heap), live, r)
      /\ LinksIn(Nx(heap), Pv(heap), Kd(heap), live) /\ live \in SUBSET Nodes
      /\ Null \notin Nodes
  BY HeapForestIs DEF Forested
<1>2. PICK r \in Levels : Leveled(Nx(heap), Kd(heap), live, r)
  BY <1>1
<1>3. ASSUME NEW x \in live
      PROVE  \A m \in Contents(x) : r[m] > r[x]
  <2> DEFINE T == {m \in live : r[m] > r[x]}
  <2>1. \A m \in live : r[m] \in Int
    BY <1>1 DEF Levels
  <2>2. Kd(heap)[x] \in T \cup {Null}
    BY <1>1, <1>2 DEF Leveled, LinksIn
  <2>3. ASSUME NEW m \in T
        PROVE  Nx(heap)[m] \in T \cup {Null} /\ Kd(heap)[m] \in T \cup {Null}
    <3>1. m \in live /\ r[m] > r[x] /\ r[m] \in Int /\ r[x] \in Int
      BY <2>1
    <3>2. Nx(heap)[m] = Null \/ (Nx(heap)[m] \in live /\ r[Nx(heap)[m]] = r[m])
      BY <1>1, <1>2, <3>1 DEF Leveled, LinksIn
    <3>3. Kd(heap)[m] = Null
            \/ (Kd(heap)[m] \in live /\ r[Kd(heap)[m]] > r[m] /\ r[Kd(heap)[m]] \in Int)
      BY <1>1, <1>2, <2>1, <3>1 DEF Leveled, LinksIn
    <3> QED BY <3>1, <3>2, <3>3
  <2>4. T \in SUBSET live
    OBVIOUS
  <2> HIDE DEF T
  <2>5. Contents(x) \subseteq T
    BY <2>2, <2>3, <2>4, ContentsAre
  <2> QED BY <2>5 DEF T
<1> QED BY <1>2, <1>3

(* An item hangs from nothing that is in it.                               *)
LEMMA FamilyOnTop ==
  ASSUME Forested, NEW n \in live, NEW S \in SUBSET Family(n), NEW U
  PROVE  OnTop(Nx(heap), Kd(heap), S, U, n)
<1>1. PICK r \in Levels : /\ Leveled(Nx(heap), Kd(heap), live, r)
                          /\ \A x \in live : \A m \in Contents(x) : r[m] > r[x]
  BY ContentsAbove
<1>2. /\ LinksIn(Nx(heap), Pv(heap), Kd(heap), live) /\ live \in SUBSET Nodes
      /\ Null \notin Nodes
  BY HeapForestIs DEF Forested
<1>3. Contents(n) \in SUBSET live /\ Family(n) = {n} \cup Contents(n)
  BY ContentsAre
<1>4. \A m \in live : r[m] \in Int /\ m # Null
  BY <1>2 DEF Levels
<1>5. \A m \in S : m \in live /\ (m = n \/ r[m] > r[n])
  BY <1>1, <1>3
<1>6. \A m \in live : /\ Nx(heap)[m] # Null => r[Nx(heap)[m]] = r[m]
                      /\ Kd(heap)[m] # Null => r[Kd(heap)[m]] > r[m]
  BY <1>1 DEF Leveled
<1>7. Nx(heap)[n] \notin S \ {n} /\ Kd(heap)[n] # n
  BY <1>4, <1>5, <1>6
<1>8. ASSUME NEW m \in S, m # n
      PROVE  Nx(heap)[m] # n /\ Kd(heap)[m] # n
  <2>1. m \in live /\ r[m] > r[n] /\ r[m] \in Int /\ r[n] \in Int /\ n # Null
    BY <1>4, <1>5, <1>8
  <2>2. Nx(heap)[m] = n => r[n] = r[m]
    BY <1>6, <2>1
  <2>3. Kd(heap)[m] = n => r[n] > r[m]
    BY <1>6, <2>1
  <2> QED BY <2>1, <2>2, <2>3
<1> QED BY <1>7, <1>8 DEF OnTop

(* What leads to something in n is in n too, or n.                         *)
LEMMA ContentsEntered ==
  ASSUME Forested, NEW n \in live, NEW s \in Contents(n)
  PROVE  /\ s \in live /\ s \notin held /\ s # n
         /\ \A k \in live : /\ Nx(heap)[k] = s => k \in Contents(n)
                            /\ Kd(heap)[k] = s => k \in Family(n)
<1> DEFINE D == Contents(n)
           c == Kd(heap)[n]
<1>1. /\ HeapForest(heap, live, held) /\ Null \notin live /\ live \in SUBSET Nodes
      /\ LinksIn(Nx(heap), Pv(heap), Kd(heap), live) /\ TwoWay(Nx(heap), Pv(heap), live)
      /\ FirstKids(Pv(heap), Kd(heap), live) /\ OneParent(Kd(heap), live)
      /\ Roots(Nx(heap), Pv(heap), Kd(heap), live, held)
  BY HeapForestIs DEF Forested
<1>2. /\ D \in SUBSET live /\ Family(n) = {n} \cup D
      /\ \A m \in D : Pv(heap)[m] \in D \cup {Null}
  BY ContentsAre
<1>3. s # n
  <2>1. PICK r \in Levels : \A x \in live : \A y \in Contents(x) : r[y] > r[x]
    BY ContentsAbove
  <2>2. r[n] \in Int
    BY <1>1 DEF Levels
  <2> QED BY <2>1, <2>2
<1>4. s = c \/ \E k \in D : Nx(heap)[k] = s \/ Kd(heap)[k] = s
  <2>1. D = Doomed(heap, c) /\ c \in live
    BY <1>1 DEF Contents, LinksIn
  <2>2. ReachedFrom(Nx(heap), Kd(heap), {c}, Doomed(heap, c))
    BY <1>1, <2>1, DoomedForest
  <2> QED BY <2>1, <2>2 DEF ReachedFrom
<1>5. s \in live /\ s # Null
  BY <1>1, <1>2
<1>6. s \notin held
  BY <1>1, <1>2, <1>4, <1>5 DEF Roots, TwoWay
<1>7. ASSUME NEW k \in live, Nx(heap)[k] = s
      PROVE  k \in D
  <2>1. Pv(heap)[s] = k /\ k # Null
    BY <1>1, <1>5, <1>7 DEF TwoWay
  <2> QED BY <1>2, <2>1
<1>8. ASSUME NEW k \in live, Kd(heap)[k] = s
      PROVE  k \in Family(n)
  <2>1. Pv(heap)[s] = Null
    BY <1>1, <1>5, <1>8 DEF FirstKids
  <2>2. \A m \in D : Nx(heap)[m] # s
    BY <1>1, <1>2, <1>5, <2>1 DEF TwoWay
  <2>3. s = c \/ \E m \in D : Kd(heap)[m] = s
    BY <1>4, <2>2
  <2> QED BY <1>1, <1>2, <1>5, <1>8, <2>3 DEF OneParent
<1> HIDE DEF D
<1> QED BY <1>3, <1>5, <1>6, <1>7, <1>8 DEF D

(* The copies of what is in n are reached from the copy of n.              *)
LEMMA FamilyInside ==
  ASSUME Forested, NEW n \in live
  PROVE  Inside(Nx(heap), Kd(heap), live, held, Family(n), {}, n)
<1>1. Family(n) = {n} \cup Contents(n)
  BY ContentsAre
<1>2. \A s \in Contents(n) :
        /\ s \notin held /\ s # n
        /\ \A k \in live : /\ Nx(heap)[k] = s => k \in Contents(n)
                           /\ Kd(heap)[k] = s => k \in Family(n)
  BY ContentsEntered
<1>3. n \notin Contents(n)
  BY <1>2
<1> QED BY <1>1, <1>2, <1>3 DEF Inside

(* Nothing that is copied is a reference.                                  *)
LEMMA DuplicableIs ==
  ASSUME Forested, NEW n, Duplicable(n)
  PROVE  n \in live /\ \A m \in Family(n) : heap[m].ref = FALSE
<1>1. n \in live /\ \A m \in Family(n) : ~ heap[m].ref
  BY DEF Duplicable
<1>2. Family(n) \in SUBSET live
  BY <1>1, FamilyIs
<1>3. heap \in Heaps /\ live \in SUBSET Nodes
  BY HeapForestIs DEF Forested
<1>4. \A m \in Family(n) : heap[m].ref \in BOOLEAN
  BY <1>2, <1>3, FieldTypes
<1> QED BY <1>1, <1>4

(* cJSON_Duplicate().                                                      *)
LEMMA DuplicateForest ==
  ASSUME IInv, NEW n \in Nodes, Duplicate(n)
  PROVE  IInv'
<1>0. Forested /\ KeysKept /\ Duplicable(n)
  BY DEF Duplicate, IInv
<1>1. PICK S \in {{n}, Family(n)} : \E copy \in Injection(S, Nodes \ live) :
        /\ heap' = Copies(copy, n, {})
        /\ live' = live \cup Range(copy)
        /\ held' = held \cup {copy[n]}
        /\ Keys(Cardinality(CopiedKeys(heap', Range(copy))), 0, FlagKept(S))
  BY Zenon DEF Duplicate
<1>2. PICK copy \in Injection(S, Nodes \ live) :
        /\ heap' = Copies(copy, n, {})
        /\ live' = live \cup Range(copy)
        /\ held' = held \cup {copy[n]}
        /\ Keys(Cardinality(CopiedKeys(heap', Range(copy))), 0, FlagKept(S))
  BY <1>1
<1>3. n \in live /\ \A m \in Family(n) : heap[m].ref = FALSE
  BY <1>0, DuplicableIs
<1>4. n \in S /\ S \in SUBSET Family(n) /\ S \in SUBSET live /\ {} \in SUBSET S
  BY <1>0, <1>3, FamilyIs
<1>5. \A s \in S : heap[s].ref = FALSE
  BY <1>3, <1>4
<1>6. /\ OnTop(Nx(heap), Kd(heap), S, {}, n)
      /\ Inside(Nx(heap), Kd(heap), live, held, S, {}, n)
  <2>1. OnTop(Nx(heap), Kd(heap), S, {}, n)
    BY <1>0, <1>3, <1>4, FamilyOnTop
  <2>2. Inside(Nx(heap), Kd(heap), live, held, Family(n), {}, n)
    BY <1>0, <1>3, FamilyInside
  <2>3. Inside(Nx(heap), Kd(heap), live, held, {n}, {}, n)
    BY DEF Inside
  <2> QED BY <2>1, <2>2, <2>3
<1>7. /\ HeapForest(Copies(copy, n, {}), live \cup Made(copy, S), held \cup Loose(copy, S, {}, n))
      /\ Vacant(Copies(copy, n, {}), live \cup Made(copy, S))
      /\ SameKeysBut(heap, Copies(copy, n, {}), Made(copy, S))
      /\ FittingOn(heap, Nodes) /\ ~FlagKept(S)
           => FittingOn(Copies(copy, n, {}), Made(copy, S))
  BY <1>0, <1>3, <1>4, <1>5, <1>6, CopiesForest
<1>8. Range(copy) = Made(copy, S) /\ Made(copy, S) \in SUBSET (Nodes \ live)
  <2>1. copy \in [S -> Nodes \ live] /\ Range(copy) = Made(copy, S)
    BY <1>0, <1>3, <1>4, <1>5, CopiesAre
  <2> QED BY <2>1 DEF Made
<1>9. Loose(copy, S, {}, n) = {copy[n]}
  BY <1>4 DEF Loose
<1>10. Forested'
  BY <1>2, <1>7, <1>8, <1>9 DEF Forested
<1>11. KeysKept'
  <2> DEFINE new == Made(copy, S)
             made == Cardinality(CopiedKeys(heap', new))
             strays == FlagKept(S)
  <2>1. /\ new \in SUBSET Nodes /\ SameKeysBut(heap, heap', new)
        /\ FittingOn(heap, Nodes) /\ ~strays => FittingOn(heap', new)
    BY <1>2, <1>7, <1>8
  <2>2. Unkeyed(heap, new)
    BY <1>0, <1>8, BlankIs DEF Forested, Vacant, Unkeyed
  <2>3. Keys(made, 0, strays)
    BY <1>2, <1>8
  <2> HIDE DEF new, strays
  <2>4. ASSUME strayed = FALSE, ~strays
        PROVE  Balanced(heap', strings + made - 0)
    <3>1. Balanced(heap, strings)
      BY <1>0, <2>4 DEF KeysKept
    <3>2. FittingOn(heap', new)
      BY <2>1, <2>4, <3>1 DEF Balanced
    <3>3. strings \in Nat /\ made \in Nat /\ Balanced(heap', strings + made)
      BY <2>1, <2>2, <3>1, <3>2, KeysAdded
    <3> HIDE DEF made
    <3>4. strings + made - 0 = strings + made
      BY <3>3
    <3> QED BY <3>3, <3>4
  <2> HIDE DEF made
  <2> QED BY <1>0, <2>3, <2>4, KeysStep
<1> QED BY <1>10, <1>11 DEF IInv

(* What stands in front of an item that is in n is in n.                   *)
LEMMA InFrontInside ==
  ASSUME Forested, NEW n \in live, NEW x \in Contents(n), NEW z \in InFront(x)
  PROVE  z \in Contents(n) /\ Family(z) \subseteq Contents(n)
<1> DEFINE D == Contents(n)
           T == live \ D
<1>1. /\ heap \in Heaps /\ live \in SUBSET Nodes /\ Null \notin Nodes
      /\ LinksIn(Nx(heap), Pv(heap), Kd(heap), live) /\ TwoWay(Nx(heap), Pv(heap), live)
  BY HeapForestIs DEF Forested
<1>2. /\ D \in SUBSET live
      /\ \A m \in D : Nx(heap)[m] \in D \cup {Null} /\ Kd(heap)[m] \in D \cup {Null}
      /\ \A m \in D : Pv(heap)[m] \in D \cup {Null}
  BY ContentsAre
<1>3. z \in live /\ x \in ToSet(Tail(Siblings(heap, z))) /\ x \in D
  BY DEF InFront
<1> HIDE DEF D
<1>4. \A m \in T : heap[m].next \in T \cup {Null}
  <2> SUFFICES ASSUME NEW m \in T
               PROVE  heap[m].next \in T \cup {Null}
    OBVIOUS
  <2>1. m \in live /\ m \in Nodes /\ m \notin D /\ heap[m].next = Nx(heap)[m]
    BY <1>1 DEF Nx
  <2>2. Nx(heap)[m] \in live \cup {Null}
    BY <1>1, <2>1 DEF LinksIn
  <2>3. Nx(heap)[m] \notin D
    <3>1. SUFFICES ASSUME Nx(heap)[m] \in D
                   PROVE  FALSE
      OBVIOUS
    <3>2. Nx(heap)[m] # Null
      BY <1>1, <1>2, <3>1
    <3>3. Pv(heap)[Nx(heap)[m]] = m
      BY <1>1, <2>1, <3>2 DEF TwoWay
    <3>4. m \in D \cup {Null} /\ m # Null
      BY <1>1, <1>2, <2>1, <3>1, <3>3
    <3> QED BY <2>1, <3>4
  <2> QED BY <2>1, <2>2, <2>3
<1>5. z \in D
  <2>1. SUFFICES ASSUME z \in T
                 PROVE  FALSE
    BY <1>3
  <2>2. T \in SUBSET Nodes
    BY <1>1
  <2>3. x \notin T \cup {Null}
    BY <1>1, <1>2, <1>3
  <2> HIDE DEF T
  <2>4. Siblings(heap, z) \in Seq(T \cup {Null}) /\ Siblings(heap, z) # <<>>
    BY <1>1, <1>4, <2>1, <2>2, SiblingsStay
  <2>5. Tail(Siblings(heap, z)) \in Seq(T \cup {Null})
    BY <2>4
  <2>6. \A y \in ToSet(Tail(Siblings(heap, z))) : y \in T \cup {Null}
    BY <2>5 DEF ToSet
  <2> QED BY <1>3, <2>3, <2>6
<1>6. Family(z) \subseteq D
  <2>1. /\ Family(z) = {z} \cup Contents(z)
        /\ \A T0 \in SUBSET live :
             /\ Kd(heap)[z] \in T0 \cup {Null}
             /\ \A m \in T0 : Nx(heap)[m] \in T0 \cup {Null} /\ Kd(heap)[m] \in T0 \cup {Null}
             => Contents(z) \subseteq T0
    BY <1>3, ContentsAre
  <2> QED BY <1>2, <1>5, <2>1
<1> QED BY <1>5, <1>6 DEF D

(* The items that cJSON_Duplicate(n) has made new ones for when it fails   *)
(* on the way to m or with it, are in n, and n is one of the unfinished.   *)
Unfinished(n, m) == {x \in Family(n) : m \in Family(x)}
Finished(n, m) ==
  UNION {Family(z) : z \in UNION {InFront(x) : x \in {x \in Family(n) \ {n} : m \in Family(x)}}}

(* What Unfinished() and Finished() are.                                   *)
LEMMA UnfinishedAre ==
  ASSUME Forested, NEW n \in live, NEW m \in Family(n),
         NEW U \in {Unfinished(n, m), Unfinished(n, m) \ {m}}
  PROVE  /\ U \in SUBSET Family(n) /\ Finished(n, m) \in SUBSET Family(n)
         /\ n \in U \cup Finished(n, m) => n \in U
<1>1. Family(n) = {n} \cup Contents(n) /\ Family(n) \in SUBSET live
  BY ContentsAre, FamilyIs
<1>2. U \in SUBSET Family(n)
  BY DEF Unfinished
<1>3. \A x \in Family(n) \ {n} : \A z \in InFront(x) : Family(z) \subseteq Contents(n)
  BY <1>1, InFrontInside
<1>4. Finished(n, m) \in SUBSET Contents(n)
  BY <1>3 DEF Finished
<1>5. n \notin Contents(n)
  <2>1. PICK r \in Levels : \A x \in live : \A y \in Contents(x) : r[y] > r[x]
    BY ContentsAbove
  <2>2. live \in SUBSET Nodes
    BY HeapForestIs DEF Forested
  <2>3. r[n] \in Int
    BY <2>2 DEF Levels
  <2> QED BY <2>1, <2>3
<1> QED BY <1>1, <1>2, <1>4, <1>5

(* What follows z in its list.                                             *)
Following(z) == ToSet(Tail(Siblings(heap, z)))

(* It is on the level of z, closed under next, and not z.                  *)
LEMMA FollowingAre ==
  ASSUME Forested, NEW z \in live
  PROVE  /\ Following(z) \in SUBSET live /\ z \notin Following(z)
         /\ ToSet(Siblings(heap, z)) = {z} \cup Following(z)
         /\ Nx(heap)[z] \in Following(z) \cup {Null}
         /\ \A m \in Following(z) : Nx(heap)[m] \in Following(z) \cup {Null}
         /\ \A m \in Following(z) : Pv(heap)[m] \in {z} \cup Following(z)
<1> DEFINE s == Siblings(heap, z)
           N == Len(s)
           V == Following(z)
<1>0. HeapForest(heap, live, held) /\ live \in SUBSET Nodes /\ Null \notin Nodes
  BY HeapForestIs DEF Forested
<1>1. /\ s \in Seq(live) /\ N \in 1..Size /\ s[1] = z
      /\ \A i \in 1..N : i + 1 \in 1..N =>
           Nx(heap)[s[i]] = s[i + 1] /\ Pv(heap)[s[i + 1]] = s[i]
      /\ Nx(heap)[s[N]] = Null
  BY <1>0, SiblingsAre
<1>2. V = {s[i] : i \in 2..N}
  <2> HIDE DEF s
  <2>1. s # <<>> /\ N \in Nat
    BY <1>1, SizeNat
  <2>2. Len(Tail(s)) = N - 1 /\ Tail(s) \in Seq(live)
        /\ \A i \in 1..N - 1 : Tail(s)[i] = s[i + 1]
    BY <1>1, <2>1
  <2>3. ToSet(Tail(s)) = {Tail(s)[i] : i \in 1..N - 1}
    BY <2>2 DEF ToSet
  <2>4. \A i \in 2..N : i - 1 \in 1..N - 1 /\ (i - 1) + 1 = i
    BY <2>1
  <2>5. \A i \in 1..N - 1 : i + 1 \in 2..N
    BY <2>1
  <2>6. ToSet(Tail(s)) = {s[i] : i \in 2..N}
    <3>1. \A i \in 1..N - 1 : Tail(s)[i] \in {s[j] : j \in 2..N}
      BY <2>2, <2>5
    <3>2. \A i \in 2..N : s[i] = Tail(s)[i - 1]
      BY <2>2, <2>4
    <3>3. \A i \in 2..N : s[i] \in {Tail(s)[j] : j \in 1..N - 1}
      BY <2>4, <3>2
    <3> QED BY <2>3, <3>1, <3>3, Zenon
  <2> QED BY <2>6 DEF Following, s
<1> HIDE DEF s, V
<1>3. N \in Nat /\ N >= 1
  BY <1>1, SizeNat
<1>4. \A i \in 1..N : s[i] \in live
  BY <1>1
<1>5. V \in SUBSET live
  BY <1>2, <1>3, <1>4
<1>6. ToSet(s) = {z} \cup V
  <2>1. ToSet(s) = {s[i] : i \in 1..N}
    BY <1>1 DEF ToSet
  <2>2. 1..N = {1} \cup 2..N
    BY <1>3
  <2> QED BY <1>1, <1>2, <2>1, <2>2
<1>7. \A i \in 1..N : Nx(heap)[s[i]] \in V \cup {Null}
  <2> SUFFICES ASSUME NEW i \in 1..N
               PROVE  Nx(heap)[s[i]] \in V \cup {Null}
    OBVIOUS
  <2>1. CASE i = N
    BY <1>1, <2>1
  <2>2. CASE i # N
    <3>1. i + 1 \in 2..N /\ i + 1 \in 1..N
      BY <1>3, <2>2
    <3> QED BY <1>1, <1>2, <3>1
  <2> QED BY <2>1, <2>2
<1>8. Nx(heap)[z] \in V \cup {Null} /\ \A m \in V : Nx(heap)[m] \in V \cup {Null}
  <2>1. 1 \in 1..N /\ \A i \in 2..N : i \in 1..N
    BY <1>3
  <2> QED BY <1>1, <1>2, <1>7, <2>1
<1>9. \A i \in 2..N : \E j \in 1..N : Nx(heap)[s[j]] = s[i] /\ Pv(heap)[s[i]] = s[j]
  <2> SUFFICES ASSUME NEW i \in 2..N
               PROVE  \E j \in 1..N : Nx(heap)[s[j]] = s[i] /\ Pv(heap)[s[i]] = s[j]
    OBVIOUS
  <2>1. i - 1 \in 1..N /\ (i - 1) + 1 = i /\ i \in 1..N
    BY <1>3
  <2> QED BY <1>1, <2>1
<1>10. \A m \in V : \E j \in 1..N : Nx(heap)[s[j]] = m /\ Pv(heap)[m] = s[j]
  BY <1>2, <1>9
<1>11. \A j \in 1..N : s[j] \in {z} \cup V
  BY <1>6, <1>1 DEF ToSet
<1>12. z \notin V
  <2> SUFFICES ASSUME z \in V
               PROVE  FALSE
    OBVIOUS
  <2>1. \A w \in V : \E v \in V : Nx(heap)[v] = w
    BY <1>10, <1>11
  <2>2. V = {}
    BY <1>0, <1>5, <2>1, NoRing
  <2> QED BY <2>2
<1>13. \A m \in V : Pv(heap)[m] \in {z} \cup V
  BY <1>10, <1>11
<1> QED BY <1>5, <1>6, <1>8, <1>12, <1>13 DEF s, V

(* An item in front of x is not x, and nothing in one is in the other.     *)
LEMMA InFrontApart ==
  ASSUME Forested, NEW x \in live, NEW z \in InFront(x)
  PROVE  z \in live /\ \A m \in Family(z) : m \notin Family(x)
<1>0. /\ live \in SUBSET Nodes /\ Null \notin live
      /\ LinksIn(Nx(heap), Pv(heap), Kd(heap), live)
  BY HeapForestIs DEF Forested
<1>1. z \in live /\ x \in Following(z)
  BY DEF InFront, Following
<1>2. x # z
  BY <1>1, FollowingAre
<1>3. PICK r \in Levels : /\ Leveled(Nx(heap), Kd(heap), live, r)
                          /\ \A y \in live : \A m \in Contents(y) : r[m] > r[y]
  BY ContentsAbove
<1>4. \A y \in live : r[y] \in Int
  BY <1>0 DEF Levels
<1>5. r[x] = r[z]
  <2> DEFINE T == {m \in live : r[m] = r[z]}
  <2>1. \A m \in T : heap[m].next \in T \cup {Null}
    <3>1. \A m \in live : Nx(heap)[m] = heap[m].next
      BY <1>0 DEF Nx
    <3> QED BY <1>0, <1>3, <3>1 DEF Leveled, LinksIn
  <2>2. T \in SUBSET Nodes /\ z \in T /\ heap \in Heaps
    BY <1>0, <1>1, HeapForestIs DEF Forested
  <2> HIDE DEF T
  <2>3. Siblings(heap, z) \in Seq(T \cup {Null})
    BY <2>1, <2>2, SiblingsStay
  <2>4. x \in ToSet(Siblings(heap, z))
    BY <1>1, FollowingAre
  <2>5. x \in T \cup {Null}
    BY <2>3, <2>4 DEF ToSet
  <2> QED BY <1>0, <2>5 DEF T
<1>6. x \notin Contents(z) /\ z \notin Contents(x)
  BY <1>1, <1>3, <1>4, <1>5
<1>7. Contents(x) \cap Contents(z) = {}
  <2> DEFINE T == Contents(x) \ Contents(z)
  <2>1. /\ Contents(x) \in SUBSET live /\ Kd(heap)[x] \in Contents(x) \cup {Null}
        /\ \A m \in Contents(x) : /\ Nx(heap)[m] \in Contents(x) \cup {Null}
                                  /\ Kd(heap)[m] \in Contents(x) \cup {Null}
        /\ \A S \in SUBSET live :
             /\ Kd(heap)[x] \in S \cup {Null}
             /\ \A m \in S : Nx(heap)[m] \in S \cup {Null} /\ Kd(heap)[m] \in S \cup {Null}
             => Contents(x) \subseteq S
    BY ContentsAre
  <2>2. Family(z) = {z} \cup Contents(z)
    BY <1>1, ContentsAre
  <2>3. \A m \in Contents(z) : \A k \in live : /\ Nx(heap)[k] = m => k \in Contents(z)
                                               /\ Kd(heap)[k] = m => k \in Family(z)
    BY <1>1, ContentsEntered
  <2>4. Kd(heap)[x] \in T \cup {Null}
    BY <1>2, <1>6, <2>1, <2>2, <2>3
  <2>5. \A m \in T : Nx(heap)[m] \in T \cup {Null} /\ Kd(heap)[m] \in T \cup {Null}
    BY <1>6, <2>1, <2>2, <2>3
  <2>6. T \in SUBSET live
    BY <2>1
  <2> HIDE DEF T
  <2>7. Contents(x) \subseteq T
    BY <2>1, <2>4, <2>5, <2>6
  <2> QED BY <2>7 DEF T
<1>8. Family(z) = {z} \cup Contents(z) /\ Family(x) = {x} \cup Contents(x)
  BY <1>1, ContentsAre
<1> QED BY <1>1, <1>2, <1>6, <1>7, <1>8

(* What leads to an item in front of x is in front of x, or x is in it.    *)
LEMMA InFrontEntered ==
  ASSUME Forested, NEW x \in live, NEW z \in InFront(x), NEW k \in live
  PROVE  /\ Nx(heap)[k] = z => k \in InFront(x)
         /\ Kd(heap)[k] = z => x \in Contents(k) /\ Family(x) \subseteq Contents(k)
<1>0. /\ live \in SUBSET Nodes /\ Null \notin live /\ heap \in Heaps
      /\ \A m \in live : Nx(heap)[m] = heap[m].next
  <2>1. live \in SUBSET Nodes /\ Null \notin Nodes /\ heap \in Heaps
    BY HeapForestIs DEF Forested
  <2>2. \A m \in live : Nx(heap)[m] = heap[m].next
    BY <2>1 DEF Nx
  <2> QED BY <2>1, <2>2
<1>1. z \in live /\ x \in ToSet(Siblings(heap, z))
  <2>1. z \in live /\ x \in Following(z)
    BY DEF InFront, Following
  <2> QED BY <2>1, FollowingAre
<1>2. ASSUME NEW T \in SUBSET live, z \in T, \A m \in T : Nx(heap)[m] \in T \cup {Null}
      PROVE  x \in T
  <2>1. T \in SUBSET Nodes /\ \A m \in T : heap[m].next \in T \cup {Null}
    BY <1>0, <1>2
  <2>2. Siblings(heap, z) \in Seq(T \cup {Null})
    BY <1>0, <1>2, <2>1, SiblingsStay
  <2>3. x \in T \cup {Null}
    BY <1>1, <2>2 DEF ToSet
  <2> QED BY <1>0, <2>3
<1>3. ASSUME Nx(heap)[k] = z
      PROVE  k \in InFront(x)
  <2>1. /\ Following(k) \in SUBSET live
        /\ Nx(heap)[k] \in Following(k) \cup {Null}
        /\ \A m \in Following(k) : Nx(heap)[m] \in Following(k) \cup {Null}
    BY FollowingAre
  <2>2. z \in Following(k)
    BY <1>0, <1>1, <1>3, <2>1
  <2>3. x \in Following(k)
    BY <1>2, <2>1, <2>2
  <2> QED BY <2>3 DEF InFront, Following
<1>4. ASSUME Kd(heap)[k] = z
      PROVE  x \in Contents(k) /\ Family(x) \subseteq Contents(k)
  <2>1. /\ Contents(k) \in SUBSET live /\ Kd(heap)[k] \in Contents(k) \cup {Null}
        /\ \A m \in Contents(k) : /\ Nx(heap)[m] \in Contents(k) \cup {Null}
                                  /\ Kd(heap)[m] \in Contents(k) \cup {Null}
    BY ContentsAre
  <2>2. z \in Contents(k)
    BY <1>0, <1>1, <1>4, <2>1
  <2>3. x \in Contents(k)
    BY <1>2, <2>1, <2>2
  <2>4. /\ Family(x) = {x} \cup Contents(x)
        /\ \A S \in SUBSET live :
             /\ Kd(heap)[x] \in S \cup {Null}
             /\ \A m \in S : Nx(heap)[m] \in S \cup {Null} /\ Kd(heap)[m] \in S \cup {Null}
             => Contents(x) \subseteq S
    BY ContentsAre
  <2> QED BY <2>1, <2>3, <2>4
<1> QED BY <1>3, <1>4

(* The copies that are finished are reached from those that are not.       *)
LEMMA UnfinishedInside ==
  ASSUME Forested, NEW n \in live, NEW m \in Family(n),
         NEW U \in {Unfinished(n, m), Unfinished(n, m) \ {m}}
  PROVE  Inside(Nx(heap), Kd(heap), live, held, U \cup Finished(n, m), U, n)
<1> DEFINE F == Finished(n, m)
           Beside(x, z) == x \in Family(n) \ {n} /\ m \in Family(x) /\ z \in InFront(x)
<1>0. /\ Family(n) = {n} \cup Contents(n) /\ Contents(n) \in SUBSET live
      /\ \A x \in U : x \in Family(n) /\ m \in Family(x)
      /\ \A x \in Family(n) : m \in Family(x) /\ x # m => x \in U
  BY ContentsAre DEF Unfinished
<1>1. \A k \in F : \E x, z : Beside(x, z) /\ k \in Family(z)
  BY DEF Finished
<1>2. \A x, z, k : Beside(x, z) /\ k \in Family(z) => k \in F
  BY DEF Finished
<1>3. ASSUME NEW x, NEW z, Beside(x, z)
      PROVE  /\ x \in live /\ x \in Contents(n) /\ z \in live /\ z \in Contents(n)
             /\ Family(z) \subseteq Contents(n) /\ Family(z) = {z} \cup Contents(z)
             /\ \A k \in Family(z) : k \notin U \cup {n}
  <2>1. x \in live /\ x \in Contents(n) /\ z \in InFront(x) /\ m \in Family(x)
    BY <1>0, <1>3
  <2>2. z \in Contents(n) /\ Family(z) \subseteq Contents(n)
    BY <2>1, InFrontInside
  <2>3. z \in live /\ \A k \in Family(z) : k \notin Family(x)
    BY <2>1, InFrontApart
  <2>4. Family(z) = {z} \cup Contents(z)
    BY <2>3, ContentsAre
  <2>5. \A k \in Contents(n) : k # n
    BY ContentsEntered
  <2>6. ASSUME NEW k \in Family(z)
        PROVE  k \notin U
    <3>1. k \in live /\ Family(k) \subseteq Family(z)
      <4>1. /\ Contents(z) \in SUBSET live /\ Kd(heap)[z] \in Contents(z) \cup {Null}
            /\ \A y \in Contents(z) : /\ Nx(heap)[y] \in Contents(z) \cup {Null}
                                      /\ Kd(heap)[y] \in Contents(z) \cup {Null}
        BY <2>3, ContentsAre
      <4>2. k \in live
        BY <2>3, <2>4, <2>6, <4>1
      <4>3. CASE k = z
        BY <4>2, <4>3
      <4>4. CASE k \in Contents(z)
        <5>1. /\ Family(k) = {k} \cup Contents(k)
              /\ \A S \in SUBSET live :
                   /\ Kd(heap)[k] \in S \cup {Null}
                   /\ \A y \in S : /\ Nx(heap)[y] \in S \cup {Null}
                                   /\ Kd(heap)[y] \in S \cup {Null}
                   => Contents(k) \subseteq S
          BY <4>2, ContentsAre
        <5>2. Contents(k) \subseteq Contents(z)
          BY <4>1, <4>4, <5>1
        <5> QED BY <2>4, <4>2, <4>4, <5>1, <5>2
      <4> QED BY <2>4, <2>6, <4>3, <4>4
    <3>2. m \notin Family(k)
      BY <2>1, <2>3, <3>1
    <3> QED BY <1>0, <3>2
  <2> QED BY <2>1, <2>2, <2>3, <2>4, <2>5, <2>6
<1> HIDE DEF F, Beside
<1>4. ASSUME NEW s \in F
      PROVE  /\ s \notin held
             /\ \A k \in live : /\ Nx(heap)[k] = s => k \in F /\ k \notin U \cup {n}
                                /\ Kd(heap)[k] = s => k \in U \cup F
  <2>1. PICK x, z : Beside(x, z) /\ s \in Family(z)
    BY <1>1, <1>4
  <2>2. /\ x \in live /\ x \in Contents(n) /\ z \in live /\ z \in Contents(n)
        /\ Family(z) \subseteq Contents(n) /\ Family(z) = {z} \cup Contents(z)
        /\ \A k \in Family(z) : k \notin U \cup {n}
    BY <1>3, <2>1
  <2>3. s \notin held /\ s \in Contents(n)
    BY <2>1, <2>2, ContentsEntered
  <2>4. \A k \in Family(z) : k \in F
    BY <1>2, <2>1
  <2>5. CASE s \in Contents(z)
    <3>1. \A k \in live : /\ Nx(heap)[k] = s => k \in Contents(z)
                          /\ Kd(heap)[k] = s => k \in Family(z)
      BY <2>2, <2>5, ContentsEntered
    <3> QED BY <2>2, <2>3, <2>4, <3>1
  <2>6. CASE s = z
    <3>0. z \in InFront(x) /\ m \in Family(x) /\ x \in Family(n) \ {n}
      BY <2>1 DEF Beside
    <3>1. ASSUME NEW k \in live, Nx(heap)[k] = s
          PROVE  k \in F /\ k \notin U \cup {n}
      <4>1. k \in InFront(x)
        BY <2>2, <2>6, <3>0, <3>1, InFrontEntered
      <4>2. Beside(x, k)
        BY <3>0, <4>1 DEF Beside
      <4>3. k \in Family(k)
        BY <3>1, FamilyIs
      <4> QED BY <1>2, <1>3, <4>2, <4>3
    <3>2. ASSUME NEW k \in live, Kd(heap)[k] = s
          PROVE  k \in U \cup F
      <4>1. Family(x) \subseteq Contents(k)
        BY <2>2, <2>6, <3>0, <3>2, InFrontEntered
      <4>2. m \in Contents(k)
        BY <3>0, <4>1
      <4>3. Family(k) = {k} \cup Contents(k) /\ m # k
        BY <3>2, <4>2, ContentsAre, ContentsEntered
      <4>4. k \in Family(n)
        BY <2>2, <2>3, <3>2, ContentsEntered
      <4> QED BY <1>0, <4>2, <4>3, <4>4
    <3> QED BY <2>3, <3>1, <3>2
  <2> QED BY <2>1, <2>2, <2>5, <2>6
<1>5. Inside(Nx(heap), Kd(heap), live, held, U \cup F, U, n)
  BY <1>4 DEF Inside
<1> QED BY <1>5 DEF F

(* The heap h without the nodes in gone.                                   *)
Purged(h, gone) == [x \in Nodes |-> IF x \in gone THEN Blank ELSE h[x]]

(* The copies that are given up take nothing along.                        *)
LEMMA GivenUpForest ==
  ASSUME Forested, NEW n \in live, NEW S \in SUBSET live, NEW U \in SUBSET S,
         NEW copy \in Injection(S, Nodes \ live), \A s \in S : heap[s].ref = FALSE,
         n \in S => n \in U,
         NEW h, HeapForest(h, live \cup Made(copy, S), held \cup Loose(copy, S, U, n)),
         Vacant(h, live \cup Made(copy, S))
  PROVE  /\ GivenUp(h, copy, U) \in SUBSET Nodes
         /\ HeapForest(Purged(h, GivenUp(h, copy, U)),
                       (live \cup Made(copy, S)) \ GivenUp(h, copy, U), held)
         /\ Vacant(Purged(h, GivenUp(h, copy, U)),
                   (live \cup Made(copy, S)) \ GivenUp(h, copy, U))
         /\ SameKeysBut(h, Purged(h, GivenUp(h, copy, U)), GivenUp(h, copy, U))
         /\ Unkeyed(Purged(h, GivenUp(h, copy, U)), GivenUp(h, copy, U))
<1> DEFINE gone == GivenUp(h, copy, U)
           g == Purged(h, gone)
           L == live \cup Made(copy, S)
           H == held \cup Loose(copy, S, U, n)
           R == {copy[x] : x \in U}
<1>1. copy \in [S -> Nodes \ live]
  BY DEF Injection
<1>2. live \in SUBSET Nodes /\ held \in SUBSET live
  BY HeapForestIs DEF Forested
<1>3. L \in SUBSET Nodes
  BY <1>1, <1>2 DEF Made
<1>4. Loose(copy, S, U, n) = R
  <2>1. S \cap (U \cup {n}) = U
    OBVIOUS
  <2> QED BY <2>1 DEF Loose
<1>5. R \in SUBSET H /\ H \ R = held
  <2>1. \A c \in R : c \notin live
    BY <1>1
  <2> QED BY <1>2, <1>4, <2>1
<1>6. /\ \A m : m \in gone <=> \E c \in R : m \in Doomed(h, c)
      /\ AllDoomed(h, R, gone)
  BY DEF GivenUp, AllDoomed
<1>7. h \in Heaps /\ HeapForest(h, L, H) /\ Vacant(h, L)
  BY Zenon DEF HeapForest
<1>8. g \in Heaps
  BY <1>7, BlankIs DEF Heaps, Purged
<1>9. \A m \in L \ gone : g[m] = h[m] /\ m \in Nodes
  BY <1>3 DEF Purged
<1>10. \A m \in L \ gone : Nx(g)[m] = Nx(h)[m] /\ Pv(g)[m] = Pv(h)[m] /\ Kd(g)[m] = Kd(h)[m]
  BY <1>9 DEF Nx, Pv, Kd
<1>11. \A m \in Nodes : g[m] = IF m \in gone THEN Blank ELSE h[m]
  BY DEF Purged
<1> HIDE DEF gone, g, L, H, R
<1>12. HeapForest(g, L \ gone, H \ R)
  <2>1. HeapForest(h, L, H) /\ R \in SUBSET H
    BY <1>5, <1>7
  <2> QED BY <1>6, <1>8, <1>10, <2>1, GoneForest
<1>15. gone \subseteq L
  <2>1. HeapForest(h, L, H) /\ R \in SUBSET H /\ L \in SUBSET Nodes /\ H \in SUBSET L
    BY <1>5, <1>7, HeapForestIs
  <2>2. \A c \in R : Doomed(h, c) \in SUBSET L
    BY <2>1, DoomedForest
  <2> QED BY <1>6, <2>2
<1>13. Vacant(g, L \ gone)
  BY <1>7, <1>11 DEF Vacant
<1>14. SameKeysBut(h, g, gone) /\ Unkeyed(g, gone)
  BY <1>3, <1>11, <1>15, BlankIs DEF SameKeysBut, Unkeyed
<1> QED BY <1>3, <1>5, <1>12, <1>13, <1>14, <1>15 DEF L, g, gone

(* cJSON_Duplicate() has made copies of the items in S and given up those  *)
(* of the items in U.                                                      *)
GaveUp(n, S, U, copy) ==
  LET h == Copies(copy, n, U)
      gone == GivenUp(h, copy, U)
  IN  /\ \A s \in S : heap[s].ref = FALSE
      /\ n \in S => n \in U
      /\ HeapForest(h, live \cup Made(copy, S), held \cup Loose(copy, S, U, n))
      /\ Vacant(h, live \cup Made(copy, S))
      /\ Made(copy, S) \in SUBSET (Nodes \ live)
      /\ SameKeysBut(heap, h, Made(copy, S))
      /\ FittingOn(heap, Nodes) /\ ~FlagKept(S) => FittingOn(h, Made(copy, S))
      /\ heap' = Purged(h, gone) /\ live' = (live \cup Made(copy, S)) \ gone
      /\ Keys(Cardinality(CopiedKeys(h, Made(copy, S))), Cardinality(FreedKeys(h, gone)),
              FlagKept(S))

(* It does when it is out of memory.                                       *)
LEMMA DuplicateFailsIs ==
  ASSUME Forested, NEW n \in Nodes, NEW m \in Nodes, DuplicateFails(n, m)
  PROVE  /\ n \in live
         /\ \E S \in SUBSET live : \E U \in SUBSET S : \E copy \in Injection(S, Nodes \ live) :
              GaveUp(n, S, U, copy)
<1>0. Duplicable(n) /\ m \in Family(n)
  BY DEF DuplicateFails
<1> DEFINE F == Finished(n, m)
<1>1. PICK U \in {Unfinished(n, m), Unfinished(n, m) \ {m}} :
        \E copy \in Injection(U \cup F, Nodes \ live) :
          LET partial == Copies(copy, n, U)
              gone == GivenUp(partial, copy, U)
          IN  /\ heap' = [x \in Nodes |-> IF x \in gone THEN Blank ELSE partial[x]]
              /\ live' = (live \cup Range(copy)) \ gone
              /\ Keys(Cardinality(CopiedKeys(partial, Range(copy))),
                      Cardinality(FreedKeys(partial, gone)), FlagKept(DOMAIN copy))
  BY Zenon DEF DuplicateFails, Unfinished, Finished
<1> DEFINE S == U \cup F
<1>2. PICK copy \in Injection(S, Nodes \ live) :
          LET partial == Copies(copy, n, U)
              gone == GivenUp(partial, copy, U)
          IN  /\ heap' = [x \in Nodes |-> IF x \in gone THEN Blank ELSE partial[x]]
              /\ live' = (live \cup Range(copy)) \ gone
              /\ Keys(Cardinality(CopiedKeys(partial, Range(copy))),
                      Cardinality(FreedKeys(partial, gone)), FlagKept(DOMAIN copy))
  BY <1>1
<1> DEFINE h == Copies(copy, n, U)
           gone == GivenUp(h, copy, U)
<1>3. /\ heap' = Purged(h, gone) /\ live' = (live \cup Range(copy)) \ gone
      /\ Keys(Cardinality(CopiedKeys(h, Range(copy))), Cardinality(FreedKeys(h, gone)),
              FlagKept(S))
  <2>1. DOMAIN copy = S
    BY DEF Injection
  <2>2. /\ heap' = [x \in Nodes |-> IF x \in gone THEN Blank ELSE h[x]]
        /\ live' = (live \cup Range(copy)) \ gone
        /\ Keys(Cardinality(CopiedKeys(h, Range(copy))), Cardinality(FreedKeys(h, gone)),
                FlagKept(DOMAIN copy))
    BY <1>2
  <2> QED BY <2>1, <2>2 DEF Purged
<1>4. n \in live /\ \A x \in Family(n) : heap[x].ref = FALSE
  BY <1>0, DuplicableIs
<1>5. /\ U \in SUBSET S /\ S \in SUBSET Family(n) /\ S \in SUBSET live
      /\ n \in S => n \in U
  <2>1. U \in SUBSET Family(n) /\ F \in SUBSET Family(n) /\ (n \in S => n \in U)
    BY <1>0, <1>1, <1>4, UnfinishedAre
  <2> QED BY <1>0, <1>4, <2>1, FamilyIs
<1> HIDE DEF S
<1>6. \A s \in S : heap[s].ref = FALSE
  BY <1>4, <1>5
<1>7. /\ OnTop(Nx(heap), Kd(heap), S, U, n)
      /\ Inside(Nx(heap), Kd(heap), live, held, S, U, n)
  <2>1. OnTop(Nx(heap), Kd(heap), S, U, n)
    BY <1>5 DEF OnTop
  <2>2. Inside(Nx(heap), Kd(heap), live, held, U \cup Finished(n, m), U, n)
    BY <1>0, <1>1, <1>4, UnfinishedInside
  <2> QED BY <2>1, <2>2 DEF S
<1>8. /\ HeapForest(h, live \cup Made(copy, S), held \cup Loose(copy, S, U, n))
      /\ Vacant(h, live \cup Made(copy, S))
      /\ SameKeysBut(heap, h, Made(copy, S))
      /\ FittingOn(heap, Nodes) /\ ~FlagKept(S) => FittingOn(h, Made(copy, S))
  BY <1>0, <1>4, <1>5, <1>6, <1>7, CopiesForest
<1>9. Range(copy) = Made(copy, S) /\ Made(copy, S) \in SUBSET (Nodes \ live)
  <2>1. copy \in [S -> Nodes \ live] /\ Range(copy) = Made(copy, S)
    BY <1>0, <1>4, <1>5, <1>6, CopiesAre
  <2> QED BY <2>1 DEF Made
<1>10. GaveUp(n, S, U, copy)
  BY <1>3, <1>5, <1>6, <1>8, <1>9, Zenon DEF GaveUp
<1> QED BY <1>4, <1>5, <1>10

(* cJSON_Duplicate() out of memory.                                        *)
LEMMA DuplicateFailsForest ==
  ASSUME IInv, NEW n \in Nodes, NEW m \in Nodes, DuplicateFails(n, m)
  PROVE  IInv'
<1>0. Forested /\ KeysKept /\ held' = held
  BY DEF DuplicateFails, IInv
<1>1. n \in live
  BY <1>0, DuplicateFailsIs
<1>2. PICK S \in SUBSET live : \E U \in SUBSET S : \E copy \in Injection(S, Nodes \ live) :
        GaveUp(n, S, U, copy)
  BY <1>0, DuplicateFailsIs
<1>3. PICK U \in SUBSET S : \E copy \in Injection(S, Nodes \ live) : GaveUp(n, S, U, copy)
  BY <1>2
<1>4. PICK copy \in Injection(S, Nodes \ live) : GaveUp(n, S, U, copy)
  BY <1>3
<1> DEFINE h == Copies(copy, n, U)
           gone == GivenUp(h, copy, U)
           g == Purged(h, gone)
           L == live \cup Made(copy, S)
<1>5. /\ \A s \in S : heap[s].ref = FALSE
      /\ n \in S => n \in U
      /\ HeapForest(h, L, held \cup Loose(copy, S, U, n)) /\ Vacant(h, L)
      /\ Made(copy, S) \in SUBSET (Nodes \ live)
      /\ SameKeysBut(heap, h, Made(copy, S))
      /\ FittingOn(heap, Nodes) /\ ~FlagKept(S) => FittingOn(h, Made(copy, S))
      /\ heap' = g /\ live' = L \ gone
      /\ Keys(Cardinality(CopiedKeys(h, Made(copy, S))), Cardinality(FreedKeys(h, gone)),
              FlagKept(S))
  BY <1>4, Zenon DEF GaveUp
<1> HIDE DEF h
<1>6. /\ gone \in SUBSET Nodes
      /\ HeapForest(g, L \ gone, held) /\ Vacant(g, L \ gone)
      /\ SameKeysBut(h, g, gone) /\ Unkeyed(g, gone)
  BY <1>0, <1>1, <1>5, GivenUpForest
<1> HIDE DEF g, gone, L
<1>7. Forested'
  BY <1>0, <1>5, <1>6 DEF Forested
<1>8. KeysKept'
  <2> DEFINE new == Made(copy, S)
             made == Cardinality(CopiedKeys(h, new))
             freed == Cardinality(FreedKeys(h, gone))
             strays == FlagKept(S)
  <2>1. /\ new \in SUBSET Nodes /\ SameKeysBut(heap, h, new)
        /\ FittingOn(heap, Nodes) /\ ~strays => FittingOn(h, new)
        /\ Keys(made, freed, strays)
    BY <1>5
  <2>2. Unkeyed(heap, new)
    BY <1>0, <1>5, BlankIs DEF Forested, Vacant, Unkeyed
  <2> HIDE DEF new, strays
  <2>3. ASSUME strayed = FALSE, ~strays
        PROVE  Balanced(heap', strings + made - freed)
    <3>1. Balanced(heap, strings)
      BY <1>0, <2>3 DEF KeysKept
    <3>2. FittingOn(h, new)
      BY <2>1, <2>3, <3>1 DEF Balanced
    <3>3. Balanced(h, strings + made)
      BY <2>1, <2>2, <3>1, <3>2, KeysAdded
    <3> DEFINE k == strings + made
    <3>4. Balanced(h, k)
      BY <3>3
    <3> HIDE DEF k
    <3>5. k \in Nat /\ freed \in Nat /\ Balanced(g, k - freed)
      BY <1>6, <3>4, KeysGone
    <3>6. strings \in Nat /\ made \in Nat
      BY <2>1, <2>2, <3>1, <3>2, KeysAdded
    <3> HIDE DEF made, freed
    <3>7. k - freed = strings + made - freed
      BY <3>5, <3>6 DEF k
    <3> QED BY <1>5, <3>5, <3>7
  <2> HIDE DEF made, freed
  <2> QED BY <1>0, <2>1, <2>3, KeysStep
<1> QED BY <1>7, <1>8 DEF IInv

-----------------------------------------------------------------------------
(* The inductive invariant.                                                *)

(* Every function keeps the items a forest, and the keys as they should be.*)
LEMMA NextIInv == IInv /\ [Next]_vars => IInv'
<1> SUFFICES ASSUME IInv, [Next]_vars
             PROVE  IInv'
  OBVIOUS
<1>1. ASSUME NEW n \in Nodes, Create(n)
      PROVE  IInv'
  BY <1>1, CreateForest
<1>2. ASSUME NEW p \in Nodes, NEW c \in Nodes, AddItemToArray(p, c)
      PROVE  IInv'
  BY <1>2, AddItemToArrayForest
<1>3. ASSUME NEW p \in Nodes, NEW c \in Nodes, AddItemToObject(p, c)
      PROVE  IInv'
  BY <1>3, AddItemToObjectForest
<1>4. ASSUME NEW p \in Nodes, NEW c \in Nodes, AddItemToObjectCS(p, c)
      PROVE  IInv'
  BY <1>4, AddItemToObjectCSForest
<1>5. ASSUME NEW p \in Nodes, NEW c \in Nodes, NEW n \in Nodes, AddItemReference(p, c, n)
      PROVE  IInv'
  BY <1>5, AddItemReferenceForest
<1>6. ASSUME NEW p \in Nodes, NEW x \in Nodes, Detach(p, x)
      PROVE  IInv'
  BY <1>6, DetachForest
<1>7. ASSUME NEW c \in Nodes, Delete(c)
      PROVE  IInv'
  BY <1>7, DeleteForest
<1>8. ASSUME NEW p \in Nodes, NEW c \in Nodes, NEW x \in Links, InsertItemInArray(p, x, c)
      PROVE  IInv'
  BY <1>8, InsertItemInArrayForest
<1>9. ASSUME NEW p \in Nodes, NEW x \in Nodes, NEW c \in Nodes, ReplaceItemInArray(p, x, c)
      PROVE  IInv'
  BY <1>9, ReplaceItemInArrayForest
<1>10. ASSUME NEW p \in Nodes, NEW x \in Nodes, NEW c \in Nodes, ReplaceItemInObject(p, x, c)
       PROVE  IInv'
  BY <1>10, ReplaceItemInObjectForest
<1>11. ASSUME NEW n \in Nodes, Duplicate(n)
       PROVE  IInv'
  BY <1>11, DuplicateForest
<1>12. ASSUME NEW n \in Nodes, NEW m \in Nodes, DuplicateFails(n, m)
       PROVE  IInv'
  BY <1>12, DuplicateFailsForest
<1>13. ASSUME CreateLists
       PROVE  IInv'
  BY <1>13, CreateListsForest
<1>14. CASE UNCHANGED vars
  BY <1>14, Zenon DEF vars, IInv, Forested, KeysKept, Balanced
<1> QED BY <1>1, <1>2, <1>3, <1>4, <1>5, <1>6, <1>7, <1>8, <1>9, <1>10, <1>11, <1>12, <1>13,
           <1>14, Zenon DEF Next

(* The items are always a forest.                                          *)
THEOREM Invariance == Spec => []IInv
<1> QED BY InitForest, NextIInv, PTL DEF Spec

(* TypeOK: whatever the functions do and whatever memory they get, the     *)
(* variables have their types, the caller's items are allocated and        *)
(* nothing is left in memory that is not.                                  *)
THEOREM TypeCorrect == Spec => []TypeOK
<1>1. IInv => TypeOK
  <2> SUFFICES ASSUME IInv
               PROVE  TypeOK
    OBVIOUS
  <2>1. heap \in Heaps /\ live \in SUBSET Nodes /\ held \in SUBSET live /\ Vacant(heap, live)
    BY HeapForestIs DEF IInv, Forested
  <2>2. strings \in Int /\ strayed \in BOOLEAN
    BY DEF IInv, KeysKept
  <2> QED BY <2>1, <2>2 DEF TypeOK, Heaps, Vacant
<1> QED BY <1>1, Invariance, PTL

(* DoublyLinked: next and prev of neighbours agree after any sequence of   *)
(* calls, with items spliced in and out, copied and given up halfway, and  *)
(* what the caller owns is in no list (cJSON.c:1628-1632, 1738-1739).      *)
THEOREM ListsTwoWay == Spec => []DoublyLinked
<1>1. IInv => DoublyLinked
  <2> SUFFICES ASSUME IInv, NEW n \in live
               PROVE  /\ heap[n].next # Null => heap[heap[n].next].prev = n
                      /\ heap[n].prev # Null => heap[heap[n].prev].next = n
                      /\ ~ heap[n].ref /\ heap[n].child # Null
                           => heap[heap[n].child].prev = Null
                      /\ n \in held => heap[n].next = Null /\ heap[n].prev = Null
    BY DEF DoublyLinked
  <2>1. /\ live \in SUBSET Nodes /\ heap \in Heaps
        /\ LinksIn(Nx(heap), Pv(heap), Kd(heap), live) /\ TwoWay(Nx(heap), Pv(heap), live)
        /\ FirstKids(Pv(heap), Kd(heap), live)
        /\ Roots(Nx(heap), Pv(heap), Kd(heap), live, held)
    BY HeapForestIs DEF IInv, Forested
  <2>2. n \in Nodes /\ heap[n].ref \in BOOLEAN
    BY <2>1, FieldTypes
  <2>3. /\ Nx(heap)[n] = heap[n].next /\ Pv(heap)[n] = heap[n].prev
        /\ ~ heap[n].ref => Kd(heap)[n] = heap[n].child
    BY <2>2 DEF Nx, Pv, Kd
  <2>4. heap[n].next # Null => heap[heap[n].next].prev = n
    <3>1. CASE heap[n].next # Null
      <4>1. heap[n].next \in Nodes /\ Pv(heap)[heap[n].next] = n
        BY <2>1, <2>3, <3>1 DEF LinksIn, TwoWay
      <4> QED BY <4>1 DEF Pv
    <3> QED BY <3>1
  <2>5. heap[n].prev # Null => heap[heap[n].prev].next = n
    <3>1. CASE heap[n].prev # Null
      <4>1. heap[n].prev \in Nodes /\ Nx(heap)[heap[n].prev] = n
        BY <2>1, <2>3, <3>1 DEF LinksIn, TwoWay
      <4> QED BY <4>1 DEF Nx
    <3> QED BY <3>1
  <2>6. ~ heap[n].ref /\ heap[n].child # Null => heap[heap[n].child].prev = Null
    <3>1. CASE ~ heap[n].ref /\ heap[n].child # Null
      <4>1. heap[n].child \in Nodes /\ Pv(heap)[heap[n].child] = Null
        BY <2>1, <2>3, <3>1 DEF LinksIn, FirstKids
      <4> QED BY <4>1 DEF Pv
    <3> QED BY <3>1
  <2>7. n \in held => heap[n].next = Null /\ heap[n].prev = Null
    BY <2>1, <2>3 DEF Roots
  <2> QED BY <2>4, <2>5, <2>6, <2>7
<1> QED BY <1>1, Invariance, PTL

(* KeysAccounted: the allocated keys are those of the items there are,     *)
(* whether an item with a copied or a constant key, or with the flag of an *)
(* earlier constant, is added, moved, replaced, copied, given up or        *)
(* deleted; no call that strays has been made (cJSON.c:115-128,            *)
(* 1680-1702).                                                             *)
THEOREM KeysAreAccounted == Spec => []KeysAccounted
<1>1. IInv => KeysAccounted
  <2> SUFFICES ASSUME IInv, strayed = FALSE
               PROVE  strings = Cardinality(CopiedKeys(heap, live))
    <3>1. IInv => strayed \in BOOLEAN
      BY DEF IInv, KeysKept
    <3> QED BY <3>1 DEF KeysAccounted
  <2>1. live \in SUBSET Nodes /\ Vacant(heap, live)
    BY HeapForestIs DEF IInv, Forested
  <2>2. CopiedKeys(heap, live) = CopiedKeys(heap, Nodes)
    BY <2>1, BlankIs DEF CopiedKeys, Vacant
  <2> QED BY <2>2 DEF IInv, KeysKept, Balanced
<1> QED BY <1>1, Invariance, PTL

-----------------------------------------------------------------------------
(* The trees of JsonTree.                                                  *)

(* The items in m.                                                         *)
Inner(m) == ToSet(Members(heap, m))

(* They are allocated, and who follows the links comes to all of them.     *)
LEMMA InnerIs ==
  ASSUME Forested, NEW m \in live
  PROVE  /\ Inner(m) \in SUBSET live
         /\ Kd(heap)[m] \in Inner(m) \cup {Null}
         /\ \A x \in Inner(m) : Nx(heap)[x] \in Inner(m) \cup {Null}
<1>0. /\ HeapForest(heap, live, held) /\ live \in SUBSET Nodes /\ Null \notin Nodes
      /\ LinksIn(Nx(heap), Pv(heap), Kd(heap), live)
      /\ \A n \in Nodes : heap[n].ref = FALSE => Kd(heap)[n] = heap[n].child
      /\ heap \in Heaps
  BY HeapForestIs, Zenon DEF Forested
<1>1. heap[m].ref \in BOOLEAN
  BY <1>0, FieldTypes
<1>2. CASE heap[m].ref = TRUE
  <2>1. Inner(m) = {}
    BY <1>2 DEF Inner, Members, ToSet
  <2>2. Kd(heap)[m] = Null
    BY <1>0, <1>2 DEF Kd
  <2> QED BY <2>1, <2>2
<1>3. CASE heap[m].ref = FALSE
  <2> DEFINE f == heap[m].child
  <2>1. Kd(heap)[m] = f /\ f \in live \cup {Null}
    BY <1>0, <1>3 DEF LinksIn
  <2>2. Inner(m) = ToSet(Siblings(heap, f))
    BY <1>3 DEF Inner, Members
  <2>3. CASE f = Null
    <3>1. Inner(m) = {}
      <4> SUFFICES ASSUME NEW x \in Inner(m)
                   PROVE  FALSE
        OBVIOUS
      <4>1. x \in ToSet(Members(heap, m))
        BY DEF Inner
      <4>2. Kd(heap)[m] \in live
        BY <1>0, <1>3, <4>1, MembersAre
      <4> QED BY <1>0, <2>1, <2>3, <4>2
    <3> QED BY <2>1, <2>3, <3>1
  <2>4. CASE f # Null
    <3> DEFINE s == Siblings(heap, f)
    <3>1. f \in live
      BY <2>1, <2>4
    <3>2. /\ s \in Seq(live) /\ Len(s) \in 1..Size /\ s[1] = f
          /\ \A i \in 1..Len(s) : i + 1 \in 1..Len(s) =>
               Nx(heap)[s[i]] = s[i + 1] /\ Pv(heap)[s[i + 1]] = s[i]
          /\ Nx(heap)[s[Len(s)]] = Null
      BY <1>0, <3>1, SiblingsAre, SMTT(40)
    <3> HIDE DEF s
    <3>3. Inner(m) = {s[i] : i \in 1..Len(s)}
      <4>1. Inner(m) = ToSet(s)
        BY <2>2 DEF s
      <4>2. DOMAIN s = 1..Len(s)
        BY <3>2
      <4> QED BY <4>1, <4>2 DEF ToSet
    <3>4. f \in Inner(m)
      BY <3>2, <3>3, SizeNat
    <3>5. Inner(m) \in SUBSET live
      BY <3>2, <3>3
    <3>6. ASSUME NEW i \in 1..Len(s)
          PROVE  Nx(heap)[s[i]] \in Inner(m) \cup {Null}
      <4>1. Len(s) \in Nat
        BY <3>2, SizeNat
      <4>2. CASE i = Len(s)
        BY <3>2, <4>2
      <4>3. CASE i # Len(s)
        <5>1. i + 1 \in 1..Len(s)
          BY <4>1, <4>3
        <5>2. Nx(heap)[s[i]] = s[i + 1]
          BY <3>2, <5>1
        <5> QED BY <3>3, <5>1, <5>2
      <4> QED BY <4>2, <4>3
    <3> QED BY <2>1, <3>3, <3>4, <3>5, <3>6
  <2> QED BY <2>3, <2>4
<1> QED BY <1>1, <1>2, <1>3

(* The items of R and the items in them.                                   *)
Entered(R) == R \cup UNION {Inner(m) : m \in R}

(* They are allocated.                                                     *)
LEMMA EnteredIs ==
  ASSUME Forested, NEW R \in SUBSET live
  PROVE  /\ Entered(R) \in SUBSET live /\ R \subseteq Entered(R)
         /\ \A m \in R : Inner(m) \subseteq Entered(R)
<1>1. \A m \in R : Inner(m) \in SUBSET live
  BY InnerIs
<1> QED BY <1>1 DEF Entered

(* The definition of Tree!Family(n) has a solution, which grows by the     *)
(* items in its items.                                                     *)
LEMMA TreeFamilyIs ==
  ASSUME Forested, NEW n \in live
  PROVE  \E f \in [0..Size -> SUBSET live] :
           /\ f[0] = {n} /\ \A k \in 1..Size : f[k] = Entered(f[k - 1])
           /\ Tree!Family(n) = f[Size]
<1> DEFINE Sets == SUBSET live
           step == [R \in Sets |-> Entered(R)]
           items == [m \in Nodes |-> Members(heap, m)]
           Is(f) == f = [k \in 0..Tree!Cardinality(Nodes) |->
                           IF k = 0 THEN {n}
                           ELSE f[k - 1] \cup UNION {Tree!ToSet(items[m]) : m \in f[k - 1]}]
           w == CHOOSE f : Is(f)
<1>0. live \in SUBSET Nodes /\ Tree!Cardinality(Nodes) = Size /\ \A s : Tree!ToSet(s) = ToSet(s)
  <2>1. live \in SUBSET Nodes
    BY HeapForestIs DEF Forested
  <2>2. Tree!Cardinality(Nodes) = Cardinality(Nodes)
    BY DEF Tree!Cardinality, Cardinality, Tree!IsFiniteSet, IsFiniteSet
  <2>3. \A s : Tree!ToSet(s) = ToSet(s)
    BY DEF Tree!ToSet, ToSet
  <2> QED BY <2>1, <2>2, <2>3 DEF Size
<1>1. step \in [Sets -> Sets]
  BY EnteredIs
<1>2. {n} \in Sets /\ Selfmap(Sets, step)
  BY <1>1 DEF Selfmap
<1>3. PICK f \in [0..Size -> Sets] : f[0] = {n} /\ \A k \in 1..Size : f[k] = step[f[k - 1]]
  <2>1. Size \in Nat
    BY SizeNat
  <2> DEFINE x == {n}
  <2>2. x \in Sets
    BY <1>2
  <2> HIDE DEF step, Sets, x
  <2>3. Stepped(Size, Sets, x, step)
    BY <1>2, <2>1, <2>2, StepByStep
  <2>4. \E f \in [0..Size -> Sets] : f[0] = x /\ \A k \in 1..Size : f[k] = step[f[k - 1]]
    BY <2>3, Zenon DEF Stepped, Steps
  <2> QED BY <2>4 DEF x
<1>4. \A R \in Sets : R \cup UNION {Tree!ToSet(items[m]) : m \in R} = Entered(R)
  <2> SUFFICES ASSUME NEW R \in Sets
               PROVE  R \cup UNION {Tree!ToSet(items[m]) : m \in R} = Entered(R)
    OBVIOUS
  <2>1. \A m \in R : items[m] = Members(heap, m)
    BY <1>0
  <2>2. {Tree!ToSet(items[m]) : m \in R} = {Inner(m) : m \in R}
    <3> HIDE DEF items
    <3> QED BY <1>0, <2>1 DEF Inner
  <2> HIDE DEF items
  <2> QED BY <2>2 DEF Entered
<1>5. \A k \in 1..Size : f[k - 1] \in Sets /\ f[k] = Entered(f[k - 1])
  <2> SUFFICES ASSUME NEW k \in 1..Size
               PROVE  f[k - 1] \in Sets /\ f[k] = Entered(f[k - 1])
    OBVIOUS
  <2>1. k - 1 \in 0..Size
    BY SizeNat
  <2>2. f[k - 1] \in Sets
    BY <2>1
  <2> QED BY <1>3, <2>2
<1>6. Is(f)
  <2>1. \A k \in 1..Size : f[k] = f[k - 1] \cup UNION {Tree!ToSet(items[m]) : m \in f[k - 1]}
    BY <1>4, <1>5
  <2>2. \A k \in 0..Size : k = 0 \/ k \in 1..Size
    BY SizeNat
  <2> HIDE DEF items
  <2>3. f = [k \in 0..Size |-> IF k = 0 THEN {n}
                               ELSE f[k - 1] \cup UNION {Tree!ToSet(items[m]) : m \in f[k - 1]}]
    BY <1>3, <2>1, <2>2
  <2> QED BY <1>0, <2>3
<1>7. Tree!Family(n) = w[Size]
  <2>1. Tree!Family(n) = w[Tree!Cardinality(Nodes)]
    BY Zenon DEF Tree!Family
  <2> QED BY <1>0, <2>1
<1>8. Is(w)
  <2> HIDE DEF Is
  <2> QED BY <1>6
<1>9. w = [k \in 0..Size |-> IF k = 0 THEN {n}
                              ELSE w[k - 1] \cup UNION {Tree!ToSet(items[m]) : m \in w[k - 1]}]
  <2> HIDE DEF items, w
  <2> QED BY <1>0, <1>8
<1> HIDE DEF w, Is, items
<1>10. \A k \in 0..Size : w[k] = IF k = 0 THEN {n}
                              ELSE w[k - 1] \cup UNION {Tree!ToSet(items[m]) : m \in w[k - 1]}
  BY <1>9
<1>11. w[0] = {n}
  <2>1. 0 \in 0..Size
    BY SizeNat
  <2> QED BY <1>10, <2>1
<1>12. \A k \in 1..Size : w[k] = w[k - 1] \cup UNION {Tree!ToSet(items[m]) : m \in w[k - 1]}
  <2> SUFFICES ASSUME NEW k \in 1..Size
               PROVE  w[k] = w[k - 1] \cup UNION {Tree!ToSet(items[m]) : m \in w[k - 1]}
    OBVIOUS
  <2>1. k \in 0..Size /\ k # 0
    BY SizeNat
  <2> QED BY <1>10, <2>1
<1>13. \A k \in 0..Size : w[k] \in Sets
  <2> DEFINE S == {k \in 0..Size : w[k] \in Sets}
  <2>1. 0 \in S
    BY <1>2, <1>11, SizeNat
  <2>2. ASSUME NEW k \in 0..Size, k < Size, k \in S
        PROVE  k + 1 \in S
    <3>1. k + 1 \in 1..Size /\ (k + 1) - 1 = k /\ k + 1 \in 0..Size
      BY <2>2, SizeNat
    <3>2. w[k] \in Sets /\ w[k + 1] = Entered(w[k])
      BY <1>4, <1>12, <2>2, <3>1
    <3>3. Entered(w[k]) \in Sets
      BY <3>2, EnteredIs
    <3> QED BY <3>1, <3>2, <3>3
  <2> HIDE DEF S, Sets
  <2>3. \A k \in 0..Size : k \in S
    BY <2>1, <2>2, CountingUp, SizeNat
  <2> QED BY <2>3 DEF S
<1>14. \A k \in 1..Size : w[k] = Entered(w[k - 1])
  <2> SUFFICES ASSUME NEW k \in 1..Size
               PROVE  w[k] = Entered(w[k - 1])
    OBVIOUS
  <2>1. k - 1 \in 0..Size
    BY SizeNat
  <2> HIDE DEF Sets
  <2> QED BY <1>4, <1>12, <1>13, <2>1
<1>15. w \in [0..Size -> Sets]
  <2>1. w = [k \in 0..Size |-> w[k]]
    BY <1>9
  <2> HIDE DEF Sets
  <2> QED BY <1>13, <2>1
<1> QED BY <1>7, <1>11, <1>14, <1>15

(* R has the items of its items.                                           *)
Whole(R) == \A m \in R : Inner(m) \subseteq R

(* The tree of n has n, what is in its items, and nothing else.            *)
LEMMA TreeFamily ==
  ASSUME Forested, NEW n \in live
  PROVE  /\ n \in Tree!Family(n) /\ Tree!Family(n) \in SUBSET live
         /\ Whole(Tree!Family(n))
         /\ \A m \in Tree!Family(n) : m = n \/ \E q \in Tree!Family(n) : m \in Inner(q)
         /\ \A T \in SUBSET live : n \in T /\ Whole(T) => Tree!Family(n) \subseteq T
<1>1. PICK f \in [0..Size -> SUBSET live] :
        /\ f[0] = {n} /\ \A k \in 1..Size : f[k] = Entered(f[k - 1])
        /\ Tree!Family(n) = f[Size]
  BY TreeFamilyIs
<1>2. ASSUME NEW k \in 0..Size, k < Size
      PROVE  /\ f[k] \in SUBSET live /\ f[k + 1] = Entered(f[k])
             /\ f[k] \subseteq f[k + 1] /\ k + 1 \in 0..Size
             /\ \A m \in f[k] : Inner(m) \subseteq f[k + 1]
  <2>1. k + 1 \in 1..Size /\ (k + 1) - 1 = k /\ k + 1 \in 0..Size
    BY <1>2, SizeNat
  <2>2. f[k + 1] = Entered(f[k])
    BY <1>1, <2>1
  <2>3. f[k] \in SUBSET live
    OBVIOUS
  <2> QED BY <2>1, <2>2, <2>3, EnteredIs
<1>3. n \in f[Size]
  <2> DEFINE S == {k \in 0..Size : n \in f[k]}
  <2>1. 0 \in S
    BY <1>1, SizeNat
  <2>2. \A k \in 0..Size : k < Size /\ k \in S => k + 1 \in S
    BY <1>2
  <2> HIDE DEF S
  <2>3. \A k \in 0..Size : k \in S
    BY <2>1, <2>2, CountingUp, SizeNat
  <2> QED BY <2>3, SizeNat DEF S
<1>4. \A m \in f[Size] : m = n \/ \E q \in f[Size] : m \in Inner(q)
  <2> DEFINE From(R) == \A m \in R : m = n \/ \E q \in R : m \in Inner(q)
             S == {k \in 0..Size : From(f[k])}
  <2>1. 0 \in S
    BY <1>1, SizeNat
  <2>2. ASSUME NEW k \in 0..Size, k < Size, k \in S
        PROVE  k + 1 \in S
    <3> DEFINE R == f[k]
               Q == f[k + 1]
    <3>1. R \subseteq Q /\ Q = R \cup UNION {Inner(m) : m \in R} /\ k + 1 \in 0..Size
      BY <1>2, <2>2 DEF Entered
    <3>2. From(R)
      BY <2>2
    <3> HIDE DEF R, Q
    <3>3. From(Q)
      BY <3>1, <3>2
    <3> QED BY <3>1, <3>3 DEF Q
  <2> HIDE DEF S
  <2>3. \A k \in 0..Size : k \in S
    BY <2>1, <2>2, CountingUp, SizeNat
  <2> QED BY <2>3, SizeNat DEF S
<1>5. Whole(f[Size])
  <2> DEFINE Grows(k) == Cardinality(f[k]) >= k + 1
             S == {k \in 0..Size : Whole(f[k]) \/ Grows(k)}
  <2>1. 0 \in S
    <3>1. Cardinality(f[0]) = 1
      BY <1>1, FS_Singleton
    <3> QED BY <3>1, SizeNat
  <2>2. ASSUME NEW k \in 0..Size, k < Size, k \in S
        PROVE  k + 1 \in S
    <3> DEFINE R == f[k]
               Q == f[k + 1]
    <3>1. /\ R \in SUBSET live /\ Q = Entered(R) /\ R \subseteq Q /\ k + 1 \in 0..Size
          /\ \A m \in R : Inner(m) \subseteq Q
          /\ Q \in SUBSET live
      BY <1>1, <1>2, <2>2
    <3>2. live \in SUBSET Nodes
      BY HeapForestIs DEF Forested
    <3>3. CASE Whole(R)
      <4> HIDE DEF R, Q
      <4>1. Q = R
        BY <3>1, <3>3 DEF Whole, Entered
      <4>2. Whole(Q)
        BY <3>3, <4>1
      <4> QED BY <3>1, <4>2 DEF Q
    <3>4. CASE ~ Whole(R)
      <4>1. Q # R
        BY <3>1, <3>4 DEF Whole
      <4>2. IsFiniteSet(Q) /\ Cardinality(Q) \in Nat /\ Cardinality(R) \in Nat
        BY <3>1, <3>2, SizeNat, FS_Subset, FS_CardinalityType
      <4>3. Cardinality(R) <= Cardinality(Q) /\ Cardinality(R) # Cardinality(Q)
        BY <3>1, <4>1, <4>2, FS_Subset
      <4>4. Cardinality(R) >= k + 1
        BY <2>2, <3>4
      <4> HIDE DEF R, Q
      <4>5. Cardinality(Q) >= (k + 1) + 1
        BY <4>2, <4>3, <4>4
      <4> QED BY <3>1, <4>5 DEF Q
    <3> QED BY <3>3, <3>4
  <2> HIDE DEF S
  <2>3. \A k \in 0..Size : k \in S
    BY <2>1, <2>2, CountingUp, SizeNat
  <2>4. Whole(f[Size]) \/ Grows(Size)
    BY <2>3, SizeNat DEF S
  <2>5. f[Size] \in SUBSET Nodes
    <3>1. f[Size] \in SUBSET live
      BY SizeNat
    <3>2. live \in SUBSET Nodes
      BY HeapForestIs DEF Forested
    <3> QED BY <3>1, <3>2
  <2>6. Cardinality(f[Size]) <= Size /\ Cardinality(f[Size]) \in Nat
    BY <2>5, SizeNat, FS_Subset, FS_CardinalityType DEF Size
  <2> QED BY <2>4, <2>6, SizeNat
<1>6. f[Size] \in SUBSET live
  BY SizeNat
<1>7. ASSUME NEW T \in SUBSET live, n \in T, Whole(T)
      PROVE  f[Size] \subseteq T
  <2> DEFINE S == {k \in 0..Size : f[k] \subseteq T}
  <2>1. 0 \in S
    BY <1>1, <1>7, SizeNat
  <2>2. \A k \in 0..Size : k < Size /\ k \in S => k + 1 \in S
    BY <1>2, <1>7 DEF Entered, Whole
  <2> HIDE DEF S
  <2>3. \A k \in 0..Size : k \in S
    BY <2>1, <2>2, CountingUp, SizeNat
  <2> QED BY <2>3, SizeNat DEF S
<1> QED BY <1>1, <1>3, <1>4, <1>5, <1>6, <1>7

(* The trees of what the caller owns have all that is allocated in them.   *)
LEMMA UsedIs ==
  ASSUME Forested
  PROVE  live = Tree!Used
<1> DEFINE T == Tree!Used
<1>0. /\ live \in SUBSET Nodes /\ Null \notin Nodes /\ held \in SUBSET live
      /\ Roots(Nx(heap), Pv(heap), Kd(heap), live, held)
      /\ Covered(Nx(heap), Kd(heap), live, held)
  BY HeapForestIs DEF Forested
<1>1. \A m : m \in T <=> \E r \in held : m \in Tree!Family(r)
  BY DEF Tree!Used
<1> HIDE DEF T
<1>2. held \subseteq T /\ T \in SUBSET live
  BY <1>0, <1>1, TreeFamily
<1>3. Along(Nx(heap), Kd(heap), T)
  <2> SUFFICES ASSUME NEW m \in T
               PROVE  Nx(heap)[m] \in T \cup {Null} /\ Kd(heap)[m] \in T \cup {Null}
    BY DEF Along
  <2>1. PICK r \in held : m \in Tree!Family(r)
    BY <1>1
  <2> DEFINE F == Tree!Family(r)
  <2>2. /\ F \in SUBSET live /\ Whole(F)
        /\ \A x \in F : x = r \/ \E q \in F : x \in Inner(q)
    BY <1>0, TreeFamily
  <2>3. F \subseteq T
    BY <1>1
  <2> HIDE DEF F
  <2>4. Kd(heap)[m] \in T \cup {Null}
    <3>1. m \in F
      BY <2>1 DEF F
    <3>2. Inner(m) \subseteq F /\ m \in live
      BY <2>2, <3>1 DEF Whole
    <3> QED BY <2>3, <3>2, InnerIs
  <2>5. CASE m = r
    <3>1. Nx(heap)[m] = Null
      BY <1>0, <2>5 DEF Roots
    <3> QED BY <2>4, <3>1
  <2>6. CASE m # r
    <3>1. PICK q \in F : m \in Inner(q)
      BY <2>1, <2>2, <2>6 DEF F
    <3>2. Inner(q) \subseteq F /\ q \in live
      BY <2>2 DEF Whole
    <3>3. Nx(heap)[m] \in Inner(q) \cup {Null}
      BY <3>1, <3>2, InnerIs
    <3> QED BY <2>3, <2>4, <3>2, <3>3
  <2> QED BY <2>5, <2>6
<1> QED BY <1>0, <1>2, <1>3 DEF Covered, T

(* NothingLost: after any sequence of calls, what is allocated is what the *)
(* trees of the items that the caller owns have in them: no item has been  *)
(* lost, and none freed that is still in a tree (cJSON.c:109-130, where    *)
(* the recursion frees a tree, and 2059-2130, where a copy that cannot be  *)
(* finished is given up with all of its items).                            *)
THEOREM NothingIsLost == Spec => []NothingLost
<1>1. IInv => NothingLost
  BY UsedIs DEF IInv, NothingLost
<1> QED BY <1>1, Invariance, PTL

-----------------------------------------------------------------------------
(* JsonTree sees the same trees.                                           *)

(* What is in an item in n is in n.                                        *)
LEMMA InnerContents ==
  ASSUME Forested, NEW n \in live, NEW m \in Family(n)
  PROVE  Inner(m) \subseteq Contents(n)
<1>1. /\ Contents(n) \in SUBSET live /\ Family(n) = {n} \cup Contents(n)
      /\ Kd(heap)[n] \in Contents(n) \cup {Null}
      /\ \A k \in Contents(n) : /\ Nx(heap)[k] \in Contents(n) \cup {Null}
                                /\ Kd(heap)[k] \in Contents(n) \cup {Null}
  BY ContentsAre
<1>2. m \in live /\ Kd(heap)[m] \in Contents(n) \cup {Null}
  BY <1>1
<1>3. HeapForest(heap, live, held) /\ live \in SUBSET Nodes /\ Null \notin Nodes /\ heap \in Heaps
  BY HeapForestIs DEF Forested
<1>4. CASE heap[m].ref = TRUE
  BY <1>4 DEF Inner, Members, ToSet
<1>5. CASE heap[m].ref = FALSE
  <2> SUFFICES ASSUME NEW x \in Inner(m)
               PROVE  x \in Contents(n)
    OBVIOUS
  <2>1. x \in ToSet(Members(heap, m))
    BY DEF Inner
  <2>2. Kd(heap)[m] \in live /\ Within(Nx(heap), Kd(heap), live, m, x)
    BY <1>2, <1>3, <1>5, <2>1, MembersAre
  <2>3. Kd(heap)[m] \in Contents(n)
    BY <1>2, <1>3, <2>2
  <2> QED BY <1>1, <2>2, <2>3 DEF Within
<1>6. heap[m].ref \in BOOLEAN
  BY <1>2, <1>3, FieldTypes
<1> QED BY <1>4, <1>5, <1>6

(* JsonTree has the same items in an item.                                 *)
LEMMA SameFamily ==
  ASSUME Forested, NEW n \in live
  PROVE  Tree!Family(n) = Family(n)
<1> DEFINE F == Tree!Family(n)
<1>1. /\ Contents(n) \in SUBSET live /\ Family(n) = {n} \cup Contents(n)
      /\ \A T \in SUBSET live :
           /\ Kd(heap)[n] \in T \cup {Null}
           /\ \A m \in T : Nx(heap)[m] \in T \cup {Null} /\ Kd(heap)[m] \in T \cup {Null}
           => Contents(n) \subseteq T
  BY ContentsAre
<1>2. /\ n \in F /\ F \in SUBSET live /\ Whole(F)
      /\ \A m \in F : m = n \/ \E q \in F : m \in Inner(q)
      /\ \A T \in SUBSET live : n \in T /\ Whole(T) => F \subseteq T
  BY TreeFamily
<1> HIDE DEF F
<1>3. F \subseteq Family(n)
  <2>1. \A m \in Family(n) : Inner(m) \subseteq Contents(n)
    BY InnerContents
  <2>2. Whole(Family(n))
    BY <1>1, <2>1 DEF Whole
  <2> QED BY <1>1, <1>2, <2>2
<1>4. PICK r \in Levels : /\ Leveled(Nx(heap), Kd(heap), live, r)
                          /\ \A x \in live : \A m \in Contents(x) : r[m] > r[x]
  BY ContentsAbove
<1> DEFINE T == F \ {n}
<1>5. live \in SUBSET Nodes /\ Null \notin live
  <2>1. live \in SUBSET Nodes /\ Null \notin Nodes
    BY HeapForestIs DEF Forested
  <2> QED BY <2>1
<1>6. \A m \in live : r[m] \in Int
  BY <1>5 DEF Levels
<1>7. \A m \in T : r[m] > r[n] /\ m \in live
  BY <1>1, <1>2, <1>3, <1>4
<1>8. ASSUME NEW m \in F
      PROVE  Kd(heap)[m] \in T \cup {Null}
  <2>1. m \in live /\ Inner(m) \subseteq F
    BY <1>2 DEF Whole
  <2>2. Kd(heap)[m] \in F \cup {Null}
    BY <2>1, InnerIs
  <2>3. Kd(heap)[m] # Null => r[Kd(heap)[m]] > r[m]
    BY <1>4, <2>1 DEF Leveled
  <2>4. m = n \/ r[m] > r[n]
    BY <1>7
  <2>5. Kd(heap)[m] # n
    BY <1>5, <1>6, <2>1, <2>3, <2>4
  <2> QED BY <2>2, <2>5
<1>9. ASSUME NEW m \in T
      PROVE  Nx(heap)[m] \in T \cup {Null}
  <2>1. PICK q \in F : m \in Inner(q)
    BY <1>2
  <2>2. q \in live /\ Inner(q) \subseteq F
    BY <1>2 DEF Whole
  <2>3. Nx(heap)[m] \in F \cup {Null}
    BY <2>1, <2>2, InnerIs
  <2>4. m \in live /\ r[m] > r[n]
    BY <1>7
  <2>5. Nx(heap)[m] # Null => r[Nx(heap)[m]] = r[m]
    BY <1>4, <2>4 DEF Leveled
  <2>6. Nx(heap)[m] # n
    BY <1>5, <1>6, <2>4, <2>5
  <2> QED BY <2>3, <2>6
<1>10. Contents(n) \subseteq T
  <2>1. T \in SUBSET live
    BY <1>2
  <2> QED BY <1>1, <1>2, <1>8, <1>9, <2>1
<1> QED BY <1>1, <1>2, <1>3, <1>10 DEF F

-----------------------------------------------------------------------------
(* The steps of JsonTree.                                                  *)

(* What is in each item.                                                   *)
Kids(h) == [n \in Nodes |-> Members(h, n)]

(* What there is to know about the items in use.                           *)
LEMMA ForestedIs ==
  ASSUME Forested
  PROVE  /\ live = Tree!Used /\ held \in SUBSET live /\ live \in SUBSET Nodes
         /\ HeapForest(heap, live, held) /\ Vacant(heap, live) /\ heap \in Heaps
<1>1. live = Tree!Used
  BY UsedIs
<1>2. HeapForest(heap, live, held) /\ Vacant(heap, live)
  BY DEF Forested
<1>3. held \in SUBSET live /\ live \in SUBSET Nodes /\ heap \in Heaps
  BY <1>2, HeapForestIs
<1> QED BY <1>1, <1>2, <1>3

(* JsonTree has the same helpers.                                          *)
LEMMA SameHelpers ==
  /\ \A s : Tree!ToSet(s) = ToSet(s)
  /\ \A s, i, c : Tree!InsertAt(s, i, c) = InsertAt(s, i, c)
  /\ \A s, i : Tree!RemoveAt(s, i) = RemoveAt(s, i)
  /\ \A f : Tree!IsInjective(f) = IsInjective(f)
  /\ \A S, T : Tree!Injection(S, T) = Injection(S, T)
  /\ \A f : Tree!Range(f) = Range(f)
  /\ \A f : Tree!AntiFunction(f) = AntiFunction(f)
<1>1. \A s : Tree!ToSet(s) = ToSet(s)
  BY DEF ToSet, Tree!ToSet
<1>2. \A s, i, c : Tree!InsertAt(s, i, c) = InsertAt(s, i, c)
  BY DEF InsertAt, Tree!InsertAt
<1>3. \A s, i : Tree!RemoveAt(s, i) = RemoveAt(s, i)
  BY DEF RemoveAt, Tree!RemoveAt
<1>4. \A f : Tree!IsInjective(f) = IsInjective(f)
  BY DEF IsInjective, Tree!IsInjective
<1>5. \A S, T : Tree!Injection(S, T) = Injection(S, T)
  BY DEF Injection, Tree!Injection, IsInjective, Tree!IsInjective
<1>6. \A f : Tree!Range(f) = Range(f)
  BY DEF Range, Tree!Range
<1>7. \A f : Tree!AntiFunction(f) = AntiFunction(f)
  BY DEF AntiFunction, Tree!AntiFunction, Inverse, Tree!Inverse, Range, Tree!Range
<1> QED BY <1>1, <1>2, <1>3, <1>4, <1>5, <1>6, <1>7

(* A new item.                                                             *)
LEMMA CreateStep ==
  ASSUME Forested, NEW n \in Nodes \ live, held' = held \cup {n}, Kids(heap') = Kids(heap)
  PROVE  Tree!Create
<1>1. live = Tree!Used
  BY UsedIs
<1> QED BY <1>1 DEF Tree!Create, Kids

(* c comes in at place i of p.                                             *)
LEMMA PutStep ==
  ASSUME Forested, NEW p \in live, NEW c \in held, p \notin Doomed(heap, c),
         NEW i \in 1..Len(Members(heap, p)) + 1, held' = held \ {c},
         Kids(heap') = [Kids(heap) EXCEPT ![p] = InsertAt(Members(heap, p), i, c)]
  PROVE  Tree!Put
<1>1. live = Tree!Used /\ held \in SUBSET live /\ live \in SUBSET Nodes
  BY ForestedIs
<1>2. p \notin Tree!Family(c)
  <2>1. Tree!Family(c) = Family(c) /\ Family(c) \subseteq Doomed(heap, c)
    BY <1>1, SameFamily, FamilyIs
  <2> QED BY <2>1
<1> DEFINE kids == [n \in Nodes |-> Members(heap, n)]
<1>3. kids[p] = Members(heap, p)
  BY <1>1
<1>4. [n \in Nodes |-> Members(heap', n)] = [kids EXCEPT ![p] = Tree!InsertAt(kids[p], i, c)]
  BY <1>3, SameHelpers DEF Kids
<1>5. p \in Tree!Used \ Tree!Family(c) /\ i \in 1..Len(kids[p]) + 1
  BY <1>1, <1>2, <1>3
<1> HIDE DEF kids
<1> QED BY <1>4, <1>5, Zenon DEF Tree!Put, kids

(* A new item is put behind the others in p.                               *)
LEMMA GrowStep ==
  ASSUME Forested, NEW p \in live, NEW n \in Nodes \ live, held' = held,
         Kids(heap') = [Kids(heap) EXCEPT ![p] = Append(Members(heap, p), n)]
  PROVE  Tree!Grow
<1>1. live = Tree!Used /\ live \in SUBSET Nodes
  BY ForestedIs
<1> DEFINE kids == [m \in Nodes |-> Members(heap, m)]
<1>2. kids[p] = Members(heap, p)
  BY <1>1
<1>3. [m \in Nodes |-> Members(heap', m)] = [kids EXCEPT ![p] = Append(kids[p], n)]
  BY <1>2 DEF Kids
<1> HIDE DEF kids
<1> QED BY <1>1, <1>3, Zenon DEF Tree!Grow, kids

(* The item at place i of p is taken out.                                  *)
LEMMA TakeStep ==
  ASSUME Forested, NEW p \in live, NEW i \in 1..Len(Members(heap, p)),
         held' = held \cup {Members(heap, p)[i]},
         Kids(heap') = [Kids(heap) EXCEPT ![p] = RemoveAt(Members(heap, p), i)]
  PROVE  Tree!Take
<1>1. live = Tree!Used /\ live \in SUBSET Nodes /\ HeapForest(heap, live, held)
  BY ForestedIs
<1> DEFINE kids == [m \in Nodes |-> Members(heap, m)]
<1>2. kids[p] = Members(heap, p)
  BY <1>1
<1>3. [m \in Nodes |-> Members(heap', m)] = [kids EXCEPT ![p] = Tree!RemoveAt(kids[p], i)]
  BY <1>2, SameHelpers DEF Kids
<1>4. i \in DOMAIN kids[p] /\ held' = held \cup {kids[p][i]}
  <2>1. Members(heap, p) \in Seq(live)
    BY <1>1, MembersList
  <2> HIDE DEF kids
  <2> QED BY <1>2, <2>1
<1> HIDE DEF kids
<1> QED BY <1>1, <1>3, <1>4, Zenon DEF Tree!Take, kids

(* The items in n when c and everything in it are gone.                    *)
KidsWithout(c) == [n \in Nodes |-> IF n \in Family(c) THEN <<>> ELSE Members(heap, n)]

(* They are what JsonTree says.                                            *)
LEMMA WithoutIs ==
  ASSUME Forested, NEW c \in live
  PROVE  Tree!Without(c) = KidsWithout(c)
<1>1. Tree!Family(c) = Family(c)
  BY SameFamily
<1> QED BY <1>1 DEF Tree!Without, KidsWithout

(* c is deleted.                                                           *)
LEMMA DeleteStep ==
  ASSUME Forested, NEW c \in held, held' = held \ {c}, Kids(heap') = KidsWithout(c)
  PROVE  Tree!Delete
<1>1. c \in live
  BY ForestedIs
<1>2. Tree!Without(c) = KidsWithout(c)
  BY <1>1, WithoutIs
<1>3. [n \in Nodes |-> Members(heap', n)] = Tree!Without(c)
  BY <1>2 DEF Kids
<1> QED BY <1>3, Zenon DEF Tree!Delete

(* c takes the place of the item at place i of p.                          *)
LEMMA ReplaceStep ==
  ASSUME Forested, NEW p \in live, NEW c \in held, p \notin Doomed(heap, c),
         NEW i \in 1..Len(Members(heap, p)), held' = held \ {c},
         Kids(heap') = [KidsWithout(Members(heap, p)[i]) EXCEPT
                          ![p] = [Members(heap, p) EXCEPT ![i] = c]]
  PROVE  Tree!Replace
<1>1. /\ live = Tree!Used /\ held \in SUBSET live /\ live \in SUBSET Nodes
      /\ HeapForest(heap, live, held)
  BY ForestedIs
<1>2. p \notin Tree!Family(c)
  <2>1. Tree!Family(c) = Family(c) /\ Family(c) \subseteq Doomed(heap, c)
    BY <1>1, SameFamily, FamilyIs
  <2> QED BY <2>1
<1> DEFINE kids == [n \in Nodes |-> Members(heap, n)]
           s == Members(heap, p)
<1>3. kids[p] = s
  BY <1>1
<1>4. s \in Seq(live)
  BY <1>1, MembersList
<1>5. Tree!Without(s[i]) = KidsWithout(s[i])
  <2>1. s[i] \in live
    BY <1>4
  <2> HIDE DEF s
  <2> QED BY <2>1, WithoutIs
<1> HIDE DEF kids
<1>6. p \in Tree!Used \ Tree!Family(c) /\ i \in DOMAIN kids[p]
  BY <1>1, <1>2, <1>3, <1>4
<1>7. [n \in Nodes |-> Members(heap', n)]
        = [Tree!Without(kids[p][i]) EXCEPT ![p] = [kids[p] EXCEPT ![i] = c]]
  BY <1>3, <1>5 DEF Kids
<1> QED BY <1>6, <1>7, Zenon DEF Tree!Replace, kids

(* What is copied goes into the copies.                                    *)
KidsCopied(copy, S) ==
  [m \in Nodes |-> IF m \in Range(copy)
                     THEN [i \in DOMAIN Members(heap, AntiFunction(copy)[m]) |->
                             copy[Members(heap, AntiFunction(copy)[m])[i]]]
                     ELSE Members(heap, m)]

(* A copy of n and of everything in it.                                    *)
LEMMA DuplicateStep ==
  ASSUME Forested, NEW n \in live, NEW copy \in Injection(Family(n), Nodes \ live),
         held' = held \cup {copy[n]}, Kids(heap') = KidsCopied(copy, Family(n))
  PROVE  Tree!Duplicate
<1>1. /\ live = Tree!Used /\ held \in SUBSET live /\ live \in SUBSET Nodes
  BY ForestedIs
<1>2. Tree!Family(n) = Family(n) /\ n \in Family(n) /\ Family(n) \in SUBSET live
  BY SameFamily, FamilyIs
<1>3. copy \in [Family(n) -> Nodes \ live]
  BY DEF Injection
<1> DEFINE kids == [m \in Nodes |-> Members(heap, m)]
           top == copy[n]
<1>4. top \in held' \ held /\ copy \in Tree!Injection(Tree!Family(n), Nodes \ Tree!Used)
  BY <1>1, <1>2, <1>3, SameHelpers
<1>5. [m \in Nodes |-> Members(heap', m)]
        = [m \in Nodes |->
             IF m \in Tree!Range(copy)
               THEN [i \in DOMAIN kids[Tree!AntiFunction(copy)[m]] |->
                       copy[kids[Tree!AntiFunction(copy)[m]][i]]]
               ELSE kids[m]]
  <2>1. ASSUME NEW m \in Range(copy)
        PROVE  kids[AntiFunction(copy)[m]] = Members(heap, AntiFunction(copy)[m])
    <3>1. AntiFunction(copy)[m] \in Family(n)
      BY <1>2, <1>3 DEF AntiFunction, Inverse, Range
    <3> QED BY <1>1, <1>2, <3>1
  <2>2. Range(copy) = Tree!Range(copy) /\ AntiFunction(copy) = Tree!AntiFunction(copy)
    BY SameHelpers
  <2>3. \A m \in Nodes : kids[m] = Members(heap, m)
    OBVIOUS
  <2> DEFINE inverse == AntiFunction(copy)
             new == [m \in Nodes |->
                       IF m \in Range(copy)
                         THEN [i \in DOMAIN kids[inverse[m]] |-> copy[kids[inverse[m]][i]]]
                         ELSE kids[m]]
  <2> HIDE DEF kids, inverse
  <2>4. ASSUME NEW m \in Nodes
        PROVE  KidsCopied(copy, Family(n))[m] = new[m]
    <3>1. CASE m \in Range(copy)
      <4>1. kids[inverse[m]] = Members(heap, inverse[m])
        BY <2>1, <3>1 DEF inverse
      <4>2. KidsCopied(copy, Family(n))[m] = [i \in DOMAIN Members(heap, inverse[m]) |->
                                               copy[Members(heap, inverse[m])[i]]]
        BY <3>1 DEF KidsCopied, inverse
      <4>3. new[m] = [i \in DOMAIN kids[inverse[m]] |-> copy[kids[inverse[m]][i]]]
        BY <3>1
      <4> QED BY <4>1, <4>2, <4>3
    <3>2. CASE m \notin Range(copy)
      BY <2>3, <3>2 DEF KidsCopied
    <3> QED BY <3>1, <3>2
  <2>5. KidsCopied(copy, Family(n)) = new
    BY <2>4, Zenon DEF KidsCopied
  <2>6. [m \in Nodes |-> Members(heap', m)] = KidsCopied(copy, Family(n))
    BY DEF Kids
  <2> QED BY <2>2, <2>5, <2>6, Zenon DEF inverse
<1>6. /\ held' = held \cup {top} /\ copy[n] = top /\ n \in Tree!Used
  BY <1>1
<1> HIDE DEF kids, top
<1> QED BY <1>4, <1>5, <1>6, Zenon DEF Tree!Duplicate, kids

(* A new array a with the new items e in it.                               *)
LEMMA BuildStep ==
  ASSUME Forested, NEW a \in Nodes \ live, NEW e \in Seq(Nodes \ live), e # <<>>, Distinct(a, e),
         held' = held \cup {a}, Kids(heap') = [Kids(heap) EXCEPT ![a] = e]
  PROVE  Tree!Build
<1>1. /\ live = Tree!Used /\ held \in SUBSET live
  BY ForestedIs
<1> DEFINE kids == [m \in Nodes |-> Members(heap, m)]
           kids2 == [m \in Nodes |-> Members(heap', m)]
<1>2. kids2 = [kids EXCEPT ![a] = e]
  BY DEF Kids
<1>3. kids2[a] = e /\ kids2 = [kids EXCEPT ![a] = kids2[a]]
  <2>1. kids2[a] = e
    BY <1>2
  <2> HIDE DEF kids2, kids
  <2> QED BY <1>2, <2>1
<1>4. Tree!IsInjective(e) /\ Tree!ToSet(e) = ToSet(e)
  <2>1. IsInjective(e)
    BY DEF IsInjective, Distinct
  <2> QED BY <2>1, SameHelpers
<1>5. {a} \cup ToSet(e) \subseteq Nodes \ live /\ a \notin ToSet(e)
  BY DEF ToSet, Distinct
<1>6. a \in held' \ held
  BY <1>1
<1> HIDE DEF kids, kids2
<1>7. /\ kids2 = [kids EXCEPT ![a] = kids2[a]]
      /\ kids2[a] # <<>> /\ Tree!IsInjective(kids2[a])
      /\ {a} \cup Tree!ToSet(kids2[a]) \subseteq Nodes \ Tree!Used
      /\ a \notin Tree!ToSet(kids2[a])
  BY <1>1, <1>3, <1>4, <1>5
<1> QED BY <1>6, <1>7, Zenon DEF Tree!Build, kids, kids2

-----------------------------------------------------------------------------
(* The functions take the steps of JsonTree.                               *)

(* Only the items in p have changed.                                       *)
LEMMA KidsChanged ==
  ASSUME NEW h \in Heaps, NEW g \in Heaps, NEW L \in SUBSET Nodes, Vacant(h, L), Vacant(g, L),
         NEW p \in L, OthersSame(h, g, L, p)
  PROVE  Kids(g) = [Kids(h) EXCEPT ![p] = Members(g, p)]
<1>1. ASSUME NEW m \in Nodes, m # p
      PROVE  Members(g, m) = Members(h, m)
  <2>1. CASE m \in L
    BY <1>1, <2>1 DEF OthersSame
  <2>2. CASE m \notin L
    <3>1. Members(g, m) = <<>>
      BY <2>2, VacantMembers
    <3>2. Members(h, m) = <<>>
      BY <2>2, VacantMembers
    <3> QED BY <3>1, <3>2
  <2> QED BY <2>1, <2>2
<1> QED BY <1>1 DEF Kids

(* New keys and flags change no list.                                      *)
LEMMA KidsRekeyed ==
  ASSUME Forested, NEW c \in live, NEW g \in Heaps,
         \A m \in Nodes : m # c => g[m] = heap[m],
         Nx(g) = Nx(heap), Pv(g) = Pv(heap), Kd(g) = Kd(heap)
  PROVE  /\ HeapForest(g, live, held) /\ Vacant(g, live)
         /\ \A m \in live : Members(g, m) = Members(heap, m) /\ Doomed(g, m) = Doomed(heap, m)
         /\ Kids(g) = Kids(heap)
<1>0. /\ live \in SUBSET Nodes /\ HeapForest(heap, live, held)
      /\ Vacant(heap, live) /\ heap \in Heaps
  BY ForestedIs
<1>1. HeapForest(g, live, held)
  BY <1>0, SameLinks
<1>2. Vacant(g, live)
  BY <1>0 DEF Vacant
<1>3. ASSUME NEW m \in live
      PROVE  Members(g, m) = Members(heap, m)
  <2>1. KeptLinks(heap, g, live) /\ live \subseteq live
    BY DEF KeptLinks
  <2> QED BY <1>0, <1>1, <2>1, SameMembers
<1>4. ASSUME NEW m \in live
      PROVE  Doomed(g, m) = Doomed(heap, m)
  BY <1>0, <1>1, DoomedSame
<1>5. ASSUME NEW m \in Nodes \ live
      PROVE  Members(g, m) = Members(heap, m)
  <2>1. Members(g, m) = <<>>
    BY <1>2, VacantMembers
  <2>2. Members(heap, m) = <<>>
    BY <1>0, VacantMembers
  <2> QED BY <2>1, <2>2
<1>6. \A m \in Nodes : Members(g, m) = Members(heap, m)
  BY <1>3, <1>5
<1> QED BY <1>1, <1>2, <1>3, <1>4, <1>6 DEF Kids

(* What comes in behind the others is appended.                            *)
LEMMA InsertLast ==
  ASSUME NEW S, NEW s \in Seq(S), NEW c \in S
  PROVE  InsertAt(s, Len(s) + 1, c) = Append(s, c)
<1> DEFINE i == Len(s) + 1
           w == s \o <<c>>
<1>1. SubSeq(s, 1, i - 1) = s /\ SubSeq(s, i, Len(s)) = <<>>
  OBVIOUS
<1> HIDE DEF i
<1>2. InsertAt(s, i, c) = s \o <<c>> \o <<>>
  BY <1>1, Zenon DEF InsertAt
<1>3. w \o <<>> = w /\ w = Append(s, c)
  <2>1. w \in Seq(S) /\ w = Append(s, c)
    OBVIOUS
  <2> HIDE DEF w
  <2> QED BY <2>1
<1> QED BY <1>2, <1>3 DEF i, w

(* What a call makes of the items in p: c comes last; c comes in front of  *)
(* x; x is taken out; c stands where x was.                                *)
AppendedTo(p, c) == Members(heap', p) = Append(Members(heap, p), c)
InsertedAt(p, x, c) ==
  \A i \in 1..Len(Members(heap, p)) :
    x = Members(heap, p)[i] => Members(heap', p) = InsertAt(Members(heap, p), i, c)
TakenAt(p, x) ==
  \A i \in 1..Len(Members(heap, p)) :
    x = Members(heap, p)[i] => Members(heap', p) = RemoveAt(Members(heap, p), i)
ReplacedAt(p, x, c) ==
  \A i \in 1..Len(Members(heap, p)) :
    x = Members(heap, p)[i] => Members(heap', p) = [Members(heap, p) EXCEPT ![i] = c]

(* cJSON_AddItemToArray(), whatever has been done to the key before.       *)
LEMMA AppendedStep ==
  ASSUME Forested, NEW p, NEW c, Fits(p, c), NEW g \in Heaps,
         \A m \in Nodes : m # c => g[m] = heap[m],
         g[c].ref = heap[c].ref,
         Nx(g) = Nx(heap), Pv(g) = Pv(heap), Kd(g) = Kd(heap),
         heap' = Appended(g, p, c), held' = held \ {c}
  PROVE  Tree!Put /\ AppendedTo(p, c)
<1>0. live \in SUBSET Nodes
  BY ForestedIs
<1>1. /\ p \in live /\ heap[p].ref = FALSE /\ p \in Nodes /\ c \in held /\ c \in live
      /\ c \in Nodes /\ p \notin Doomed(heap, c)
  BY FitsOutside
<1>2. /\ HeapForest(g, live, held) /\ Vacant(g, live) /\ Kids(g) = Kids(heap)
      /\ Members(g, p) = Members(heap, p) /\ Doomed(g, c) = Doomed(heap, c)
  BY <1>1, KidsRekeyed
<1>3. g[p].ref = FALSE
  BY <1>1
<1>4. /\ HeapForest(heap', live, held \ {c}) /\ Vacant(heap', live)
  BY AppendedRekeyed
<1>5. heap' \in Heaps
  BY <1>4, Zenon DEF HeapForest
<1> DEFINE s == Members(heap, p)
           i == Len(s) + 1
<1>6. Members(heap', p) = InsertAt(s, i, c) /\ OthersSame(g, heap', live, p)
  <2>1. p \notin Doomed(g, c)
    BY <1>1, <1>2
  <2> DEFINE g2 == Appended(g, p, c)
  <2> HIDE DEF g2
  <2>2. NowHolds(g, g2, live, p, InsertAt(Members(g, p), Len(Members(g, p)) + 1, c))
    BY <1>1, <1>2, <1>3, <2>1, AppendedMembers DEF g2
  <2>3. heap' = g2
    BY DEF g2
  <2> QED BY <1>2, <2>2, <2>3 DEF NowHolds
<1>7. i \in 1..Len(s) + 1 /\ InsertAt(s, i, c) = Append(s, c)
  <2>1. s \in Seq(live)
    BY <1>1, MembersList DEF Forested
  <2> HIDE DEF s
  <2>2. InsertAt(s, i, c) = Append(s, c)
    BY <1>1, <2>1, InsertLast
  <2> QED BY <2>1, <2>2
<1> HIDE DEF i
<1>8. Kids(heap') = [Kids(heap) EXCEPT ![p] = InsertAt(s, i, c)]
  <2>1. Kids(heap') = [Kids(g) EXCEPT ![p] = Members(heap', p)]
    BY <1>0, <1>1, <1>2, <1>4, <1>5, <1>6, KidsChanged
  <2> QED BY <1>2, <1>6, <2>1
<1>9. AppendedTo(p, c)
  BY <1>6, <1>7 DEF AppendedTo
<1>10. Tree!Put
  BY <1>1, <1>7, <1>8, PutStep
<1> QED BY <1>9, <1>10

(* cJSON_DetachItemFromArray(), ...FromObject().                           *)
LEMMA DetachStep ==
  ASSUME Forested, NEW p, NEW x, Detach(p, x), Forested'
  PROVE  Tree!Take /\ TakenAt(p, x)
<1>0. /\ live \in SUBSET Nodes /\ HeapForest(heap, live, held) /\ heap \in Heaps
      /\ Vacant(heap, live)
  BY ForestedIs
<1>1. /\ Container(p) /\ x \in ToSet(Members(heap, p))
      /\ heap' = Unlinked(heap, p, x) /\ held' = held \cup {x} /\ live' = live
  BY DEF Detach
<1>2. Vacant(heap', live) /\ heap' \in Heaps
  BY <1>1 DEF Forested, HeapForest
<1>3. p \in live /\ heap[p].ref = FALSE
  BY <1>0, <1>1, FieldTypes DEF Container
<1>4. PICK i \in 1..Len(Members(heap, p)) : x = Members(heap, p)[i]
  <2>1. Members(heap, p) \in Seq(live)
    BY <1>0, <1>3, MembersList
  <2> QED BY <1>1, <2>1, SeqSet
<1>5. Members(heap', p) = RemoveAt(Members(heap, p), i) /\ OthersSame(heap, heap', live, p)
  <2>1. NowHolds(heap, heap', live, p, RemoveAt(Members(heap, p), i))
    BY <1>0, <1>1, <1>3, <1>4, UnlinkedMembers
  <2> QED BY <2>1 DEF NowHolds
<1>6. Kids(heap') = [Kids(heap) EXCEPT ![p] = RemoveAt(Members(heap, p), i)]
  <2>1. Kids(heap') = [Kids(heap) EXCEPT ![p] = Members(heap', p)]
    BY <1>0, <1>2, <1>3, <1>5, KidsChanged
  <2> QED BY <1>5, <2>1
<1>7. TakenAt(p, x)
  <2> SUFFICES ASSUME NEW j \in 1..Len(Members(heap, p)), x = Members(heap, p)[j]
               PROVE  Members(heap', p) = RemoveAt(Members(heap, p), j)
    BY DEF TakenAt
  <2>1. NowHolds(heap, heap', live, p, RemoveAt(Members(heap, p), j))
    BY <1>0, <1>1, <1>3, UnlinkedMembers
  <2> QED BY <2>1 DEF NowHolds
<1>8. Tree!Take
  BY <1>1, <1>3, <1>4, <1>6, TakeStep
<1> QED BY <1>7, <1>8

(* cJSON_Delete().                                                         *)
LEMMA DeletedStep ==
  ASSUME Forested, NEW c, Delete(c)
  PROVE  Tree!Delete
<1>0. /\ live \in SUBSET Nodes /\ HeapForest(heap, live, held) /\ heap \in Heaps
      /\ Vacant(heap, live) /\ held \in SUBSET live
  BY ForestedIs
<1>1. c \in held /\ c \in live /\ heap' = Freed(heap, c) /\ held' = held \ {c}
  BY <1>0 DEF Delete
<1> DEFINE D == Doomed(heap, c)
           g == Freed(heap, c)
<1>2. D = Family(c) /\ D \in SUBSET live
  BY <1>1, FamilyIs
<1>3. HeapForest(g, live \ D, held \ {c}) /\ Vacant(g, live \ D)
  BY <1>0, <1>1, FreedForest
<1>4. \A m \in live : m \notin D => Members(g, m) = Members(heap, m)
  BY <1>0, <1>1, FreedMembers
<1> HIDE DEF D, g
<1>5. g \in Heaps
  BY <1>3, Zenon DEF HeapForest
<1>6. ASSUME NEW m \in Nodes
      PROVE  Members(g, m) = IF m \in D THEN <<>> ELSE Members(heap, m)
  <2>1. CASE m \in live \ D
    BY <1>4, <2>1
  <2>2. CASE m \notin live \ D
    <3>1. Members(g, m) = <<>>
      BY <1>3, <1>5, <2>2, VacantMembers
    <3>2. m \notin D => Members(heap, m) = <<>>
      BY <1>0, <2>2, VacantMembers
    <3> QED BY <3>1, <3>2
  <2> QED BY <2>1, <2>2
<1>7. Kids(heap') = KidsWithout(c)
  BY <1>1, <1>2, <1>6 DEF Kids, KidsWithout, g
<1> QED BY <1>1, <1>7, DeleteStep

(* cJSON_InsertItemInArray().                                              *)
LEMMA InsertStep ==
  ASSUME Forested, NEW p, NEW x, NEW c, InsertItemInArray(p, x, c), Forested'
  PROVE  Tree!Put /\ (x = Null => AppendedTo(p, c)) /\ InsertedAt(p, x, c)
<1>0. /\ live \in SUBSET Nodes /\ HeapForest(heap, live, held) /\ heap \in Heaps
      /\ Vacant(heap, live)
  BY ForestedIs
<1>1. Fits(p, c) /\ held' = held \ {c} /\ live' = live
  BY DEF InsertItemInArray
<1>4. Members(heap, p) \in Seq(live) /\ Null \notin live
  <2>1. p \in live
    BY <1>1, FitsOutside
  <2> QED BY <1>0, <2>1, MembersList, JsonHeapAssumption
<1>2. CASE x = Null /\ heap' = Appended(heap, p, c)
  <2>1. Tree!Put /\ AppendedTo(p, c)
    BY <1>0, <1>1, <1>2, AppendedStep
  <2>2. InsertedAt(p, x, c)
    BY <1>2, <1>4 DEF InsertedAt
  <2> QED BY <2>1, <2>2
<1>3. CASE x \in ToSet(Members(heap, p)) /\ heap' = InsertedBefore(heap, p, x, c)
  <2>1. /\ p \in live /\ heap[p].ref = FALSE /\ c \in held /\ p \notin Doomed(heap, c)
    BY <1>1, FitsOutside
  <2>2. x \notin Doomed(heap, c)
    BY <1>1, <1>3, MemberOutside
  <2>3. Members(heap, p) \in Seq(live)
    BY <1>0, <2>1, MembersList
  <2>4. PICK i \in 1..Len(Members(heap, p)) : x = Members(heap, p)[i]
    BY <1>3, <2>3, SeqSet
  <2>5. ASSUME NEW j \in 1..Len(Members(heap, p)), x = Members(heap, p)[j]
        PROVE  NowHolds(heap, heap', live, p, InsertAt(Members(heap, p), j, c))
    <3> DEFINE g == InsertedBefore(heap, p, x, c)
    <3> HIDE DEF g
    <3>1. NowHolds(heap, g, live, p, InsertAt(Members(heap, p), j, c))
      BY <1>0, <2>1, <2>2, <2>5, InsertedMembers DEF g
    <3>2. heap' = g
      BY <1>3 DEF g
    <3> QED BY <3>1, <3>2
  <2>6. Vacant(heap', live) /\ heap' \in Heaps
    BY <1>1 DEF Forested, HeapForest
  <2>7. Kids(heap') = [Kids(heap) EXCEPT ![p] = InsertAt(Members(heap, p), i, c)]
    <3>1. Kids(heap') = [Kids(heap) EXCEPT ![p] = Members(heap', p)]
      <4>1. OthersSame(heap, heap', live, p)
        BY <2>4, <2>5 DEF NowHolds
      <4> QED BY <1>0, <2>1, <2>6, <4>1, KidsChanged
    <3> QED BY <2>4, <2>5, <3>1 DEF NowHolds
  <2>8. i \in 1..Len(Members(heap, p)) + 1
    BY <2>3
  <2>9. Tree!Put
    BY <1>1, <2>1, <2>7, <2>8, PutStep
  <2>10. InsertedAt(p, x, c)
    BY <2>5 DEF InsertedAt, NowHolds
  <2>11. x # Null
    BY <1>4, <2>4
  <2> QED BY <2>9, <2>10, <2>11
<1> QED BY <1>2, <1>3 DEF InsertItemInArray

(* cJSON_AddItemReferenceToArray(), ...ToObject().                         *)
LEMMA ReferenceStep ==
  ASSUME Forested, NEW p \in Nodes, NEW c \in Nodes, NEW n \in Nodes, AddItemReference(p, c, n)
  PROVE  Tree!Grow
<1>0. /\ live \in SUBSET Nodes /\ HeapForest(heap, live, held) /\ heap \in Heaps
      /\ Vacant(heap, live) /\ held \in SUBSET live
  BY ForestedIs
<1>1. n \notin live /\ held' = held
  BY DEF AddItemReference
<1>2. PICK g \in Heaps : heap' = Appended(g, p, n) /\ WithNew(g, p, n)
  BY ReferenceIs
<1> DEFINE L == live \cup {n}
           H == held \cup {n}
           g2 == Appended(g, p, n)
<1>4. /\ p \in L /\ n \in H /\ H \ {n} = held /\ HeapForest(g, L, H) /\ Vacant(g, L)
      /\ g[p].ref = FALSE /\ p \notin Doomed(g, n) /\ L \in SUBSET Nodes /\ n \in L
      /\ live \subseteq L /\ p \in live /\ Vacant(heap, L)
  BY <1>0, <1>1, <1>2 DEF WithNew, Vacant
<1>5. KeptLinks(heap, g, live)
  BY <1>2 DEF WithNew, KeptLinks
<1> HIDE DEF L, H, g2
<1>6. HeapForest(g2, L, H \ {n}) /\ Relinked(g, g2, L)
  BY <1>4, AppendedForest DEF g2
<1>7. g2 \in Heaps
  BY <1>6, Zenon DEF HeapForest
<1>8. Vacant(g2, L)
  BY <1>2, <1>4, <1>6, <1>7, RelinkedKeeps
<1>9. /\ Members(g2, p) = InsertAt(Members(g, p), Len(Members(g, p)) + 1, n)
      /\ OthersSame(g, g2, L, p)
  <2>1. NowHolds(g, g2, L, p, InsertAt(Members(g, p), Len(Members(g, p)) + 1, n))
    BY <1>4, AppendedMembers DEF g2
  <2> QED BY <2>1 DEF NowHolds
<1>10. \A q \in live : Members(g, q) = Members(heap, q)
  BY <1>0, <1>4, <1>5, SameMembers
<1>11. Members(g, n) = <<>>
  <2>1. Kd(heap)[n] = Null
    BY <1>0, <1>1, BlankIs DEF Vacant, Kd
  <2>2. Kd(g)[n] = Null
    BY <1>2, <2>1 DEF WithNew
  <2> QED BY <1>4, <2>2, NoKids
<1>12. Kids(g) = Kids(heap)
  <2>1. ASSUME NEW m \in Nodes
        PROVE  Members(g, m) = Members(heap, m)
    <3>1. CASE m \in live
      BY <1>10, <3>1
    <3>2. CASE m = n
      <4>1. Members(heap, n) = <<>>
        BY <1>0, <1>1, VacantMembers
      <4> QED BY <1>11, <3>2, <4>1
    <3>3. CASE m \notin live /\ m # n
      <4>1. m \in Nodes \ L
        BY <3>3 DEF L
      <4>2. Members(heap, m) = <<>>
        BY <1>0, <1>4, <4>1, VacantMembers
      <4>3. Members(g, m) = <<>>
        BY <1>4, <4>1, VacantMembers
      <4> QED BY <4>2, <4>3
    <3> QED BY <3>1, <3>2, <3>3
  <2> QED BY <2>1 DEF Kids
<1>13. Members(g2, p) = Append(Members(heap, p), n)
  <2> DEFINE s == Members(heap, p)
  <2>1. s \in Seq(L)
    <3>1. s \in Seq(live)
      BY <1>0, <1>4, MembersList
    <3> QED BY <1>4, <3>1
  <2> HIDE DEF s
  <2>2. InsertAt(s, Len(s) + 1, n) = Append(s, n)
    BY <1>4, <2>1, InsertLast
  <2>3. Members(g, p) = s
    BY <1>4, <1>10 DEF s
  <2> QED BY <1>9, <2>2, <2>3 DEF s
<1>14. Kids(g2) = [Kids(g) EXCEPT ![p] = Members(g2, p)]
  BY <1>2, <1>4, <1>7, <1>8, <1>9, KidsChanged
<1>15. Kids(heap') = [Kids(heap) EXCEPT ![p] = Append(Members(heap, p), n)]
  BY <1>2, <1>12, <1>13, <1>14 DEF g2
<1> QED BY <1>1, <1>4, <1>15, GrowStep

(* cJSON_AddItemToArray().                                                 *)
LEMMA AddToArrayStep ==
  ASSUME Forested, NEW p \in Nodes, NEW c \in Nodes, AddItemToArray(p, c)
  PROVE  Tree!Put /\ AppendedTo(p, c)
<1>1. Fits(p, c) /\ heap' = Appended(heap, p, c) /\ held' = held \ {c}
  BY DEF AddItemToArray
<1>2. heap \in Heaps
  BY ForestedIs
<1> QED BY <1>1, <1>2, AppendedStep

(* cJSON_AddItemToObject().                                                *)
LEMMA AddToObjectStep ==
  ASSUME Forested, NEW p \in Nodes, NEW c \in Nodes, AddItemToObject(p, c)
  PROVE  Tree!Put /\ AppendedTo(p, c)
<1>1. Fits(p, c) /\ held' = held \ {c}
  BY DEF AddItemToObject
<1>2. PICK key \in {"copy", "none"} : heap' = Appended(WithKey(heap, c, key), p, c)
  BY DEF AddItemToObject
<1> DEFINE g == WithKey(heap, c, key)
<1>3. /\ g \in Heaps /\ \A m \in Nodes : m # c => g[m] = heap[m]
      /\ g[c].ref = heap[c].ref
      /\ Nx(g) = Nx(heap) /\ Pv(g) = Pv(heap) /\ Kd(g) = Kd(heap)
  <2>1. key \in {"none", "copy"} /\ heap \in Heaps
    BY ForestedIs
  <2>2. RekeyedTo(heap, g, c, key, heap[c].const)
    BY <2>1, WithKeyKeeps
  <2> HIDE DEF g
  <2> QED BY <2>2 DEF RekeyedTo
<1>4. heap' = Appended(g, p, c)
  BY <1>2
<1> HIDE DEF g
<1> QED BY <1>1, <1>3, <1>4, AppendedStep

(* cJSON_AddItemToObjectCS().                                              *)
LEMMA AddToObjectCSStep ==
  ASSUME Forested, NEW p \in Nodes, NEW c \in Nodes, AddItemToObjectCS(p, c)
  PROVE  Tree!Put /\ AppendedTo(p, c)
<1>0. PICK const \in BOOLEAN : const = TRUE
  OBVIOUS
<1> DEFINE g == Rekeyed(heap, c, "constant", const)
<1>1. /\ Fits(p, c) /\ held' = held \ {c}
      /\ heap' = Appended([heap EXCEPT ![c].key = "constant", ![c].const = TRUE], p, c)
  BY DEF AddItemToObjectCS
<1>2. heap \in Heaps
  BY ForestedIs
<1>3. [heap EXCEPT ![c].key = "constant", ![c].const = TRUE] = g
  <2>1. heap[c] \in Items
    BY <1>2, FieldTypes
  <2> QED BY <1>0, <1>2, <2>1 DEF Rekeyed, Heaps, Items
<1>4. /\ g \in Heaps /\ \A m \in Nodes : m # c => g[m] = heap[m]
      /\ g[c].ref = heap[c].ref
      /\ Nx(g) = Nx(heap) /\ Pv(g) = Pv(heap) /\ Kd(g) = Kd(heap)
  <2>1. "constant" \in {"none", "copy", "constant"}
    OBVIOUS
  <2>2. RekeyedTo(heap, g, c, "constant", const)
    BY <1>2, <2>1, WithKeyIs
  <2> HIDE DEF g
  <2> QED BY <2>2 DEF RekeyedTo
<1>5. heap' = Appended(g, p, c)
  BY <1>1, <1>3
<1> HIDE DEF g
<1> QED BY <1>1, <1>4, <1>5, AppendedStep

(* What hangs on x in the heap g is what was in it, p excepted.            *)
Parted(g, x, p) == Doomed(g, x) = Family(x) /\ p \notin Family(x)

(* The old item takes along what was in it.                                *)
LEMMA ReplacedContents ==
  ASSUME Forested, NEW p \in live, heap[p].ref = FALSE, NEW c \in held,
         NEW i \in 1..Len(Members(heap, p)), NEW x, x = Members(heap, p)[i],
         NEW h \in Heaps, Nx(h) = Nx(heap), Kd(h) = Kd(heap), Members(h, p) = Members(heap, p),
         NEW g, NEW H, HeapForest(g, live, H), TookPlace(h, g, live, p, i, c)
  PROVE  Parted(g, x, p)
<1> DEFINE C == Contents(x)
           D == Doomed(g, x)
           s == Members(heap, p)
           b == At(s, i - 1)
<1>0. /\ live \in SUBSET Nodes /\ HeapForest(heap, live, held) /\ heap \in Heaps
      /\ Null \notin Nodes /\ p \in Nodes
  <2>1. Null \notin Nodes
    BY JsonHeapAssumption
  <2> QED BY <2>1, ForestedIs
<1>1. x \in live /\ x \in Inner(p) /\ Pv(heap)[x] = b
  BY <1>0, PlaceIs DEF Inner
<1>2. PICK r \in Levels : /\ Leveled(Nx(heap), Kd(heap), live, r)
                          /\ \A n \in live : \A m \in Contents(n) : r[m] > r[n]
  BY ContentsAbove
<1>3. \A m \in live : r[m] \in Int
  BY <1>0 DEF Levels
<1>4. /\ C \in SUBSET live /\ Family(x) = {x} \cup C
      /\ Kd(heap)[x] \in C \cup {Null}
      /\ \A m \in C : Nx(heap)[m] \in C \cup {Null} /\ Kd(heap)[m] \in C \cup {Null}
      /\ \A T \in SUBSET live :
           /\ Kd(heap)[x] \in T \cup {Null}
           /\ \A m \in T : Nx(heap)[m] \in T \cup {Null} /\ Kd(heap)[m] \in T \cup {Null}
           => C \subseteq T
  BY <1>1, ContentsAre
<1>5. r[x] > r[p] /\ x # p
  <2>1. p \in Family(p)
    BY ContentsAre
  <2>2. x \in Contents(p)
    BY <1>1, <2>1, InnerContents
  <2> QED BY <1>2, <1>3, <2>2
<1>6. \A m \in C : r[m] > r[x] /\ m # x /\ m # p /\ m \notin held
  <2>1. \A m \in C : r[m] > r[x]
    BY <1>1, <1>2
  <2>2. \A m \in C : m \notin held
    BY <1>1, ContentsEntered
  <2> QED BY <1>1, <1>3, <1>4, <1>5, <2>1, <2>2
<1>7. \A m \in C : m # b
  <2> SUFFICES ASSUME NEW m \in C, m = b
               PROVE  FALSE
    OBVIOUS
  <2>1. Pv(heap)[x] = m /\ m \in live /\ m # Null
    BY <1>0, <1>1, <1>4
  <2>2. Nx(heap)[m] = x
    <3>1. TwoWay(Nx(heap), Pv(heap), live)
      BY <1>0, HeapForestIs
    <3> QED BY <1>1, <2>1, <3>1 DEF TwoWay
  <2>3. r[x] = r[m]
    BY <1>0, <1>1, <1>2, <2>1, <2>2 DEF Leveled
  <2> QED BY <1>1, <1>3, <1>6, <2>1, <2>3
<1>8. /\ \A m \in C : Nx(g)[m] = Nx(heap)[m] /\ Kd(g)[m] = Kd(heap)[m]
      /\ Nx(g)[x] = Null /\ Kd(g)[x] = Kd(heap)[x]
  <2>1. \A m \in live : /\ Nx(g)[m] = IF m = x THEN Null ELSE IF m = c THEN At(s, i + 1)
                                      ELSE IF m = b THEN c ELSE Nx(heap)[m]
                        /\ Kd(g)[m] = IF m = p /\ i = 1 THEN c ELSE Kd(heap)[m]
    BY DEF TookPlace
  <2> HIDE DEF s, b, C
  <2> QED BY <1>1, <1>4, <1>5, <1>6, <1>7, <2>1
<1> HIDE DEF C, s, b
<1>9. /\ x \in D /\ D \in SUBSET live
      /\ \A m \in D : Nx(g)[m] \in D \cup {Null} /\ Kd(g)[m] \in D \cup {Null}
      /\ \A T \in SUBSET live :
           /\ x \in T
           /\ \A m \in T : Nx(g)[m] \in T \cup {Null} /\ Kd(g)[m] \in T \cup {Null}
           => D \subseteq T
  <2>1. HeapForest(g, live, H) /\ x \in live
    BY <1>1
  <2> QED BY ONLY <2>1, DoomedForest
<1> HIDE DEF D
<1>10. D \subseteq {x} \cup C
  <2> DEFINE T == {x} \cup C
  <2>1. T \in SUBSET live /\ x \in T
    BY <1>1, <1>4
  <2>2. \A m \in T : Nx(g)[m] \in T \cup {Null} /\ Kd(g)[m] \in T \cup {Null}
    BY <1>4, <1>8
  <2> HIDE DEF T
  <2>3. D \subseteq T
    BY <1>9, <2>1, <2>2
  <2> QED BY <2>3 DEF T
<1>11. C \subseteq D
  <2> DEFINE T == C \cap D
  <2>1. T \in SUBSET live /\ Kd(heap)[x] \in T \cup {Null}
    BY <1>4, <1>8, <1>9
  <2>2. \A m \in T : Nx(heap)[m] \in T \cup {Null} /\ Kd(heap)[m] \in T \cup {Null}
    BY <1>4, <1>8, <1>9
  <2> HIDE DEF T
  <2>3. C \subseteq T
    BY <1>4, <2>1, <2>2
  <2> QED BY <2>3 DEF T
<1> QED BY <1>4, <1>5, <1>6, <1>9, <1>10, <1>11 DEF D, Parted

(* A replacement, of a heap with the links of the one before.              *)
LEMMA ReplaceInStep ==
  ASSUME Forested, NEW p, NEW x, NEW c, Fits(p, c), x \in ToSet(Members(heap, p)),
         NEW h \in Heaps, \A m \in Nodes : m # c => h[m] = heap[m],
         h[c].ref = heap[c].ref,
         Nx(h) = Nx(heap), Pv(h) = Pv(heap), Kd(h) = Kd(heap),
         heap' = Freed(PutInPlace(h, p, x, c), x), held' = held \ {c}
  PROVE  Tree!Replace /\ ReplacedAt(p, x, c)
<1> DEFINE s == Members(heap, p)
           g == PutInPlace(h, p, x, c)
           H == (held \ {c}) \cup {x}
<1>0. /\ live \in SUBSET Nodes /\ HeapForest(heap, live, held) /\ heap \in Heaps
      /\ Vacant(heap, live)
  BY ForestedIs
<1>1. /\ p \in live /\ heap[p].ref = FALSE /\ p \in Nodes /\ c \in held /\ c \in live
      /\ c \in Nodes /\ p \notin Doomed(heap, c)
  BY FitsOutside
<1>2. /\ HeapForest(h, live, held) /\ Vacant(h, live) /\ Kids(h) = Kids(heap)
      /\ \A m \in live : Members(h, m) = Members(heap, m) /\ Doomed(h, m) = Doomed(heap, m)
  BY <1>1, KidsRekeyed
<1>3. s \in Seq(live)
  BY <1>0, <1>1, MembersList
<1>4. PICK i \in 1..Len(s) : x = s[i]
  BY <1>3, SeqSet
<1>5. /\ x \in live /\ Nx(h)[x] # x /\ x \notin Doomed(h, c)
      /\ Kd(h)[p] = x \/ Pv(h)[x] # Null
      /\ Kd(h)[p] # Null /\ Within(Nx(h), Kd(h), live, p, x)
  <2>1. /\ x \in live /\ Nx(heap)[x] # x /\ x \notin Doomed(heap, c)
        /\ Kd(heap)[p] = x \/ Pv(heap)[x] # Null
        /\ Kd(heap)[p] # Null /\ Within(Nx(heap), Kd(heap), live, p, x)
    BY MemberOutside
  <2>2. Doomed(h, c) = Doomed(heap, c)
    BY <1>1, <1>2
  <2> QED BY <2>1, <2>2
<1>6. h[p].ref = FALSE /\ Members(h, p) = s
  BY <1>1, <1>2
<1>7. HeapForest(g, live, H) /\ Relinked(h, g, live)
  BY <1>1, <1>2, <1>5, <1>6, PutForest
<1>8. NowHolds(h, g, live, p, [s EXCEPT ![i] = c]) /\ TookPlace(h, g, live, p, i, c)
  <2>1. i \in 1..Len(Members(h, p)) /\ x = Members(h, p)[i]
    BY <1>4, <1>6
  <2>2. /\ NowHolds(h, g, live, p, [Members(h, p) EXCEPT ![i] = c])
        /\ TookPlace(h, g, live, p, i, c)
    BY <1>1, <1>2, <1>5, <1>6, <2>1, PutMembers
  <2> QED BY <1>6, <2>2
<1> HIDE DEF g, H
<1>9. g \in Heaps
  BY <1>7, Zenon DEF HeapForest
<1>10. Vacant(g, live)
  BY <1>0, <1>2, <1>7, <1>9, RelinkedKeeps
<1> DEFINE D == Doomed(g, x)
           h2 == Freed(g, x)
<1>11. D = Family(x) /\ p \notin D
  <2>1. x = Members(heap, p)[i] /\ i \in 1..Len(Members(heap, p))
    BY <1>4
  <2> HIDE DEF s
  <2>2. Members(h, p) = Members(heap, p)
    BY <1>1, <1>2
  <2>3. Parted(g, x, p)
    BY <1>1, <1>7, <1>8, <2>1, <2>2, ReplacedContents
  <2> QED BY <2>3 DEF Parted
<1>12. Vacant(h2, live \ D) /\ HeapForest(h2, live \ D, H \ {x})
  <2>1. x \in H
    BY DEF H
  <2> QED BY <1>7, <1>10, <2>1, FreedForest
<1>13. \A m \in live : m \notin D => Members(h2, m) = Members(g, m)
  <2>1. x \in H
    BY DEF H
  <2> QED BY <1>7, <1>10, <2>1, FreedMembers
<1> HIDE DEF D, h2
<1>14. h2 \in Heaps
  BY <1>12, Zenon DEF HeapForest
<1> DEFINE t == [s EXCEPT ![i] = c]
<1> HIDE DEF t
<1>15. ASSUME NEW m \in Nodes
       PROVE  Members(h2, m) = IF m = p THEN t
                               ELSE IF m \in Family(x) THEN <<>> ELSE Members(heap, m)
  <2>1. CASE m = p
    BY <1>1, <1>8, <1>11, <1>13, <2>1 DEF NowHolds, t
  <2>2. CASE m # p /\ m \in live \ D
    <3>1. Members(h2, m) = Members(g, m) /\ Members(g, m) = Members(h, m)
      BY <1>8, <1>13, <2>2 DEF NowHolds, OthersSame
    <3> QED BY <1>2, <1>11, <2>2, <3>1
  <2>3. CASE m # p /\ m \notin live \ D
    <3>1. Members(h2, m) = <<>>
      BY <1>12, <1>14, <2>3, VacantMembers
    <3>2. m \notin D => Members(heap, m) = <<>>
      BY <1>0, <2>3, VacantMembers
    <3> QED BY <1>11, <2>3, <3>1, <3>2
  <2> QED BY <2>1, <2>2, <2>3
<1>16. Kids(h2) = [KidsWithout(x) EXCEPT ![p] = t]
  BY <1>1, <1>15 DEF Kids, KidsWithout
<1>17. Kids(heap') = [KidsWithout(Members(heap, p)[i]) EXCEPT
                        ![p] = [Members(heap, p) EXCEPT ![i] = c]]
  BY <1>4, <1>16 DEF g, h2, t, s
<1>18. i \in 1..Len(Members(heap, p))
  BY <1>4
<1>19. ReplacedAt(p, x, c)
  <2> SUFFICES ASSUME NEW j \in 1..Len(s), x = s[j]
               PROVE  Members(heap', p) = [s EXCEPT ![j] = c]
    BY DEF ReplacedAt
  <2>1. NoTwice(s)
    BY <1>0, <1>1, MembersDistinct
  <2>2. j = i
    BY <1>4, <2>1 DEF NoTwice
  <2>3. Members(h2, p) = t
    BY <1>1, <1>15
  <2> QED BY <2>2, <2>3 DEF g, h2, t
<1> HIDE DEF s
<1>20. Tree!Replace
  BY <1>1, <1>17, <1>18, ReplaceStep
<1> QED BY <1>19, <1>20

(* cJSON_ReplaceItemInArray().                                             *)
LEMMA ReplaceInArrayStep ==
  ASSUME Forested, NEW p \in Nodes, NEW x \in Nodes, NEW c \in Nodes, ReplaceItemInArray(p, x, c)
  PROVE  Tree!Replace /\ ReplacedAt(p, x, c)
<1>1. /\ Fits(p, c) /\ x \in ToSet(Members(heap, p))
      /\ heap' = Freed(PutInPlace(heap, p, x, c), x) /\ held' = held \ {c}
  BY DEF ReplaceItemInArray, ReplaceIn
<1>2. heap \in Heaps
  BY ForestedIs
<1> QED BY <1>1, <1>2, ReplaceInStep

(* cJSON_ReplaceItemInObject().                                            *)
LEMMA ReplaceInObjectStep ==
  ASSUME Forested, NEW p \in Nodes, NEW x \in Nodes, NEW c \in Nodes, ReplaceItemInObject(p, x, c)
  PROVE  Tree!Replace /\ ReplacedAt(p, x, c)
<1>1. /\ Fits(p, c) /\ x \in ToSet(Members(heap, p))
  BY DEF ReplaceItemInObject
<1>2. PICK key \in {"copy", "none"} :
        heap' = Freed(PutInPlace(WithKey(heap, c, key), p, x, c), x) /\ held' = held \ {c}
  BY DEF ReplaceItemInObject, ReplaceIn
<1> DEFINE g == WithKey(heap, c, key)
<1>3. /\ g \in Heaps /\ \A m \in Nodes : m # c => g[m] = heap[m]
      /\ g[c].ref = heap[c].ref
      /\ Nx(g) = Nx(heap) /\ Pv(g) = Pv(heap) /\ Kd(g) = Kd(heap)
  <2>1. key \in {"none", "copy"} /\ heap \in Heaps
    BY ForestedIs
  <2>2. RekeyedTo(heap, g, c, key, heap[c].const)
    BY <2>1, WithKeyKeeps
  <2> HIDE DEF g
  <2> QED BY <2>2 DEF RekeyedTo
<1>4. heap' = Freed(PutInPlace(g, p, x, c), x) /\ held' = held \ {c}
  BY <1>2
<1> HIDE DEF g
<1> QED BY <1>1, <1>3, <1>4, ReplaceInStep

(* What the copies leave alone.                                            *)
LEMMA CopiesKeep ==
  ASSUME Forested, NEW S \in SUBSET live, NEW copy \in [S -> Nodes \ live],
         NEW h \in Heaps, \A m \in Nodes \ Made(copy, S) : h[m] = heap[m],
         NEW L, NEW H, HeapForest(h, L, H), Vacant(h, L), live \subseteq L,
         L \subseteq live \cup Made(copy, S)
  PROVE  /\ \A q \in live : Members(h, q) = Members(heap, q)
         /\ \A q \in Nodes \ L : Members(h, q) = <<>> /\ Members(heap, q) = <<>>
<1>1. /\ live \in SUBSET Nodes /\ HeapForest(heap, live, held) /\ heap \in Heaps
      /\ Vacant(heap, live)
  BY ForestedIs
<1>2. KeptLinks(heap, h, live)
  <2> SUFFICES ASSUME NEW m \in live
               PROVE  Nx(h)[m] = Nx(heap)[m] /\ Kd(h)[m] = Kd(heap)[m]
    BY DEF KeptLinks
  <2>1. m \in Nodes \ Made(copy, S)
    BY <1>1 DEF Made
  <2> QED BY <2>1 DEF Nx, Kd
<1>3. ASSUME NEW q \in live
      PROVE  Members(h, q) = Members(heap, q)
  BY <1>1, <1>2, SameMembers
<1>4. ASSUME NEW q \in Nodes \ L
      PROVE  Members(h, q) = <<>> /\ Members(heap, q) = <<>>
  <2>1. q \in Nodes \ live
    BY <1>4
  <2>2. Members(heap, q) = <<>>
    BY <1>1, <2>1, VacantMembers
  <2>3. Members(h, q) = <<>>
    BY <1>4, VacantMembers
  <2> QED BY <2>2, <2>3
<1> QED BY <1>3, <1>4

(* The items in the copy of s are the copies of those in s.                *)
LikeOriginal(h, copy, s) ==
  Members(h, copy[s]) = [i \in DOMAIN Members(heap, s) |-> copy[Members(heap, s)[i]]]

(* The copy of an item in n has the copies of what is in that item.        *)
LEMMA CopiedMembers ==
  ASSUME Forested, NEW n \in live, NEW copy \in [Family(n) -> Nodes \ live],
         NEW h, NEW L, NEW H, HeapForest(h, L, H),
         \A m \in Family(n) : h[copy[m]] = CopyItem(copy, Family(n), {}, n, m),
         NEW s \in Family(n), copy[s] \in L
  PROVE  LikeOriginal(h, copy, s)
<1> DEFINE S == Family(n)
           l == Members(heap, s)
           t == [i \in 1..Len(l) |-> copy[l[i]]]
<1>0. /\ live \in SUBSET Nodes /\ HeapForest(heap, live, held) /\ heap \in Heaps
      /\ Null \notin Nodes
  <2>1. Null \notin Nodes
    BY JsonHeapAssumption
  <2> QED BY <2>1, ForestedIs
<1>1. S \in SUBSET live /\ n \in S /\ s \in live /\ Contents(n) \subseteq S
  <2>1. S = {n} \cup Contents(n) /\ Contents(n) \in SUBSET live
    BY ContentsAre
  <2> QED BY <2>1
<1>2. IsList(Nx(heap), Kd(heap)[s], l) /\ l \in Seq(live)
  BY <1>0, <1>1, MembersList
<1>3. \A i \in 1..Len(l) : l[i] \in S /\ l[i] # n
  <2>1. Inner(s) \subseteq Contents(n)
    BY InnerContents
  <2>2. \A x \in Contents(n) : x \in S /\ x # n
    BY <1>1, ContentsEntered
  <2>3. \A i \in 1..Len(l) : l[i] \in Inner(s)
    BY <1>2, SeqSet DEF Inner
  <2> QED BY <2>1, <2>2, <2>3
<1>4. \A m \in S : /\ h[copy[m]].ref = FALSE
                   /\ h[copy[m]].child = Copied(copy, S, {}, Kd(heap)[m])
                   /\ m # n => h[copy[m]].next = Copied(copy, S, {}, Nx(heap)[m])
  <2> SUFFICES ASSUME NEW m \in S
               PROVE  /\ h[copy[m]].ref = FALSE
                      /\ h[copy[m]].child = Copied(copy, S, {}, Kd(heap)[m])
                      /\ m # n => h[copy[m]].next = Copied(copy, S, {}, Nx(heap)[m])
    OBVIOUS
  <2>1. h[copy[m]] = CopyItem(copy, S, {}, n, m)
    OBVIOUS
  <2> HIDE DEF S
  <2> QED BY <2>1 DEF CopyItem
<1>5. \A m \in S : copy[m] \in Nodes
  OBVIOUS
<1>6. /\ \A m \in S : m # n => Nx(h)[copy[m]] = Copied(copy, S, {}, Nx(heap)[m])
      /\ Kd(h)[copy[s]] = Copied(copy, S, {}, Kd(heap)[s])
  BY <1>4, <1>5 DEF Nx, Kd
<1> HIDE DEF S, l
<1>7. Len(l) \in Nat /\ t \in Seq(Nodes) /\ Len(t) = Len(l) /\ \A i \in 1..Len(l) : t[i] = copy[l[i]]
  <2>1. Len(l) \in Nat
    BY <1>2
  <2>2. \A i \in 1..Len(l) : copy[l[i]] \in Nodes
    BY <1>3, <1>5
  <2> QED BY <2>1, <2>2
<1> HIDE DEF t
<1>8. ASSUME NEW k
      PROVE  At(t, k) = Copied(copy, S, {}, At(l, k))
  <2>1. CASE k \in 1..Len(l)
    BY <1>3, <1>7, <2>1 DEF At, Copied
  <2>2. CASE k \notin 1..Len(l)
    <3>1. Null \notin S
      BY <1>0, <1>1
    <3> QED BY <1>7, <2>2, <3>1 DEF At, Copied
  <2> QED BY <2>1, <2>2
<1>9. Kd(h)[copy[s]] = At(t, 1)
  BY <1>2, <1>6, <1>8 DEF IsList
<1>10. ASSUME NEW i \in 1..Len(t)
       PROVE  Nx(h)[t[i]] = At(t, i + 1)
  <2>1. i \in 1..Len(l) /\ t[i] = copy[l[i]] /\ l[i] \in S /\ l[i] # n
    BY <1>3, <1>7
  <2>2. Nx(heap)[l[i]] = At(l, i + 1)
    BY <1>2, <2>1 DEF IsList
  <2> QED BY <1>6, <1>8, <2>1, <2>2
<1>11. IsList(Nx(h), Kd(h)[copy[s]], t)
  BY <1>7, <1>9, <1>10 DEF IsList
<1>12. Members(h, copy[s]) = t
  BY <1>11, MembersWhen
<1>13. DOMAIN l = 1..Len(l)
  BY <1>2
<1>14. t = [i \in DOMAIN l |-> copy[l[i]]]
  BY <1>13 DEF t
<1> QED BY <1>12, <1>14 DEF l, LikeOriginal

(* cJSON_Duplicate().                                                      *)
LEMMA DuplicatedStep ==
  ASSUME Forested, NEW n \in Nodes, Duplicate(n), Forested'
  PROVE  Tree!Create \/ Tree!Duplicate
<1>0. /\ Duplicable(n) /\ live \in SUBSET Nodes /\ heap \in Heaps /\ Vacant(heap, live)
      /\ HeapForest(heap, live, held)
  BY ForestedIs DEF Duplicate
<1>1. PICK S \in {{n}, Family(n)} : \E copy \in Injection(S, Nodes \ live) :
        /\ heap' = Copies(copy, n, {})
        /\ live' = live \cup Range(copy)
        /\ held' = held \cup {copy[n]}
  BY DEF Duplicate
<1>2. PICK copy \in Injection(S, Nodes \ live) :
        /\ heap' = Copies(copy, n, {})
        /\ live' = live \cup Range(copy)
        /\ held' = held \cup {copy[n]}
  BY <1>1
<1>3. n \in live /\ \A m \in Family(n) : heap[m].ref = FALSE
  BY <1>0, DuplicableIs
<1>4. n \in S /\ S \in SUBSET Family(n) /\ S \in SUBSET live /\ {} \in SUBSET S
  BY <1>3, FamilyIs
<1>5. \A s \in S : heap[s].ref = FALSE
  BY <1>3, <1>4
<1>6. /\ copy \in [S -> Nodes \ live] /\ \A s, t \in S : copy[s] = copy[t] => s = t
      /\ Range(copy) = Made(copy, S)
      /\ \A s \in S : heap'[copy[s]] = CopyItem(copy, S, {}, n, s)
      /\ \A m \in Nodes \ Made(copy, S) : heap'[m] = heap[m]
  <2>1. copy \in [S -> Nodes \ live] /\ \A s, t \in S : copy[s] = copy[t] => s = t
    BY DEF Injection, IsInjective
  <2>2. Range(copy) = Made(copy, S)
    BY <1>3, <1>4, <1>5, CopiesAre
  <2>3. CopiedTo(heap', copy, S, {}, n)
    BY <1>2, <1>3, <1>4, <1>5, CopiesAre
  <2> QED BY <2>1, <2>2, <2>3 DEF CopiedTo
<1>7. HeapForest(heap', live', held') /\ Vacant(heap', live') /\ live' = live \cup Made(copy, S)
  BY <1>2, <1>6 DEF Forested
<1>8. heap' \in Heaps
  BY <1>7, Zenon DEF HeapForest
<1>9. /\ \A q \in live : Members(heap', q) = Members(heap, q)
      /\ \A q \in Nodes \ live' : Members(heap', q) = <<>> /\ Members(heap, q) = <<>>
  <2> DEFINE h == heap'
             L == live'
             H == held'
  <2>1. /\ h \in Heaps /\ \A m \in Nodes \ Made(copy, S) : h[m] = heap[m]
        /\ HeapForest(h, L, H) /\ Vacant(h, L) /\ live \subseteq L
        /\ L \subseteq live \cup Made(copy, S)
    BY <1>6, <1>7, <1>8
  <2> HIDE DEF h, L, H
  <2>2. /\ \A q \in live : Members(h, q) = Members(heap, q)
        /\ \A q \in Nodes \ L : Members(h, q) = <<>> /\ Members(heap, q) = <<>>
    BY <1>4, <1>6, <2>1, CopiesKeep
  <2> QED BY <2>2 DEF h, L
<1>10. CASE S = {n}
  <2> DEFINE m == copy[n]
  <2>1. m \in Nodes \ live /\ Made(copy, S) = {m} /\ m \in live'
    BY <1>4, <1>6, <1>7, <1>10 DEF Made
  <2>2. Kd(heap')[m] = Null
    <3>1. Kd(heap)[n] # n
      <4>1. OnTop(Nx(heap), Kd(heap), S, {}, n)
        BY <1>3, <1>4, FamilyOnTop
      <4> QED BY <1>4, <4>1 DEF OnTop
    <3>2. heap'[m].child = Null
      BY <1>4, <1>6, <1>10, <3>1 DEF CopyItem, Copied
    <3> QED BY <2>1, <3>2 DEF Kd
  <2> HIDE DEF m
  <2>3. Members(heap', m) = <<>>
    BY <1>7, <2>1, <2>2, NoKids
  <2>4. Members(heap, m) = <<>>
    BY <1>0, <2>1, VacantMembers
  <2>5. \A q \in Nodes : Members(heap', q) = Members(heap, q)
    BY <1>7, <1>9, <2>1, <2>3, <2>4
  <2>6. Kids(heap') = Kids(heap)
    BY <2>5 DEF Kids
  <2>7. held' = held \cup {m}
    BY <1>2 DEF m
  <2>8. Tree!Create
    BY <2>1, <2>6, <2>7, CreateStep
  <2> QED BY <2>8
<1>11. CASE S = Family(n)
  <2>1. ASSUME NEW s \in Family(n)
        PROVE  /\ AntiFunction(copy)[copy[s]] = s
               /\ Members(heap', copy[s])
                    = [i \in DOMAIN Members(heap, s) |-> copy[Members(heap, s)[i]]]
    <3>1. AntiFunction(copy)[copy[s]] = s
      <4>1. copy[s] \in Range(copy)
        BY <1>6, <1>11 DEF Made
      <4>2. AntiFunction(copy)[copy[s]]
              = CHOOSE t \in S : copy[s] \in Range(copy) => copy[t] = copy[s]
        BY <1>6, <4>1 DEF AntiFunction, Inverse
      <4>3. \A t \in S : copy[t] = copy[s] => t = s
        BY <1>6, <1>11
      <4> QED BY <1>11, <4>1, <4>2, <4>3
    <3>2. copy[s] \in live'
      BY <1>7, <1>11 DEF Made
    <3>3. /\ copy \in [Family(n) -> Nodes \ live]
          /\ \A m \in Family(n) : heap'[copy[m]] = CopyItem(copy, Family(n), {}, n, m)
      BY <1>6, <1>11
    <3> DEFINE h == heap'
               L == live'
               H == held'
    <3>4. /\ HeapForest(h, L, H) /\ copy[s] \in L
          /\ \A m \in Family(n) : h[copy[m]] = CopyItem(copy, Family(n), {}, n, m)
      BY <1>7, <3>2, <3>3
    <3> HIDE DEF h, L, H
    <3>5. LikeOriginal(h, copy, s)
      BY <1>3, <3>3, <3>4, CopiedMembers
    <3> QED BY <3>1, <3>5 DEF LikeOriginal, h
  <2>2. ASSUME NEW m \in Nodes
        PROVE  Kids(heap')[m] = KidsCopied(copy, Family(n))[m]
    <3>1. CASE m \in Range(copy)
      <4>1. PICK s \in Family(n) : m = copy[s]
        BY <1>6, <1>11, <3>1 DEF Made
      <4>2. AntiFunction(copy)[m] = s
        BY <2>1, <4>1
      <4>3. KidsCopied(copy, Family(n))[m]
              = [i \in DOMAIN Members(heap, s) |-> copy[Members(heap, s)[i]]]
        BY <3>1, <4>2 DEF KidsCopied
      <4>4. Members(heap', m) = [i \in DOMAIN Members(heap, s) |-> copy[Members(heap, s)[i]]]
        BY <2>1, <4>1
      <4> QED BY <4>3, <4>4 DEF Kids
    <3>2. CASE m \notin Range(copy)
      <4>1. Members(heap', m) = Members(heap, m)
        BY <1>6, <1>7, <1>9, <3>2
      <4> QED BY <3>2, <4>1 DEF Kids, KidsCopied
    <3> QED BY <3>1, <3>2
  <2>3. Kids(heap') = KidsCopied(copy, Family(n))
    BY <2>2, Zenon DEF Kids, KidsCopied
  <2>4. copy \in Injection(Family(n), Nodes \ live) /\ held' = held \cup {copy[n]}
    BY <1>2, <1>11
  <2>5. Tree!Duplicate
    BY <1>3, <2>3, <2>4, DuplicateStep
  <2> QED BY <2>5
<1> QED BY <1>10, <1>11

(* A heap in which the items of the caller hang together as before has no  *)
(* other items.                                                            *)
LEMMA SameKids ==
  ASSUME Forested, NEW h, NEW L, HeapForest(h, L, held), Vacant(h, L),
         live \subseteq L, KeptLinks(heap, h, live)
  PROVE  Kids(h) = Kids(heap)
<1>1. /\ live \in SUBSET Nodes /\ held \in SUBSET live /\ HeapForest(heap, live, held)
      /\ heap \in Heaps /\ Vacant(heap, live)
  BY ForestedIs
<1>2. LinksIn(Nx(heap), Pv(heap), Kd(heap), live)
  BY <1>1, HeapForestIs
<1>3. Along(Nx(h), Kd(h), live)
  BY <1>2 DEF Along, KeptLinks, LinksIn
<1>4. Covered(Nx(h), Kd(h), L, held)
  BY DEF HeapForest, Forest
<1>5. live = L
  BY <1>1, <1>3, <1>4 DEF Covered
<1>6. h \in Heaps
  BY DEF HeapForest
<1>7. ASSUME NEW q \in Nodes
      PROVE  Members(h, q) = Members(heap, q)
  <2>1. CASE q \in live
    BY <1>1, <2>1, SameMembers
  <2>2. CASE q \notin live
    <3>1. Members(h, q) = <<>>
      BY <1>5, <1>6, <2>2, VacantMembers
    <3>2. Members(heap, q) = <<>>
      BY <1>1, <2>2, VacantMembers
    <3> QED BY <3>1, <3>2
  <2> QED BY <2>1, <2>2
<1> QED BY <1>7 DEF Kids

(* cJSON_Duplicate() out of memory leaves what there was.                  *)
LEMMA DuplicateFailsStep ==
  ASSUME Forested, NEW n \in Nodes, NEW m \in Nodes, DuplicateFails(n, m)
  PROVE  Kids(heap') = Kids(heap)
<1>0. /\ live \in SUBSET Nodes /\ HeapForest(heap, live, held) /\ heap \in Heaps
      /\ Null \notin Nodes
  <2>1. Null \notin Nodes
    BY JsonHeapAssumption
  <2> QED BY <2>1, ForestedIs
<1>1. n \in live
  BY DuplicateFailsIs
<1>2. PICK S \in SUBSET live : \E U \in SUBSET S : \E copy \in Injection(S, Nodes \ live) :
        GaveUp(n, S, U, copy)
  BY DuplicateFailsIs
<1>3. PICK U \in SUBSET S : \E copy \in Injection(S, Nodes \ live) : GaveUp(n, S, U, copy)
  BY <1>2
<1>4. PICK copy \in Injection(S, Nodes \ live) : GaveUp(n, S, U, copy)
  BY <1>3
<1> DEFINE h == Copies(copy, n, U)
           gone == GivenUp(h, copy, U)
           g == Purged(h, gone)
           M == Made(copy, S)
           L == live \cup M
           H == held \cup Loose(copy, S, U, n)
<1>5. /\ \A s \in S : heap[s].ref = FALSE
      /\ n \in S => n \in U
      /\ HeapForest(h, L, H) /\ Vacant(h, L)
      /\ heap' = g
  BY <1>4, Zenon DEF GaveUp
<1>6. CopiedTo(h, copy, S, U, n)
  BY <1>1, <1>5, CopiesAre
<1>7. copy \in [S -> Nodes \ live]
  BY DEF Injection
<1> HIDE DEF h
<1>8. /\ gone \in SUBSET Nodes /\ HeapForest(g, L \ gone, held) /\ Vacant(g, L \ gone)
  BY <1>1, <1>5, GivenUpForest
<1>9. M \in SUBSET L /\ M \cap live = {} /\ M \in SUBSET Nodes /\ \A s \in S : copy[s] \in M
  BY <1>7 DEF Made
<1>10. ASSUME NEW k \in M
       PROVE  Nx(h)[k] \in M \cup {Null} /\ Kd(h)[k] \in M \cup {Null}
  <2>1. PICK s \in S : k = copy[s]
    BY DEF Made
  <2>2. h[k] = CopyItem(copy, S, U, n, s)
    BY <1>6, <2>1 DEF CopiedTo
  <2>3. \A x : Copied(copy, S, U, x) \in M \cup {Null}
    BY <1>9 DEF Copied
  <2> HIDE DEF M
  <2>4. h[k].next \in M \cup {Null} /\ h[k].child \in M \cup {Null}
    BY <2>2, <2>3 DEF CopyItem
  <2> QED BY <1>9, <2>4 DEF Nx, Kd
<1> HIDE DEF M
<1>11. gone \subseteq M
  <2> SUFFICES ASSUME NEW x \in U
               PROVE  Doomed(h, copy[x]) \subseteq M
    BY DEF GivenUp
  <2>1. copy[x] \in M /\ copy[x] \in L
    BY <1>9
  <2> DEFINE y == copy[x]
  <2> HIDE DEF y, L, H
  <2>2. M \in SUBSET L /\ y \in M /\ y \in L /\ Along(Nx(h), Kd(h), M)
    BY <1>9, <1>10, <2>1 DEF y, Along
  <2>3. Doomed(h, y) \subseteq M
    BY <1>5, <2>2, DoomedLeast
  <2> QED BY <2>3 DEF y
<1>12. live \subseteq L \ gone
  BY <1>9, <1>11
<1>13. KeptLinks(heap, g, live)
  <2> SUFFICES ASSUME NEW k \in live
               PROVE  Nx(g)[k] = Nx(heap)[k] /\ Kd(g)[k] = Kd(heap)[k]
    BY DEF KeptLinks
  <2>1. k \in Nodes /\ k \notin gone /\ k \notin M
    BY <1>0, <1>9, <1>12
  <2>2. h[k] = heap[k]
    BY <1>6, <2>1 DEF CopiedTo, M
  <2> HIDE DEF gone
  <2>3. g[k] = heap[k]
    BY <2>1, <2>2 DEF Purged
  <2> HIDE DEF g
  <2> QED BY <2>1, <2>3 DEF Nx, Kd
<1> HIDE DEF g, L, gone
<1>14. Kids(g) = Kids(heap)
  BY <1>8, <1>12, <1>13, SameKids
<1> QED BY <1>5, <1>14

(* cJSON_CreateIntArray() and its sisters, with a failure on the way.      *)
LEMMA CreateListsStep ==
  ASSUME Forested, CreateLists
  PROVE  Tree!Build \/ (held' = held /\ Kids(heap') = Kids(heap))
<1>0. /\ live \in SUBSET Nodes /\ held \in SUBSET live /\ heap \in Heaps /\ Vacant(heap, live)
  BY ForestedIs
<1>1. PICK k \in 1..Cardinality(Nodes \ live) - 1 :
        \E new \in Injection(1..k + 1, Nodes \ live) : CreateList(Head(new), Tail(new))
  BY DEF CreateLists
<1>2. PICK new \in Injection(1..k + 1, Nodes \ live) : CreateList(Head(new), Tail(new))
  BY <1>1
<1> DEFINE a == Head(new)
           e == Tail(new)
           f == Front(e)
<1>3. k \in Nat /\ k >= 1
  <2>1. Cardinality(Nodes \ live) \in Nat
    BY JsonHeapAssumption, FS_Subset, FS_CardinalityType
  <2> QED BY <2>1
<1>4. /\ a \in Nodes \ live /\ e \in Seq(Nodes \ live) /\ f \in Seq(Nodes \ live)
      /\ Distinct(a, e) /\ Distinct(a, f)
  BY <1>3, ListParts
<1>5. e # <<>>
  <2>1. new \in [1..k + 1 -> Nodes \ live]
    BY DEF Injection
  <2>2. new \in Seq(Nodes \ live) /\ Len(new) = k + 1
    BY <1>3, <2>1
  <2>3. Len(e) = k
    BY <1>3, <2>2
  <2> HIDE DEF e
  <2>4. Len(<<>>) = 0
    OBVIOUS
  <2> QED BY <1>3, <2>3, <2>4
<1>6. \/ heap' = Chained(a, e) /\ held' = held \cup {a}
      \/ heap' = Freed(Chained(a, f), a) /\ held' = held
  BY <1>2, Zenon DEF CreateList
<1> HIDE DEF a, e, f
<1>7. CASE heap' = Chained(a, e) /\ held' = held \cup {a}
  <2>1. /\ Members(Chained(a, e), a) = e
        /\ \A q \in Nodes \ {a} : Members(Chained(a, e), q) = Members(heap, q)
    BY <1>4, ChainedForest DEF Distinct
  <2>2. Kids(heap') = [Kids(heap) EXCEPT ![a] = e]
    BY <1>4, <1>7, <2>1 DEF Kids
  <2>3. Tree!Build
    BY <1>4, <1>5, <1>7, <2>2, BuildStep
  <2> QED BY <2>3
<1>8. CASE heap' = Freed(Chained(a, f), a) /\ held' = held
  <2> DEFINE h == Chained(a, f)
             L == live \cup {a} \cup ToSet(f)
             H == held \cup {a}
             D == Doomed(h, a)
             g == Freed(h, a)
  <2>1. /\ HeapForest(h, L, H) /\ Vacant(h, L)
        /\ Members(h, a) = f
        /\ \A q \in Nodes \ {a} : Members(h, q) = Members(heap, q)
    BY <1>4, ChainedForest DEF Distinct
  <2>2. a \in H /\ a \in L /\ L \in SUBSET Nodes
    BY <1>0, <1>4 DEF ToSet
  <2>3. D \cap live = {}
    BY <1>4, <2>1, <2>2, ChainDoomed
  <2> HIDE DEF h
  <2>4. a \in D
    <3> HIDE DEF H, L
    <3> QED BY <2>1, <2>2, DoomedForest
  <2>5. HeapForest(g, L \ D, H \ {a}) /\ Vacant(g, L \ D)
    BY <2>1, <2>2, FreedForest
  <2>6. \A q \in L : q \notin D => Members(g, q) = Members(h, q)
    BY <2>1, <2>2, FreedMembers
  <2> HIDE DEF g, D
  <2>7. g \in Heaps
    BY <2>5, Zenon DEF HeapForest
  <2>8. ASSUME NEW q \in Nodes
        PROVE  Members(g, q) = Members(heap, q)
    <3>1. CASE q \in L /\ q \notin D
      BY <2>1, <2>4, <2>6, <3>1
    <3>2. CASE q \notin L \ D
      <4>1. Members(g, q) = <<>>
        BY <2>5, <2>7, <3>2, VacantMembers
      <4>2. q \notin live
        BY <2>3, <3>2
      <4>3. Members(heap, q) = <<>>
        BY <1>0, <4>2, VacantMembers
      <4> QED BY <4>1, <4>3
    <3> QED BY <3>1, <3>2
  <2>9. Kids(heap') = Kids(heap)
    BY <1>8, <2>8 DEF Kids, g, h
  <2> QED BY <1>8, <2>9
<1> QED BY <1>6, <1>7, <1>8

-----------------------------------------------------------------------------
(* The refinement.                                                         *)

(* The kids and the roots of JsonTree are what they were.                  *)
LEMMA Stutter ==
  ASSUME held' = held, Kids(heap') = Kids(heap)
  PROVE  UNCHANGED Tree!treeVars
BY DEF Tree!treeVars, Kids

(* Every step is one of JsonTree, or none.                                 *)
LEMMA NextTree ==
  ASSUME Forested, Forested', [Next]_vars
  PROVE  [Tree!Next]_Tree!treeVars
<1> USE DEF Tree!Next
<1>1. ASSUME NEW n \in Nodes, Create(n)
      PROVE  Tree!Next
  <2>1. n \in Nodes \ live /\ held' = held \cup {n} /\ heap' = heap
    BY <1>1 DEF Create
  <2>2. Kids(heap') = Kids(heap)
    BY <2>1
  <2>3. Tree!Create
    BY <2>1, <2>2, CreateStep
  <2> QED BY <2>3
<1>2. ASSUME NEW p \in Nodes, NEW c \in Nodes, AddItemToArray(p, c)
      PROVE  Tree!Next
  BY <1>2, AddToArrayStep
<1>3. ASSUME NEW p \in Nodes, NEW c \in Nodes, AddItemToObject(p, c)
      PROVE  Tree!Next
  BY <1>3, AddToObjectStep
<1>4. ASSUME NEW p \in Nodes, NEW c \in Nodes, AddItemToObjectCS(p, c)
      PROVE  Tree!Next
  BY <1>4, AddToObjectCSStep
<1>5. ASSUME NEW p \in Nodes, NEW c \in Nodes, NEW n \in Nodes, AddItemReference(p, c, n)
      PROVE  Tree!Next
  BY <1>5, ReferenceStep
<1>6. ASSUME NEW p \in Nodes, NEW x \in Nodes, Detach(p, x)
      PROVE  Tree!Next
  BY <1>6, DetachStep
<1>7. ASSUME NEW c \in Nodes, Delete(c)
      PROVE  Tree!Next
  BY <1>7, DeletedStep
<1>8. ASSUME NEW p \in Nodes, NEW c \in Nodes, NEW x \in Links, InsertItemInArray(p, x, c)
      PROVE  Tree!Next
  BY <1>8, InsertStep
<1>9. ASSUME NEW p \in Nodes, NEW x \in Nodes, NEW c \in Nodes, ReplaceItemInArray(p, x, c)
      PROVE  Tree!Next
  BY <1>9, ReplaceInArrayStep
<1>10. ASSUME NEW p \in Nodes, NEW x \in Nodes, NEW c \in Nodes, ReplaceItemInObject(p, x, c)
       PROVE  Tree!Next
  BY <1>10, ReplaceInObjectStep
<1>11. ASSUME NEW n \in Nodes, Duplicate(n)
       PROVE  Tree!Next
  BY <1>11, DuplicatedStep
<1>12. ASSUME NEW n \in Nodes, NEW m \in Nodes, DuplicateFails(n, m)
       PROVE  UNCHANGED Tree!treeVars
  <2>1. held' = held
    BY <1>12 DEF DuplicateFails
  <2>2. Kids(heap') = Kids(heap)
    BY <1>12, DuplicateFailsStep
  <2> QED BY <2>1, <2>2, Stutter
<1>13. ASSUME CreateLists
       PROVE  Tree!Next \/ UNCHANGED Tree!treeVars
  <2>1. Tree!Build \/ (held' = held /\ Kids(heap') = Kids(heap))
    BY <1>13, CreateListsStep
  <2>2. held' = held /\ Kids(heap') = Kids(heap) => UNCHANGED Tree!treeVars
    BY Stutter
  <2> QED BY <2>1, <2>2
<1>14. ASSUME UNCHANGED vars
       PROVE  UNCHANGED Tree!treeVars
  <2>1. held' = held /\ Kids(heap') = Kids(heap)
    BY <1>14 DEF vars
  <2> QED BY <2>1, Stutter
<1> HIDE DEF Tree!Next
<1> QED BY <1>1, <1>2, <1>3, <1>4, <1>5, <1>6, <1>7, <1>8, <1>9, <1>10, <1>11, <1>12,
           <1>13, <1>14 DEF Next

(* Every call of cJSON does to the forest of items what JsonTree says, and *)
(* leaves the other trees alone; one that runs out of memory leaves all of *)
(* them as they were.                                                      *)
THEOREM RefinesTree == Spec => ImplementsTree
<1>1. Init => Tree!Init
  <2> SUFFICES ASSUME Init
               PROVE  Tree!Init
    OBVIOUS
  <2>1. IInv
    BY InitForest
  <2>2. heap \in Heaps /\ Vacant(heap, live) /\ live = {} /\ held = {}
    BY <2>1, ForestedIs DEF IInv, Init
  <2>3. \A n \in Nodes : Members(heap, n) = <<>>
    BY <2>2, VacantMembers
  <2> QED BY <2>2, <2>3 DEF Tree!Init
<1>2. IInv /\ IInv' /\ [Next]_vars => [Tree!Next]_Tree!treeVars
  BY NextTree DEF IInv
<1> QED BY <1>1, <1>2, Invariance, PTL DEF Spec, ImplementsTree, Tree!Spec

(* PlacedAsAsked: an added item comes last, an inserted one in front of    *)
(* the item at its index, a replacement where the replaced one was; a      *)
(* detached item goes from where it is; the others keep their order        *)
(* (cJSON.c:1650-1671, 1716-1846).                                         *)
THEOREM PlacesKept == Spec => PlacedAsAsked
<1>1. IInv /\ IInv' /\ [Next]_vars => [\A p, c \in Nodes : Placed(p, c)]_vars
  <2> SUFFICES ASSUME IInv, IInv', NEW p \in Nodes, NEW c \in Nodes
               PROVE  Placed(p, c)
    OBVIOUS
  <2> DEFINE s == Members(heap, p)
             now == Members(heap', p)
  <2>1. Forested /\ Forested' /\ Null \notin live
    <3>1. HeapForest(heap, live, held)
      BY DEF IInv, Forested
    <3> QED BY <3>1, JsonHeapAssumption DEF IInv, HeapForest, Forest, Shape
  <2>2. ASSUME Container(p)
        PROVE  s \in Seq(live) /\ DOMAIN s = 1..Len(s)
    <3>1. p \in live /\ HeapForest(heap, live, held)
      BY <2>1, <2>2 DEF Container, Forested
    <3>2. s \in Seq(live)
      BY <3>1, MembersList
    <3> HIDE DEF s
    <3> QED BY <3>2
  <2>3. ASSUME \/ AddItemToArray(p, c) \/ AddItemToObject(p, c) \/ AddItemToObjectCS(p, c)
               \/ InsertItemInArray(p, Null, c)
        PROVE  now = Append(s, c)
    <3>1. CASE AddItemToArray(p, c)
      BY <2>1, <3>1, AddToArrayStep DEF AppendedTo
    <3>2. CASE AddItemToObject(p, c)
      BY <2>1, <3>2, AddToObjectStep DEF AppendedTo
    <3>3. CASE AddItemToObjectCS(p, c)
      BY <2>1, <3>3, AddToObjectCSStep DEF AppendedTo
    <3>4. CASE InsertItemInArray(p, Null, c)
      BY <2>1, <3>4, InsertStep DEF AppendedTo
    <3> QED BY <2>3, <3>1, <3>2, <3>3, <3>4
  <2>4. ASSUME NEW i \in DOMAIN s
        PROVE  /\ InsertItemInArray(p, s[i], c) => now = InsertAt(s, i, c)
               /\ ReplaceItemInArray(p, s[i], c) \/ ReplaceItemInObject(p, s[i], c)
                  => now = [s EXCEPT ![i] = c]
               /\ Detach(p, s[i]) => now = RemoveAt(s, i)
    <3>1. ASSUME Container(p)
          PROVE  i \in 1..Len(s) /\ s[i] \in Nodes
      <4>1. live \in SUBSET Nodes
        BY <2>1, ForestedIs
      <4> HIDE DEF s
      <4> QED BY <2>2, <2>4, <3>1, <4>1
    <3>2. ASSUME InsertItemInArray(p, s[i], c)
          PROVE  now = InsertAt(s, i, c)
      <4>1. i \in 1..Len(s)
        BY <3>1, <3>2 DEF InsertItemInArray, Fits
      <4>2. InsertedAt(p, s[i], c)
        BY <2>1, <3>2, InsertStep
      <4> QED BY <4>1, <4>2 DEF InsertedAt
    <3>3. ASSUME ReplaceItemInArray(p, s[i], c) \/ ReplaceItemInObject(p, s[i], c)
          PROVE  now = [s EXCEPT ![i] = c]
      <4>1. i \in 1..Len(s) /\ s[i] \in Nodes
        BY <3>1, <3>3 DEF ReplaceItemInArray, ReplaceItemInObject, Fits
      <4>2. ReplacedAt(p, s[i], c)
        BY <2>1, <3>3, <4>1, ReplaceInArrayStep, ReplaceInObjectStep
      <4> QED BY <4>1, <4>2 DEF ReplacedAt
    <3>4. ASSUME Detach(p, s[i])
          PROVE  now = RemoveAt(s, i)
      <4>1. i \in 1..Len(s)
        BY <3>1, <3>4 DEF Detach
      <4>2. TakenAt(p, s[i])
        BY <2>1, <3>4, DetachStep
      <4> QED BY <4>1, <4>2 DEF TakenAt
    <3> QED BY <3>2, <3>3, <3>4
  <2> QED BY <2>3, <2>4 DEF Placed
<1> QED BY <1>1, Invariance, PTL DEF Spec, PlacedAsAsked
=============================================================================
