-------------------------- MODULE WorkgroupsProofs --------------------------
(***************************************************************************)
(* The properties of Workgroups, for arguments of any length and whatever  *)
(* lies behind the copy.                                                   *)
(***************************************************************************)
EXTENDS Workgroups, FiniteSetTheorems, WellFoundedInduction, TLAPS

-----------------------------------------------------------------------------
(* The least of some numbers.                                              *)

(* A set of numbers that is not empty has a minimum, and Min names it.     *)
LEMMA MinIs ==
  ASSUME NEW S \in SUBSET Nat, S # {}
  PROVE  Min(S) \in S /\ \A y \in S : Min(S) <= y
<1>1. \E x \in S : \A y \in S : <<y, x>> \notin OpToRel(<, Nat)
  BY NatLessThanWellFounded, WFMin
<1>2. PICK x \in S : \A y \in S : <<y, x>> \notin OpToRel(<, Nat)
  BY <1>1
<1>3. \A y \in S : ~ (y < x)
  BY <1>2, Zenon DEF OpToRel
<1>4. \A y \in S : x <= y
  BY <1>3
<1> QED BY <1>4 DEF Min

-----------------------------------------------------------------------------
(* The names of a string, as the string grows.                             *)

(* What is behind the first m characters does not matter to what is in     *)
(* front of them.                                                          *)
LEMMA SubOfSub ==
  ASSUME NEW S, NEW t \in Seq(S), NEW m \in 0..Len(t), NEW i \in 1..m, NEW j \in 1..m
  PROVE  SubSeq(SubSeq(t, 1, m), i, j) = SubSeq(t, i, j)
OBVIOUS

(* The runs of characters of a string can be counted.                      *)
LEMMA RunsFinite ==
  ASSUME NEW S, NEW s \in Seq(S)
  PROVE  /\ IsFiniteSet(Runs(s)) /\ Cardinality(Runs(s)) \in Nat
         /\ \A R \in SUBSET Runs(s) :
              /\ IsFiniteSet(R)
              /\ Cardinality(R) \in Nat
              /\ Cardinality(R) <= Cardinality(Runs(s))
<1>1. IsFiniteSet((1..Len(s)) \X (1..Len(s)))
  <2>1. IsFiniteSet(1..Len(s))
    BY FS_Interval
  <2> QED BY <2>1, FS_Product
<1>2. IsFiniteSet(Runs(s))
  BY <1>1, FS_Subset DEF Runs
<1> QED BY <1>2, FS_Subset, FS_CardinalityType

(* t is a string that has a ':' or nothing in front of place a, no ':'     *)
(* from there to e, and at most a ':' behind it.                           *)
Grown(t, a, e) ==
  /\ a \in 1..Len(t) + 1 /\ e \in (a - 1)..Len(t) /\ Len(t) <= e + 1
  /\ a > 1 => t[a - 1] = Colon
  /\ \A k \in a..e : t[k] # Colon
  /\ Len(t) = e + 1 => t[e + 1] = Colon

(* Its runs are those in front of a, and the one from a to e.              *)
LEMMA RunsGrow ==
  ASSUME NEW S, NEW t \in Seq(S), NEW a, NEW e, Grown(t, a, e)
  PROVE  /\ a <= e => Runs(t) = Runs(SubSeq(t, 1, a - 1)) \cup {<<a, e>>}
         /\ a > e => Runs(t) = Runs(SubSeq(t, 1, a - 1))
<1> DEFINE u == SubSeq(t, 1, a - 1)
<1>0. a \in Int /\ e \in Int /\ Len(t) \in Nat
  BY DEF Grown
<1>1. Len(u) = a - 1 /\ \A k \in 1..a - 1 : u[k] = t[k]
  BY DEF Grown
<1>2. ASSUME NEW r \in Runs(u)
      PROVE  r \in Runs(t)
  <2>0. /\ r \in (1..Len(u)) \X (1..Len(u)) /\ r[1] <= r[2]
        /\ \A k \in r[1]..r[2] : u[k] # Colon
        /\ r[1] > 1 => u[r[1] - 1] = Colon
        /\ r[2] < Len(u) => u[r[2] + 1] = Colon
    BY DEF Runs
  <2> HIDE DEF u
  <2>1. /\ r \in (1..a - 1) \X (1..a - 1) /\ r[1] <= r[2]
        /\ \A k \in r[1]..r[2] : t[k] # Colon
        /\ r[1] > 1 => t[r[1] - 1] = Colon
        /\ r[2] < a - 1 => t[r[2] + 1] = Colon
    BY <1>0, <1>1, <2>0
  <2>2. r[2] < a - 1
    BY <1>0, <2>1 DEF Grown
  <2> QED BY <1>0, <2>1, <2>2 DEF Runs, Grown
<1>3. ASSUME NEW r \in Runs(t)
      PROVE  r \in Runs(u) \/ (a <= e /\ r = <<a, e>>)
  <2>1. /\ r \in (1..Len(t)) \X (1..Len(t)) /\ r[1] <= r[2]
        /\ \A k \in r[1]..r[2] : t[k] # Colon
        /\ r[1] > 1 => t[r[1] - 1] = Colon
        /\ r[2] < Len(t) => t[r[2] + 1] = Colon
    BY <1>3 DEF Runs
  <2>2. r = <<r[1], r[2]>> /\ r[1] \in 1..Len(t) /\ r[2] \in 1..Len(t)
    BY <2>1
  <2>3. CASE r[2] <= a - 1
    <3>1. r[1] \in 1..Len(u) /\ r[2] \in 1..Len(u)
      BY <1>0, <1>1, <2>1, <2>2, <2>3
    <3>2. \A k \in r[1]..r[2] : u[k] # Colon
      BY <1>0, <1>1, <2>1, <2>2, <2>3
    <3>3. r[1] > 1 => u[r[1] - 1] = Colon
      BY <1>0, <1>1, <2>1, <2>2, <2>3
    <3>4. r[2] < Len(u) => u[r[2] + 1] = Colon
      BY <1>0, <1>1, <2>1, <2>2, <2>3 DEF Grown
    <3>5. r \in (1..Len(u)) \X (1..Len(u))
      BY <2>2, <3>1
    <3> HIDE DEF u
    <3>6. r[1] <= r[2]
      BY <2>1
    <3>7. r \in Runs(u)
      BY <3>2, <3>3, <3>4, <3>5, <3>6 DEF Runs
    <3> QED BY <3>7
  <2>4. CASE r[2] >= a
    <3>1. r[1] >= a
      BY <1>0, <2>1, <2>2, <2>4 DEF Grown
    <3>2. r[2] <= e
      BY <1>0, <2>1, <2>2, <2>4 DEF Grown
    <3>3. r[1] = a
      BY <1>0, <2>1, <2>2, <3>1, <3>2 DEF Grown
    <3>4. r[2] = e
      BY <1>0, <2>1, <2>2, <2>4, <3>2 DEF Grown
    <3> QED BY <1>0, <2>2, <2>4, <3>3, <3>4
  <2> QED BY <1>0, <2>2, <2>3, <2>4
<1>4. a <= e => <<a, e>> \in Runs(t)
  BY <1>0 DEF Runs, Grown
<1> HIDE DEF u
<1>5. a <= e => Runs(t) = Runs(u) \cup {<<a, e>>}
  BY <1>2, <1>3, <1>4
<1>6. a > e => Runs(t) = Runs(u)
  <2>1. a > e => ~ (a <= e)
    BY <1>0
  <2> QED BY <1>2, <1>3, <2>1, Zenon
<1> QED BY <1>5, <1>6 DEF u

(* How many of the runs in R do not begin behind r: the place of r in the  *)
(* order of R.                                                             *)
Place(R, r) == Cardinality({q \in R : q[1] <= r[1]})

(* There is a run at each place.                                           *)
Ranked(s) == \A n \in 1..Cardinality(Runs(s)) : \E r \in Runs(s) : Place(Runs(s), r) = n

(* A run behind all others takes the next place and leaves them theirs.    *)
LEMMA PlacesGrow ==
  ASSUME NEW R, NEW x, x[1] \in Int, \A q \in R : q[1] \in Int /\ q[1] < x[1],
         IsFiniteSet(R)
  PROVE  /\ Cardinality(R \cup {x}) = Cardinality(R) + 1
         /\ Cardinality(R) \in Nat
         /\ \A r \in R : Place(R \cup {x}, r) = Place(R, r) /\ Place(R, r) <= Cardinality(R)
         /\ Place(R \cup {x}, x) = Cardinality(R) + 1
<1>1. x \notin R
  OBVIOUS
<1>2. Cardinality(R \cup {x}) = Cardinality(R) + 1 /\ Cardinality(R) \in Nat
  BY <1>1, FS_AddElement, FS_CardinalityType
<1>3. ASSUME NEW r \in R
      PROVE  Place(R \cup {x}, r) = Place(R, r) /\ Place(R, r) <= Cardinality(R)
  <2>1. {q \in R \cup {x} : q[1] <= r[1]} = {q \in R : q[1] <= r[1]}
    OBVIOUS
  <2>2. Cardinality({q \in R : q[1] <= r[1]}) <= Cardinality(R)
    BY FS_Subset
  <2> QED BY <2>1, <2>2 DEF Place
<1>4. {q \in R \cup {x} : q[1] <= x[1]} = R \cup {x}
  OBVIOUS
<1> QED BY <1>2, <1>3, <1>4 DEF Place

(* One more pair behind the others is the last one.                        *)
LEMMA NthGrow ==
  ASSUME NEW R, NEW x, x[1] \in Int, \A q \in R : q[1] \in Int /\ q[1] < x[1],
         IsFiniteSet(R)
  PROVE  /\ \A n \in 1..Cardinality(R) : Nth(R \cup {x}, n) = Nth(R, n)
         /\ Nth(R \cup {x}, Cardinality(R) + 1) = x
<1> DEFINE m == Cardinality(R)
<1>1. /\ m \in Nat
      /\ \A r \in R : Place(R \cup {x}, r) = Place(R, r) /\ Place(R, r) <= m
      /\ Place(R \cup {x}, x) = m + 1
  BY PlacesGrow
<1>2. \A Q, n : Nth(Q, n) = CHOOSE r \in Q : Place(Q, r) = n
  BY DEF Nth, Place
<1> HIDE DEF m
<1>3. ASSUME NEW n \in 1..m
      PROVE  Nth(R \cup {x}, n) = Nth(R, n)
  <2>1. \A r : r \in R \cup {x} /\ Place(R \cup {x}, r) = n <=> r \in R /\ Place(R, r) = n
    BY <1>1
  <2>2. (CHOOSE r : r \in R \cup {x} /\ Place(R \cup {x}, r) = n)
          = CHOOSE r : r \in R /\ Place(R, r) = n
    BY <2>1, Zenon
  <2>3. /\ Nth(R \cup {x}, n) = CHOOSE r : r \in R \cup {x} /\ Place(R \cup {x}, r) = n
        /\ Nth(R, n) = CHOOSE r : r \in R /\ Place(R, r) = n
    BY <1>2
  <2> QED BY <2>2, <2>3, Zenon
<1>4. Nth(R \cup {x}, m + 1) = x
  <2>1. \A r \in R : Place(R, r) # m + 1
    BY <1>1, \A r \in R : Place(R, r) <= m => Place(R, r) # m + 1
  <2>2. \A r \in R \cup {x} : Place(R \cup {x}, r) = m + 1 <=> r = x
    BY <1>1, <2>1
  <2> QED BY <1>2, <2>2
<1> QED BY <1>3, <1>4 DEF m

(* So the names of a string that has grown are the names it had, and the   *)
(* part it has grown by.                                                   *)
LEMMA NamesGrow ==
  ASSUME NEW S, NEW t \in Seq(S), NEW a, NEW e, Grown(t, a, e),
         Ranked(SubSeq(t, 1, a - 1))
  PROVE  /\ Ranked(t)
         /\ a <= e => Names(t) = Append(Names(SubSeq(t, 1, a - 1)), SubSeq(t, a, e))
         /\ a > e => Names(t) = Names(SubSeq(t, 1, a - 1))
<1> DEFINE u == SubSeq(t, 1, a - 1)
           R == Runs(u)
           m == Cardinality(R)
           x == <<a, e>>
<1>0. a \in Int /\ e \in Int /\ a - 1 \in 0..Len(t) /\ u \in Seq(S) /\ Len(u) = a - 1
  BY DEF Grown
<1>1. IsFiniteSet(R) /\ m \in Nat
  BY <1>0, RunsFinite
<1>2. \A q \in R : q[1] \in 1..a - 1 /\ q[2] \in 1..a - 1
  BY <1>0 DEF Runs
<1>3. \A q \in R : q[1] \in Int /\ q[1] < x[1]
  BY <1>0, <1>2
<1>4. /\ a <= e => Runs(t) = R \cup {x}
      /\ a > e => Runs(t) = R
  BY RunsGrow
<1>5. /\ Cardinality(R \cup {x}) = m + 1
      /\ \A r \in R : Place(R \cup {x}, r) = Place(R, r)
      /\ Place(R \cup {x}, x) = m + 1
  BY <1>0, <1>1, <1>3, PlacesGrow, ZenonT(60)
<1>6. /\ \A n \in 1..m : Nth(R \cup {x}, n) = Nth(R, n)
      /\ Nth(R \cup {x}, m + 1) = x
  BY <1>0, <1>1, <1>3, NthGrow
<1>7. \A n \in 1..m : Nth(R, n) \in R
  BY DEF Ranked, Nth, Place
<1>8. \A n \in 1..m : SubSeq(u, Nth(R, n)[1], Nth(R, n)[2]) = SubSeq(t, Nth(R, n)[1], Nth(R, n)[2])
  BY <1>0, <1>2, <1>7, SubOfSub
<1>9. Names(u) = [n \in 1..m |-> SubSeq(t, Nth(R, n)[1], Nth(R, n)[2])]
  BY <1>8 DEF Names
<1>10. CASE a <= e
  <2>1. Names(t) = [n \in 1..m + 1 |->
                      SubSeq(t, Nth(R \cup {x}, n)[1], Nth(R \cup {x}, n)[2])]
    BY <1>4, <1>5, <1>10 DEF Names
  <2> HIDE DEF R, m, x, u
  <2>2. Names(t) = Append(Names(u), SubSeq(t, a, e))
    <3> DEFINE f == Names(u)
               y == SubSeq(t, a, e)
    <3>1. DOMAIN f = 1..m /\ f = [n \in 1..m |-> f[n]]
      BY <1>9
    <3>2. Names(t) = [n \in 1..m + 1 |-> IF n <= m THEN f[n] ELSE y]
      <4>1. \A n \in 1..m : SubSeq(t, Nth(R \cup {x}, n)[1], Nth(R \cup {x}, n)[2]) = f[n]
        BY <1>6, <1>9
      <4>2. SubSeq(t, Nth(R \cup {x}, m + 1)[1], Nth(R \cup {x}, m + 1)[2]) = y
        <5>1. x[1] = a /\ x[2] = e
          BY DEF x
        <5>2. Nth(R \cup {x}, m + 1) = x
          BY <1>6
        <5> QED BY <5>1, <5>2, Zenon DEF y
      <4> HIDE DEF f, y
      <4>3. ASSUME NEW n \in 1..m + 1
            PROVE  SubSeq(t, Nth(R \cup {x}, n)[1], Nth(R \cup {x}, n)[2])
                     = IF n <= m THEN f[n] ELSE y
        <5>1. CASE n <= m
          <6>1. n \in 1..m
            BY <1>1, <5>1
          <6> QED BY <4>1, <5>1, <6>1
        <5>2. CASE ~ (n <= m)
          <6>1. n = m + 1
            BY <1>1, <5>2
          <6> QED BY <4>2, <5>2, <6>1
        <5> QED BY <5>1, <5>2
      <4> QED BY <2>1, <4>3
    <3> HIDE DEF f, y
    <3>3. Append(f, y) = [n \in 1..m + 1 |-> IF n <= m THEN f[n] ELSE y]
      <4>1. f \in Seq({f[n] : n \in 1..m})
        BY <1>1, <3>1
      <4>2. Len(f) = m
        BY <1>1, <3>1
      <4> QED BY <1>1, <3>1, <4>1, <4>2
    <3> QED BY <3>2, <3>3 DEF f, y
  <2>3. Ranked(t)
    <3> SUFFICES ASSUME NEW n \in 1..m + 1
                 PROVE  \E r \in R \cup {x} : Place(R \cup {x}, r) = n
      BY <1>4, <1>5, <1>10 DEF Ranked
    <3>1. CASE n = m + 1
      BY <1>5, <3>1
    <3>2. CASE n # m + 1
      <4>1. n \in 1..m
        BY <1>1, <3>2
      <4> QED BY <1>5, <4>1 DEF Ranked, u, R, m
    <3> QED BY <3>1, <3>2
  <2> QED BY <1>0, <1>10, <2>2, <2>3 DEF u
<1>11. CASE a > e
  <2>1. Names(t) = [n \in 1..m |-> SubSeq(t, Nth(R, n)[1], Nth(R, n)[2])]
    BY <1>4, <1>11 DEF Names
  <2>2. Names(t) = Names(u)
    BY <1>9, <2>1
  <2>3. Ranked(t)
    BY <1>4, <1>11 DEF Ranked
  <2> QED BY <1>0, <1>11, <2>2, <2>3
<1> QED BY <1>0, <1>10, <1>11

-----------------------------------------------------------------------------
(* The inductive invariant.                                                *)

Bytes == Letters \cup {Colon, Nul}
NameSet == Seq(Letters) \ {<<>>}

(* What the scan has not reached is as it was, and memory ends with NUL.   *)
CopyInv ==
  /\ Len(memory) = Len(arg) + SlackLen + 2
  /\ memory[Len(arg) + 1] = Nul
  /\ memory[Len(memory)] = Nul
  /\ \A i \in pStop..Len(arg) : memory[i] = arg[i]

(* The scan stands at the beginning, behind a ':' of the argument, or      *)
(* behind the copy, and the array has the names passed.                    *)
ScanInv ==
  pc \in {"scan", "parsed"} =>
    /\ arg # <<>>
    /\ groups \in Seq(NameSet)
    /\ pStop <= Len(arg) + 1 =>
         /\ pStop > 1 => arg[pStop - 1] = Colon
         /\ Ranked(SubSeq(arg, 1, pStop - 1))
         /\ ~lost => groups = Names(SubSeq(arg, 1, pStop - 1))
    /\ pStop = Len(arg) + 2 /\ ~lost => groups = Names(arg)
    /\ pStop > Len(arg) + 2 /\ ~lost =>
         Names(arg) \in Seq(NameSet) /\ IsPrefix(Names(arg), groups)

(* The scan begins at the beginning and ends at a NUL.                     *)
EndInv ==
  /\ pc = "check" => pStop = 1
  /\ pc = "parsed" => memory[pStop] = Nul

IInv == TypeOK /\ CopyInv /\ ScanInv /\ EndInv

-----------------------------------------------------------------------------
(* The empty string has no names.                                          *)
LEMMA NoNames ==
  ASSUME NEW S, NEW s \in Seq(S)
  PROVE  Names(SubSeq(s, 1, 0)) = <<>> /\ Ranked(SubSeq(s, 1, 0))
<1>1. Runs(SubSeq(s, 1, 0)) = {}
  BY DEF Runs
<1>2. Cardinality(Runs(SubSeq(s, 1, 0))) = 0
  BY <1>1, FS_EmptySet
<1>3. 1..0 = {}
  OBVIOUS
<1> QED BY <1>2, <1>3 DEF Names, Ranked

(* A sequence with one more element behind it.                             *)
LEMMA OneBehind ==
  ASSUME NEW S, NEW s \in Seq(S), NEW x \in S
  PROVE  /\ s \o <<x>> \in Seq(S) /\ Len(s \o <<x>>) = Len(s) + 1
         /\ (s \o <<x>>)[Len(s) + 1] = x
         /\ \A i \in 1..Len(s) : (s \o <<x>>)[i] = s[i]
OBVIOUS

(* The initial states satisfy the invariant.                               *)
LEMMA InitIInv == Init => IInv
<1> SUFFICES ASSUME Init
             PROVE  IInv
  OBVIOUS
<1> USE WorkgroupsAssumption
<1>1. arg \in Seq(Letters \cup {Colon})
  BY DEF Init, Strings
<1>2. PICK slack \in [1..SlackLen -> SlackBytes] : memory = arg \o <<Nul>> \o slack \o <<Nul>>
  BY DEF Init
<1>3. slack \in Seq(Bytes) /\ Len(slack) = SlackLen
  BY DEF Bytes
<1>4. arg \in Seq(Bytes) /\ <<Nul>> \in Seq(Bytes)
  BY <1>1 DEF Bytes
<1>5. /\ memory \in Seq(Bytes)
      /\ Len(memory) = Len(arg) + SlackLen + 2
      /\ memory[Len(arg) + 1] = Nul
      /\ memory[Len(memory)] = Nul
      /\ \A i \in 1..Len(arg) : memory[i] = arg[i]
  <2> DEFINE front == arg \o <<Nul>>
             most == front \o slack
  <2>1. /\ front \in Seq(Bytes) /\ Len(front) = Len(arg) + 1
        /\ front[Len(arg) + 1] = Nul
        /\ \A i \in 1..Len(arg) : front[i] = arg[i]
    BY <1>4
  <2> HIDE DEF front
  <2>2. /\ most \in Seq(Bytes) /\ Len(most) = Len(front) + SlackLen
        /\ \A i \in 1..Len(front) : most[i] = front[i]
    BY <1>3, <2>1
  <2> HIDE DEF most
  <2>3. memory = most \o <<Nul>>
    BY <1>2 DEF most, front
  <2>4. /\ most \o <<Nul>> \in Seq(Bytes) /\ Len(most \o <<Nul>>) = Len(most) + 1
        /\ (most \o <<Nul>>)[Len(most) + 1] = Nul
        /\ \A i \in 1..Len(most) : (most \o <<Nul>>)[i] = most[i]
    BY <2>2, OneBehind DEF Bytes
  <2>5. SlackLen \in Nat /\ Len(arg) \in Nat
    BY <1>1
  <2> QED BY <2>1, <2>2, <2>3, <2>4, <2>5
<1>6. pStop \in 1..Len(memory)
  BY <1>1, <1>5 DEF Init
<1>7. TypeOK
  BY <1>1, <1>5, <1>6 DEF Init, TypeOK, Bytes
<1>8. CopyInv
  BY <1>5 DEF Init, CopyInv
<1> QED BY <1>7, <1>8 DEF Init, IInv, ScanInv, EndInv

(* One name: b is the place of its separator.                              *)
PartAt(b, name) ==
  /\ b \in pStop..Len(memory) - 1
  /\ memory[b] \in {Colon, Nul}
  /\ \A k \in pStop..b - 1 : memory[k] \in Letters
  /\ memory' = [memory EXCEPT ![b] = Nul]
  /\ pStop' = b + 1 /\ pStart' = b + 1
  /\ name = SubSeq(memory, pStop, b - 1)
  /\ name \in Seq(Letters)
  /\ Len(name) = b - pStop

(* The byte that ends the part is the first colon, or the end of the list. *)
LEMMA NextStopIs ==
  ASSUME IInv
  PROVE  /\ NextStop \in pStop..Len(memory)
         /\ memory[NextStop] \in {Colon, Nul}
         /\ \A k \in pStop..NextStop - 1 : memory[k] \in Letters
<1> DEFINE S == {j \in pStop..Len(memory) : memory[j] \in {Colon, Nul}}
<1>1. /\ memory \in Seq(Bytes) /\ pStop \in 1..Len(memory) /\ memory[Len(memory)] = Nul
  BY DEF IInv, TypeOK, CopyInv, Bytes
<1>2. S \subseteq Nat /\ Len(memory) \in S
  BY <1>1
<1>3. NextStop \in S /\ \A y \in S : NextStop <= y
  BY <1>2, MinIs DEF NextStop
<1>4. \A k \in pStop..NextStop - 1 : k \in pStop..Len(memory) /\ k \notin S
  BY <1>1, <1>3
<1>5. \A k \in pStop..Len(memory) : memory[k] \in Bytes
  BY <1>1
<1> QED BY <1>3, <1>4, <1>5 DEF Bytes

(* The part that is cut out is a name, and was there before.               *)
LEMMA PartIsAt ==
  ASSUME IInv, Part
  PROVE  /\ PartAt(NextStop, CString(memory', pStart))
         /\ memory[pStop] # Nul
<1> DEFINE b == NextStop
           S == {j \in pStart..Len(memory') : memory'[j] = Nul}
<1>1. /\ memory \in Seq(Bytes) /\ pStop \in 1..Len(memory) /\ pStart = pStop
  BY DEF IInv, TypeOK, Bytes
<1>2. /\ b \in pStop..Len(memory) - 1 /\ memory[b] \in {Colon, Nul}
      /\ \A k \in pStop..b - 1 : memory[k] \in Letters
  BY <1>1, NextStopIs DEF Part
<1>3. memory' = [memory EXCEPT ![b] = Nul] /\ pStop' = b + 1 /\ pStart' = b + 1
  BY DEF Part
<1> HIDE DEF b
<1>4. /\ Len(memory') = Len(memory) /\ memory'[b] = Nul
      /\ \A k \in pStop..b - 1 : memory'[k] = memory[k]
  BY <1>1, <1>2, <1>3
<1>5. S \subseteq Nat /\ b \in S
  BY <1>1, <1>2, <1>4
<1>6. Min(S) \in S /\ \A y \in S : Min(S) <= y
  BY <1>5, MinIs
<1>7. Nul \notin Letters
  BY WorkgroupsAssumption
<1>8. Min(S) = b
  <2>1. \A k \in pStop..b - 1 : k \notin S
    BY <1>2, <1>4, <1>7
  <2> QED BY <1>1, <1>2, <1>5, <1>6, <2>1
<1>9. CString(memory', pStart) = SubSeq(memory', pStop, b - 1)
  BY <1>1, <1>8 DEF CString
<1>10. SubSeq(memory', pStop, b - 1) = SubSeq(memory, pStop, b - 1)
  BY <1>1, <1>2, <1>3
<1>11. /\ SubSeq(memory, pStop, b - 1) \in Seq(Letters)
       /\ Len(SubSeq(memory, pStop, b - 1)) = b - pStop
  BY <1>1, <1>2
<1> QED BY <1>2, <1>3, <1>9, <1>10, <1>11 DEF PartAt, b, Part

(* What one name does to the parts of the invariant.                       *)
LEMMA PartCopy ==
  ASSUME IInv, NEW b, NEW name, PartAt(b, name), arg' = arg
  PROVE  CopyInv' /\ pStop' \in 1..Len(memory') /\ memory' \in Seq(Bytes)
<1>1. /\ memory \in Seq(Bytes) /\ pStop \in 1..Len(memory) /\ Len(arg) \in Nat
      /\ SlackLen \in Nat
  BY WorkgroupsAssumption DEF IInv, TypeOK, Bytes
<1>2. /\ Len(memory) = Len(arg) + SlackLen + 2
      /\ memory[Len(arg) + 1] = Nul
      /\ memory[Len(memory)] = Nul
      /\ \A i \in pStop..Len(arg) : memory[i] = arg[i]
  BY DEF IInv, CopyInv
<1>3. b \in pStop..Len(memory) - 1 /\ memory' = [memory EXCEPT ![b] = Nul] /\ pStop' = b + 1
  BY DEF PartAt
<1>4. memory' \in Seq(Bytes) /\ Len(memory') = Len(memory)
  BY <1>1, <1>3 DEF Bytes
<1>5. \A i \in 1..Len(memory) : memory'[i] = IF i = b THEN Nul ELSE memory[i]
  BY <1>1, <1>3
<1>6. memory'[Len(arg) + 1] = Nul /\ memory'[Len(memory)] = Nul
  BY <1>1, <1>2, <1>5
<1>7. \A i \in pStop'..Len(arg) : memory'[i] = arg[i]
  BY <1>1, <1>2, <1>3, <1>5
<1> QED BY <1>1, <1>2, <1>3, <1>4, <1>6, <1>7 DEF CopyInv

(* A part of the argument itself: after it the scan has one name more, or  *)
(* none more if the part was empty.                                        *)
LEMMA PartNames ==
  ASSUME IInv, pc = "scan", pStop <= Len(arg), NEW b, NEW name, PartAt(b, name)
  PROVE  /\ b <= Len(arg) + 1
         /\ name # <<>> => b > pStop
         /\ LET before == Names(SubSeq(arg, 1, pStop - 1))
                now == IF b <= Len(arg) THEN SubSeq(arg, 1, b) ELSE arg
            IN  /\ Ranked(now)
                /\ Names(now) = IF name = <<>> THEN before ELSE Append(before, name)
         /\ b <= Len(arg) => arg[b] = Colon
         /\ b = Len(arg) + 1 => name # <<>>
<1> DEFINE S == Letters \cup {Colon}
           a == pStop
           now == IF b <= Len(arg) THEN SubSeq(arg, 1, b) ELSE arg
           before == SubSeq(arg, 1, a - 1)
<1>1. /\ memory \in Seq(Bytes) /\ a \in 1..Len(memory) /\ arg \in Seq(S) /\ Len(arg) \in Nat
      /\ SlackLen \in Nat
  BY WorkgroupsAssumption DEF IInv, TypeOK, Bytes
<1>2. /\ Len(memory) = Len(arg) + SlackLen + 2
      /\ memory[Len(arg) + 1] = Nul
      /\ \A i \in a..Len(arg) : memory[i] = arg[i]
  BY DEF IInv, CopyInv
<1>3. /\ b \in a..Len(memory) - 1 /\ memory[b] \in {Colon, Nul}
      /\ \A k \in a..b - 1 : memory[k] \in Letters
      /\ name = SubSeq(memory, a, b - 1) /\ Len(name) = b - a
      /\ name \in Seq(Letters)
  BY DEF PartAt
<1>4. Colon \notin Letters /\ Nul \notin Letters
  BY WorkgroupsAssumption
<1>5. b <= Len(arg) + 1
  <2>1. SUFFICES ASSUME b > Len(arg) + 1
                 PROVE  FALSE
    BY <1>1, <1>3
  <2>2. Len(arg) + 1 \in a..b - 1
    BY <1>1, <1>3, <2>1
  <2> QED BY <1>2, <1>3, <1>4, <2>2
<1>6. b <= Len(arg) => arg[b] = Colon
  <2>1. SUFFICES ASSUME b <= Len(arg)
                 PROVE  arg[b] = Colon
    OBVIOUS
  <2>2. memory[b] = arg[b] /\ arg[b] \in S
    BY <1>1, <1>2, <1>3, <2>1
  <2>3. Nul \notin S
    BY <1>4 DEF Colon, Nul
  <2> QED BY <1>3, <2>2, <2>3
<1>7. \A k \in a..b - 1 : arg[k] # Colon /\ arg[k] = memory[k]
  BY <1>1, <1>2, <1>3, <1>4, <1>5
<1>8. name = SubSeq(arg, a, b - 1)
  BY <1>1, <1>2, <1>3, <1>5, <1>7
<1>9. (name = <<>>) <=> b = a
  BY <1>1, <1>3
<1>10. /\ a > 1 => arg[a - 1] = Colon
       /\ Ranked(before)
  BY <1>1 DEF IInv, ScanInv
<1>11. /\ now \in Seq(S)
       /\ Len(now) = IF b <= Len(arg) THEN b ELSE Len(arg)
       /\ \A k \in 1..Len(now) : now[k] = arg[k]
       /\ SubSeq(now, 1, a - 1) = before
       /\ SubSeq(now, a, b - 1) = name
  BY <1>1, <1>3, <1>5, <1>8
<1> HIDE DEF now
<1>12. Grown(now, a, b - 1)
  <2>1. a \in 1..Len(now) + 1 /\ b - 1 \in (a - 1)..Len(now) /\ Len(now) <= (b - 1) + 1
    BY <1>1, <1>3, <1>5, <1>11
  <2>2. a > 1 => now[a - 1] = Colon
    BY <1>1, <1>10, <1>11, <2>1
  <2>3. \A k \in a..b - 1 : now[k] # Colon
    <3>1. \A k \in a..b - 1 : k \in 1..Len(now)
      BY <1>1, <2>1
    <3>2. \A k \in a..b - 1 : now[k] = arg[k]
      BY <1>11, <3>1
    <3> QED BY <1>7, <3>2
  <2>4. Len(now) = (b - 1) + 1 => now[(b - 1) + 1] = Colon
    BY <1>1, <1>3, <1>6, <1>11, SMTT(40)
  <2> HIDE DEF a
  <2> QED BY <2>1, <2>2, <2>3, <2>4 DEF Grown
<1> HIDE DEF before
<1>13. /\ Ranked(now)
       /\ a <= b - 1 => Names(now) = Append(Names(before), name)
       /\ a > b - 1 => Names(now) = Names(before)
  BY <1>10, <1>11, <1>12, NamesGrow
<1>14. Names(now) = IF name = <<>> THEN Names(before) ELSE Append(Names(before), name)
  <2>1. CASE b = a
    BY <1>1, <1>9, <1>13, <2>1
  <2>2. CASE b # a
    <3>1. a <= b - 1 /\ name # <<>>
      <4>1. a <= b - 1
        BY <1>1, <1>3, <2>2
      <4> QED BY <1>9, <2>2, <4>1
    <3> QED BY <1>13, <3>1
  <2> QED BY <2>1, <2>2
<1>15. (name # <<>> => b > pStop) /\ (b = Len(arg) + 1 => name # <<>>)
  <2>1. b # a => b > pStop
    BY <1>1, <1>3
  <2>2. b = Len(arg) + 1 => b # a
    BY <1>1
  <2> QED BY <1>9, <2>1, <2>2
<1> QED BY <1>5, <1>6, <1>13, <1>14, <1>15 DEF now, before

(* A prefix stays one.                                                     *)
LEMMA PrefixMore ==
  ASSUME NEW S, NEW s \in Seq(S), NEW t \in Seq(S), NEW x \in S
  PROVE  /\ IsPrefix(s, s)
         /\ IsPrefix(s, t) => IsPrefix(s, Append(t, x))
BY DEF IsPrefix

(* One round of the scan keeps the invariant.                              *)
LEMMA PartIInv ==
  ASSUME IInv, Part
  PROVE  IInv'
<1> DEFINE b == NextStop
           name == CString(memory', pStart)
<1>1. PartAt(b, name) /\ memory[pStop] # Nul
  BY PartIsAt
<1>2. /\ pc = "scan" /\ UNCHANGED <<arg, pc>>
      /\ IF name = <<>> THEN UNCHANGED <<groups, lost>>
         ELSE \/ groups' = Append(groups, name) /\ UNCHANGED lost
              \/ UNCHANGED groups /\ lost' = TRUE
  BY DEF Part
<1> HIDE DEF b, name
<1>3. /\ b \in pStop..Len(memory) - 1 /\ pStop' = b + 1 /\ pStart' = b + 1
      /\ name \in Seq(Letters)
  BY <1>1 DEF PartAt
<1>4. /\ pStop \in 1..Len(memory) /\ Len(memory) \in Nat /\ arg \in Seq(Letters \cup {Colon})
      /\ Len(arg) \in Nat /\ lost \in BOOLEAN
  BY DEF IInv, TypeOK
<1>5. /\ arg # <<>> /\ groups \in Seq(NameSet)
      /\ pStop <= Len(arg) + 1 /\ lost = FALSE => groups = Names(SubSeq(arg, 1, pStop - 1))
      /\ pStop = Len(arg) + 2 /\ lost = FALSE => groups = Names(arg)
      /\ pStop > Len(arg) + 2 /\ lost = FALSE =>
           Names(arg) \in Seq(NameSet) /\ IsPrefix(Names(arg), groups)
  BY <1>2, <1>4 DEF IInv, ScanInv
<1>6. CopyInv' /\ pStop' \in 1..Len(memory') /\ memory' \in Seq(Bytes)
  BY <1>1, <1>2, PartCopy
<1>7. name # <<>> => name \in NameSet
  BY <1>3 DEF NameSet
<1>8. groups' \in Seq(NameSet)
  BY <1>2, <1>5, <1>7
<1>9. /\ name = <<>> => groups' = groups /\ lost' = lost
      /\ name # <<>> /\ lost' = FALSE => groups' = Append(groups, name) /\ lost = FALSE
      /\ lost' \in BOOLEAN
  BY <1>2, <1>4
<1>10. TypeOK'
  <2>1. \A n \in DOMAIN groups' : groups'[n] \in NameSet
    BY <1>8
  <2> QED BY <1>2, <1>3, <1>4, <1>6, <1>9, <2>1 DEF TypeOK, NameSet, Bytes, IInv
<1>11. ScanInv'
  <2>1. CASE pStop <= Len(arg)
    <3> DEFINE now == IF b <= Len(arg) THEN SubSeq(arg, 1, b) ELSE arg
               before == Names(SubSeq(arg, 1, pStop - 1))
    <3>1. /\ b <= Len(arg) + 1
          /\ Ranked(now)
          /\ Names(now) = IF name = <<>> THEN before ELSE Append(before, name)
          /\ b <= Len(arg) => arg[b] = Colon
      BY <1>1, <1>2, <2>1, PartNames
    <3>2. lost' = FALSE => groups' = Names(now)
      <4>1. lost = FALSE => groups = before
        BY <1>4, <1>5, <2>1
      <4> HIDE DEF now, before
      <4> QED BY <1>9, <3>1, <4>1
    <3>3. pStop' - 1 = b /\ pStop' <= Len(arg) + 2
      BY <1>3, <1>4, <3>1
    <3>4. CASE b <= Len(arg)
      <4>1. Ranked(SubSeq(arg, 1, b)) /\ (lost' = FALSE => groups' = Names(SubSeq(arg, 1, b)))
        BY <3>1, <3>2, <3>4
      <4>2. pStop' <= Len(arg) + 1 /\ arg[pStop' - 1] = Colon
        BY <1>3, <1>4, <3>1, <3>3, <3>4
      <4>3. ~ (pStop' = Len(arg) + 2) /\ ~ (pStop' > Len(arg) + 2)
        BY <1>3, <1>4, <4>2
      <4> QED BY <1>2, <1>5, <1>8, <1>9, <3>3, <4>1, <4>2, <4>3 DEF ScanInv
    <3>5. CASE b = Len(arg) + 1
      <4>1. lost' = FALSE => groups' = Names(arg)
        BY <1>4, <3>2, <3>5
      <4>2. pStop' = Len(arg) + 2 /\ ~ (pStop' <= Len(arg) + 1) /\ ~ (pStop' > Len(arg) + 2)
        BY <1>3, <1>4, <3>5
      <4> QED BY <1>2, <1>5, <1>8, <1>9, <4>1, <4>2 DEF ScanInv
    <3> QED BY <1>3, <1>4, <3>1, <3>4, <3>5
  <2>2. CASE pStop = Len(arg) + 1
    BY <1>1, <2>2 DEF IInv, CopyInv
  <2>3. CASE pStop >= Len(arg) + 2
    <3>1. lost = FALSE => Names(arg) \in Seq(NameSet) /\ IsPrefix(Names(arg), groups)
      BY <1>4, <1>5, <2>3 DEF IsPrefix
    <3>2. lost' = FALSE => Names(arg) \in Seq(NameSet) /\ IsPrefix(Names(arg), groups')
      BY <1>5, <1>7, <1>9, <3>1, PrefixMore
    <3>3. pStop' > Len(arg) + 2 /\ ~ (pStop' <= Len(arg) + 1) /\ ~ (pStop' = Len(arg) + 2)
      BY <1>3, <1>4, <2>3
    <3> QED BY <1>2, <1>5, <1>8, <1>9, <3>2, <3>3 DEF ScanInv
  <2> QED BY <1>4, <2>1, <2>2, <2>3
<1>12. EndInv'
  BY <1>2 DEF EndInv
<1> QED BY <1>6, <1>10, <1>11, <1>12 DEF IInv

(* Every step keeps the invariant.                                         *)
LEMMA NextIInv == IInv /\ [Next]_vars => IInv'
<1> SUFFICES ASSUME IInv, [Next]_vars
             PROVE  IInv'
  OBVIOUS
<1> USE DEF IInv
<1>1. CASE Reject
  BY <1>1 DEF Reject, TypeOK, CopyInv, ScanInv, EndInv
<1>2. CASE Accept
  <2>1. arg \in Seq(Letters \cup {Colon})
    BY DEF TypeOK
  <2>2. Names(SubSeq(arg, 1, 0)) = <<>> /\ Ranked(SubSeq(arg, 1, 0))
    BY <2>1, NoNames
  <2>3. pStop = 1 /\ Len(arg) \in Nat
    BY <1>2, <2>1 DEF Accept, EndInv
  <2>4. TypeOK' /\ CopyInv' /\ EndInv'
    BY <1>2 DEF Accept, TypeOK, CopyInv, EndInv
  <2>5. ScanInv'
    <3>1. /\ pStop' = 1 /\ arg' = arg /\ arg # <<>> /\ groups' = <<>> /\ lost' = lost
      BY <1>2, <2>3 DEF Accept
    <3>2. <<>> \in Seq(NameSet) /\ 1 - 1 = 0 /\ ~ (1 > 1) /\ ~ (1 = Len(arg) + 2)
          /\ ~ (1 > Len(arg) + 2)
      BY <2>3
    <3>3. Names(SubSeq(arg, 1, 1 - 1)) = <<>> /\ Ranked(SubSeq(arg, 1, 1 - 1))
      BY <2>2, <3>2
    <3> QED BY <3>1, <3>2, <3>3 DEF ScanInv
  <2> QED BY <2>4, <2>5
<1>3. CASE Part
  BY <1>3, PartIInv
<1>4. CASE RunAway
  BY <1>4 DEF RunAway, TypeOK, CopyInv, ScanInv, EndInv
<1>5. CASE Done
  BY <1>5 DEF Done, TypeOK, CopyInv, ScanInv, EndInv
<1>6. CASE UNCHANGED vars
  BY <1>6 DEF vars, TypeOK, CopyInv, ScanInv, EndInv
<1> QED BY <1>1, <1>2, <1>3, <1>4, <1>5, <1>6 DEF Next, Stopped

(* It always holds.                                                        *)
LEMMA Invariance == Spec => []IInv
BY InitIInv, NextIInv, PTL DEF Spec

-----------------------------------------------------------------------------
(* The theorems.                                                           *)

(* Whatever the argument and whatever lies behind the copy, the scan never *)
(* leaves the memory there is, and no name in the array is empty or has a  *)
(* ':' or a NUL in it.                                                     *)
THEOREM TypeCorrect == Spec => []TypeOK
<1>1. IInv => TypeOK
  BY DEF IInv
<1> QED BY <1>1, Invariance, PTL

(* As long as no name is lost for want of memory, the array holds the      *)
(* names of what has been scanned; at the end, those of the argument, and  *)
(* no others unless the scan went beyond the byte behind the copy.         *)
THEOREM GroupsRight == Spec => []GroupsAreNames
<1>1. IInv => GroupsAreNames
  <2> SUFFICES ASSUME IInv
               PROVE  GroupsAreNames
    OBVIOUS
  <2>1. pStop \in Nat /\ arg \in Seq(Letters \cup {Colon}) /\ Len(arg) \in Nat
    BY DEF IInv, TypeOK
  <2>2. pc = "scan" /\ ~lost /\ pStop <= Len(arg) => groups = Names(SubSeq(arg, 1, pStop - 1))
    BY <2>1 DEF IInv, ScanInv
  <2>3. ASSUME pc = "parsed", ~lost
        PROVE  IsPrefix(Names(arg), groups) /\ (pStop <= Len(arg) + 2 => groups = Names(arg))
    <3>1. pStop >= Len(arg) + 1
      <4>1. SUFFICES ASSUME pStop \in 1..Len(arg)
                     PROVE  FALSE
        BY <2>1 DEF IInv, TypeOK
      <4>2. memory[pStop] = arg[pStop] /\ memory[pStop] = Nul
        BY <2>1, <2>3, <4>1 DEF IInv, CopyInv, EndInv
      <4>3. arg[pStop] \in Letters \cup {Colon}
        BY <2>1, <4>1
      <4> QED BY <4>2, <4>3, WorkgroupsAssumption DEF Colon, Nul
    <3>2. /\ groups \in Seq(NameSet)
          /\ pStop = Len(arg) + 1 => groups = Names(arg)
          /\ pStop = Len(arg) + 2 => groups = Names(arg)
          /\ pStop > Len(arg) + 2 => IsPrefix(Names(arg), groups)
      <4>1. groups \in Seq(NameSet)
        BY <2>3 DEF IInv, ScanInv
      <4>2. pStop = Len(arg) + 1 => groups = Names(arg)
        <5>1. SubSeq(arg, 1, Len(arg)) = arg
          BY <2>1
        <5>2. pStop = Len(arg) + 1 => pStop <= Len(arg) + 1 /\ pStop - 1 = Len(arg)
          BY <2>1
        <5>3. pStop <= Len(arg) + 1 => groups = Names(SubSeq(arg, 1, pStop - 1))
          BY <2>3 DEF IInv, ScanInv
        <5> QED BY <5>1, <5>2, <5>3
      <4>3. /\ pStop = Len(arg) + 2 => groups = Names(arg)
            /\ pStop > Len(arg) + 2 => IsPrefix(Names(arg), groups)
        BY <2>3 DEF IInv, ScanInv
      <4> QED BY <4>1, <4>2, <4>3
    <3> QED BY <2>1, <3>1, <3>2 DEF IsPrefix
  <2> QED BY <2>2, <2>3 DEF GroupsAreNames
<1> QED BY <1>1, Invariance, PTL
=============================================================================
