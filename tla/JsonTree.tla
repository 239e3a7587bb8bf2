------------------------------ MODULE JsonTree ------------------------------
(***************************************************************************)
(* What the list functions of cJSON promise their caller, stated without   *)
(* pointers: a forest.  Every item is either a root, which the caller owns *)
(* and has to delete, or stands at one place among the kids of one other   *)
(* item, which is deleted together with that item.                         *)
(***************************************************************************)
EXTENDS Integers, SequencesExt

CONSTANT Nodes

VARIABLES
  kids,   (* of each item: the sequence of the items in it                 *)
  roots   (* the items the caller owns                                     *)

treeVars == <<kids, roots>>

(* An item and everything in it.                                           *)
Family(n) ==
  LET within[k \in 0..Cardinality(Nodes)] ==
        IF k = 0 THEN {n}
        ELSE LET near == within[k - 1]
             IN  near \cup UNION {ToSet(kids[m]) : m \in near}
  IN  within[Cardinality(Nodes)]

Used == UNION {Family(r) : r \in roots}

Init == kids = [n \in Nodes |-> <<>>] /\ roots = {}

Create == \E n \in Nodes \ Used : roots' = roots \cup {n} /\ UNCHANGED kids

(* A root is put into an item of another tree, at place i.                 *)
Put ==
  \E c \in roots : \E p \in Used \ Family(c) : \E i \in 1..Len(kids[p]) + 1 :
    /\ kids' = [kids EXCEPT ![p] = InsertAt(@, i, c)]
    /\ roots' = roots \ {c}

(* A new item is made in an existing one.                                  *)
Grow ==
  \E p \in Used, n \in Nodes \ Used :
    kids' = [kids EXCEPT ![p] = Append(@, n)] /\ UNCHANGED roots

Take ==
  \E p \in Used : \E i \in DOMAIN kids[p] :
    /\ roots' = roots \cup {kids[p][i]}
    /\ kids' = [kids EXCEPT ![p] = RemoveAt(@, i)]

Without(c) == [n \in Nodes |-> IF n \in Family(c) THEN <<>> ELSE kids[n]]

Delete == \E c \in roots : kids' = Without(c) /\ roots' = roots \ {c}

(* A root takes the place of an item, which is deleted.                    *)
Replace ==
  \E c \in roots : \E p \in Used \ Family(c) : \E i \in DOMAIN kids[p] :
    /\ kids' = [Without(kids[p][i]) EXCEPT ![p] = [kids[p] EXCEPT ![i] = c]]
    /\ roots' = roots \ {c}

(* A copy of an item and of everything in it, made of new items.           *)
Duplicate ==
  \E top \in roots' \ roots, n \in Used :
    /\ roots' = roots \cup {top}
    /\ \E copy \in Injection(Family(n), Nodes \ Used) :
         /\ copy[n] = top
         /\ kids' = [m \in Nodes |->
              IF m \in Range(copy)
                THEN LET original == kids[AntiFunction(copy)[m]]
                     IN  [i \in DOMAIN original |-> copy[original[i]]]
                ELSE kids[m]]

(* A new item with new items in it.                                        *)
Build ==
  \E top \in roots' \ roots :
    /\ roots' = roots \cup {top}
    /\ kids' = [kids EXCEPT ![top] = kids'[top]]
    /\ kids'[top] # <<>> /\ IsInjective(kids'[top])
    /\ {top} \cup ToSet(kids'[top]) \subseteq Nodes \ Used
    /\ top \notin ToSet(kids'[top])

Next == Create \/ Put \/ Grow \/ Take \/ Delete \/ Replace \/ Duplicate \/ Build

Spec == Init /\ [][Next]_treeVars
=============================================================================
