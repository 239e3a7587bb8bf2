------------------------------ MODULE JsonHeap ------------------------------
(***************************************************************************)
(* The items of cJSON.c as they lie in memory: doubly linked lists of      *)
(* siblings under the child pointer of their parent, items that are        *)
(* references to the contents of others, and keys that are copies on the   *)
(* heap or the caller's constants.  The caller follows the rules of        *)
(* cJSON.h: it adds, inserts and deletes only items that it owns, adds     *)
(* none to itself, to something in it, or to a reference, and duplicates   *)
(* no reference, whose contents may be gone.                               *)
(*                                                                         *)
(* An item's value is left out.  An item that cannot be allocated leaves   *)
(* everything as it was; a key that cannot be copied is a missing key.     *)
(***************************************************************************)
EXTENDS Integers, SequencesExt

CONSTANTS
  Nodes,  (* the memory for items                                          *)
  Null,
  Ops     (* the functions the caller uses                                 *)

AllOps == {"list", "array", "object", "const", "reference", "detach", "insert", "replace",
           "rename", "duplicate"}

ASSUME JsonHeapAssumption ==
  /\ IsFiniteSet(Nodes)
  /\ Null \notin Nodes
  /\ Ops \subseteq AllOps

VARIABLES
  heap,    (* of each node: its links, its type flags and its key          *)
  live,    (* the nodes that are allocated                                 *)
  held,    (* those that the caller owns                                   *)
  strings, (* the keys that are allocated: strdup() calls without a free() *)
  strayed  (* has a call been made after which this is not known (Keys)    *)

vars == <<heap, live, held, strings, strayed>>

Links == Nodes \cup {Null}
Items == [next : Links, prev : Links, child : Links,
          ref : BOOLEAN,     (* cJSON_IsReference                          *)
          const : BOOLEAN,   (* cJSON_StringIsConst                        *)
          key : {"none", "copy", "constant"}]

Blank == [next |-> Null, prev |-> Null, child |-> Null, ref |-> FALSE,
          const |-> FALSE, key |-> "none"]

-----------------------------------------------------------------------------
(* Walks over a heap h.                                                    *)

(* The links from node first on: Null follows the last sibling.            *)
Walk(h, first) ==
  LET at[k \in 0..Cardinality(Nodes)] ==
        IF k = 0 THEN first ELSE IF at[k - 1] = Null THEN Null ELSE h[at[k - 1]].next
  IN  at

(* The siblings from node first on.                                        *)
Siblings(h, first) ==
  LET at == Walk(h, first)
  IN  [i \in 1..Cardinality({k \in 0..Cardinality(Nodes) : at[k] # Null}) |-> at[i - 1]]

Members(h, p) == IF h[p].ref THEN <<>> ELSE Siblings(h, h[p].child)

(* Mutant of Nearby: the contents of a reference are freed with it.        *)
NearbyThroughReferences(h, R) == R \cup {h[m].next : m \in R} \cup {h[m].child : m \in R}

(* What a step along the links comes to, the contents of references        *)
(* excepted.                                                               *)
Nearby(h, R) == R \cup {h[m].next : m \in R} \cup {h[m].child : m \in {m \in R : ~h[m].ref}}

(* What is reached from n, step by step.                                   *)
Reach(h, n) ==
  LET reach[k \in 0..Cardinality(Nodes)] ==
        IF k = 0 THEN {n} ELSE Nearby(h, reach[k - 1]) \ {Null}
  IN  reach

(* What cJSON_Delete(n) frees: n, what follows n in its list, and the      *)
(* contents of all of them, those of references excepted.                  *)
Doomed(h, n) == Reach(h, n)[Cardinality(Nodes)]

(* An item and everything in it: unlike Doomed, without its siblings.      *)
Family(n) == {n} \cup IF heap[n].ref \/ heap[n].child = Null THEN {}
                      ELSE Doomed(heap, heap[n].child)

-----------------------------------------------------------------------------
(* What the functions do to a heap h.                                      *)

SetNext(h, n, m) == IF n = Null THEN h ELSE [h EXCEPT ![n].next = m]
SetPrev(h, n, m) == IF n = Null THEN h ELSE [h EXCEPT ![n].prev = m]

(* Mutant of Appended: suffix_object() without item->prev = prev.          *)
AppendedOneWay(h, p, c) ==
  IF h[p].child = Null THEN [h EXCEPT ![p].child = c]
  ELSE SetNext(h, Last(Siblings(h, h[p].child)), c)

(* cJSON_AddItemToArray(): c goes to the end of the list of p.             *)
Appended(h, p, c) ==
  IF h[p].child = Null THEN [h EXCEPT ![p].child = c]
  ELSE LET last == Last(Siblings(h, h[p].child))
       IN  SetPrev(SetNext(h, last, c), c, last)

(* What comes to point to new where p or its list pointed to x.            *)
Redirected(h, p, x, before, new) ==
  IF x = h[p].child THEN [h EXCEPT ![p].child = new] ELSE SetNext(h, before, new)

(* The neighbours of x, and p if x comes first, point past x.              *)
Bypassed(h, p, x) ==
  LET around == SetPrev(SetNext(h, h[x].prev, h[x].next), h[x].next, h[x].prev)
  IN  IF x = h[p].child THEN [around EXCEPT ![p].child = h[x].next] ELSE around

(* Mutant of Unlinked: the detached item keeps its links.                  *)
UnlinkedDangling(h, p, x) == Bypassed(h, p, x)

Unlinked(h, p, x) == SetPrev(SetNext(Bypassed(h, p, x), x, Null), x, Null)

(* Mutant of InsertedBefore: the walk to x stops one item early.           *)
InsertedEarly(h, p, x, c) ==
  LET y == IF h[x].prev = Null THEN x ELSE h[x].prev
      linked == SetPrev(SetPrev(SetNext(h, c, y), c, h[y].prev), y, c)
  IN  Redirected(linked, p, y, h[y].prev, c)

(* c in front of x.                                                        *)
InsertedBefore(h, p, x, c) ==
  LET linked == SetPrev(SetPrev(SetNext(h, c, x), c, h[x].prev), x, c)
  IN  Redirected(linked, p, x, h[x].prev, c)

(* Mutant of PutInPlace: the old item keeps its links when it is deleted.  *)
PutInPlaceLinked(h, p, x, c) ==
  LET linked == SetPrev(SetPrev(SetNext(h, c, h[x].next), c, h[x].prev), h[x].next, c)
  IN  Redirected(linked, p, x, h[x].prev, c)

(* c stands where x was; x is unlinked, ready to be deleted.               *)
PutInPlace(h, p, x, c) ==
  LET linked == SetPrev(SetPrev(SetNext(h, c, h[x].next), c, h[x].prev), h[x].next, c)
  IN  SetPrev(SetNext(Redirected(linked, p, x, h[x].prev, c), x, Null), x, Null)

(* The pointers of references into what is freed dangle; nobody follows    *)
(* them, and they are kept as Null.                                        *)
Freed(h, n) ==
  LET gone == Doomed(h, n)
  IN  [m \in Nodes |-> IF m \in gone THEN Blank
                       ELSE IF h[m].ref /\ h[m].child \in gone THEN [h[m] EXCEPT !.child = Null]
                       ELSE h[m]]

(* The keys that cJSON_Delete() frees with the items in S.                 *)
FreedKeys(h, S) == {m \in S : ~h[m].const /\ h[m].key # "none"}

(* The keys of items in S that are copies.                                 *)
CopiedKeys(h, S) == {m \in S : h[m].key = "copy"}

(* A call has allocated and freed this many keys.  It strays if it gives a *)
(* copied key to an item with the flag cJSON_StringIsConst or overwrites a *)
(* key that is still allocated; nothing is counted from then on.           *)
Keys(made, freed, strays) ==
  /\ strayed' = (strayed \/ strays)
  /\ strings' = IF strayed' THEN 0 ELSE strings + made - freed

Block(key) == IF key = "none" THEN 0 ELSE 1

WithKey(h, n, k) == [h EXCEPT ![n].key = k]

-----------------------------------------------------------------------------
Init ==
  /\ heap = [n \in Nodes |-> Blank]
  /\ live = {} /\ held = {} /\ strings = 0 /\ strayed = FALSE

Offers(op) == op \in Ops

(* The caller passes a container and an item of its own.                   *)
Container(p) == p \in live /\ ~heap[p].ref
Fits(p, c) == Container(p) /\ c \in held /\ p \notin Family(c)

(* cJSON_CreateArray() and its sisters.                                    *)
Create(n) ==
  /\ n \notin live
  /\ live' = live \cup {n} /\ held' = held \cup {n}
  /\ UNCHANGED <<heap, strings, strayed>>

AddItemToArray(p, c) ==
  /\ Offers("array") /\ Fits(p, c)
  /\ heap' = Appended(heap, p, c)
  /\ held' = held \ {c}
  /\ UNCHANGED <<live, strings, strayed>>

(* The old key is freed without a look at the flag, which stays.           *)
AddItemToObject(p, c) ==
  /\ Offers("object") /\ Fits(p, c)
  /\ \E key \in {"copy", "none"} :
       /\ heap' = Appended(WithKey(heap, c, key), p, c)
       /\ Keys(Block(key), Block(heap[c].key), heap[c].const)
  /\ held' = held \ {c}
  /\ UNCHANGED live

(* Mutant of AddItemToObjectCS: the old key is freed here too without a    *)
(* look at the flag.                                                       *)
AddItemToObjectCSFreeing(p, c) ==
  /\ Offers("const") /\ Fits(p, c)
  /\ heap' = Appended([heap EXCEPT ![c].key = "constant", ![c].const = TRUE], p, c)
  /\ held' = held \ {c}
  /\ Keys(0, Block(heap[c].key), FALSE)
  /\ UNCHANGED live

AddItemToObjectCS(p, c) ==
  /\ Offers("const") /\ Fits(p, c)
  /\ heap' = Appended([heap EXCEPT ![c].key = "constant", ![c].const = TRUE], p, c)
  /\ held' = held \ {c}
  /\ Keys(0, IF heap[c].const THEN 0 ELSE Block(heap[c].key), FALSE)
  /\ UNCHANGED live

(* create_reference(): a copy of the item, with its flags and its child.   *)
Reference(c) ==
  [heap[c] EXCEPT !.key = "none", !.ref = TRUE, !.next = Null, !.prev = Null]

(* cJSON_AddItemReferenceToArray() and, with a key, ...ToObject().         *)
AddItemReference(p, c, n) ==
  /\ Offers("reference")
  /\ Container(p) /\ c \in live /\ n \notin live /\ p \notin Family(c)
  /\ \E key \in {"none"} \cup IF Offers("object") THEN {"copy"} ELSE {} :
       /\ heap' = Appended([heap EXCEPT ![n] = [Reference(c) EXCEPT !.key = key]], p, n)
       /\ Keys(Block(key), 0, heap[c].const /\ key # "none")
  /\ live' = live \cup {n}
  /\ UNCHANGED held

(* cJSON_DetachItemFromArray(), ...FromObject().                           *)
Detach(p, x) ==
  /\ Offers("detach")
  /\ Container(p) /\ x \in ToSet(Members(heap, p))
  /\ heap' = Unlinked(heap, p, x)
  /\ held' = held \cup {x}
  /\ UNCHANGED <<live, strings, strayed>>

Delete(c) ==
  /\ c \in held
  /\ heap' = Freed(heap, c)
  /\ live' = live \ Doomed(heap, c)
  /\ held' = held \ {c}
  /\ Keys(0, Cardinality(FreedKeys(heap, Doomed(heap, c))), FALSE)

(* In front of x; past the end of the list cJSON_AddItemToArray() is used. *)
InsertItemInArray(p, x, c) ==
  /\ Offers("insert") /\ Fits(p, c)
  /\ \/ x \in ToSet(Members(heap, p)) /\ heap' = InsertedBefore(heap, p, x, c)
     \/ x = Null /\ heap' = Appended(heap, p, c)
  /\ held' = held \ {c}
  /\ UNCHANGED <<live, strings, strayed>>

(* x is replaced by c and deleted.                                         *)
ReplaceIn(h, p, x, c, made, strays) ==
  LET after == PutInPlace(h, p, x, c)
  IN  /\ heap' = Freed(after, x)
      /\ live' = live \ Doomed(after, x)
      /\ held' = held \ {c}
      /\ Keys(made, Cardinality(FreedKeys(after, Doomed(after, x))), strays)

ReplaceItemInArray(p, x, c) ==
  /\ Offers("replace") /\ Fits(p, c)
  /\ x \in ToSet(Members(heap, p))
  /\ ReplaceIn(heap, p, x, c, 0, FALSE)

(* c gets a copy of the key of x; its own old key is not freed.            *)
ReplaceItemInObject(p, x, c) ==
  /\ Offers("rename") /\ Fits(p, c)
  /\ x \in ToSet(Members(heap, p))
  /\ \E key \in {"copy", "none"} :
       ReplaceIn(WithKey(heap, c, key), p, x, c, Block(key),
                 heap[c].const \/ heap[c].key # "none")

(* What the copies of the items in DOMAIN copy look like: the keys are     *)
(* copied, the flag stays, and no copy is a reference.  An item that is    *)
(* unfinished, or the one the call is about, is in no list yet.            *)
Copies(copy, n, unfinished) ==
  LET original == AntiFunction(copy)
      Moved(m) == IF m \in DOMAIN copy \ unfinished THEN copy[m] ELSE Null
      Beside(m, link) == IF m \in unfinished \cup {n} THEN Null ELSE Moved(link)
      Copied(m) == [next |-> Beside(m, heap[m].next), prev |-> Beside(m, heap[m].prev),
                    child |-> Moved(heap[m].child),
                    ref |-> FALSE, const |-> heap[m].const,
                    key |-> IF heap[m].key = "none" THEN "none" ELSE "copy"]
  IN  [m \in Nodes |-> IF m \in Range(copy) THEN Copied(original[m]) ELSE heap[m]]

(* A copy that keeps the flag although its key is no constant.             *)
FlagKept(S) == \E m \in S : heap[m].const /\ heap[m].key # "none"

Duplicable(n) == Offers("duplicate") /\ n \in live /\ \A m \in Family(n) : ~heap[m].ref

(* cJSON_Duplicate() of an item, with or without what is in it.            *)
Duplicate(n) ==
  /\ Duplicable(n)
  /\ \E S \in {{n}, Family(n)} : \E copy \in Injection(S, Nodes \ live) :
       /\ heap' = Copies(copy, n, {})
       /\ live' = live \cup Range(copy)
       /\ held' = held \cup {copy[n]}
       /\ Keys(Cardinality(CopiedKeys(heap', Range(copy))), 0, FlagKept(S))

(* Mutant of GivenUp: the unfinished items alone are freed.                *)
GivenUpAlone(h, copy, unfinished) == {copy[x] : x \in unfinished}

(* The copies of the unfinished items are deleted, one call after another. *)
GivenUp(h, copy, unfinished) == UNION {Doomed(h, copy[x]) : x \in unfinished}

(* The items in front of x in its list.                                    *)
InFront(x) == {z \in live : x \in ToSet(Tail(Siblings(heap, z)))}

(* An allocation fails on the way to m, or when m already has its item.    *)
(* The items n to m are then unfinished, those in front of them copied.    *)
DuplicateFails(n, m) ==
  /\ Duplicable(n) /\ m \in Family(n)
  /\ UNCHANGED held
  /\ \E unfinished \in LET above == {x \in Family(n) : m \in Family(x)}
                         IN  {above, above \ {m}} :
       LET finished == UNION {Family(z) : z \in UNION {InFront(x) :
                                x \in {x \in Family(n) \ {n} : m \in Family(x)}}}
       IN  \E copy \in Injection(unfinished \cup finished, Nodes \ live) :
             LET partial == Copies(copy, n, unfinished)
                 gone == GivenUp(partial, copy, unfinished)
             IN  /\ heap' = [x \in Nodes |-> IF x \in gone THEN Blank ELSE partial[x]]
                 /\ live' = (live \cup Range(copy)) \ gone
                 /\ Keys(Cardinality(CopiedKeys(partial, Range(copy))),
                         Cardinality(FreedKeys(partial, gone)), FlagKept(DOMAIN copy))

(* The array a with these items in it, one linked to the next.             *)
Chained(a, elements) ==
  LET linked[k \in 0..Len(elements)] ==
        IF k = 0 THEN heap ELSE Appended(linked[k - 1], a, elements[k])
  IN  linked[Len(elements)]

(* cJSON_CreateIntArray() and its sisters: a new array of new items; if    *)
(* one item cannot be allocated, the array is deleted with those before.   *)
CreateList(a, elements) ==
  /\ Offers("list")
  /\ \/ /\ heap' = Chained(a, elements)
        /\ live' = live \cup {a} \cup ToSet(elements)
        /\ held' = held \cup {a}
     \/ LET partial == Chained(a, Front(elements))
        IN  /\ heap' = Freed(partial, a)
            /\ live' = (live \cup {a} \cup ToSet(Front(elements))) \ Doomed(partial, a)
            /\ UNCHANGED held
  /\ UNCHANGED <<strings, strayed>>

CreateLists ==
  \E k \in 1..Cardinality(Nodes \ live) - 1 : \E new \in Injection(1..k + 1, Nodes \ live) :
    CreateList(Head(new), Tail(new))

Next ==
  \/ \E n \in Nodes : Create(n)
  \/ \E p, c \in Nodes :
       AddItemToArray(p, c) \/ AddItemToObject(p, c) \/ AddItemToObjectCS(p, c)
  \/ \E p, c, n \in Nodes : AddItemReference(p, c, n)
  \/ \E p, x \in Nodes : Detach(p, x)
  \/ \E c \in Nodes : Delete(c)
  \/ \E p, c \in Nodes : \E x \in Links : InsertItemInArray(p, x, c)
  \/ \E p, x, c \in Nodes : ReplaceItemInArray(p, x, c) \/ ReplaceItemInObject(p, x, c)
  \/ \E n \in Nodes : Duplicate(n)
  \/ \E n, m \in Nodes : DuplicateFails(n, m)
  \/ CreateLists

Spec == Init /\ [][Next]_vars

-----------------------------------------------------------------------------
(* Properties.                                                             *)

(* The types of the variables; a node that is not allocated is blank.      *)
TypeOK ==
  /\ heap \in [Nodes -> Items]
  /\ live \subseteq Nodes
  /\ held \subseteq live
  /\ strings \in Int /\ strayed \in BOOLEAN
  /\ \A n \in Nodes \ live : heap[n] = Blank

(* Both directions of every list agree, which print_array() and the        *)
(* functions that walk or splice it rely on, and an item that its caller   *)
(* owns is in no list: deleting it takes nobody along (cJSON.c:1628-1632,  *)
(* 1738-1739).                                                             *)
DoublyLinked ==
  \A n \in live :
    /\ heap[n].next # Null => heap[heap[n].next].prev = n
    /\ heap[n].prev # Null => heap[heap[n].prev].next = n
    /\ ~heap[n].ref /\ heap[n].child # Null => heap[heap[n].child].prev = Null
    /\ n \in held => heap[n].next = Null /\ heap[n].prev = Null

(* Seen without pointers: JsonTree.                                        *)
Tree == INSTANCE JsonTree WITH kids <- [n \in Nodes |-> Members(heap, n)], roots <- held

(* Every call does to the forest of items what its caller expects, and     *)
(* leaves the other trees alone.                                           *)
ImplementsTree == Tree!Spec

(* No item is lost, none is freed that the caller can still reach.         *)
NothingLost == live = Tree!Used

(* However an item is moved, copied or deleted, and whether its keys are   *)
(* copies or constants, the keys that are allocated are those of the items *)
(* there are: none is lost, none is freed twice, no constant is freed      *)
(* (:115-128, 1680-1702).  Not so after a call that strays.                *)
KeysAccounted == strayed \/ strings = Cardinality(CopiedKeys(heap, live))

(* An item is put, replaced and taken where the caller has asked for it,   *)
(* and the others in the list stay in their order (:1650-1671, 1716-1846). *)
Placed(p, c) ==
  LET before == Members(heap, p)
      after == Members(heap', p)
  IN  /\ \/ AddItemToArray(p, c) \/ AddItemToObject(p, c) \/ AddItemToObjectCS(p, c)
         \/ InsertItemInArray(p, Null, c)
         => after = Append(before, c)
      /\ \A i \in DOMAIN before :
           /\ InsertItemInArray(p, before[i], c) => after = InsertAt(before, i, c)
           /\ ReplaceItemInArray(p, before[i], c) \/ ReplaceItemInObject(p, before[i], c)
              => after = [before EXCEPT ![i] = c]
           /\ Detach(p, before[i]) => after = RemoveAt(before, i)

PlacedAsAsked == [][\A p, c \in Nodes : Placed(p, c)]_vars
=============================================================================
