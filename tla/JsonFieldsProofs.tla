------------------------- MODULE JsonFieldsProofs -------------------------
(***************************************************************************)
(* What the proofs about the three utilities need to know of JsonFields,   *)
(* whatever the set F of fields is.                                        *)
(***************************************************************************)
EXTENDS JsonFields, TLAPS

ValsOf(object) == {object[i].val : i \in DOMAIN object}

(* A field is added, perhaps without its key, or it is lost.               *)
LEMMA AddOutcomes ==
  ASSUME NEW object, NEW key, NEW val,
         NEW a \in AddItem(object, key, val) \cup AddString(object, key, val)
  PROVE  \/ a.object = Append(object, Field(key, val)) /\ a.failed = 0
         \/ a.object = Append(object, Field(NoKey, val)) /\ a.failed = 1
         \/ a.object = object /\ a.failed = 1
BY DEF AddString, AddItem

(* An object without fields has no keys and no values.                     *)
LEMMA EmptyObject == KeysOf(<<>>) = {} /\ ValsOf(<<>>) = {}
BY DEF KeysOf, ValsOf

(* An object with another field behind the others.                         *)
LEMMA AppendedField ==
  ASSUME NEW F, NEW object \in Seq(F), NEW key, NEW val, Field(key, val) \in F
  PROVE  /\ Append(object, Field(key, val)) \in Seq(F)
         /\ KeysOf(Append(object, Field(key, val))) = KeysOf(object) \cup {key}
         /\ ValsOf(Append(object, Field(key, val))) = ValsOf(object) \cup {val}
<1> DEFINE more == Append(object, Field(key, val))
<1>1. Field(key, val).key = key /\ Field(key, val).val = val
  BY DEF Field
<1>2. /\ more \in Seq(F)
      /\ DOMAIN more = DOMAIN object \cup {Len(object) + 1}
      /\ \A i \in DOMAIN object : more[i] = object[i]
      /\ more[Len(object) + 1] = Field(key, val)
  OBVIOUS
<1>3. KeysOf(more) = KeysOf(object) \cup {key} /\ ValsOf(more) = ValsOf(object) \cup {val}
  BY <1>1, <1>2 DEF KeysOf, ValsOf
<1> QED BY <1>2, <1>3

(* What an object is after a field has been added; nothing but a failed    *)
(* allocation takes a key away.                                            *)
LEMMA Added ==
  ASSUME NEW F, NEW object \in Seq(F), NEW key, NEW val,
         Field(key, val) \in F, Field(NoKey, val) \in F,
         NEW a \in AddItem(object, key, val) \cup AddString(object, key, val)
  PROVE  /\ a.object \in Seq(F)
         /\ a.failed \in {0, 1}
         /\ a.failed = 0 => KeysOf(a.object) = KeysOf(object) \cup {key}
         /\ ValsOf(a.object) \subseteq ValsOf(object) \cup {val}
<1>1. CASE a.object = Append(object, Field(key, val)) /\ a.failed = 0
  BY <1>1, AppendedField
<1>2. CASE a.object = Append(object, Field(NoKey, val)) /\ a.failed = 1
  BY <1>2, AppendedField
<1>3. CASE a.object = object /\ a.failed = 1
  BY <1>3
<1> QED BY <1>1, <1>2, <1>3, AddOutcomes

-----------------------------------------------------------------------------
(* The order of the fields: Place and Adds of Utility, of any layout.      *)

PlaceIn(layout, field) == CHOOSE i \in DOMAIN layout : field.val \in layout[i].vals

AddsTo(layout, object, more, places) ==
  \E i \in places :
    /\ \A k \in DOMAIN object : PlaceIn(layout, object[k]) < i
    /\ \E key \in {layout[i].key, NoKey}, val \in layout[i].vals :
         more = Append(object, Field(key, val))

(* No value has two places.                                                *)
Unambiguous(layout) ==
  \A v : \A i, p \in DOMAIN layout : v \in layout[i].vals /\ v \in layout[p].vals => i = p

(* A value that is allowed at one place only is at that place.             *)
LEMMA PlaceOf ==
  ASSUME NEW layout, Unambiguous(layout),
         NEW f, NEW p \in DOMAIN layout, f.val \in layout[p].vals
  PROVE  PlaceIn(layout, f) = p
BY DEF PlaceIn, Unambiguous

(* Adding the field for one place behind fields for earlier ones, as       *)
(* AddItem and AddString do it, is what Utility allows.                    *)
LEMMA AddsBehind ==
  ASSUME NEW layout, Unambiguous(layout),
         NEW object, NEW more, NEW p \in DOMAIN layout, NEW val \in layout[p].vals,
         \A v \in ValsOf(object) : \E i \in DOMAIN layout : i < p /\ v \in layout[i].vals,
         \E a \in AddItem(object, layout[p].key, val)
                 \cup AddString(object, layout[p].key, val) : more = a.object
  PROVE  more = object \/ AddsTo(layout, object, more, {p})
<1>1. SUFFICES ASSUME more # object PROVE AddsTo(layout, object, more, {p})
  OBVIOUS
<1>2. PICK key \in {layout[p].key, NoKey} : more = Append(object, Field(key, val))
  BY <1>1, AddOutcomes
<1>3. \A k \in DOMAIN object : PlaceIn(layout, object[k]) < p
  BY PlaceOf DEF ValsOf
<1> QED BY <1>2, <1>3 DEF AddsTo
=============================================================================
