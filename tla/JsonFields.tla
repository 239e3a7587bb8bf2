---------------------------- MODULE JsonFields ----------------------------
(***************************************************************************)
(* How the three utilities fill a cJSON object: an object is the sequence  *)
(* of its [key, val] fields.  cJSON reports no failed allocation to them:  *)
(* cJSON_CreateString() answers a failed one with NULL, which              *)
(* cJSON_AddItemToObject() then ignores, and when the copy of the key      *)
(* fails the item goes in without a key and is printed with the key "".    *)
(***************************************************************************)
EXTENDS Integers, Sequences

NoKey == ""

Field(key, val) == [key |-> key, val |-> val]

(* The outcomes of adding a field: what becomes of the object, and how     *)
(* many allocations have failed.                                           *)
AddItem(object, key, val) ==
  { [object |-> Append(object, Field(key, val)),   failed |-> 0],
    [object |-> Append(object, Field(NoKey, val)), failed |-> 1] }

AddString(object, key, val) ==
  AddItem(object, key, val) \cup { [object |-> object, failed |-> 1] }

KeysOf(object) == {object[i].key : i \in DOMAIN object}
=============================================================================
