------------------------------ MODULE Utility ------------------------------
(***************************************************************************)
(* What each of util_smbclient(), util_nmblookup() and util_smbtree()      *)
(* promises _execute_smb_request(), which sends what it returns: no        *)
(* response at all, or one in which the command comes first, then those    *)
(* parts of the answer that were obtained, each once and in a fixed order, *)
(* and then at most one failure.  Nothing is held any more on return, and  *)
(* the utility does return.                                                *)
(***************************************************************************)
EXTENDS JsonFields

CONSTANTS
  Layout,  (* the fields a response may have, in their order: of each its  *)
           (* key and the values it may have; the last one is "fail"       *)
  Ends     (* the stages in which a call may end                           *)

VARIABLES
  stage,   (* "working" or one of Ends                                     *)
  fields,  (* those of the response; when there is none, there are none    *)
  held     (* what is held on behalf of the call                           *)

utilityVars == <<stage, fields, held>>

Place(field) == CHOOSE i \in DOMAIN Layout : field.val \in Layout[i].vals

(* The field for one of these places is added behind those for earlier     *)
(* ones; its key may be lost.                                              *)
Adds(places) ==
  \E i \in places :
    /\ \A k \in DOMAIN fields : Place(fields[k]) < i
    /\ \E key \in {Layout[i].key, NoKey}, val \in Layout[i].vals :
         fields' = Append(fields, Field(key, val))

Init == stage = "working" /\ fields = <<>> /\ held = {}

(* Something is added, obtained or given back.                             *)
Work ==
  /\ stage = "working"
  /\ UNCHANGED fields \/ Adds(DOMAIN Layout)
  /\ UNCHANGED stage

(* A call may end by adding the failure.                                   *)
Return ==
  /\ stage = "working"
  /\ UNCHANGED fields \/ Adds({Len(Layout)})
  /\ stage' \in Ends
  /\ stage' = "returned" => held' = {}

Next == Work \/ Return

Safety == Init /\ [][Next]_utilityVars

Spec == Safety /\ WF_utilityVars(Return)
=============================================================================
