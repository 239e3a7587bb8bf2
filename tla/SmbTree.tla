------------------------------ MODULE SmbTree ------------------------------
(***************************************************************************)
(* util_smbtree.c: the workgroups of the local network, as the master      *)
(* browser tells them.  cli_NetServerEnum() calls back once for each       *)
(* workgroup and may break off at any point.                               *)
(***************************************************************************)
EXTENDS JsonFields

CONSTANTS
  Groups,     (* the names of workgroups                                   *)
  MaxGroups,  (* bound: how many are listed                                *)
  MaxFailed   (* bound: failed allocations in one run                      *)

ASSUME SmbTreeAssumption == MaxGroups \in Nat /\ MaxFailed \in Nat

VARIABLES
  pc,
  response,   (* "null", or "object" with these fields                     *)
  fields,
  workgroups, (* the array under "workgroups"                              *)
  flags,      (* "browser": isConnectMasterBrowserFailed,                  *)
              (* "system": isSystemError                                   *)
  frame,      (* is the talloc frame held                                  *)
  smbCli,     (* is there a connection to a master browser                 *)
  failed      (* number of allocations that failed                         *)

vars == <<pc, response, fields, workgroups, flags, frame, smbCli, failed>>

Suffer(n) == failed + n <= MaxFailed /\ failed' = failed + n

Init ==
  /\ pc = "create"
  /\ response = "null" /\ fields = <<>> /\ workgroups = <<>>
  /\ flags = {} /\ frame = FALSE /\ smbCli = FALSE
  /\ failed = 0

Step(from, to) == pc = from /\ pc' = to

CreateResponse ==
  /\ Step("create", "prepare")
  /\ response' = "object"
  /\ \E a \in AddString(fields, "command", "smbtree") :
       fields' = a.object /\ Suffer(a.failed)
  /\ UNCHANGED <<workgroups, flags, frame, smbCli>>

NoResponse ==
  /\ Step("create", "ends")
  /\ Suffer(1)
  /\ UNCHANGED <<response, fields, workgroups, flags, frame, smbCli>>

Prepare ==
  /\ Step("prepare", "master")
  /\ frame' = TRUE
  /\ UNCHANGED <<response, fields, workgroups, flags, smbCli, failed>>

(* The frame, the login data or a copy of the name is missing: no flag.    *)
PrepareFails ==
  /\ Step("prepare", "ends")
  /\ frame' \in BOOLEAN
  /\ UNCHANGED <<response, fields, workgroups, flags, smbCli, failed>>

FindMaster ==
  /\ Step("master", "array")
  /\ smbCli' = TRUE
  /\ \E a \in AddString(fields, "master browser", "address") :
       fields' = a.object /\ Suffer(a.failed)
  /\ UNCHANGED <<response, workgroups, flags, frame>>

NoMaster ==
  /\ Step("master", "array")
  /\ flags' = flags \cup {"browser"}
  /\ UNCHANGED <<response, fields, workgroups, frame, smbCli, failed>>

AddWorkgroups ==
  /\ Step("array", "enum")
  /\ \E a \in AddItem(fields, "workgroups", "array") :
       fields' = a.object /\ Suffer(a.failed)
  /\ UNCHANGED <<response, workgroups, flags, frame, smbCli>>

NoWorkgroups ==
  /\ Step("array", "ends")
  /\ Suffer(1)
  /\ flags' = flags \cup {"system"}
  /\ UNCHANGED <<response, fields, workgroups, frame, smbCli>>

(* Mutant of EachWorkgroup: a name that is lost is listed as "".           *)
EachWorkgroupOrEmpty ==
  /\ Step("enum", "enum")
  /\ smbCli
  /\ Len(workgroups) < MaxGroups
  /\ \E g \in Groups :
       \/ workgroups' = Append(workgroups, g) /\ UNCHANGED failed
       \/ workgroups' = Append(workgroups, NoKey) /\ Suffer(1)
  /\ UNCHANGED <<response, fields, flags, frame, smbCli>>

(* _each_workgroup_callback(): the name is listed if there is memory.      *)
EachWorkgroup ==
  /\ Step("enum", "enum")
  /\ smbCli
  /\ Len(workgroups) < MaxGroups
  /\ \E g \in Groups :
       \/ workgroups' = Append(workgroups, g) /\ UNCHANGED failed
       \/ UNCHANGED workgroups /\ Suffer(1)
  /\ UNCHANGED <<response, fields, flags, frame, smbCli>>

(* Whether the enumeration was complete makes no difference.               *)
EnumEnds ==
  /\ Step("enum", "ends")
  /\ UNCHANGED <<response, fields, workgroups, flags, frame, smbCli, failed>>

Verdict ==
  IF "browser" \in flags THEN "no master browser"
  ELSE IF "system" \in flags THEN "system error"
  ELSE "none"

(* Mutant of Ends: the flag of the missing browser is not looked at.       *)
EndsWithoutBrowserFlag ==
  /\ Step("ends", "returned")
  /\ frame' = FALSE
  /\ IF "system" \notin flags THEN UNCHANGED <<fields, failed>>
     ELSE \E a \in AddString(fields, "fail", "system error") :
            fields' = a.object /\ Suffer(a.failed)
  /\ UNCHANGED <<response, workgroups, flags, smbCli>>

(* Mutant of Ends: each flag that is set is reported.                      *)
EndsWithEveryFlag ==
  /\ Step("ends", "returned")
  /\ frame' = FALSE
  /\ \E a \in IF "browser" \in flags THEN AddString(fields, "fail", "no master browser")
                ELSE {[object |-> fields, failed |-> 0]} :
       \E b \in IF "system" \in flags THEN AddString(a.object, "fail", "system error")
                  ELSE {[object |-> a.object, failed |-> 0]} :
         fields' = b.object /\ Suffer(a.failed + b.failed)
  /\ UNCHANGED <<response, workgroups, flags, smbCli>>

Ends ==
  /\ Step("ends", "returned")
  /\ frame' = FALSE
  /\ IF response = "null" \/ Verdict = "none" THEN UNCHANGED <<fields, failed>>
     ELSE \E a \in AddString(fields, "fail", Verdict) :
            fields' = a.object /\ Suffer(a.failed)
  /\ UNCHANGED <<response, workgroups, flags, smbCli>>

Returned == pc = "returned" /\ UNCHANGED vars

Work ==
  \/ CreateResponse \/ NoResponse \/ Prepare \/ PrepareFails \/ FindMaster
  \/ NoMaster \/ AddWorkgroups \/ NoWorkgroups \/ EachWorkgroup \/ EnumEnds \/ Ends

Next == Work \/ Returned

Spec == Init /\ [][Next]_vars

(* The program is the only one to schedule, and Samba's calls return.      *)
FairSpec == Spec /\ WF_vars(Work)

-----------------------------------------------------------------------------
(* Properties.                                                             *)

ResponseFields ==
  [key : {"command", "master browser", "workgroups", "fail", NoKey},
   val : {"smbtree", "address", "array", "no master browser", "system error"}]

(* The types of the variables.                                             *)
TypeOK ==
  /\ pc \in {"create", "prepare", "master", "array", "enum", "ends", "returned"}
  /\ response \in {"null", "object"}
  /\ fields \in Seq(ResponseFields)
  /\ workgroups \in Seq(Groups)
  /\ flags \subseteq {"browser", "system"}
  /\ frame \in BOOLEAN /\ smbCli \in BOOLEAN
  /\ failed \in 0..MaxFailed

(* As long as memory does not run out, an answer tells the one or the      *)
(* other, whole: the master browser and a list of workgroups, and then no  *)
(* failure (:162-211, :221); or no browser, and then nothing is listed,    *)
(* and the failure is told, unless Samba could not even be prepared, of    *)
(* which the answer says nothing (:134-137).                               *)
BrowserOrFailure ==
  pc = "returned" /\ failed = 0 =>
    IF smbCli THEN KeysOf(fields) = {"command", "master browser", "workgroups"}
    ELSE /\ workgroups = <<>>
         /\ KeysOf(fields) \in {{"command", "workgroups", "fail"}, {"command"}}

(* Seen by its caller: Utility.  The connection to the master browser is   *)
(* no part of what is held: nothing shuts it down (:234).                  *)
Promise == INSTANCE Utility WITH
  Layout <- << [key |-> "command", vals |-> {"smbtree"}],
               [key |-> "master browser", vals |-> {"address"}],
               [key |-> "workgroups", vals |-> {"array"}],
               [key |-> "fail", vals |-> {"no master browser", "system error"}] >>,
  Ends  <- {"returned"},
  stage <- IF pc = "returned" THEN "returned" ELSE "working",
  held  <- IF frame THEN {"smbFrame"} ELSE {}

(* The response has its fields in order and one failure at most, nothing   *)
(* is held or changed after the return, and the call returns (:216-243).   *)
ImplementsUtility == Promise!Spec
=============================================================================
