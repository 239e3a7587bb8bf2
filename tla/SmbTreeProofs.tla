--------------------------- MODULE SmbTreeProofs ---------------------------
(***************************************************************************)
(* The safety properties of SmbTree, for every set of workgroup names and  *)
(* any number of callbacks and failed allocations.                         *)
(***************************************************************************)
EXTENDS SmbTree, JsonFieldsProofs

(* Which parts of the answer may be there at which point.                  *)
PartsInv ==
  /\ pc = "create" => fields = <<>>
  /\ pc \in {"prepare", "master"} => ValsOf(fields) \subseteq {"smbtree"}
  /\ pc = "array" => ValsOf(fields) \subseteq {"smbtree", "address"}
  /\ pc \in {"enum", "ends"} => ValsOf(fields) \subseteq {"smbtree", "address", "array"}
  /\ pc = "returned" => ~frame

(* What the flags say, and the list.                                       *)
FlagsInv ==
  /\ workgroups # <<>> => smbCli
  /\ pc \in {"create", "prepare", "master"} => ~smbCli /\ flags = {}
  /\ response = "null" => fields = <<>> /\ pc \in {"create", "ends", "returned"}
  /\ "system" \in flags => failed # 0

(* The keys of an answer that got as far as looking for a browser.         *)
Browsed == IF smbCli THEN {"command", "master browser"} ELSE {"command"}

(* What the keys say of the connection, as long as memory has not run out. *)
KeysRight ==
  /\ pc \in {"prepare", "master"} => KeysOf(fields) = {"command"}
  /\ pc = "array" => KeysOf(fields) = Browsed /\ ("browser" \in flags <=> ~smbCli)
  /\ pc \in {"enum", "ends"} =>
       \/ /\ KeysOf(fields) = Browsed \cup {"workgroups"}
          /\ "browser" \in flags <=> ~smbCli
       \/ pc = "ends" /\ ~smbCli /\ flags = {} /\ KeysOf(fields) = {"command"}
  /\ BrowserOrFailure

KeysInv == failed = 0 => KeysRight

IInv == TypeOK /\ PartsInv /\ FlagsInv /\ KeysInv

-----------------------------------------------------------------------------
(* The invariant holds at first.                                           *)
LEMMA InitIInv == Init => IInv
<1> SUFFICES ASSUME Init PROVE IInv
  OBVIOUS
<1>1. failed \in 0..MaxFailed
  BY SmbTreeAssumption DEF Init
<1>2. <<>> \in Seq(ResponseFields) /\ <<>> \in Seq(Groups)
  OBVIOUS
<1>3. TypeOK
  BY <1>1, <1>2 DEF Init, TypeOK
<1>4. PartsInv /\ FlagsInv /\ KeysInv
  BY EmptyObject DEF Init, PartsInv, FlagsInv, KeysInv, KeysRight, BrowserOrFailure
<1> QED BY <1>3, <1>4 DEF IInv

(* Allocations may have failed, but none has been made good.               *)
Failing == failed' \in 0..MaxFailed /\ (failed' = 0 => failed = 0)

(* A field of the response is added, within the bound on failures.         *)
LEMMA AddField ==
  ASSUME TypeOK, NEW key, NEW val,
         Field(key, val) \in ResponseFields, Field(NoKey, val) \in ResponseFields,
         \E a \in AddItem(fields, key, val) \cup AddString(fields, key, val) :
           fields' = a.object /\ Suffer(a.failed)
  PROVE  /\ Failing
         /\ fields' \in Seq(ResponseFields)
         /\ failed' = 0 => KeysOf(fields') = KeysOf(fields) \cup {key}
         /\ ValsOf(fields') \subseteq ValsOf(fields) \cup {val}
<1>1. fields \in Seq(ResponseFields) /\ failed \in 0..MaxFailed
  BY DEF TypeOK
<1>2. PICK a \in AddItem(fields, key, val) \cup AddString(fields, key, val) :
        fields' = a.object /\ Suffer(a.failed)
  OBVIOUS
<1>3. /\ a.object \in Seq(ResponseFields)
      /\ a.failed \in {0, 1}
      /\ a.failed = 0 => KeysOf(a.object) = KeysOf(fields) \cup {key}
      /\ ValsOf(a.object) \subseteq ValsOf(fields) \cup {val}
  BY <1>1, Added
<1> QED BY <1>1, <1>2, <1>3, SmbTreeAssumption DEF Suffer, Failing

(* Every step keeps it.                                                    *)
LEMMA NextIInv == IInv /\ [Next]_vars => IInv'
<1> SUFFICES ASSUME IInv, [Next]_vars PROVE IInv'
  OBVIOUS
<1> USE SmbTreeAssumption DEF Step
<1>0. /\ failed \in Nat /\ smbCli \in BOOLEAN
      /\ workgroups \in Seq(Groups)
  BY DEF IInv, TypeOK
<1>1. CASE CreateResponse
  <2>1. /\ Field("command", "smbtree") \in ResponseFields
        /\ Field(NoKey, "smbtree") \in ResponseFields
    BY DEF Field, ResponseFields
  <2>2. /\ Failing
        /\ fields' \in Seq(ResponseFields)
        /\ failed' = 0 => KeysOf(fields') = KeysOf(fields) \cup {"command"}
        /\ ValsOf(fields') \subseteq ValsOf(fields) \cup {"smbtree"}
    BY <1>1, <2>1, AddField DEF CreateResponse, IInv
  <2>3. TypeOK'
    BY <1>1, <2>2 DEF CreateResponse, Failing, IInv, TypeOK
  <2>4. PartsInv'
    BY <1>1, <2>2, EmptyObject DEF CreateResponse, IInv, PartsInv
  <2>5. FlagsInv'
    BY <1>1 DEF CreateResponse, IInv, FlagsInv
  <2>6. KeysInv'
    <3> SUFFICES ASSUME failed' = 0 PROVE KeysRight'
      BY DEF KeysInv
    <3>1. KeysOf(fields') = {"command"}
      BY <1>1, <2>2, EmptyObject DEF CreateResponse, IInv, PartsInv
    <3> QED BY <1>1, <3>1 DEF CreateResponse, KeysRight, BrowserOrFailure
  <2> QED BY <2>3, <2>4, <2>5, <2>6 DEF IInv
<1>2. CASE NoResponse \/ NoWorkgroups
  <2>1. failed' \in 0..MaxFailed /\ failed' # 0
    BY <1>2 DEF NoResponse, NoWorkgroups, Suffer, IInv, TypeOK
  <2>2. TypeOK'
    BY <1>2, <2>1 DEF NoResponse, NoWorkgroups, IInv, TypeOK
  <2>3. PartsInv'
    BY <1>2, EmptyObject DEF NoResponse, NoWorkgroups, IInv, PartsInv
  <2>4. FlagsInv'
    BY <1>2, <2>1 DEF NoResponse, NoWorkgroups, IInv, FlagsInv
  <2>5. KeysInv'
    BY <2>1 DEF KeysInv
  <2> QED BY <2>2, <2>3, <2>4, <2>5 DEF IInv
<1>3. CASE Prepare \/ PrepareFails \/ NoMaster \/ EnumEnds
  <2>1. TypeOK'
    BY <1>3 DEF Prepare, PrepareFails, NoMaster, EnumEnds, IInv, TypeOK
  <2>2. PartsInv' /\ FlagsInv'
    BY <1>3 DEF Prepare, PrepareFails, NoMaster, EnumEnds, IInv, PartsInv, FlagsInv
  <2>3. KeysInv'
    BY <1>3
    DEF Prepare, PrepareFails, NoMaster, EnumEnds, IInv, FlagsInv, KeysInv, KeysRight,
        Browsed, BrowserOrFailure
  <2> QED BY <2>1, <2>2, <2>3 DEF IInv
<1>4. CASE FindMaster
  <2>1. /\ Field("master browser", "address") \in ResponseFields
        /\ Field(NoKey, "address") \in ResponseFields
    BY DEF Field, ResponseFields
  <2>2. /\ Failing
        /\ fields' \in Seq(ResponseFields)
        /\ failed' = 0 => KeysOf(fields') = KeysOf(fields) \cup {"master browser"}
        /\ ValsOf(fields') \subseteq ValsOf(fields) \cup {"address"}
    BY <1>4, <2>1, AddField DEF FindMaster, IInv
  <2>3. TypeOK'
    BY <1>4, <2>2 DEF FindMaster, Failing, IInv, TypeOK
  <2>4. PartsInv'
    BY <1>4, <2>2 DEF FindMaster, IInv, PartsInv
  <2>5. response # "null"
    BY <1>4 DEF FindMaster, IInv, FlagsInv
  <2>6. FlagsInv'
    BY <1>4, <2>2, <2>5 DEF FindMaster, Failing, IInv, FlagsInv
  <2>7. KeysInv'
    <3> SUFFICES ASSUME failed' = 0 PROVE KeysRight'
      BY DEF KeysInv
    <3>1. KeysRight /\ KeysOf(fields') = KeysOf(fields) \cup {"master browser"}
      BY <2>2 DEF Failing, IInv, KeysInv
    <3>2. KeysOf(fields') = {"command", "master browser"}
      BY <1>4, <3>1 DEF FindMaster, KeysRight
    <3> QED BY <1>4, <3>2
            DEF FindMaster, IInv, FlagsInv, KeysRight, Browsed, BrowserOrFailure
  <2> QED BY <2>3, <2>4, <2>6, <2>7 DEF IInv
<1>5. CASE AddWorkgroups
  <2>1. /\ Field("workgroups", "array") \in ResponseFields
        /\ Field(NoKey, "array") \in ResponseFields
    BY DEF Field, ResponseFields
  <2>2. /\ Failing
        /\ fields' \in Seq(ResponseFields)
        /\ failed' = 0 => KeysOf(fields') = KeysOf(fields) \cup {"workgroups"}
        /\ ValsOf(fields') \subseteq ValsOf(fields) \cup {"array"}
    BY <1>5, <2>1, AddField DEF AddWorkgroups, IInv
  <2>3. TypeOK'
    BY <1>5, <2>2 DEF AddWorkgroups, Failing, IInv, TypeOK
  <2>4. PartsInv'
    BY <1>5, <2>2 DEF AddWorkgroups, IInv, PartsInv
  <2>5. FlagsInv'
    BY <1>5, <2>2 DEF AddWorkgroups, Failing, IInv, FlagsInv
  <2>6. KeysInv'
    <3> SUFFICES ASSUME failed' = 0 PROVE KeysRight'
      BY DEF KeysInv
    <3>1. KeysRight /\ KeysOf(fields') = KeysOf(fields) \cup {"workgroups"}
      BY <2>2 DEF Failing, IInv, KeysInv
    <3>2. /\ KeysOf(fields') = Browsed' \cup {"workgroups"}
          /\ ("browser" \in flags <=> ~smbCli)'
      BY <1>5, <3>1 DEF AddWorkgroups, KeysRight, Browsed
    <3> QED BY <1>5, <3>2 DEF AddWorkgroups, KeysRight, BrowserOrFailure
  <2> QED BY <2>3, <2>4, <2>5, <2>6 DEF IInv
<1>6. CASE EachWorkgroup
  <2>1. PICK g \in Groups :
          \/ workgroups' = Append(workgroups, g) /\ UNCHANGED failed
          \/ UNCHANGED workgroups /\ Suffer(1)
    BY <1>6 DEF EachWorkgroup
  <2>2. Failing
    BY <2>1 DEF Failing, Suffer, IInv, TypeOK
  <2>3. workgroups' \in Seq(Groups)
    <3>1. Append(workgroups, g) \in Seq(Groups)
      BY <1>0
    <3> QED BY <1>0, <2>1, <3>1
  <2>4. TypeOK'
    BY <1>6, <2>2, <2>3 DEF EachWorkgroup, Failing, IInv, TypeOK
  <2>5. PartsInv'
    BY <1>6 DEF EachWorkgroup, IInv, PartsInv
  <2>6. FlagsInv'
    BY <1>6, <2>2 DEF EachWorkgroup, Failing, IInv, FlagsInv
  <2>7. KeysInv'
    BY <1>6, <2>2
    DEF EachWorkgroup, Failing, IInv, KeysInv, KeysRight, Browsed, BrowserOrFailure
  <2> QED BY <2>4, <2>5, <2>6, <2>7 DEF IInv
<1>7. CASE Ends
  <2>1. CASE response = "null" \/ Verdict = "none"
    <3>1. fields' = fields /\ failed' = failed
      BY <1>7, <2>1 DEF Ends
    <3>2. TypeOK'
      BY <1>7, <3>1 DEF Ends, IInv, TypeOK
    <3>3. PartsInv' /\ FlagsInv'
      BY <1>7, <3>1 DEF Ends, IInv, PartsInv, FlagsInv
    <3>4. KeysInv'
      <4> SUFFICES ASSUME failed' = 0 PROVE KeysRight'
        BY DEF KeysInv
      <4>1. KeysRight /\ "system" \notin flags
        BY <3>1 DEF IInv, KeysInv, FlagsInv
      <4>2. "browser" \notin flags
        BY <1>7, <2>1, <4>1, EmptyObject DEF Ends, Verdict, IInv, FlagsInv, KeysRight, Browsed
      <4>3. BrowserOrFailure'
        BY <1>7, <3>1, <4>1, <4>2
        DEF Ends, IInv, FlagsInv, KeysRight, Browsed, BrowserOrFailure
      <4> QED BY <1>7, <4>3 DEF Ends, KeysRight
    <3> QED BY <3>2, <3>3, <3>4 DEF IInv
  <2>2. CASE response # "null" /\ Verdict # "none"
    <3>1. /\ Field("fail", Verdict) \in ResponseFields
          /\ Field(NoKey, Verdict) \in ResponseFields
      BY <2>2 DEF Field, ResponseFields, Verdict
    <3>2. /\ Failing
          /\ fields' \in Seq(ResponseFields)
          /\ failed' = 0 => KeysOf(fields') = KeysOf(fields) \cup {"fail"}
      BY <1>7, <2>2, <3>1, AddField DEF Ends, IInv
    <3>3. TypeOK'
      BY <1>7, <3>2 DEF Ends, Failing, IInv, TypeOK
    <3>4. PartsInv'
      BY <1>7 DEF Ends, PartsInv
    <3>5. FlagsInv'
      BY <1>7, <2>2, <3>2 DEF Ends, Failing, IInv, FlagsInv
    <3>6. KeysInv'
      <4> SUFFICES ASSUME failed' = 0 PROVE KeysRight'
        BY DEF KeysInv
      <4>1. KeysRight /\ KeysOf(fields') = KeysOf(fields) \cup {"fail"}
        BY <3>2 DEF Failing, IInv, KeysInv
      <4>2. "browser" \in flags
        BY <2>2, <3>2 DEF Verdict, Failing, IInv, FlagsInv
      <4>3. ~smbCli /\ KeysOf(fields') = {"command", "workgroups", "fail"}
        BY <1>7, <4>1, <4>2 DEF Ends, KeysRight, Browsed
      <4>4. BrowserOrFailure'
        BY <1>7, <4>3 DEF Ends, IInv, FlagsInv, BrowserOrFailure
      <4> QED BY <1>7, <4>4 DEF Ends, KeysRight
    <3> QED BY <3>3, <3>4, <3>5, <3>6 DEF IInv
  <2> QED BY <2>1, <2>2
<1>8. CASE UNCHANGED vars
  BY <1>8 DEF vars, IInv, TypeOK, PartsInv, FlagsInv, KeysInv, KeysRight,
              Browsed, BrowserOrFailure
<1> QED
  BY <1>1, <1>2, <1>3, <1>4, <1>5, <1>6, <1>7, <1>8 DEF Next, Work, Returned

(* It always holds.                                                        *)
THEOREM Invariance == Spec => []IInv
<1>1. Init => IInv
  BY InitIInv
<1>2. IInv /\ [Next]_vars => IInv'
  BY NextIInv
<1> QED BY <1>1, <1>2, PTL DEF Spec

(* The type invariant.                                                     *)
THEOREM TypeCorrect == Spec => []TypeOK
<1>1. IInv => TypeOK
  BY DEF IInv
<1> QED BY <1>1, Invariance, PTL

(* An answer names the master browser and has a list; or it has nothing    *)
(* listed and the failure, or, if Samba could not be prepared, nothing     *)
(* else (util_smbtree.c:134-137, 162-229).                                 *)
THEOREM BrowserNamed == Spec => []BrowserOrFailure
<1>1. IInv => BrowserOrFailure
  BY DEF IInv, KeysInv, KeysRight, BrowserOrFailure
<1> QED BY <1>1, Invariance, PTL

-----------------------------------------------------------------------------
(* Refinement of Utility.                                                  *)

Layout == << [key |-> "command", vals |-> {"smbtree"}],
             [key |-> "master browser", vals |-> {"address"}],
             [key |-> "workgroups", vals |-> {"array"}],
             [key |-> "fail", vals |-> {"no master browser", "system error"}] >>

(* The parts of a response, in their order.                                *)
LEMMA LayoutParts ==
  /\ DOMAIN Layout = {1, 2, 3, 4} /\ Len(Layout) = 4
  /\ Layout[1].key = "command" /\ Layout[1].vals = {"smbtree"}
  /\ Layout[2].key = "master browser" /\ Layout[2].vals = {"address"}
  /\ Layout[3].key = "workgroups" /\ Layout[3].vals = {"array"}
  /\ Layout[4].key = "fail" /\ Layout[4].vals = {"no master browser", "system error"}
<1>1. DOMAIN Layout = {1, 2, 3, 4} /\ Len(Layout) = 4
  BY DEF Layout
<1>2. /\ Layout[1].key = "command" /\ Layout[2].key = "master browser"
      /\ Layout[3].key = "workgroups" /\ Layout[4].key = "fail"
  BY DEF Layout
<1>3. Layout[1].vals = {"smbtree"} /\ Layout[2].vals = {"address"}
  BY DEF Layout
<1>4. /\ Layout[3].vals = {"array"}
      /\ Layout[4].vals = {"no master browser", "system error"}
  BY DEF Layout
<1> QED BY <1>1, <1>2, <1>3, <1>4

(* Each value is that of one part.                                         *)
LEMMA OnePlace == Unambiguous(Layout)
<1> SUFFICES ASSUME NEW v
             PROVE  \A i, p \in DOMAIN Layout :
                      v \in Layout[i].vals /\ v \in Layout[p].vals => i = p
  BY DEF Unambiguous
<1>1. \A i \in DOMAIN Layout : i = 1 \/ i = 2 \/ i = 3 \/ i = 4
  BY LayoutParts
<1>2. \A i \in DOMAIN Layout : v \in Layout[i].vals =>
        \/ i = 1 /\ v = "smbtree"
        \/ i = 2 /\ v = "address"
        \/ i = 3 /\ v = "array"
        \/ i = 4 /\ v = "no master browser"
        \/ i = 4 /\ v = "system error"
  <2> SUFFICES ASSUME NEW i \in DOMAIN Layout, v \in Layout[i].vals
               PROVE  \/ i = 1 /\ v = "smbtree"
                      \/ i = 2 /\ v = "address"
                      \/ i = 3 /\ v = "array"
                      \/ i = 4 /\ v = "no master browser"
                      \/ i = 4 /\ v = "system error"
    OBVIOUS
  <2>1. CASE i = 1
    BY <2>1, LayoutParts
  <2>2. CASE i = 2
    BY <2>2, LayoutParts
  <2>3. CASE i = 3
    BY <2>3, LayoutParts
  <2>4. CASE i = 4
    BY <2>4, LayoutParts
  <2> QED BY <1>1, <2>1, <2>2, <2>3, <2>4
<1>3. /\ "smbtree" # "address" /\ "smbtree" # "array" /\ "address" # "array"
      /\ "no master browser" \notin {"smbtree", "address", "array"}
      /\ "system error" \notin {"smbtree", "address", "array"}
  OBVIOUS
<1> QED BY <1>2, <1>3, Zenon

(* What Utility allows to be added at a place p.                           *)
LEMMA AddsPart ==
  ASSUME NEW p \in DOMAIN Layout, NEW val \in Layout[p].vals,
         \A v \in ValsOf(fields) : \E i \in DOMAIN Layout : i < p /\ v \in Layout[i].vals,
         \E a \in AddItem(fields, Layout[p].key, val)
                 \cup AddString(fields, Layout[p].key, val) : fields' = a.object
  PROVE  UNCHANGED fields \/ Promise!Adds({p})
<1>1. fields' = fields \/ AddsTo(Layout, fields, fields', {p})
  BY OnePlace, AddsBehind
<1>2. AddsTo(Layout, fields, fields', {p}) => Promise!Adds({p})
  BY DEF AddsTo, PlaceIn, Promise!Adds, Promise!Place, Promise!Field, Promise!NoKey,
         Field, NoKey, Layout
<1> QED BY <1>1, <1>2

(* The fields that are before the one for p, by the values there are.      *)
LEMMA Earlier ==
  /\ {} \subseteq Layout[1].vals
  /\ \A v \in {"smbtree"} : \E i \in DOMAIN Layout : i < 2 /\ v \in Layout[i].vals
  /\ \A v \in {"smbtree", "address"} :
       \E i \in DOMAIN Layout : i < 3 /\ v \in Layout[i].vals
  /\ \A v \in {"smbtree", "address", "array"} :
       \E i \in DOMAIN Layout : i < 4 /\ v \in Layout[i].vals
<1>1. 1 \in DOMAIN Layout /\ "smbtree" \in Layout[1].vals
  BY LayoutParts
<1>2. 2 \in DOMAIN Layout /\ "address" \in Layout[2].vals
  BY LayoutParts
<1>3. 3 \in DOMAIN Layout /\ "array" \in Layout[3].vals
  BY LayoutParts
<1>4. 1 < 2 /\ 1 < 3 /\ 1 < 4 /\ 2 < 3 /\ 2 < 4 /\ 3 < 4
  OBVIOUS
<1> QED BY <1>1, <1>2, <1>3, <1>4, Zenon

(* The initial states are initial states of Utility.                       *)
LEMMA InitRefines == Init => Promise!Init
BY DEF Init, Promise!Init

(* Every step is one of Utility or changes nothing that it sees.           *)
LEMMA NextRefines ==
  IInv /\ [Next]_vars => Promise!Next \/ UNCHANGED Promise!utilityVars
<1> SUFFICES ASSUME IInv, [Next]_vars
             PROVE  Promise!Next \/ UNCHANGED Promise!utilityVars
  OBVIOUS
<1> USE DEF Step
<1>1. CASE CreateResponse
  <2>1. 1 \in DOMAIN Layout /\ Layout[1].key = "command" /\ "smbtree" \in Layout[1].vals
    BY LayoutParts
  <2>2. ValsOf(fields) = {}
    BY <1>1, EmptyObject DEF CreateResponse, IInv, PartsInv
  <2>3. \E a \in AddItem(fields, "command", "smbtree")
              \cup AddString(fields, "command", "smbtree") : fields' = a.object
    BY <1>1 DEF CreateResponse
  <2>4. UNCHANGED fields \/ Promise!Adds({1})
    BY <2>1, <2>2, <2>3, AddsPart
  <2>5. UNCHANGED fields \/ Promise!Adds(DOMAIN Layout)
    BY <2>1, <2>4 DEF Promise!Adds
  <2> QED BY <1>1, <2>5 DEF CreateResponse, Promise!Next, Promise!Work, Layout
<1>2. CASE FindMaster
  <2>1. /\ 2 \in DOMAIN Layout /\ Layout[2].key = "master browser"
        /\ "address" \in Layout[2].vals
    BY LayoutParts
  <2>2. \A v \in ValsOf(fields) : \E i \in DOMAIN Layout : i < 2 /\ v \in Layout[i].vals
    BY <1>2, Earlier DEF FindMaster, IInv, PartsInv
  <2>3. \E a \in AddItem(fields, "master browser", "address")
              \cup AddString(fields, "master browser", "address") : fields' = a.object
    BY <1>2 DEF FindMaster
  <2>4. UNCHANGED fields \/ Promise!Adds({2})
    BY <2>1, <2>2, <2>3, AddsPart
  <2>5. UNCHANGED fields \/ Promise!Adds(DOMAIN Layout)
    BY <2>1, <2>4 DEF Promise!Adds
  <2> QED BY <1>2, <2>5 DEF FindMaster, Promise!Next, Promise!Work, Layout
<1>3. CASE AddWorkgroups
  <2>1. /\ 3 \in DOMAIN Layout /\ Layout[3].key = "workgroups"
        /\ "array" \in Layout[3].vals
    BY LayoutParts
  <2>2. \A v \in ValsOf(fields) : \E i \in DOMAIN Layout : i < 3 /\ v \in Layout[i].vals
    BY <1>3, Earlier DEF AddWorkgroups, IInv, PartsInv
  <2>3. \E a \in AddItem(fields, "workgroups", "array")
              \cup AddString(fields, "workgroups", "array") : fields' = a.object
    BY <1>3 DEF AddWorkgroups
  <2>4. UNCHANGED fields \/ Promise!Adds({3})
    BY <2>1, <2>2, <2>3, AddsPart
  <2>5. UNCHANGED fields \/ Promise!Adds(DOMAIN Layout)
    BY <2>1, <2>4 DEF Promise!Adds
  <2> QED BY <1>3, <2>5 DEF AddWorkgroups, Promise!Next, Promise!Work, Layout
<1>4. CASE Ends
  <2>1. UNCHANGED fields \/ Promise!Adds({4})
    <3>1. CASE response = "null" \/ Verdict = "none"
      BY <1>4, <3>1 DEF Ends
    <3>2. CASE response # "null" /\ Verdict # "none"
      <4>1. 4 \in DOMAIN Layout /\ Layout[4].key = "fail" /\ Verdict \in Layout[4].vals
        BY <3>2, LayoutParts DEF Verdict
      <4>2. \A v \in ValsOf(fields) : \E i \in DOMAIN Layout : i < 4 /\ v \in Layout[i].vals
        BY <1>4, Earlier DEF Ends, IInv, PartsInv
      <4>3. \E a \in AddItem(fields, "fail", Verdict)
                  \cup AddString(fields, "fail", Verdict) : fields' = a.object
        BY <1>4, <3>2 DEF Ends
      <4> QED BY <4>1, <4>2, <4>3, AddsPart
    <3> QED BY <3>1, <3>2
  <2>2. Len(Layout) = 4
    BY LayoutParts
  <2> QED BY <1>4, <2>1, <2>2 DEF Ends, Promise!Next, Promise!Return, Layout
<1>5. CASE UNCHANGED fields /\ pc # "returned" /\ pc' # "returned"
  BY <1>5 DEF Promise!Next, Promise!Work
<1>6. CASE UNCHANGED vars
  BY <1>6 DEF vars, Promise!utilityVars
<1> QED
  BY <1>1, <1>2, <1>3, <1>4, <1>5, <1>6
  DEF Next, Work, Returned, NoResponse, Prepare, PrepareFails, NoMaster, NoWorkgroups,
      EachWorkgroup, EnumEnds

(* The safety part of ImplementsUtility: the response has its fields in    *)
(* their order and at most one failure, which is last, and nothing is held *)
(* or changed after the return (util_smbtree.c:216-243).                   *)
THEOREM UtilityRefined == Spec => Promise!Safety
<1>1. Init => Promise!Init
  BY InitRefines
<1>2. IInv /\ [Next]_vars => [Promise!Next]_(Promise!utilityVars)
  BY NextRefines
<1> QED BY <1>1, <1>2, Invariance, PTL DEF Spec, Promise!Safety
=============================================================================
