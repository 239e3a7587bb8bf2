-------------------------- MODULE NmbLookupProofs --------------------------
(***************************************************************************)
(* The safety properties of NmbLookup, for any number of workgroups and    *)
(* interfaces, whatever the network answers and however often memory runs  *)
(* out.                                                                    *)
(***************************************************************************)
EXTENDS NmbLookup, JsonFieldsProofs

(* What each workgroup is to be answered with.                             *)
First == [name \in Groups |-> FirstAnswer(name)]

(* Which parts of the response may be there at which point.                *)
PartsInv ==
  /\ pc = "create" => fields = <<>>
  /\ pc = "names" => ValsOf(fields) \subseteq {"nmblookup"}
  /\ pc \in {"create", "names", "name", "returned"} => ~frame
  /\ pc \in {"group", "query", "list", "free"} => frame

(* No more lists than names, and the current list is one of them.          *)
CountInv ==
  /\ pc \in {"create", "names"} => computers = <<>> /\ next = 1
  /\ pc = "name" => Len(computers) < next
  /\ Len(computers) <= Len(asked)
  /\ pc \in {"query", "list", "free"} => next <= Len(computers)

(* The lists are those of the names asked for, as long as memory has not   *)
(* run out.                                                                *)
NamesInv ==
  failed = 0 =>
    /\ pc = "name" => Len(computers) = next - 1
    /\ pc \in {"group", "query", "list", "free", "ends"} =>
         Len(computers) = Len(asked)
    /\ \A k \in DOMAIN computers : computers[k].key = asked[k]

(* What each list holds: those before the current one their answer, those  *)
(* behind it nothing, and the current one what has been moved to it.       *)
ListsInv ==
  failed = 0 =>
    \A k \in DOMAIN computers :
      /\ pc = "name" => computers[k].val = <<>>
      /\ pc \in {"group", "query", "list", "free"} =>
           /\ k < next => computers[k].val = First[asked[k]]
           /\ next < k => computers[k].val = <<>>
      /\ pc \in {"group", "query"} /\ k = next => computers[k].val = <<>>
      /\ pc = "list" /\ k = next =>
           /\ ipList = First[asked[k]]
           /\ computers[k].val = SubSeq(ipList, 1, tmp - 1)
      /\ pc = "free" /\ k = next => computers[k].val = First[asked[k]]

(* The interfaces before the next one have a broadcast address; either all *)
(* failed, or the last one of them brought the list there is.              *)
AskedInv(name) ==
  /\ tmp \in 1..Len(ifaces) + 1
  /\ \A i \in 1..tmp - 1 : ifaces[i] = "ipv4"
  /\ ipList = NoList =>
       status # "ok" /\ \A i \in 1..tmp - 1 : net[<<name, i>>] = NoList
  /\ ipList # NoList =>
       /\ status = "ok" /\ smbIpCount = Len(ipList)
       /\ tmp - 1 \in DOMAIN ifaces /\ net[<<name, tmp - 1>>] = ipList
       /\ \A i \in 1..tmp - 2 : net[<<name, i>>] = NoList

QueryInv ==
  /\ pc = "query" => AskedInv(computers[next].key)
  /\ pc = "list" =>
       ipList # NoList /\ smbIpCount = Len(ipList) /\ tmp \in 1..Len(ipList) + 1
  /\ FaultOnlyUnanswered

(* All lists are filled in the end, or none is when there was no frame.    *)
DoneInv ==
  failed = 0 /\ pc = "ends" =>
    \A k \in DOMAIN asked :
      computers[k].val = IF frame THEN First[asked[k]] ELSE <<>>

IInv == TypeOK /\ PartsInv /\ CountInv /\ NamesInv /\ ListsInv /\ QueryInv /\ DoneInv

-----------------------------------------------------------------------------
(* The operators.                                                          *)

(* What is asked for and what would be answered do not change.             *)
LEMMA FirstFixed == UNCHANGED input => First' = First
<1> DEFINE FirstOf(i, n) ==
      [name \in Groups |->
         LET answered == {j \in DOMAIN i : n[<<name, j>>] # NoList}
         IN  IF answered = {} THEN <<>>
             ELSE n[<<name, CHOOSE j \in answered : \A m \in answered : j <= m>>]]
<1>1. First = FirstOf(ifaces, net)
  BY DEF First, FirstAnswer
<1>2. First' = FirstOf(ifaces', net')
  BY DEF First, FirstAnswer
<1> HIDE DEF FirstOf
<1> QED BY <1>1, <1>2 DEF input

(* The interface that answers when those before it do not.                 *)
LEMMA AnswerFound ==
  ASSUME TypeOK, NEW name \in Groups, NEW i \in DOMAIN ifaces, net[<<name, i>>] # NoList,
         \A j \in DOMAIN ifaces : j < i => net[<<name, j>>] = NoList
  PROVE  First[name] = net[<<name, i>>]
<1> DEFINE answered == {j \in DOMAIN ifaces : net[<<name, j>>] # NoList}
<1>0. DOMAIN ifaces \subseteq Nat
  BY DEF TypeOK
<1>1. i \in answered /\ \A j \in answered : i <= j
  BY <1>0
<1>2. \A j \in answered : (\A m \in answered : j <= m) => j = i
  BY <1>0, <1>1
<1>3. (CHOOSE j \in answered : \A m \in answered : j <= m) = i
  BY <1>1, <1>2
<1>4. FirstAnswer(name) = net[<<name, i>>]
  BY <1>1, <1>3 DEF FirstAnswer
<1> QED BY <1>4 DEF First

(* No interface brings a list.                                             *)
LEMMA NothingFound ==
  ASSUME NEW name \in Groups, \A j \in DOMAIN ifaces : net[<<name, j>>] = NoList
  PROVE  First[name] = <<>>
<1>1. {j \in DOMAIN ifaces : net[<<name, j>>] # NoList} = {}
  OBVIOUS
<1>2. FirstAnswer(name) = <<>>
  BY <1>1 DEF FirstAnswer
<1> QED BY <1>2 DEF First

(* The sequences of bounded length are sequences.                          *)
LEMMA BoundedSeqs == ASSUME NEW S, NEW n \in Nat PROVE SeqsUpTo(S, n) \subseteq Seq(S)
<1> SUFFICES ASSUME NEW s \in SeqsUpTo(S, n) PROVE s \in Seq(S)
  OBVIOUS
<1>1. PICK k \in 0..n : s \in [1..k -> S]
  BY DEF SeqsUpTo
<1> QED BY <1>1

(* One address more of a list.                                             *)
LEMMA OneMore ==
  ASSUME NEW S, NEW t \in Seq(S), NEW m \in 1..Len(t)
  PROVE  /\ Append(SubSeq(t, 1, m - 1), t[m]) = SubSeq(t, 1, m)
         /\ t[m] \in S
OBVIOUS

(* All addresses of a list.                                                *)
LEMMA AllOfThem ==
  ASSUME NEW S, NEW t \in Seq(S)
  PROVE  SubSeq(t, 1, Len(t)) = t /\ SubSeq(t, 1, 0) = <<>> /\ Len(t) \in Nat
OBVIOUS

(* The bound on failures.                                                  *)
Failing == failed' \in 0..MaxFailed /\ (failed' = 0 => failed = 0)

(* A field of the response is added.                                       *)
LEMMA AddField ==
  ASSUME TypeOK, NEW key, NEW val,
         Field(key, val) \in ResponseFields, Field(NoKey, val) \in ResponseFields,
         \E a \in AddItem(fields, key, val) \cup AddString(fields, key, val) :
           fields' = a.object /\ Suffer(a.failed)
  PROVE  /\ Failing
         /\ fields' \in Seq(ResponseFields)
         /\ ValsOf(fields') \subseteq ValsOf(fields) \cup {val}
<1>1. fields \in Seq(ResponseFields) /\ failed \in 0..MaxFailed
  BY DEF TypeOK
<1>2. PICK a \in AddItem(fields, key, val) \cup AddString(fields, key, val) :
        fields' = a.object /\ Suffer(a.failed)
  OBVIOUS
<1>3. /\ a.object \in Seq(ResponseFields)
      /\ a.failed \in {0, 1}
      /\ ValsOf(a.object) \subseteq ValsOf(fields) \cup {val}
  BY <1>1, Added
<1> QED BY <1>1, <1>2, <1>3, NmbLookupAssumption DEF Suffer, Failing

(* A list is added for the next name, unless memory runs out.              *)
LEMMA NameAdded ==
  ASSUME TypeOK, AddName
  PROVE  /\ Failing
         /\ computers' \in Seq(Lists)
         /\ Len(computers') <= Len(computers) + 1
         /\ failed' = 0 => computers' = Append(computers, Field(asked[next], <<>>))
<1>1. /\ computers \in Seq(Lists) /\ failed \in 0..MaxFailed
      /\ asked[next] \in Groups /\ next \in 1..Len(asked)
  BY DEF TypeOK, AddName
<1>2. PICK a \in AddString(computers, asked[next], <<>>) :
        computers' = a.object /\ Suffer(a.failed)
  BY DEF AddName
<1>3. <<>> \in Seq(Addresses)
  OBVIOUS
<1>4. Field(asked[next], <<>>) \in Lists /\ Field(NoKey, <<>>) \in Lists
  BY <1>1, <1>3 DEF Field, Lists
<1>5. CASE a.object = Append(computers, Field(asked[next], <<>>)) /\ a.failed = 0
  BY <1>1, <1>2, <1>4, <1>5, NmbLookupAssumption DEF Suffer, Failing
<1>6. CASE a.object = Append(computers, Field(NoKey, <<>>)) /\ a.failed = 1
  BY <1>1, <1>2, <1>4, <1>6, NmbLookupAssumption DEF Suffer, Failing
<1>7. CASE a.object = computers /\ a.failed = 1
  BY <1>1, <1>2, <1>7, NmbLookupAssumption DEF Suffer, Failing
<1> QED BY <1>2, <1>5, <1>6, <1>7, AddOutcomes

-----------------------------------------------------------------------------
(* The invariant.                                                          *)

(* The invariant holds at first.                                           *)
LEMMA InitIInv == Init => IInv
<1> SUFFICES ASSUME Init PROVE IInv
  OBVIOUS
<1>1. failed \in 0..MaxFailed
  BY NmbLookupAssumption DEF Init
<1>2. asked \in Seq(Groups) /\ ifaces \in Seq(IfaceKinds)
  BY BoundedSeqs, NmbLookupAssumption DEF Init
<1>3. next \in 1..Len(asked) + 1
  BY <1>2 DEF Init
<1>4. <<>> \in Seq(ResponseFields) /\ <<>> \in Seq(Lists)
  OBVIOUS
<1>5. TypeOK
  <2>1. /\ net \in [Groups \X DOMAIN ifaces -> Answers \cup {NoList}]
        /\ ipList \in Answers \cup {NoList}
    BY Zenon DEF Init
  <2>2. tmp \in Nat \ {0} /\ smbIpCount \in Nat /\ status \in {"none", "error", "ok"}
    BY DEF Init
  <2> QED BY <1>1, <1>2, <1>3, <1>4, <2>1, <2>2, Zenon DEF Init, TypeOK
<1>6. PartsInv /\ CountInv /\ NamesInv /\ ListsInv /\ QueryInv /\ DoneInv
  BY <1>2 DEF Init, PartsInv, CountInv, NamesInv, ListsInv, QueryInv, DoneInv,
              FaultOnlyUnanswered
<1> QED BY <1>5, <1>6 DEF IInv

(* What the search looks at is settled at the start.                       *)
LEMMA InputFixed == [Next]_vars => UNCHANGED input
BY DEF Next, Work, Stopped, vars, input, CreateResponse, NoResponse, AddComputers,
       NoComputers, AddName, Prepare, PrepareFails, StartGroup, Query, Fault, QueryEnds,
       AddAddress, GroupDone, GroupsDone, Ends

(* The steps that fill the response.                                       *)
LEMMA FieldsIInv ==
  ASSUME IInv, CreateResponse \/ AddComputers PROVE IInv'
<1> USE DEF Step, input, query, answer
<1>1. CASE CreateResponse
  <2>1. /\ Field("command", "nmblookup") \in ResponseFields
        /\ Field(NoKey, "nmblookup") \in ResponseFields
    BY DEF Field, ResponseFields
  <2>2. /\ Failing
        /\ fields' \in Seq(ResponseFields)
        /\ ValsOf(fields') \subseteq ValsOf(fields) \cup {"nmblookup"}
    BY <1>1, <2>1, AddField DEF CreateResponse, IInv
  <2>3. TypeOK'
    BY <1>1, <2>2 DEF CreateResponse, Failing, IInv, TypeOK
  <2>4. PartsInv'
    BY <1>1, <2>2, EmptyObject DEF CreateResponse, IInv, PartsInv
  <2>5. CountInv'
    BY <1>1 DEF CreateResponse, IInv, CountInv
  <2>6. NamesInv' /\ ListsInv' /\ QueryInv' /\ DoneInv'
    BY <1>1 DEF CreateResponse, IInv, CountInv, NamesInv, ListsInv, QueryInv, DoneInv,
           FaultOnlyUnanswered
  <2> QED BY <2>3, <2>4, <2>5, <2>6 DEF IInv
<1>2. CASE AddComputers
  <2>1. /\ Field("computers", "object") \in ResponseFields
        /\ Field(NoKey, "object") \in ResponseFields
    BY DEF Field, ResponseFields
  <2>2. Failing /\ fields' \in Seq(ResponseFields)
    BY <1>2, <2>1, AddField DEF AddComputers, IInv
  <2>3. TypeOK'
    BY <1>2, <2>2 DEF AddComputers, Failing, IInv, TypeOK
  <2>4. PartsInv'
    BY <1>2 DEF AddComputers, IInv, PartsInv
  <2>5. CountInv'
    BY <1>2 DEF AddComputers, IInv, CountInv
  <2>6. NamesInv' /\ ListsInv' /\ QueryInv' /\ DoneInv'
    BY <1>2 DEF AddComputers, IInv, CountInv, NamesInv, ListsInv, QueryInv, DoneInv,
           FaultOnlyUnanswered
  <2> QED BY <2>3, <2>4, <2>5, <2>6 DEF IInv
<1> QED BY <1>1, <1>2

(* The steps that give up for want of memory.                              *)
LEMMA GivesUpIInv ==
  ASSUME IInv, NoResponse \/ NoComputers PROVE IInv'
<1> USE DEF Step, input, query, answer, result
<1>1. failed' \in 0..MaxFailed /\ failed' # 0
  BY NmbLookupAssumption DEF NoResponse, NoComputers, Suffer, IInv, TypeOK
<1>2. TypeOK'
  BY <1>1 DEF NoResponse, NoComputers, IInv, TypeOK
<1>3. PartsInv' /\ CountInv'
  BY DEF NoResponse, NoComputers, IInv, PartsInv, CountInv
<1>4. NamesInv' /\ ListsInv' /\ DoneInv'
  BY <1>1 DEF NamesInv, ListsInv, DoneInv
<1>5. QueryInv'
  BY DEF NoResponse, NoComputers, QueryInv, FaultOnlyUnanswered
<1> QED BY <1>2, <1>3, <1>4, <1>5 DEF IInv

(* The loop over the names.                                                *)
LEMMA AddNameIInv ==
  ASSUME IInv, AddName PROVE IInv'
<1> USE DEF Step, input, query, answer, result
<1>0. /\ asked \in Seq(Groups) /\ next \in 1..Len(asked)
      /\ computers \in Seq(Lists) /\ failed \in 0..MaxFailed
  BY DEF AddName, IInv, TypeOK
<1>1. /\ Failing
      /\ computers' \in Seq(Lists)
      /\ Len(computers') <= Len(computers) + 1
      /\ failed' = 0 => computers' = Append(computers, Field(asked[next], <<>>))
  BY NameAdded DEF IInv
<1>2. next' = next + 1 /\ asked' = asked /\ pc' = "name"
  BY DEF AddName
<1>3. TypeOK'
  <2>1. next' \in 1..Len(asked') + 1
    BY <1>0, <1>2
  <2> QED BY <1>1, <2>1 DEF AddName, Failing, IInv, TypeOK
<1>4. PartsInv'
  BY DEF AddName, IInv, PartsInv
<1>5. Len(computers) < next
  BY DEF AddName, IInv, CountInv
<1>6. CountInv'
  BY <1>0, <1>1, <1>2, <1>5 DEF CountInv
<1>7. NamesInv' /\ ListsInv'
  <2> SUFFICES ASSUME failed' = 0 PROVE NamesInv' /\ ListsInv'
    BY DEF NamesInv, ListsInv
  <2>1. failed = 0 /\ computers' = Append(computers, Field(asked[next], <<>>))
    BY <1>1 DEF Failing
  <2>2. Len(computers) = next - 1
    BY <2>1 DEF AddName, IInv, NamesInv
  <2>3. /\ DOMAIN computers' = DOMAIN computers \cup {next}
        /\ \A k \in DOMAIN computers : computers'[k] = computers[k]
        /\ computers'[next] = Field(asked[next], <<>>)
    BY <1>0, <2>1, <2>2
  <2>4. Len(computers') = next
    BY <1>0, <2>1, <2>2
  <2>5. Field(asked[next], <<>>).key = asked[next] /\ Field(asked[next], <<>>).val = <<>>
    BY DEF Field
  <2>6. \A k \in DOMAIN computers : computers[k].key = asked[k] /\ computers[k].val = <<>>
    BY <2>1 DEF AddName, IInv, NamesInv, ListsInv
  <2>7. \A k \in DOMAIN computers' :
          computers'[k].key = asked[k] /\ computers'[k].val = <<>>
    BY <2>3, <2>5, <2>6
  <2> QED BY <1>0, <1>2, <2>4, <2>7 DEF NamesInv, ListsInv
<1>8. QueryInv' /\ DoneInv'
  BY <1>2 DEF QueryInv, DoneInv, FaultOnlyUnanswered
<1> QED BY <1>3, <1>4, <1>6, <1>7, <1>8 DEF IInv

(* The loop ends, and Samba is prepared or cannot be.                      *)
LEMMA PrepareIInv ==
  ASSUME IInv, Prepare \/ PrepareFails PROVE IInv'
<1> USE DEF Step, input, query, answer, result
<1>0. /\ asked \in Seq(Groups) /\ next \in 1..Len(asked) + 1
      /\ computers \in Seq(Lists)
  BY DEF IInv, TypeOK
<1>1. pc = "name" /\ next = Len(asked) + 1
  BY <1>0 DEF Prepare, PrepareFails
<1>2. TypeOK'
  <2>1. next' \in 1..Len(asked') + 1
    BY <1>0 DEF Prepare, PrepareFails
  <2> QED BY <2>1 DEF Prepare, PrepareFails, IInv, TypeOK
<1>3. PartsInv'
  BY DEF Prepare, PrepareFails, IInv, PartsInv
<1>4. CountInv'
  BY DEF Prepare, PrepareFails, IInv, CountInv
<1>5. UNCHANGED <<asked, computers, failed>>
  BY DEF Prepare, PrepareFails
<1>6. failed = 0 => /\ Len(computers) = Len(asked)
                    /\ DOMAIN computers = DOMAIN asked
                    /\ \A k \in DOMAIN computers :
                         computers[k].key = asked[k] /\ computers[k].val = <<>>
  BY <1>0, <1>1 DEF IInv, NamesInv, ListsInv
<1>7. NamesInv'
  BY <1>5, <1>6 DEF Prepare, PrepareFails, NamesInv
<1>8. ListsInv'
  <2>1. CASE Prepare
    <3>1. \A k \in DOMAIN computers : ~(k < 1)
      BY <1>0
    <3> QED BY <1>5, <1>6, <2>1, <3>1 DEF Prepare, ListsInv
  <2>2. CASE PrepareFails
    BY <2>2 DEF PrepareFails, ListsInv
  <2> QED BY <2>1, <2>2
<1>9. QueryInv' /\ DoneInv'
  BY <1>5, <1>6 DEF Prepare, PrepareFails, QueryInv, DoneInv, FaultOnlyUnanswered, IInv,
                    PartsInv
<1> QED BY <1>2, <1>3, <1>4, <1>7, <1>8, <1>9 DEF IInv

(* The loop over the workgroups: the next one is entered.                  *)
LEMMA StartGroupIInv ==
  ASSUME IInv, StartGroup PROVE IInv'
<1> USE DEF Step, input, query, answer, result
<1>0. ifaces \in Seq(IfaceKinds) /\ next \in Nat
  BY DEF IInv, TypeOK
<1>1. TypeOK'
  BY DEF StartGroup, IInv, TypeOK
<1>2. PartsInv' /\ CountInv' /\ NamesInv' /\ DoneInv'
  BY DEF StartGroup, IInv, PartsInv, CountInv, NamesInv, DoneInv
<1>3. ListsInv'
  BY FirstFixed DEF StartGroup, IInv, ListsInv
<1>4. QueryInv'
  <2>1. /\ pc' = "query" /\ tmp' = 1 /\ status' # "ok" /\ ipList' = NoList
        /\ 1 \in 1..Len(ifaces') + 1
        /\ \A i \in 1..1 - 1 : FALSE
    BY <1>0 DEF StartGroup
  <2> QED BY <2>1 DEF QueryInv, AskedInv, FaultOnlyUnanswered
<1> QED BY <1>1, <1>2, <1>3, <1>4 DEF IInv

(* A name query.                                                           *)
LEMMA QueryIInv ==
  ASSUME IInv, Query PROVE IInv'
<1> USE DEF Step, input, query, answer, result
<1> DEFINE name    == computers[next].key
           brought == net[<<name, tmp>>]
<1>0. /\ ifaces \in Seq(IfaceKinds) /\ ipList = NoList
      /\ computers \in Seq(Lists) /\ next \in 1..Len(computers)
      /\ net \in [Groups \X DOMAIN ifaces -> Answers \cup {NoList}]
      /\ tmp \in Nat \ {0} /\ tmp <= Len(ifaces) /\ smbIpCount \in Nat
  BY DEF Query, MoreIfaces, IInv, CountInv, TypeOK
<1>1. name \in Groups
  <2>1. computers[next] \in Lists
    BY <1>0
  <2> QED BY <2>1 DEF Query, Lists
<1>2. brought \in Answers \cup {NoList}
  <2>1. <<name, tmp>> \in Groups \X DOMAIN ifaces
    BY <1>0, <1>1
  <2> QED BY <1>0, <2>1
<1>3. /\ tmp' = tmp + 1 /\ pc' = "query" /\ ifaces[tmp] = "ipv4"
      /\ UNCHANGED <<asked, ifaces, net, computers, next, frame, failed>>
      /\ brought = NoList => status' = "error" /\ ipList' = NoList /\ smbIpCount' = smbIpCount
      /\ brought # NoList =>
           status' = "ok" /\ ipList' = brought /\ smbIpCount' = Len(brought)
  BY <1>0 DEF Query
<1>4. TypeOK'
  <2>1. brought # NoList => Len(brought) \in Nat
    BY <1>2, NmbLookupAssumption
  <2>2. /\ status' \in {"none", "error", "ok"} /\ smbIpCount' \in Nat
        /\ ipList' \in Answers \cup {NoList} /\ tmp' \in Nat \ {0}
    BY <1>0, <1>2, <1>3, <2>1
  <2> QED BY <1>3, <2>2 DEF Query, IInv, TypeOK
<1>5. PartsInv' /\ CountInv' /\ NamesInv' /\ DoneInv'
  BY DEF Query, IInv, PartsInv, CountInv, NamesInv, DoneInv
<1>6. ListsInv'
  BY FirstFixed DEF Query, IInv, ListsInv
<1>7. AskedInv(name)
  BY DEF Query, IInv, QueryInv
<1>8. AskedInv(computers[next].key)'
  <2>1. \A i \in 1..tmp : i \in 1..tmp - 1 \/ i = tmp
    BY <1>0
  <2>2. \A i \in 1..tmp - 1 : net[<<name, i>>] = NoList
    BY <1>0, <1>7 DEF AskedInv
  <2>3. \A i \in 1..tmp : ifaces[i] = "ipv4"
    BY <1>3, <1>7, <2>1 DEF AskedInv
  <2>4. /\ (tmp + 1) - 1 = tmp /\ (tmp + 1) - 2 = tmp - 1
        /\ tmp + 1 \in 1..Len(ifaces) + 1 /\ tmp \in DOMAIN ifaces
    BY <1>0
  <2>5. CASE brought = NoList
    <3>1. \A i \in 1..tmp : net[<<name, i>>] = NoList
      BY <2>1, <2>2, <2>5
    <3> QED BY <1>3, <2>3, <2>4, <2>5, <3>1 DEF AskedInv
  <2>6. CASE brought # NoList
    BY <1>3, <2>2, <2>3, <2>4, <2>6 DEF AskedInv
  <2> QED BY <2>5, <2>6
<1>9. QueryInv'
  BY <1>3, <1>8 DEF QueryInv, FaultOnlyUnanswered
<1> QED BY <1>4, <1>5, <1>6, <1>9 DEF IInv

(* The end of the loop over the interfaces: what was obtained is the first *)
(* answer.                                                                 *)
LEMMA QueryEndsIInv ==
  ASSUME IInv, QueryEnds PROVE IInv'
<1> USE DEF Step, input, query, answer, result
<1> DEFINE name == computers[next].key
<1>0. /\ ifaces \in Seq(IfaceKinds) /\ tmp \in Nat \ {0}
      /\ computers \in Seq(Lists) /\ next \in 1..Len(computers)
      /\ asked \in Seq(Groups) /\ smbIpCount \in Nat
      /\ ipList # NoList => ipList \in Seq(Addresses)
      /\ ipList = NoList => tmp > Len(ifaces)
  BY NmbLookupAssumption, SMTT(40) DEF QueryEnds, MoreIfaces, IInv, CountInv, TypeOK
<1>1. /\ UNCHANGED <<asked, ifaces, net, computers, next, failed, status, smbIpCount,
                     ipList, frame>>
      /\ \/ status = "ok" /\ smbIpCount # 0 /\ pc' = "list" /\ tmp' = 1
         \/ ~(status = "ok" /\ smbIpCount # 0) /\ pc' = "free" /\ tmp' = tmp
  BY DEF QueryEnds
<1>2. TypeOK'
  BY <1>1 DEF QueryEnds, IInv, TypeOK
<1>3. PartsInv' /\ CountInv' /\ NamesInv' /\ DoneInv'
  BY <1>1 DEF QueryEnds, IInv, PartsInv, CountInv, NamesInv, DoneInv
<1>4. AskedInv(name)
  BY DEF QueryEnds, IInv, QueryInv
<1>5. QueryInv'
  <2>1. CASE pc' = "list"
    <3>1. ipList # NoList /\ smbIpCount = Len(ipList) /\ tmp' = 1
      BY <1>1, <1>4, <2>1 DEF AskedInv
    <3>2. 1 \in 1..Len(ipList) + 1
      BY <1>0, <3>1
    <3> QED BY <1>1, <2>1, <3>1, <3>2 DEF QueryInv, FaultOnlyUnanswered
  <2>2. CASE pc' = "free"
    BY <2>2 DEF QueryInv, FaultOnlyUnanswered
  <2> QED BY <1>1, <2>1, <2>2
<1>6. ASSUME failed = 0
      PROVE  First[asked[next]] = IF ipList = NoList THEN <<>> ELSE ipList
  <2>0. name = asked[next] /\ asked[next] \in Groups
    BY <1>0, <1>6 DEF QueryEnds, IInv, CountInv, NamesInv
  <2>1. CASE ipList = NoList
    <3>1. \A i \in DOMAIN ifaces : i \in 1..tmp - 1
      BY <1>0, <2>1
    <3>2. \A i \in DOMAIN ifaces : net[<<name, i>>] = NoList
      BY <1>4, <2>1, <3>1 DEF AskedInv
    <3> QED BY <2>0, <2>1, <3>2, NothingFound
  <2>2. CASE ipList # NoList
    <3>1. tmp - 1 \in DOMAIN ifaces /\ net[<<name, tmp - 1>>] = ipList
      BY <1>4, <2>2 DEF AskedInv
    <3>2. \A i \in DOMAIN ifaces : i < tmp - 1 => i \in 1..tmp - 2
      BY <1>0
    <3>3. \A i \in DOMAIN ifaces : i < tmp - 1 => net[<<name, i>>] = NoList
      BY <1>4, <2>2, <3>2 DEF AskedInv
    <3> QED BY <2>0, <2>2, <3>1, <3>3, AnswerFound DEF IInv
  <2> QED BY <2>1, <2>2
<1>7. ListsInv'
  <2> SUFFICES ASSUME failed = 0, NEW k \in DOMAIN computers
               PROVE  /\ k < next => computers[k].val = First[asked[k]]
                      /\ next < k => computers[k].val = <<>>
                      /\ pc' = "list" /\ k = next =>
                           /\ ipList = First[asked[k]]
                           /\ computers[k].val = SubSeq(ipList, 1, 1 - 1)
                      /\ pc' = "free" /\ k = next => computers[k].val = First[asked[k]]
    BY <1>1, FirstFixed DEF ListsInv
  <2>1. /\ k < next => computers[k].val = First[asked[k]]
        /\ next < k => computers[k].val = <<>>
        /\ k = next => computers[k].val = <<>>
    BY DEF QueryEnds, IInv, ListsInv
  <2>2. ASSUME pc' = "list"
        PROVE  ipList = First[asked[next]] /\ SubSeq(ipList, 1, 1 - 1) = <<>>
    <3>1. ipList # NoList
      BY <1>1, <1>4, <2>2 DEF AskedInv
    <3> QED BY <1>0, <1>6, <3>1, AllOfThem
  <2>3. ASSUME pc' = "free" PROVE First[asked[next]] = <<>>
    <3>1. CASE ipList = NoList
      BY <1>6, <3>1
    <3>2. CASE ipList # NoList
      <4>1. Len(ipList) = 0
        BY <1>1, <1>4, <2>3, <3>2 DEF AskedInv
      <4> QED BY <1>0, <1>6, <3>2, <4>1
    <3> QED BY <3>1, <3>2
  <2> QED BY <2>1, <2>2, <2>3
<1> QED BY <1>2, <1>3, <1>5, <1>7 DEF IInv

(* The program breaks down.                                                *)
LEMMA FaultIInv ==
  ASSUME IInv, Fault PROVE IInv'
<1> USE DEF Step, input, query, answer, result
<1> DEFINE name == computers[next].key
<1>0. /\ UNCHANGED <<asked, ifaces, net, computers, next, failed, tmp>> /\ pc' = "fault"
      /\ tmp \in 1..Len(ifaces) /\ ipList = NoList /\ failed \in Nat
      /\ ifaces \in Seq(IfaceKinds)
      /\ ifaces[tmp] = "other" \/ name = NoKey
  BY NmbLookupAssumption DEF Fault, MoreIfaces, IInv, TypeOK
<1>1. TypeOK'
  BY DEF Fault, IInv, TypeOK
<1>2. PartsInv' /\ CountInv' /\ NamesInv' /\ ListsInv' /\ DoneInv'
  BY <1>0 DEF Fault, IInv, PartsInv, CountInv, NamesInv, ListsInv, DoneInv
<1>3. AskedInv(name)
  BY DEF Fault, IInv, QueryInv
<1>4. QueryInv'
  <2>1. CASE name = NoKey
    <3>1. failed # 0
      <4> SUFFICES ASSUME failed = 0 PROVE FALSE
        OBVIOUS
      <4>1. next \in DOMAIN computers /\ asked \in Seq(Groups) /\ next \in 1..Len(asked)
        BY DEF Fault, IInv, CountInv, TypeOK
      <4>2. name = asked[next] /\ asked[next] \in Groups
        BY <4>1 DEF Fault, IInv, NamesInv
      <4> QED BY <2>1, <4>2, NmbLookupAssumption
    <3> QED BY <1>0, <2>1, <3>1 DEF QueryInv, FaultOnlyUnanswered
  <2>2. CASE ifaces[tmp] = "other"
    <3>1. \A i \in 1..tmp - 1 : ifaces[i] = "ipv4" /\ net[<<name, i>>] = NoList
      BY <1>0, <1>3 DEF AskedInv
    <3> QED BY <1>0, <2>2, <3>1 DEF QueryInv, FaultOnlyUnanswered
  <2> QED BY <1>0, <2>1, <2>2
<1> QED BY <1>1, <1>2, <1>4 DEF IInv

(* An address moves to the list of its workgroup, unless memory runs out.  *)
LEMMA AddAddressIInv ==
  ASSUME IInv, AddAddress PROVE IInv'
<1> USE DEF Step, input, query, answer, result
<1>0. /\ computers \in Seq(Lists) /\ next \in 1..Len(computers)
      /\ ipList \in Seq(Addresses) /\ tmp \in 1..Len(ipList) /\ failed \in 0..MaxFailed
      /\ ipList # NoList /\ smbIpCount = Len(ipList)
  BY NmbLookupAssumption DEF AddAddress, IInv, CountInv, QueryInv, TypeOK
<1> DEFINE more == Append(computers[next].val, ipList[tmp])
<1>1. computers[next] \in Lists /\ computers[next].val \in Seq(Addresses)
  <2>1. computers[next] \in Lists
    BY <1>0
  <2> QED BY <2>1 DEF Lists
<1>2. more \in Seq(Addresses)
  BY <1>0, <1>1, OneMore
<1>3. \/ computers' = [computers EXCEPT ![next].val = more] /\ failed' = failed
      \/ computers' = computers /\ failed' \in 0..MaxFailed /\ failed' # 0
  BY <1>0, NmbLookupAssumption DEF AddAddress, Suffer
<1>4. failed = 0 => /\ ipList = First[asked[next]]
                    /\ computers[next].val = SubSeq(ipList, 1, tmp - 1)
  BY <1>0 DEF AddAddress, IInv, ListsInv
<1>5. failed = 0 => more = SubSeq(ipList, 1, tmp)
  BY <1>0, <1>4, OneMore
<1> HIDE DEF more
<1>6. tmp' = tmp + 1 /\ tmp' \in Nat \ {0} /\ tmp' \in 1..Len(ipList) + 1 /\ tmp' - 1 = tmp
  BY <1>0 DEF AddAddress
<1>7. QueryInv'
  BY <1>0, <1>6 DEF AddAddress, QueryInv, FaultOnlyUnanswered
<1>8. CASE computers' = [computers EXCEPT ![next].val = more] /\ failed' = failed
  <2>0. [computers[next] EXCEPT !.val = more] \in Lists
    BY <1>1, <1>2 DEF Lists
  <2>1. /\ computers' \in Seq(Lists) /\ Len(computers') = Len(computers)
        /\ DOMAIN computers' = DOMAIN computers
        /\ \A k \in DOMAIN computers : k # next => computers'[k] = computers[k]
    BY <1>0, <1>8, <2>0
  <2>2. computers'[next] = [computers[next] EXCEPT !.val = more]
    BY <1>0, <1>8
  <2>3. computers'[next].val = more /\ computers'[next].key = computers[next].key
    BY <1>1, <2>2 DEF Lists
  <2>4. TypeOK'
    BY <1>6, <1>8, <2>1 DEF AddAddress, IInv, TypeOK
  <2>5. PartsInv' /\ DoneInv'
    BY DEF AddAddress, IInv, PartsInv, DoneInv
  <2>6. CountInv'
    BY <2>1 DEF AddAddress, IInv, CountInv
  <2>7. \A k \in DOMAIN computers : computers'[k].key = computers[k].key
    BY <2>1, <2>3
  <2>8. NamesInv'
    BY <1>8, <2>1, <2>7 DEF AddAddress, IInv, NamesInv
  <2>9. ListsInv'
    <3> SUFFICES ASSUME failed = 0, NEW k \in DOMAIN computers
                 PROVE  /\ k < next => computers'[k].val = First[asked[k]]
                        /\ next < k => computers'[k].val = <<>>
                        /\ k = next => /\ ipList = First[asked[k]]
                                       /\ computers'[k].val = SubSeq(ipList, 1, tmp)
      BY <1>6, <1>8, <2>1, FirstFixed DEF AddAddress, ListsInv
    <3>1. /\ k < next => computers[k].val = First[asked[k]]
          /\ next < k => computers[k].val = <<>>
      BY DEF AddAddress, IInv, ListsInv
    <3>2. CASE k = next
      <4>1. ~(next < next)
        BY <1>0
      <4> QED BY <1>4, <1>5, <2>3, <3>2, <4>1, Zenon
    <3>3. CASE k # next
      BY <2>1, <3>1, <3>3
    <3> QED BY <3>2, <3>3
  <2> QED BY <1>7, <2>4, <2>5, <2>6, <2>8, <2>9 DEF IInv
<1>9. CASE computers' = computers /\ failed' \in 0..MaxFailed /\ failed' # 0
  <2>1. TypeOK'
    BY <1>6, <1>9 DEF AddAddress, IInv, TypeOK
  <2>2. PartsInv' /\ CountInv'
    BY <1>9 DEF AddAddress, IInv, PartsInv, CountInv
  <2>3. NamesInv' /\ ListsInv' /\ DoneInv'
    BY <1>9 DEF NamesInv, ListsInv, DoneInv
  <2> QED BY <1>7, <2>1, <2>2, <2>3 DEF IInv
<1> QED BY <1>3, <1>8, <1>9

(* A list is complete, and the next workgroup follows.                     *)
LEMMA GroupDoneIInv ==
  ASSUME IInv, GroupDone PROVE IInv'
<1> USE DEF Step, input, query, answer, result
<1>0. /\ computers \in Seq(Lists) /\ next \in 1..Len(computers)
      /\ asked \in Seq(Groups) /\ Len(computers) <= Len(asked)
      /\ pc = "list" => /\ ipList \in Seq(Addresses)
                        /\ tmp \in 1..Len(ipList) + 1 /\ tmp > Len(ipList)
  BY NmbLookupAssumption DEF GroupDone, IInv, CountInv, QueryInv, TypeOK
<1>1. TypeOK'
  <2>1. next' \in 1..Len(asked') + 1
    BY <1>0 DEF GroupDone
  <2> QED BY <2>1 DEF GroupDone, IInv, TypeOK
<1>2. PartsInv' /\ CountInv' /\ NamesInv' /\ DoneInv'
  BY DEF GroupDone, IInv, PartsInv, CountInv, NamesInv, DoneInv
<1>3. QueryInv'
  BY DEF GroupDone, QueryInv, FaultOnlyUnanswered
<1>4. ListsInv'
  <2> SUFFICES ASSUME failed = 0, NEW k \in DOMAIN computers
               PROVE  /\ k < next + 1 => computers[k].val = First[asked[k]]
                      /\ next < k => computers[k].val = <<>>
    BY <1>0, FirstFixed DEF GroupDone, ListsInv
  <2>1. /\ k < next => computers[k].val = First[asked[k]]
        /\ next < k => computers[k].val = <<>>
    BY DEF GroupDone, IInv, ListsInv
  <2>2. k = next => computers[k].val = First[asked[k]]
    <3>1. CASE pc = "free"
      BY <3>1 DEF IInv, ListsInv
    <3>2. CASE pc = "list"
      <4>1. tmp - 1 = Len(ipList)
        BY <1>0, <3>2
      <4>2. SubSeq(ipList, 1, tmp - 1) = ipList
        BY <1>0, <3>2, <4>1, AllOfThem
      <4> QED BY <3>2, <4>2 DEF IInv, ListsInv
    <3> QED BY <3>1, <3>2 DEF GroupDone
  <2>3. k < next + 1 => k < next \/ k = next
    BY <1>0
  <2> QED BY <2>1, <2>2, <2>3
<1> QED BY <1>1, <1>2, <1>3, <1>4 DEF IInv

(* No workgroup is left.                                                   *)
LEMMA GroupsDoneIInv ==
  ASSUME IInv, GroupsDone PROVE IInv'
<1> USE DEF Step, input, query, answer, result
<1>0. /\ computers \in Seq(Lists) /\ next > Len(computers) /\ next \in Nat
      /\ asked \in Seq(Groups)
  BY DEF GroupsDone, IInv, TypeOK
<1>1. TypeOK'
  BY DEF GroupsDone, IInv, TypeOK
<1>2. PartsInv' /\ CountInv' /\ NamesInv' /\ QueryInv' /\ ListsInv'
  BY DEF GroupsDone, IInv, PartsInv, CountInv, NamesInv, QueryInv, ListsInv,
         FaultOnlyUnanswered
<1>3. DoneInv'
  <2> SUFFICES ASSUME failed = 0
               PROVE  \A k \in DOMAIN asked : computers[k].val = First[asked[k]]
    BY FirstFixed DEF GroupsDone, DoneInv, IInv, PartsInv
  <2>1. DOMAIN asked = DOMAIN computers
    BY <1>0 DEF GroupsDone, IInv, NamesInv
  <2>2. \A k \in DOMAIN computers : k < next
    BY <1>0
  <2> QED BY <2>1, <2>2 DEF GroupsDone, IInv, ListsInv
<1> QED BY <1>1, <1>2, <1>3 DEF IInv

(* Every step keeps it.                                                    *)
LEMMA NextIInv == IInv /\ [Next]_vars => IInv'
<1> SUFFICES ASSUME IInv, [Next]_vars PROVE IInv'
  OBVIOUS
<1> USE DEF Step, input, query, answer, result
<1>1. First' = First
  BY InputFixed, FirstFixed
<1>2. CASE Ends
  <2>1. TypeOK'
    BY <1>2 DEF Ends, IInv, TypeOK
  <2>2. PartsInv' /\ CountInv' /\ NamesInv' /\ ListsInv' /\ QueryInv' /\ DoneInv'
    BY <1>1, <1>2 DEF Ends, IInv, PartsInv, CountInv, NamesInv, ListsInv, QueryInv,
                      DoneInv, FaultOnlyUnanswered
  <2> QED BY <2>1, <2>2 DEF IInv
<1>3. CASE UNCHANGED vars
  <2>1. TypeOK'
    BY <1>3 DEF vars, IInv, TypeOK
  <2>2. PartsInv' /\ CountInv' /\ NamesInv' /\ ListsInv' /\ DoneInv'
    BY <1>1, <1>3 DEF vars, IInv, PartsInv, CountInv, NamesInv, ListsInv, DoneInv
  <2>3. QueryInv'
    BY <1>3 DEF vars, IInv, QueryInv, AskedInv, FaultOnlyUnanswered
  <2> QED BY <2>1, <2>2, <2>3 DEF IInv
<1> QED
  BY <1>2, <1>3, FaultIInv, FieldsIInv, GivesUpIInv, AddNameIInv, PrepareIInv, StartGroupIInv,
     QueryIInv, QueryEndsIInv, AddAddressIInv, GroupDoneIInv, GroupsDoneIInv
  DEF Next, Work, Stopped

(* It always holds.                                                        *)
THEOREM Invariance == Spec => []IInv
<1>1. IInv /\ [Next]_vars => IInv'
  BY NextIInv
<1> QED BY <1>1, InitIInv, PTL DEF Spec

(* The type invariant.                                                     *)
THEOREM TypeCorrect == Spec => []TypeOK
<1>1. IInv => TypeOK
  BY DEF IInv
<1> QED BY <1>1, Invariance, PTL

(* While the lists are filled, each one holds the first answer for its own *)
(* name, or nothing yet (util_nmblookup.c:90-117, 192-201).                *)
THEOREM FirstAnswersListed == Spec => []ListsAreFirstAnswers
<1>1. IInv => ListsAreFirstAnswers
  <2> SUFFICES ASSUME IInv, failed = 0, pc \in {"group", "query", "list", "free"},
                      NEW k \in DOMAIN computers
               PROVE  /\ k < next => computers[k].val = FirstAnswer(computers[k].key)
                      /\ k > next => computers[k].val = <<>>
    BY DEF ListsAreFirstAnswers
  <2>0. /\ computers \in Seq(Lists) /\ asked \in Seq(Groups) /\ next \in Nat
        /\ Len(computers) = Len(asked)
    BY DEF IInv, TypeOK, NamesInv
  <2>1. computers[k].key = asked[k] /\ asked[k] \in Groups
    BY <2>0 DEF IInv, NamesInv
  <2>2. First[asked[k]] = FirstAnswer(computers[k].key)
    BY <2>1 DEF First
  <2> QED BY <2>0, <2>2 DEF IInv, ListsInv
<1> QED BY <1>1, Invariance, PTL

(* On the way out the answer has all workgroups asked for, in order, each  *)
(* with its first answer, or all empty if Samba could not be prepared      *)
(* (util_nmblookup.c:168-188, 210).                                        *)
THEOREM AnswersComplete == Spec => []AnswerIsComplete
<1>1. IInv => AnswerIsComplete
  <2> SUFFICES ASSUME IInv, failed = 0, pc = "ends"
               PROVE  /\ Len(computers) = Len(asked)
                      /\ \A k \in DOMAIN asked :
                           /\ computers[k].key = asked[k]
                           /\ computers[k].val =
                                IF frame THEN FirstAnswer(asked[k]) ELSE <<>>
    BY DEF AnswerIsComplete
  <2>0. computers \in Seq(Lists) /\ asked \in Seq(Groups)
    BY DEF IInv, TypeOK
  <2>1. Len(computers) = Len(asked) /\ DOMAIN computers = DOMAIN asked
    BY <2>0 DEF IInv, NamesInv
  <2>2. \A k \in DOMAIN asked : computers[k].key = asked[k]
    BY <2>1 DEF IInv, NamesInv
  <2>3. \A k \in DOMAIN asked : asked[k] \in Groups /\ First[asked[k]] = FirstAnswer(asked[k])
    BY <2>0 DEF First
  <2>4. \A k \in DOMAIN asked :
          computers[k].val = IF frame THEN First[asked[k]] ELSE <<>>
    BY DEF IInv, DoneInv
  <2> QED BY <2>1, <2>2, <2>3, <2>4
<1> QED BY <1>1, Invariance, PTL

(* The lookup breaks down only on a list without a name, after a failed    *)
(* allocation, or on an interface without broadcast address that is        *)
(* reached because all before it failed (util_nmblookup.c:90-101).         *)
THEOREM FaultsExplained == Spec => []FaultOnlyUnanswered
<1>1. IInv => FaultOnlyUnanswered
  BY DEF IInv, QueryInv
<1> QED BY <1>1, Invariance, PTL

-----------------------------------------------------------------------------
(* Refinement of Utility.                                                  *)

Layout == << [key |-> "command", vals |-> {"nmblookup"}],
             [key |-> "computers", vals |-> {"object"}],
             [key |-> "fail", vals |-> {"system error"}] >>

(* The parts of a response, in their order.                                *)
LEMMA LayoutParts ==
  /\ DOMAIN Layout = {1, 2, 3}
  /\ Layout[1].key = "command" /\ Layout[1].vals = {"nmblookup"}
  /\ Layout[2].key = "computers" /\ Layout[2].vals = {"object"}
  /\ Layout[3].key = "fail" /\ Layout[3].vals = {"system error"}
<1>1. DOMAIN Layout = {1, 2, 3}
  BY DEF Layout
<1>2. Layout[1].key = "command" /\ Layout[2].key = "computers" /\ Layout[3].key = "fail"
  BY DEF Layout
<1>3. /\ Layout[1].vals = {"nmblookup"} /\ Layout[2].vals = {"object"}
      /\ Layout[3].vals = {"system error"}
  BY DEF Layout
<1> QED BY <1>1, <1>2, <1>3

(* Each value is that of one part.                                         *)
LEMMA OnePlace == Unambiguous(Layout)
<1> SUFFICES ASSUME NEW v
             PROVE  \A i, p \in DOMAIN Layout :
                      v \in Layout[i].vals /\ v \in Layout[p].vals => i = p
  BY DEF Unambiguous
<1>1. \A i \in DOMAIN Layout : i = 1 \/ i = 2 \/ i = 3
  BY LayoutParts
<1>2. \A i \in DOMAIN Layout : v \in Layout[i].vals =>
        \/ i = 1 /\ v = "nmblookup"
        \/ i = 2 /\ v = "object"
        \/ i = 3 /\ v = "system error"
  <2> SUFFICES ASSUME NEW i \in DOMAIN Layout, v \in Layout[i].vals
               PROVE  \/ i = 1 /\ v = "nmblookup"
                      \/ i = 2 /\ v = "object"
                      \/ i = 3 /\ v = "system error"
    OBVIOUS
  <2>1. CASE i = 1
    BY <2>1, LayoutParts
  <2>2. CASE i = 2
    BY <2>2, LayoutParts
  <2>3. CASE i = 3
    BY <2>3, LayoutParts
  <2> QED BY <1>1, <2>1, <2>2, <2>3
<1>3. "nmblookup" # "object" /\ "system error" \notin {"nmblookup", "object"}
  OBVIOUS
<1> QED BY <1>2, <1>3, Zenon

(* What Utility allows to be added at a place p.                           *)
LEMMA AddsPart ==
  ASSUME NEW p \in DOMAIN Layout, NEW val \in Layout[p].vals,
         \A v \in ValsOf(fields) : \E i \in DOMAIN Layout : i < p /\ v \in Layout[i].vals,
         \E a \in AddItem(fields, Layout[p].key, val)
                 \cup AddString(fields, Layout[p].key, val) : fields' = a.object
  PROVE  UNCHANGED fields \/ Promise!Adds({p})
<1>1. fields' = fields \/ AddsTo(Layout, fields, fields', {p})
  BY OnePlace, AddsBehind
<1>2. AddsTo(Layout, fields, fields', {p}) => Promise!Adds({p})
  BY DEF AddsTo, PlaceIn, Promise!Adds, Promise!Place, Promise!Field, Promise!NoKey,
         Field, NoKey, Layout
<1> QED BY <1>1, <1>2

(* The initial states are initial states of Utility.                       *)
LEMMA InitRefines == Init => Promise!Init
BY DEF Init, Promise!Init

(* Every step is one of Utility or changes nothing that it sees.           *)
LEMMA NextRefines ==
  IInv /\ [Next]_vars => Promise!Next \/ UNCHANGED Promise!utilityVars
<1> SUFFICES ASSUME IInv, [Next]_vars
             PROVE  Promise!Next \/ UNCHANGED Promise!utilityVars
  OBVIOUS
<1> USE DEF Step, input, query, answer, result
<1>1. CASE CreateResponse
  <2>1. /\ 1 \in DOMAIN Layout /\ Layout[1].key = "command"
        /\ "nmblookup" \in Layout[1].vals
    BY LayoutParts
  <2>2. ValsOf(fields) = {}
    BY <1>1, EmptyObject DEF CreateResponse, IInv, PartsInv
  <2>3. \E a \in AddItem(fields, "command", "nmblookup")
              \cup AddString(fields, "command", "nmblookup") : fields' = a.object
    BY <1>1 DEF CreateResponse
  <2>4. UNCHANGED fields \/ Promise!Adds({1})
    BY <2>1, <2>2, <2>3, AddsPart
  <2>5. UNCHANGED fields \/ Promise!Adds(DOMAIN Layout)
    BY <2>1, <2>4 DEF Promise!Adds
  <2> QED BY <1>1, <2>5 DEF CreateResponse, Promise!Next, Promise!Work, Layout
<1>2. CASE AddComputers
  <2>1. /\ 2 \in DOMAIN Layout /\ Layout[2].key = "computers"
        /\ "object" \in Layout[2].vals
    BY LayoutParts
  <2>2. \A v \in ValsOf(fields) : \E i \in DOMAIN Layout : i < 2 /\ v \in Layout[i].vals
    <3>1. 1 \in DOMAIN Layout /\ Layout[1].vals = {"nmblookup"}
      BY LayoutParts
    <3>2. ValsOf(fields) \subseteq {"nmblookup"}
      BY <1>2 DEF AddComputers, IInv, PartsInv
    <3>3. 1 < 2
      OBVIOUS
    <3> QED BY <3>1, <3>2, <3>3
  <2>3. \E a \in AddItem(fields, "computers", "object")
              \cup AddString(fields, "computers", "object") : fields' = a.object
    BY <1>2 DEF AddComputers
  <2>4. UNCHANGED fields \/ Promise!Adds({2})
    BY <2>1, <2>2, <2>3, AddsPart
  <2>5. UNCHANGED fields \/ Promise!Adds(DOMAIN Layout)
    BY <2>1, <2>4 DEF Promise!Adds
  <2> QED BY <1>2, <2>5 DEF AddComputers, Promise!Next, Promise!Work, Layout
<1>3. CASE Ends \/ Fault
  BY <1>3 DEF Ends, Fault, Promise!Next, Promise!Return
<1>4. CASE UNCHANGED fields /\ {pc, pc'} \cap {"returned", "fault"} = {}
  BY <1>4 DEF Promise!Next, Promise!Work
<1>5. CASE UNCHANGED vars
  BY <1>5 DEF vars, Promise!utilityVars
<1> QED
  BY <1>1, <1>2, <1>3, <1>4, <1>5
  DEF Next, Work, Stopped, NoResponse, NoComputers, AddName, Prepare, PrepareFails,
      StartGroup, Query, QueryEnds, AddAddress, GroupDone, GroupsDone

(* The safety part of ImplementsUtility: the response has its fields in    *)
(* their order, the frame is freed on return, and nothing changes any more *)
(* after a return or a fault (util_nmblookup.c:208-227).                   *)
THEOREM UtilityRefined == Spec => Promise!Safety
<1>1. IInv /\ [Next]_vars => [Promise!Next]_(Promise!utilityVars)
  BY NextRefines
<1> QED BY <1>1, InitRefines, Invariance, PTL DEF Spec, Promise!Safety
=============================================================================
