----------------------------- MODULE NmbLookup -----------------------------
(***************************************************************************)
(* util_nmblookup.c: the addresses of the computers in some workgroups.    *)
(* Each workgroup becomes an empty list under "computers"; the lists are   *)
(* then filled one after the other, each from the first network interface  *)
(* whose broadcast is answered.                                            *)
(***************************************************************************)
EXTENDS JsonFields

CONSTANTS
  Groups,      (* the workgroup names                                      *)
  MaxGroups,   (* bound: how many are asked for                            *)
  IfaceKinds,  (* "ipv4" interfaces have an IPv4 broadcast address,        *)
               (* "other" ones have none                                   *)
  MaxIfaces,   (* bound: how many interfaces there are                     *)
  Answers,     (* the lists of addresses a name query may bring            *)
  NoList,      (* no list: NULL                                            *)
  MaxFailed    (* bound: failed allocations in one run                     *)

Addresses == UNION {{a[i] : i \in DOMAIN a} : a \in Answers}

ASSUME NmbLookupAssumption ==
  /\ Answers \subseteq Seq(Addresses)
  /\ NoList \notin Answers
  /\ IfaceKinds \subseteq {"ipv4", "other"}
  /\ NoKey \notin Groups
  /\ MaxGroups \in Nat /\ MaxIfaces \in Nat /\ MaxFailed \in Nat

VARIABLES
  pc,
  asked,     (* smb_workgroups: the sequence of names asked for            *)
  ifaces,    (* the sequence of interfaces                                 *)
  net,       (* what a query for a name on an interface brings: NoList     *)
             (* when it fails                                              *)
  response,  (* "null", or "object" with these fields                      *)
  fields,
  computers, (* retNameObject: a field for each name                       *)
  next,      (* the next name or workgroup the loop at pc takes            *)
  tmp,       (* in _list_IP_in_workgroup(): the next interface, later the  *)
             (* next address                                               *)
  status, smbIpCount, ipList, (* there too: what a query leaves behind     *)
  frame,     (* is the talloc frame held                                   *)
  failed     (* number of allocations that failed                          *)

vars == <<pc, asked, ifaces, net, response, fields, computers, next, tmp, status,
          smbIpCount, ipList, frame, failed>>
input  == <<asked, ifaces, net>>
result == <<response, fields>>
answer == <<status, smbIpCount, ipList>>
query  == <<tmp, answer>>

Suffer(n) == failed + n <= MaxFailed /\ failed' = failed + n

SeqsUpTo(S, n) == UNION {[1..k -> S] : k \in 0..n}

Init ==
  /\ pc = "create"
  /\ asked \in SeqsUpTo(Groups, MaxGroups)
  /\ ifaces \in SeqsUpTo(IfaceKinds, MaxIfaces)
  /\ net \in [Groups \X DOMAIN ifaces -> Answers \cup {NoList}]
  /\ response = "null" /\ fields = <<>> /\ computers = <<>>
  /\ next = 1 /\ tmp = 1
  /\ status = "none" /\ smbIpCount = 0 /\ ipList = NoList
  /\ frame = FALSE
  /\ failed = 0

Step(from, to) == pc = from /\ pc' = to

CreateResponse ==
  /\ Step("create", "names")
  /\ response' = "object"
  /\ \E a \in AddString(fields, "command", "nmblookup") :
       fields' = a.object /\ Suffer(a.failed)
  /\ UNCHANGED <<computers, next, frame, input, query>>

NoResponse ==
  /\ Step("create", "ends")
  /\ Suffer(1)
  /\ UNCHANGED <<computers, next, frame, input, result, query>>

AddComputers ==
  /\ Step("names", "name")
  /\ \E a \in AddItem(fields, "computers", "object") :
       fields' = a.object /\ Suffer(a.failed)
  /\ UNCHANGED <<response, computers, next, frame, input, query>>

NoComputers ==
  /\ Step("names", "ends")
  /\ Suffer(1)
  /\ UNCHANGED <<computers, next, frame, input, result, query>>

(* Mutant of AddName: a name that is there already is not added again.     *)
AddNewName ==
  /\ Step("name", "name")
  /\ next <= Len(asked)
  /\ next' = next + 1
  /\ IF asked[next] \in KeysOf(computers) THEN UNCHANGED <<computers, failed>>
     ELSE \E a \in AddString(computers, asked[next], <<>>) :
            computers' = a.object /\ Suffer(a.failed)
  /\ UNCHANGED <<frame, input, result, query>>

(* One round of the loop over the names: an empty list for the name, or    *)
(* nothing when cJSON_CreateArray() fails.                                 *)
AddName ==
  /\ Step("name", "name")
  /\ next <= Len(asked)
  /\ next' = next + 1
  /\ \E a \in AddString(computers, asked[next], <<>>) :
       computers' = a.object /\ Suffer(a.failed)
  /\ UNCHANGED <<frame, input, result, query>>

Prepare ==
  /\ Step("name", "group")
  /\ next > Len(asked)
  /\ next' = 1
  /\ frame' = TRUE
  /\ UNCHANGED <<computers, failed, input, result, query>>

(* talloc_stackframe() fails: the empty lists are all there is to answer.  *)
PrepareFails ==
  /\ Step("name", "ends")
  /\ next > Len(asked)
  /\ UNCHANGED <<computers, next, frame, failed, input, result, query>>

(* _list_IP_in_workgroup() is entered for the next workgroup.              *)
StartGroup ==
  /\ Step("group", "query")
  /\ next <= Len(computers)
  /\ tmp' = 1
  /\ status' = "none" /\ smbIpCount' = 0 /\ ipList' = NoList
  /\ UNCHANGED <<computers, next, frame, failed, input, result>>

(* Mutant of MoreIfaces: all interfaces are asked.                         *)
AllIfaces == tmp <= Len(ifaces)

MoreIfaces == ipList = NoList /\ tmp <= Len(ifaces)

(* One round of its loop over the interfaces.  name_query() fills the list *)
(* and the count when it succeeds, be it with no address, and leaves them  *)
(* alone when it fails.                                                    *)
Query ==
  /\ Step("query", "query")
  /\ MoreIfaces
  /\ ifaces[tmp] = "ipv4"
  /\ computers[next].key # NoKey
  /\ LET brought == net[<<computers[next].key, tmp>>]
     IN  IF brought = NoList
           THEN status' = "error" /\ UNCHANGED <<smbIpCount, ipList>>
           ELSE status' = "ok" /\ smbIpCount' = Len(brought) /\ ipList' = brought
  /\ tmp' = tmp + 1
  /\ UNCHANGED <<computers, next, frame, failed, input, result>>

(* An interface without an IPv4 broadcast address, or a list that lost its *)
(* name when memory ran out: the program dereferences NULL.                *)
Fault ==
  /\ Step("query", "fault")
  /\ MoreIfaces
  /\ ifaces[tmp] = "other" \/ computers[next].key = NoKey
  /\ UNCHANGED <<computers, next, frame, failed, input, result, query>>

(* The list is used only if the last query succeeded and counted some.     *)
QueryEnds ==
  /\ pc = "query"
  /\ ~MoreIfaces
  /\ IF status = "ok" /\ smbIpCount # 0
       THEN pc' = "list" /\ tmp' = 1
       ELSE pc' = "free" /\ UNCHANGED tmp
  /\ UNCHANGED <<computers, next, frame, failed, input, result, answer>>

(* One address becomes a string of the list, if there is memory for it.    *)
AddAddress ==
  /\ Step("list", "list")
  /\ tmp <= smbIpCount
  /\ \/ computers' = [computers EXCEPT ![next].val = Append(@, ipList[tmp])]
        /\ UNCHANGED failed
     \/ UNCHANGED computers /\ Suffer(1)
  /\ tmp' = tmp + 1
  /\ UNCHANGED <<next, frame, input, result, answer>>

(* Mutant of GroupDone: the workgroup itself is stepped over twice.        *)
GroupDoneTwice ==
  /\ pc = "free" \/ (pc = "list" /\ tmp > smbIpCount)
  /\ pc' = "group"
  /\ ipList' = NoList
  /\ next' = next + 2
  /\ UNCHANGED <<computers, tmp, status, smbIpCount, frame, failed, input, result>>

(* The addresses are freed, and the next workgroup follows.                *)
GroupDone ==
  /\ pc = "free" \/ (pc = "list" /\ tmp > smbIpCount)
  /\ pc' = "group"
  /\ ipList' = NoList
  /\ next' = next + 1
  /\ UNCHANGED <<computers, tmp, status, smbIpCount, frame, failed, input, result>>

GroupsDone ==
  /\ Step("group", "ends")
  /\ next > Len(computers)
  /\ UNCHANGED <<computers, next, frame, failed, input, result, query>>

(* Mutant of Ends: the frame is not freed.                                 *)
EndsKeepingFrame ==
  /\ Step("ends", "returned")
  /\ UNCHANGED <<computers, next, frame, failed, input, result, query>>

(* isSystemError is never set: no "fail" is added.                         *)
Ends ==
  /\ Step("ends", "returned")
  /\ frame' = FALSE
  /\ UNCHANGED <<computers, next, failed, input, result, query>>

Stopped == pc \in {"returned", "fault"} /\ UNCHANGED vars

Work ==
  \/ CreateResponse \/ NoResponse \/ AddComputers \/ NoComputers \/ AddName
  \/ Prepare \/ PrepareFails \/ StartGroup \/ Query \/ Fault \/ QueryEnds
  \/ AddAddress \/ GroupDone \/ GroupsDone \/ Ends

Next == Work \/ Stopped

Spec == Init /\ [][Next]_vars

(* The program is the only one to schedule, and name queries return.       *)
FairSpec == Spec /\ WF_vars(Work)

-----------------------------------------------------------------------------
(* Properties.                                                             *)

ResponseFields == [key : {"command", "computers", NoKey}, val : {"nmblookup", "object"}]
Lists == [key : Groups \cup {NoKey}, val : Seq(Addresses)]

(* The types of the variables.                                             *)
TypeOK ==
  /\ pc \in {"create", "names", "name", "group", "query", "list", "free", "ends",
             "returned", "fault"}
  /\ asked \in Seq(Groups)
  /\ ifaces \in Seq(IfaceKinds)
  /\ net \in [Groups \X DOMAIN ifaces -> Answers \cup {NoList}]
  /\ response \in {"null", "object"}
  /\ fields \in Seq(ResponseFields)
  /\ computers \in Seq(Lists)
  /\ next \in 1..Len(asked) + 1
  /\ tmp \in Nat \ {0}
  /\ status \in {"none", "error", "ok"}
  /\ smbIpCount \in Nat
  /\ ipList \in Answers \cup {NoList}
  /\ frame \in BOOLEAN
  /\ failed \in 0..MaxFailed

(* What a lookup of name is to find: the list of the first interface whose *)
(* query brings one, be it empty.                                          *)
FirstAnswer(name) ==
  LET answered == {i \in DOMAIN ifaces : net[<<name, i>>] # NoList}
  IN  IF answered = {} THEN <<>>
      ELSE net[<<name, CHOOSE i \in answered : \A j \in answered : i <= j>>]

(* While the lists are filled, those before the current one are done, and  *)
(* hold the first answer for their own name, also when a name was asked    *)
(* for twice; those after it are still empty (:90-117, :192-201).  Status, *)
(* count and list of one query thus never reach another's list.            *)
ListsAreFirstAnswers ==
  failed = 0 /\ pc \in {"group", "query", "list", "free"} =>
    \A k \in DOMAIN computers :
      /\ k < next => computers[k].val = FirstAnswer(computers[k].key)
      /\ k > next => computers[k].val = <<>>

(* On the way out (:210) the answer has the workgroups asked for, in that  *)
(* order, also when one is asked for twice.  If Samba could be prepared,   *)
(* which the frame still tells here, each has its first answer: no list is *)
(* empty because it was not searched.  If not, all are empty, and as       *)
(* isSystemError is not set the caller cannot tell (:168-188).             *)
AnswerIsComplete ==
  failed = 0 /\ pc = "ends" =>
    /\ Len(computers) = Len(asked)
    /\ \A k \in DOMAIN asked :
         /\ computers[k].key = asked[k]
         /\ computers[k].val = IF frame THEN FirstAnswer(asked[k]) ELSE <<>>

(* The lookup breaks down (:96-101) only where it must: on a list that     *)
(* lost its name for want of memory, or on an interface without broadcast  *)
(* address after those before it have all failed.  An interface that comes *)
(* behind the one that answers does no harm.                               *)
FaultOnlyUnanswered ==
  pc = "fault" =>
    \/ failed > 0 /\ computers[next].key = NoKey
    \/ /\ tmp \in DOMAIN ifaces /\ ifaces[tmp] = "other"
       /\ \A i \in 1..tmp - 1 :
            ifaces[i] = "ipv4" /\ net[<<computers[next].key, i>>] = NoList

(* Seen by its caller: Utility, except that the call may end in a fault.   *)
Promise == INSTANCE Utility WITH
  Layout <- << [key |-> "command", vals |-> {"nmblookup"}],
               [key |-> "computers", vals |-> {"object"}],
               [key |-> "fail", vals |-> {"system error"}] >>,
  Ends  <- {"returned", "fault"},
  stage <- IF pc \in {"returned", "fault"} THEN pc ELSE "working",
  held  <- IF frame THEN {"smbFrame"} ELSE {}

(* The response has its fields in order, the frame is freed on return, and *)
(* nothing changes any more (:208-227).                                    *)
ImplementsUtility == Promise!Spec
=============================================================================
