---------------------------- MODULE Workgroups ----------------------------
(***************************************************************************)
(* _parse_workgroups() of smb_discover.c: the argument of option -L, names *)
(* separated by ':', becomes an array of the names that are not empty.     *)
(*                                                                         *)
(* The function works in a copy of the argument, len + 1 bytes long.       *)
(* After a name that ends the string it steps over the terminating NUL and *)
(* reads the byte behind the copy, which the allocator left there: that    *)
(* byte and those after it are the slack.                                  *)
(***************************************************************************)
EXTENDS Integers, Sequences, SequencesExt, FiniteSetsExt

CONSTANTS
  Letters,    (* the characters of names                                   *)
  MaxLen,     (* bound: the length of the argument                         *)
  SlackBytes, (* the bytes that may lie behind the copy                    *)
  SlackLen    (* bound: how many of them there are before memory ends      *)

Colon == ":"
Nul   == "NUL"

ASSUME WorkgroupsAssumption ==
  /\ {Colon, Nul} \cap Letters = {}
  /\ SlackBytes \subseteq Letters \cup {Colon, Nul}
  /\ MaxLen \in Nat /\ SlackLen \in Nat \ {0}

VARIABLES
  arg,     (* the argument                                                 *)
  memory,  (* the copy, with its NUL, and the slack behind it              *)
  pStart,  (* index into memory where the name begins                      *)
  pStop,   (* index into memory of the byte looked at                      *)
  groups,  (* smb_workgroups: NULL or the array so far                     *)
  lost,    (* has a name been lost because memory ran out                  *)
  pc

vars == <<arg, memory, pStart, pStop, groups, lost, pc>>

Strings(S, n) == UNION {[1..k -> S] : k \in 0..n}
NoGroups == <<"NULL">>

(* The C string that begins at index i of m.                               *)
CString(m, i) ==
  LET stop == Min({j \in i..Len(m) : m[j] = Nul}) IN SubSeq(m, i, stop - 1)

Init ==
  /\ arg \in Strings(Letters \cup {Colon}, MaxLen)
  /\ \E slack \in [1..SlackLen -> SlackBytes] :
       memory = arg \o <<Nul>> \o slack \o <<Nul>>
  /\ pStart = 1 /\ pStop = 1
  /\ groups = NoGroups
  /\ lost = FALSE
  /\ pc = "check"

(* An empty argument, or no memory for the array or the copy.              *)
Reject ==
  /\ pc = "check"
  /\ groups' \in IF arg = <<>> THEN {NoGroups} ELSE {NoGroups, <<>>}
  /\ pc' = "failed"
  /\ UNCHANGED <<arg, memory, pStart, pStop, lost>>

Accept ==
  /\ pc = "check"
  /\ arg # <<>>
  /\ groups' = <<>>
  /\ pc' = "scan"
  /\ UNCHANGED <<arg, memory, pStart, pStop, lost>>

(* The next ':' or NUL from pStop on; it becomes a NUL.                    *)
NextStop == Min({j \in pStop..Len(memory) : memory[j] \in {Colon, Nul}})

(* Mutant of Part: empty names are kept.                                   *)
PartMaybeEmpty ==
  /\ pc = "scan"
  /\ memory[pStop] # Nul
  /\ NextStop < Len(memory)
  /\ memory' = [memory EXCEPT ![NextStop] = Nul]
  /\ groups' = Append(groups, CString(memory', pStart))
  /\ pStop' = NextStop + 1
  /\ pStart' = pStop'
  /\ UNCHANGED <<arg, lost, pc>>

(* Mutant of Part: the name begins at the separator.                       *)
PartWithSeparator ==
  /\ pc = "scan"
  /\ memory[pStop] # Nul
  /\ NextStop < Len(memory)
  /\ memory' = [memory EXCEPT ![NextStop] = Nul]
  /\ LET name == CString(memory', pStart)
     IN  groups' = IF name = <<>> THEN groups ELSE Append(groups, name)
  /\ pStop' = NextStop + 1
  /\ pStart' = NextStop
  /\ UNCHANGED <<arg, lost, pc>>

(* One round of the outer loop: the name up to the next ':' is added to    *)
(* the array, unless it is empty or there is no memory for it, and both    *)
(* pointers go behind the separator -- or behind the NUL of the copy.      *)
Part ==
  /\ pc = "scan"
  /\ memory[pStop] # Nul
  /\ NextStop < Len(memory)
  /\ memory' = [memory EXCEPT ![NextStop] = Nul]
  /\ LET name == CString(memory', pStart)
     IN  IF name = <<>> THEN UNCHANGED <<groups, lost>>
         ELSE \/ groups' = Append(groups, name) /\ UNCHANGED lost
              \/ UNCHANGED groups /\ lost' = TRUE
  /\ pStop' = NextStop + 1
  /\ pStart' = pStop'
  /\ UNCHANGED <<arg, pc>>

(* The scan runs out of the memory there is.                               *)
RunAway ==
  /\ pc = "scan"
  /\ memory[pStop] # Nul
  /\ NextStop = Len(memory)
  /\ pc' = "fault"
  /\ UNCHANGED <<arg, memory, pStart, pStop, groups, lost>>

(* The loop ends at a NUL.  pStart and pStop are then equal, so the test   *)
(* behind it (:177-180) never adds anything.  The copy is freed.           *)
Done ==
  /\ pc = "scan"
  /\ memory[pStop] = Nul
  /\ pc' = "parsed"
  /\ UNCHANGED <<arg, memory, pStart, pStop, groups, lost>>

Stopped == pc \in {"failed", "parsed", "fault"} /\ UNCHANGED vars

Next == Reject \/ Accept \/ Part \/ RunAway \/ Done \/ Stopped

Spec == Init /\ [][Next]_vars

-----------------------------------------------------------------------------
(* Properties.                                                             *)

(* The names in a string: the longest runs of characters without ':'.      *)
Runs(s) ==
  {r \in (1..Len(s)) \X (1..Len(s)) :
     /\ r[1] <= r[2]
     /\ \A k \in r[1]..r[2] : s[k] # Colon
     /\ r[1] > 1 => s[r[1] - 1] = Colon
     /\ r[2] < Len(s) => s[r[2] + 1] = Colon}

Nth(R, n) == CHOOSE r \in R : Cardinality({q \in R : q[1] <= r[1]}) = n

Names(s) ==
  [n \in 1..Cardinality(Runs(s)) |->
     SubSeq(s, Nth(Runs(s), n)[1], Nth(Runs(s), n)[2])]

(* While the argument is scanned, the array holds the names of the part    *)
(* that has been scanned, in order and none empty; at the end it holds     *)
(* those of the whole argument first, and no others if the scan went no    *)
(* farther than to the byte behind the copy (:154-175).                    *)
GroupsAreNames ==
  /\ pc = "scan" /\ ~lost /\ pStop <= Len(arg) =>
       groups = Names(SubSeq(arg, 1, pStop - 1))
  /\ pc = "parsed" /\ ~lost =>
       /\ IsPrefix(Names(arg), groups)
       /\ pStop <= Len(arg) + 2 => groups = Names(arg)

(* The types of the variables.                                             *)
TypeOK ==
  /\ arg \in Seq(Letters \cup {Colon})
  /\ memory \in Seq(Letters \cup {Colon, Nul})
  /\ pStart = pStop
  /\ pStop \in 1..Len(memory)
  /\ groups = NoGroups \/ \A n \in DOMAIN groups : groups[n] \in Seq(Letters) \ {<<>>}
  /\ lost \in BOOLEAN
  /\ pc \in {"check", "scan", "failed", "parsed", "fault"}

(* "-L GROUPS list computers in workgroup(s)" (:60): the workgroups        *)
(* looked up are those of the option.  With another byte than NUL behind   *)
(* the copy there are more.                                                *)
OnlyGroupsOfTheOption ==
  pc = "parsed" => \A n \in DOMAIN groups : groups[n] \in ToSet(Names(arg))
=============================================================================
