------------------------------ MODULE Options ------------------------------
(***************************************************************************)
(* The command line of smb_discover.c: _parse_options(), one option after  *)
(* the other, _configs_check() of the utility the options ask for, and the *)
(* address of the socket that is then opened.  An option is what getopt()  *)
(* returns with its argument.  A user name, a password or a path is "", a  *)
(* word, or "long", too long for its buffer; a path may also fit only      *)
(* there and not in sun_path.  An array of workgroups is known by the      *)
(* argument it is made from (see Workgroups).                              *)
(***************************************************************************)
EXTENDS Integers, Sequences, FiniteSetsExt

CONSTANTS
  Words,      (* names, passwords and paths that fit wherever they go      *)
  LongPaths,  (* paths of 109 to 254 characters                            *)
  Cut,        (* their first 108 characters                                *)
  Addresses,  (* the spellings of addresses that inet_addr() takes         *)
  Dotted,     (* and how inet_ntoa() writes each                           *)
  NameLists,  (* arguments of option -L that are not empty                 *)
  Numbers,    (* the numbers that options -T and -M may have               *)
  SizeBits,   (* the width of size_t                                       *)
  MaxOptions  (* bound: how many options there are                         *)

SizeValues == 2^SizeBits  (* how many values a size_t has                   *)

Paths == {""} \cup Words \cup LongPaths

ASSUME OptionsAssumption ==
  /\ {"", "long"} \cap (Words \cup LongPaths \cup NameLists) = {}
  /\ "" \notin {Dotted[a] : a \in Addresses}
  /\ Numbers \subseteq Int
  /\ SizeValues \in Nat \ {0} /\ MaxOptions \in Nat

VARIABLES
  seen,      (* the options dealt with, oldest first                       *)
  ctx,       (* SmbDiscoverContext_st; a workgroups of "" is NULL          *)
  lost,      (* how many arrays of workgroups nothing points to any more   *)
  sun_path,  (* the path of the socket that is connected                   *)
  pc         (* "parse", "check", "accepted", "opened" or "rejected"       *)

vars == <<seen, ctx, lost, sun_path, pc>>

Init ==
  /\ seen = <<>>
  /\ ctx = [ipv4 |-> "", username |-> "", password |-> "", srv_path |-> "",
            timeout |-> 0, max_dir |-> 0, daemonize |-> FALSE, tree |-> FALSE,
            lookup |-> FALSE, workgroups |-> ""]
  /\ lost = 0
  /\ sun_path = ""
  /\ pc = "parse"

(* getopt() returns option opt with this argument.                         *)
Option(opt, text, num) ==
  /\ pc = "parse"
  /\ Len(seen) < MaxOptions
  /\ seen' = Append(seen, [opt |-> opt, text |-> text, num |-> num])
  /\ UNCHANGED sun_path

Proceed   == pc' = "parse"
ParseError == pc' = "rejected"

(* -A: the address has passed inet_addr() and been written back by         *)
(* inet_ntoa(), or parsing ends.                                           *)
Address ==
  \/ \E text \in Addresses :
       /\ Option("A", text, 0)
       /\ ctx' = [ctx EXCEPT !.ipv4 = Dotted[text]]
       /\ Proceed /\ UNCHANGED lost
  \/ Option("A", "invalid", 0) /\ ParseError /\ UNCHANGED <<ctx, lost>>

(* -U and -P: copied if there is room, or parsing ends.                    *)
Username ==
  \/ \E text \in {""} \cup Words :
       /\ Option("U", text, 0)
       /\ ctx' = [ctx EXCEPT !.username = text]
       /\ Proceed /\ UNCHANGED lost
  \/ Option("U", "long", 0) /\ ParseError /\ UNCHANGED <<ctx, lost>>

Password ==
  \/ \E text \in {""} \cup Words :
       /\ Option("P", text, 0)
       /\ ctx' = [ctx EXCEPT !.password = text]
       /\ Proceed /\ UNCHANGED lost
  \/ Option("P", "long", 0) /\ ParseError /\ UNCHANGED <<ctx, lost>>

(* Mutant of Socket: the first address is kept.                            *)
SocketOnce ==
  /\ \E text \in Paths \cup {"long"} :
       /\ Option("K", text, 0)
       /\ ctx' = IF text = "long" \/ ctx.srv_path # "" THEN ctx
                 ELSE [ctx EXCEPT !.srv_path = text]
  /\ Proceed /\ UNCHANGED lost

(* -K: copied if there is room; if there is not, the option is ignored.    *)
Socket ==
  /\ \E text \in Paths \cup {"long"} :
       /\ Option("K", text, 0)
       /\ ctx' = IF text = "long" THEN ctx ELSE [ctx EXCEPT !.srv_path = text]
  /\ Proceed /\ UNCHANGED lost

Timeout ==
  /\ \E n \in Numbers :
       /\ Option("T", "", n)
       /\ ctx' = [ctx EXCEPT !.timeout = IF n < 0 THEN 0 ELSE n]
  /\ Proceed /\ UNCHANGED lost

(* Mutant of MaxDirs: the number is kept as it is.                         *)
MaxDirsSigned ==
  /\ \E n \in Numbers :
       /\ Option("M", "", n)
       /\ ctx' = [ctx EXCEPT !.max_dir = n]
  /\ Proceed /\ UNCHANGED lost

(* -M: the number becomes a size_t, so the test for <= 0 that follows      *)
(* catches nothing but 0.                                                  *)
MaxDirs ==
  /\ \E n \in Numbers :
       /\ Option("M", "", n)
       /\ ctx' = [ctx EXCEPT !.max_dir = n % SizeValues]
  /\ Proceed /\ UNCHANGED lost

(* -D and -G.                                                              *)
Switch ==
  /\ \/ Option("D", "", 0) /\ ctx' = [ctx EXCEPT !.daemonize = TRUE]
     \/ Option("G", "", 0) /\ ctx' = [ctx EXCEPT !.tree = TRUE]
  /\ Proceed /\ UNCHANGED lost

(* The array a further -L replaces is not deleted.                         *)
Replaced == IF ctx.workgroups = "" THEN lost ELSE lost + 1

(* -L: _parse_workgroups() makes an array of the names; or it fails for an *)
(* empty argument, for want of an array, or of a copy of the argument: the *)
(* array is then there, and empty.                                         *)
Lookup ==
  \/ \E list \in NameLists :
       /\ Option("L", list, 0)
       /\ ctx' = [ctx EXCEPT !.lookup = TRUE, !.workgroups = list]
       /\ lost' = Replaced
       /\ Proceed
  \/ Option("L", "", 0) /\ ParseError /\ UNCHANGED <<ctx, lost>>
  \/ /\ \E list \in NameLists : Option("L", list, 0)
     /\ \E array \in {"", "empty"} : ctx' = [ctx EXCEPT !.workgroups = array]
     /\ lost' = Replaced
     /\ ParseError

(* An unknown option, or one without its argument.                         *)
BadOption ==
  /\ Option("?", "", 0) \/ Option(":", "", 0)
  /\ ParseError /\ UNCHANGED <<ctx, lost>>

OptionsEnd ==
  /\ pc = "parse" /\ pc' = "check"
  /\ UNCHANGED <<seen, ctx, lost, sun_path>>

(* util_smbtree_check_config() accepts anything.                           *)
CheckTree ==
  /\ pc = "check" /\ ctx.tree
  /\ pc' = "accepted"
  /\ UNCHANGED <<seen, ctx, lost, sun_path>>

(* util_nmblookup_check_config().                                          *)
CheckLookup ==
  /\ pc = "check" /\ ~ctx.tree /\ ctx.lookup
  /\ pc' = IF ctx.workgroups = "" THEN "rejected" ELSE "accepted"
  /\ UNCHANGED <<seen, ctx, lost, sun_path>>

(* Mutant of CheckClient: the password of nobody stays.                    *)
CheckClientKeepingPassword ==
  /\ pc = "check" /\ ~ctx.tree /\ ~ctx.lookup
  /\ ctx.ipv4 # ""
  /\ pc' = "accepted"
  /\ ctx' = [ctx EXCEPT !.max_dir = IF @ = 0 THEN 50 ELSE @]
  /\ UNCHANGED <<seen, lost, sun_path>>

(* util_smbclient_check_config(): without a user name there is no          *)
(* password, and without a limit it is 50.                                 *)
CheckClient ==
  /\ pc = "check" /\ ~ctx.tree /\ ~ctx.lookup
  /\ ctx.ipv4 # ""
  /\ pc' = "accepted"
  /\ ctx' = [ctx EXCEPT !.password = IF ctx.username = "" THEN "" ELSE @,
                        !.max_dir  = IF @ = 0 THEN 50 ELSE @]
  /\ UNCHANGED <<seen, lost, sun_path>>

CheckClientFails ==
  /\ pc = "check" /\ ~ctx.tree /\ ~ctx.lookup
  /\ ctx.ipv4 = ""
  /\ pc' = "rejected"
  /\ UNCHANGED <<seen, ctx, lost, sun_path>>

(* The socket's address, once there is a socket: strncpy() copies as much  *)
(* of the path as sun_path holds.  Without a path, or a socket, there is   *)
(* none.                                                                   *)
OpenSocket ==
  /\ pc = "accepted" /\ ctx.srv_path # ""
  /\ pc' = "opened"
  /\ sun_path' = IF ctx.srv_path \in LongPaths THEN Cut[ctx.srv_path] ELSE ctx.srv_path
  /\ UNCHANGED <<seen, ctx, lost>>

Stopped == pc \in {"accepted", "opened", "rejected"} /\ UNCHANGED vars

Next ==
  \/ Address \/ Username \/ Password \/ Socket \/ Timeout \/ MaxDirs \/ Switch
  \/ Lookup \/ BadOption \/ OptionsEnd
  \/ CheckTree \/ CheckLookup \/ CheckClient \/ CheckClientFails
  \/ OpenSocket \/ Stopped

Spec == Init /\ [][Next]_vars

-----------------------------------------------------------------------------
(* Properties.                                                             *)

Texts == Paths \cup {"long"} \cup Addresses \cup {"invalid"} \cup NameLists
Given == [opt : {"A", "U", "P", "K", "T", "M", "D", "G", "L", "?", ":"},
          text : Texts, num : Numbers \cup {0}]
Contexts == [ipv4 : {""} \cup {Dotted[a] : a \in Addresses},
             username : {""} \cup Words, password : {""} \cup Words,
             srv_path : Paths, timeout : Nat,
             max_dir : 0..SizeValues - 1 \cup {50},
             daemonize : BOOLEAN, tree : BOOLEAN, lookup : BOOLEAN,
             workgroups : {"", "empty"} \cup NameLists]

(* The types of the variables.                                             *)
TypeOK ==
  /\ seen \in Seq(Given)
  /\ ctx \in Contexts
  /\ lost \in Nat
  /\ sun_path \in {""} \cup Words \cup {Cut[p] : p \in LongPaths}
  /\ pc \in {"parse", "check", "accepted", "opened", "rejected"}

(* A configuration that is accepted has what its utility takes for         *)
(* granted: workgroups to look up (util_nmblookup.c:152), or an address, a *)
(* limit, and no password for nobody (util_smbclient.c:107, 281, 303).     *)
AcceptedIsUsable ==
  pc \in {"accepted", "opened"} /\ ~ctx.tree =>
    IF ctx.lookup THEN ctx.workgroups \in NameLists
    ELSE /\ ctx.ipv4 \in {Dotted[a] : a \in Addresses}
         /\ ctx.max_dir > 0
         /\ ctx.username = "" => ctx.password = ""

(* The options of this name among s that count, by their places: a socket  *)
(* path that is too long does not.                                         *)
Places(s, opt) == {i \in DOMAIN s : s[i].opt = opt /\ (opt = "K" => s[i].text # "long")}

(* The last of them; without one, as if it had nothing.                    *)
Last(s, opt) ==
  IF Places(s, opt) = {} THEN [opt |-> opt, text |-> "", num |-> 0]
  ELSE s[Max(Places(s, opt))]

(* Whatever the order of the options and however often they are given, an  *)
(* accepted configuration is the one the last option of each name asks     *)
(* for, the one mode it has taken out of several included (:196-284, 293). *)
(* Only where nobody logs in no password is left, and only smbclient has   *)
(* its limit of 50.  The socket is that of the last path, of which what    *)
(* sun_path has no room for is cut off without a word (:379).              *)
LastOptionsCount ==
  pc \in {"accepted", "opened"} =>
    LET client == Places(seen, "G") = {} /\ Places(seen, "L") = {}
        limit  == Last(seen, "M").num % SizeValues
        path   == Last(seen, "K").text
    IN  /\ ctx.ipv4 = IF Places(seen, "A") = {} THEN "" ELSE Dotted[Last(seen, "A").text]
        /\ ctx.username = Last(seen, "U").text
        /\ ctx.password = IF client /\ ctx.username = "" THEN "" ELSE Last(seen, "P").text
        /\ ctx.srv_path = path
        /\ ctx.timeout = IF Last(seen, "T").num < 0 THEN 0 ELSE Last(seen, "T").num
        /\ ctx.max_dir = IF client /\ limit = 0 THEN 50 ELSE limit
        /\ ctx.daemonize <=> Places(seen, "D") # {}
        /\ ctx.tree <=> Places(seen, "G") # {}
        /\ ctx.lookup <=> Places(seen, "L") # {}
        /\ ctx.workgroups = Last(seen, "L").text
        /\ pc = "opened" =>
             sun_path = IF path \in LongPaths THEN Cut[path] ELSE path
=============================================================================
