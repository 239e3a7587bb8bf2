----------------------------- MODULE SmbClient -----------------------------
(***************************************************************************)
(* util_smbclient.c: one listing of the shares of an SMB server.  The      *)
(* calls into Samba and cJSON may fail at any point; how a failure becomes *)
(* the "fail" field of the response is decided at the end from four flags. *)
(* The release build is modelled; a share is reduced to what decides       *)
(* whether and how it is listed, and error logs are left out (SmbDiscover  *)
(* has them).                                                              *)
(***************************************************************************)
EXTENDS JsonFields

CONSTANTS
  Shares,    (* the shares a server may have                               *)
  MaxShares, (* bound: how many shares a server has                        *)
  DirLimits, (* the values of smb_max_dir_count                            *)
  NsPerMs,   (* nanoseconds in a millisecond, 1000000 in the code          *)
  Clock,     (* the times CLOCK_MONOTONIC may show                         *)
  MaxFailed  (* bound: failed allocations in one run                       *)

ShareKinds == [kind : {"disktree", "printq", "device", "ipc"},
               flag : {"plain", "temporary", "hidden"},
               name : {"none", "plain", "dollar"},
               comment : BOOLEAN]
NsPerSec == 1000 * NsPerMs
Times    == [sec : Nat, nsec : 0..NsPerSec - 1]

ASSUME SmbClientAssumption ==
  /\ Shares \subseteq ShareKinds
  /\ DirLimits \subseteq Nat \ {0}
  /\ NsPerMs \in Nat \ {0}
  /\ Clock \subseteq Times
  /\ MaxShares \in Nat /\ MaxFailed \in Nat

VARIABLES
  pc,
  response,  (* "null", or "object" with these fields                      *)
  fields,
  dirs,      (* the array under "dirs": [share, object] for each listed    *)
  flags,     (* those of isTimeout, isAuthFail, isSvcNotEnabled, isSysErr  *)
             (* that are set                                               *)
  frame,     (* is the talloc frame held                                   *)
  info,      (* was smbUserInfo obtained                                   *)
  cli,       (* the connection: "none", "open" or "shut"                   *)
  held,      (* what _smbc_browse_dir() holds: its frame, its pipe         *)
  callStart, callEnd, (* around cli_cm_open()                              *)
  enumerated,(* what became of NetShareEnumAll: "no", "done" or "failed"   *)
  shares,    (* its answer                                                 *)
  tmp,       (* how many of them have been looked at                       *)
  maxDir,    (* smb_max_dir_count                                          *)
  failed     (* number of allocations that failed                          *)

vars == <<pc, response, fields, dirs, flags, frame, info, cli, held, callStart,
          callEnd, enumerated, shares, tmp, maxDir, failed>>
result  == <<response, fields>>
samba   == <<frame, info, cli, held, callStart, callEnd>>
listing == <<dirs, enumerated, shares, tmp>>

(* n more allocations have failed.                                         *)
Suffer(n) == failed + n <= MaxFailed /\ failed' = failed + n

-----------------------------------------------------------------------------
(* Time.                                                                   *)

TotalNs(t) == t.sec * NsPerSec + t.nsec

(* Mutant of ElapsedMs: the second borrowed is not taken from tv_sec.      *)
ElapsedMsUnborrowed(s, e) ==
  LET borrow == IF e.nsec < s.nsec THEN 1 ELSE 0
  IN  (e.sec - s.sec) * 1000 + (e.nsec + borrow * NsPerSec - s.nsec) \div NsPerMs

(* The milliseconds from s to e, borrowing a second when it must.          *)
ElapsedMs(s, e) ==
  LET borrow == IF e.nsec < s.nsec THEN 1 ELSE 0
      sec  == e.sec - borrow - s.sec
      nsec == e.nsec + borrow * NsPerSec - s.nsec
  IN  sec * 1000 + nsec \div NsPerMs

TimeoutMs == 1000

-----------------------------------------------------------------------------
(* Which shares are listed: type & 7 keeps the kind and drops the flags.   *)
ShouldShow(s) == s.kind = "disktree" /\ s.name = "plain"

DirCount == Len(dirs)
-----------------------------------------------------------------------------
Init ==
  /\ pc = "create"
  /\ response = "null" /\ fields = <<>>
  /\ dirs = <<>> /\ flags = {}
  /\ frame = FALSE /\ info = FALSE /\ cli = "none" /\ held = {}
  /\ callStart = [sec |-> 0, nsec |-> 0] /\ callEnd = callStart
  /\ enumerated = "no" /\ shares = <<>> /\ tmp = 0
  /\ maxDir \in DirLimits
  /\ failed = 0

Step(from, to) == pc = from /\ pc' = to

CreateResponse ==
  /\ Step("create", "prepare")
  /\ response' = "object"
  /\ \E a \in AddString(fields, "command", "smbclient") :
       fields' = a.object /\ Suffer(a.failed)
  /\ UNCHANGED <<flags, maxDir, samba, listing>>

(* No memory for the response: the utility returns NULL.                   *)
NoResponse ==
  /\ Step("create", "ends")
  /\ Suffer(1)
  /\ flags' = flags \cup {"system"}
  /\ UNCHANGED <<maxDir, result, samba, listing>>

(* talloc_stackframe() and user_auth_info_init().                          *)
Prepare ==
  /\ Step("prepare", "open")
  /\ frame' \in BOOLEAN
  /\ info' \in BOOLEAN
  /\ info' => frame'
  /\ flags' = IF info' THEN flags ELSE flags \cup {"system"}
  /\ UNCHANGED <<cli, held, callStart, callEnd, maxDir, failed, result, listing>>

(* cli_cm_open() answers with a connection; nobody looks at the clock then. *)
Open ==
  /\ Step("open", "array")
  /\ frame
  /\ cli' = "open"
  /\ UNCHANGED <<flags, frame, info, held, callStart, callEnd, maxDir, failed, result,
                 listing>>

(* Mutant of OpenFails: a refusal is taken for a missing service.          *)
OpenFailsAsNoService ==
  /\ Step("open", "verdict")
  /\ frame
  /\ callStart' \in Clock
  /\ callEnd' \in {t \in Clock : TotalNs(t) >= TotalNs(callStart')}
  /\ flags' = flags \cup
       {IF ElapsedMs(callStart', callEnd') >= TimeoutMs THEN "timeout" ELSE "svc"}
  /\ UNCHANGED <<frame, info, cli, held, maxDir, failed, result, listing>>

(* cli_cm_open() fails: a failure that took a second is called a timeout,  *)
(* a faster one a refusal.                                                 *)
OpenFails ==
  /\ Step("open", "verdict")
  /\ frame
  /\ callStart' \in Clock
  /\ callEnd' \in {t \in Clock : TotalNs(t) >= TotalNs(callStart')}
  /\ flags' = flags \cup
       {IF ElapsedMs(callStart', callEnd') >= TimeoutMs THEN "timeout" ELSE "auth"}
  /\ UNCHANGED <<frame, info, cli, held, maxDir, failed, result, listing>>

(* Without a frame nothing is opened.                                      *)
SkipOpen ==
  /\ Step("open", "verdict")
  /\ ~frame
  /\ UNCHANGED <<flags, maxDir, failed, result, samba, listing>>

AddDirs ==
  /\ Step("array", "pipe")
  /\ \E a \in AddItem(fields, "dirs", "array") :
       fields' = a.object /\ Suffer(a.failed)
  /\ UNCHANGED <<response, flags, maxDir, samba, listing>>

NoDirs ==
  /\ Step("array", "verdict")
  /\ Suffer(1)
  /\ flags' = flags \cup {"system"}
  /\ UNCHANGED <<maxDir, result, samba, listing>>

(* _smbc_browse_dir() takes a frame of its own and opens the srvsvc pipe.  *)
OpenPipe ==
  /\ Step("pipe", "enum")
  /\ held' = {"frame", "pipe"}
  /\ UNCHANGED <<flags, frame, info, cli, callStart, callEnd, maxDir, failed, result,
                 listing>>

OpenPipeFails ==
  /\ Step("pipe", "release")
  /\ held' = {"frame"}
  /\ enumerated' = "failed"
  /\ UNCHANGED <<flags, frame, info, cli, callStart, callEnd, dirs, shares, tmp, maxDir,
                 failed, result>>

(* NetShareEnumAll brings the shares of the server.                        *)
Enumerate ==
  /\ Step("enum", "browse")
  /\ enumerated' = "done"
  /\ \E n \in 0..MaxShares : shares' \in [1..n -> Shares]
  /\ UNCHANGED <<flags, dirs, tmp, maxDir, failed, result, samba>>

EnumerateFails ==
  /\ Step("enum", "release")
  /\ enumerated' = "failed"
  /\ UNCHANGED <<flags, dirs, shares, tmp, maxDir, failed, result, samba>>

(* Mutant of More: one directory too many.                                 *)
MoreByOne == tmp < Len(shares) /\ DirCount <= maxDir

(* Mutant of More: one directory too few.                                  *)
MoreButOne == tmp < Len(shares) /\ DirCount + 1 < maxDir

More == tmp < Len(shares) /\ DirCount < maxDir

(* Mutant of IgnoreShare: the loop does not advance.                       *)
IgnoreShareForever ==
  /\ Step("browse", "browse")
  /\ More
  /\ ~ShouldShow(shares[tmp + 1])
  /\ UNCHANGED <<tmp, flags, dirs, enumerated, shares, maxDir, failed, result, samba>>

(* One round of the loop on a share that is not shown.                     *)
IgnoreShare ==
  /\ Step("browse", "browse")
  /\ More
  /\ ~ShouldShow(shares[tmp + 1])
  /\ tmp' = tmp + 1
  /\ UNCHANGED <<flags, dirs, enumerated, shares, maxDir, failed, result, samba>>

(* One round on a share that is: its object joins the array first and is   *)
(* given its name and its comment, if it has one, afterwards.              *)
ListShare ==
  /\ Step("browse", "browse")
  /\ More
  /\ ShouldShow(shares[tmp + 1])
  /\ tmp' = tmp + 1
  /\ \E named \in AddString(<<>>, "name", tmp + 1) :
       \E full \in IF shares[tmp + 1].comment
                     THEN AddString(named.object, "comment", tmp + 1)
                     ELSE {[object |-> named.object, failed |-> 0]} :
         /\ dirs' = Append(dirs, [share |-> tmp + 1, object |-> full.object])
         /\ Suffer(named.failed + full.failed)
  /\ UNCHANGED <<flags, enumerated, shares, maxDir, result, samba>>

(* No memory for its object: it is passed over and does not count.         *)
LoseShare ==
  /\ Step("browse", "browse")
  /\ More
  /\ ShouldShow(shares[tmp + 1])
  /\ tmp' = tmp + 1
  /\ Suffer(1)
  /\ UNCHANGED <<flags, dirs, enumerated, shares, maxDir, result, samba>>

BrowseEnds ==
  /\ Step("browse", "release")
  /\ ~More
  /\ UNCHANGED <<flags, maxDir, failed, result, samba, listing>>

(* Mutant of Release: the pipe is not freed.                               *)
ReleaseFrame ==
  /\ Step("release", "verdict")
  /\ held' = held \ {"frame"}
  /\ UNCHANGED <<flags, frame, info, cli, callStart, callEnd, maxDir, failed, result,
                 listing>>

(* Every way out of _smbc_browse_dir(), the failures included, frees what  *)
(* it holds and returns 0, so that its caller sets no flag.                *)
Release ==
  /\ Step("release", "verdict")
  /\ held' = {}
  /\ UNCHANGED <<flags, frame, info, cli, callStart, callEnd, maxDir, failed, result,
                 listing>>

(* Mutant of Verdict: refusals are forgotten.                              *)
VerdictWithoutAuth ==
  IF "timeout" \in flags THEN "timeout"
  ELSE IF "svc" \in flags THEN "no svc"
  ELSE IF "system" \in flags THEN "system"
  ELSE "none"

(* The "fail" field: the first flag set, in this order.                    *)
Verdict ==
  IF "timeout" \in flags THEN "timeout"
  ELSE IF "auth" \in flags THEN "auth"
  ELSE IF "svc" \in flags THEN "no svc"
  ELSE IF "system" \in flags THEN "system"
  ELSE "none"

(* Mutant of Judge: the login data that could not be prepared is reported  *)
(* besides what came of it.                                                *)
JudgeTwice ==
  /\ Step("verdict", "ends")
  /\ IF Verdict = "none" THEN UNCHANGED <<fields, failed>>
     ELSE \E a \in AddString(fields, "fail", Verdict) :
            \E b \in IF "system" \in flags /\ Verdict # "system"
                       THEN AddString(a.object, "fail", "system")
                       ELSE {[object |-> a.object, failed |-> 0]} :
              fields' = b.object /\ Suffer(a.failed + b.failed)
  /\ UNCHANGED <<response, flags, maxDir, samba, listing>>

Judge ==
  /\ Step("verdict", "ends")
  /\ IF Verdict = "none" THEN UNCHANGED <<fields, failed>>
     ELSE \E a \in AddString(fields, "fail", Verdict) :
            fields' = a.object /\ Suffer(a.failed)
  /\ UNCHANGED <<response, flags, maxDir, samba, listing>>

Ends ==
  /\ Step("ends", "returned")
  /\ cli' = IF cli = "open" THEN "shut" ELSE cli
  /\ frame' = FALSE
  /\ UNCHANGED <<flags, info, held, callStart, callEnd, maxDir, failed, result, listing>>

Returned == pc = "returned" /\ UNCHANGED vars

Work ==
  \/ CreateResponse \/ NoResponse \/ Prepare \/ Open \/ OpenFails \/ SkipOpen
  \/ AddDirs \/ NoDirs \/ OpenPipe \/ OpenPipeFails \/ Enumerate \/ EnumerateFails
  \/ IgnoreShare \/ ListShare \/ LoseShare \/ BrowseEnds \/ Release \/ Judge \/ Ends

Next == Work \/ Returned

Spec == Init /\ [][Next]_vars

(* The program is the only one to schedule, and Samba's calls return.      *)
FairSpec == Spec /\ WF_vars(Work)

-----------------------------------------------------------------------------
(* Properties.                                                             *)

ResponseFields == [key : {"command", "dirs", "fail", NoKey},
                   val : {"smbclient", "array", "timeout", "auth", "system"}]
ShareFields    == [key : {"name", "comment", NoKey}, val : Nat]

(* The types of the variables; isSvcNotEnabled is never set.               *)
TypeOK ==
  /\ pc \in {"create", "prepare", "open", "array", "pipe", "enum", "browse", "release",
             "verdict", "ends", "returned"}
  /\ response \in {"null", "object"}
  /\ fields \in Seq(ResponseFields)
  /\ dirs \in Seq([share : Nat, object : Seq(ShareFields)])
  /\ flags \subseteq {"timeout", "auth", "system"}
  /\ frame \in BOOLEAN /\ info \in BOOLEAN
  /\ held \subseteq {"frame", "pipe"}
  /\ cli \in {"none", "open", "shut"}
  /\ callStart \in Times /\ callEnd \in Times
  /\ enumerated \in {"no", "done", "failed"}
  /\ shares \in Seq(Shares)
  /\ tmp \in Nat
  /\ maxDir \in DirLimits
  /\ failed \in 0..MaxFailed

(* The array under "dirs" has shares of the server in the server's order,  *)
(* none of them twice, none that was not looked at, and no more than asked *)
(* for, with shares passed over or lost in between (:152-154, 200-213).    *)
(* Which shares it has is the matter of the next and of the last property. *)
DirsInServerOrder ==
  /\ DirCount <= maxDir
  /\ \A i \in DOMAIN dirs :
       /\ dirs[i].share \in 1..tmp
       /\ \A j \in DOMAIN dirs : i < j => dirs[i].share < dirs[j].share

(* What a user wants to see of a server, by the cases of :160-193: disks   *)
(* that are neither temporary nor hidden, under a name that does not end   *)
(* in "$".                                                                 *)
Wanted(s) == s.kind = "disktree" /\ s.flag = "plain" /\ s.name = "plain"

(* Of the shares looked at, none that is wanted is missing unless memory   *)
(* ran out, and looking stops early only at the limit (:152-154, 201-213). *)
NoShareForgotten ==
  /\ failed = 0 => \A s \in 1..tmp : Wanted(shares[s]) =>
                      \E i \in DOMAIN dirs : dirs[i].share = s
  /\ pc \in {"release", "verdict", "ends", "returned"} /\ enumerated = "done" =>
       tmp = Len(shares) \/ DirCount = maxDir

(* A failed connection is a timeout exactly when a whole second passed,    *)
(* however the nanoseconds of the two readings compare (:319-333).         *)
TimeoutIsOneSecond ==
  flags \cap {"timeout", "auth"} # {} =>
    ("timeout" \in flags <=>
       TotalNs(callEnd) - TotalNs(callStart) >= TimeoutMs * NsPerMs)

(* A response says something: it has a listing or names a failure, and     *)
(* both only when the login data could not be prepared (:356-379).         *)
ListingOrFailure ==
  pc = "returned" /\ response = "object" /\ failed = 0 =>
    /\ {"dirs", "fail"} \cap KeysOf(fields) # {}
    /\ {"dirs", "fail"} \subseteq KeysOf(fields) => ~info

(* On every path the pipe, the connection and both frames are given back   *)
(* (:222-230, 381-391).                                                    *)
AllReleased == pc = "returned" => held = {} /\ cli # "open" /\ ~frame

(* Seen by its caller: Utility.  What it holds is its frame, the           *)
(* connection, and the frame and the pipe of _smbc_browse_dir().           *)
Promise == INSTANCE Utility WITH
  Layout <- << [key |-> "command", vals |-> {"smbclient"}],
               [key |-> "dirs", vals |-> {"array"}],
               [key |-> "fail", vals |-> {"timeout", "auth", "no svc", "system"}] >>,
  Ends  <- {"returned"},
  stage <- IF pc = "returned" THEN "returned" ELSE "working",
  held  <- (IF frame THEN {"smbFrame"} ELSE {}) \cup (IF cli = "open" THEN {"cli"} ELSE {})
             \cup held

(* The response has its fields in order and one failure at most, nothing   *)
(* is held or changed after the return, and the call returns (:356-394).   *)
ImplementsUtility == Promise!Spec

(* "ret = 0" is commented "OK" (:218) and the caller makes anything else a *)
(* system error (:344): a listing that failed says so.  It does not: the   *)
(* function ends in "return 0".                                            *)
FailedBrowseIsReported ==
  pc = "returned" /\ enumerated = "failed" /\ failed = 0 => "fail" \in KeysOf(fields)

(* STYPE_DISKTREE_TEMPORARY and STYPE_DISKTREE_HIDDEN are among the cases  *)
(* commented "Ignore" (:165-177): no such share is listed.  It is: the     *)
(* mask of :160 has dropped the flag by then.                              *)
FlaggedSharesIgnored ==
  \A i \in DOMAIN dirs : shares[dirs[i].share].flag = "plain"
=============================================================================
