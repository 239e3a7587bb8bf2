-------------------------- MODULE SmbClientProofs --------------------------
(***************************************************************************)
(* The safety properties of SmbClient, for every set of shares, any number *)
(* of them and of failed allocations, any limit and whatever the clock     *)
(* shows.                                                                  *)
(***************************************************************************)
EXTENDS SmbClient, JsonFieldsProofs

(* Which parts of the answer may be there at which point.                  *)
PartsInv ==
  /\ pc = "create" => fields = <<>>
  /\ pc \in {"prepare", "open", "array"} => ValsOf(fields) \subseteq {"smbclient"}
  /\ pc \in {"pipe", "enum", "browse", "release", "verdict"} =>
       ValsOf(fields) \subseteq {"smbclient", "array"}

(* How far the listing has come.                                           *)
ProgressInv ==
  /\ pc \in {"create", "prepare", "open", "array", "pipe", "enum"} =>
       dirs = <<>> /\ tmp = 0 /\ enumerated = "no"
  /\ pc = "browse" => enumerated = "done"
  /\ tmp <= Len(shares)

(* What is held at which point.                                            *)
HeldInv ==
  /\ pc \notin {"enum", "browse", "release"} => held = {}
  /\ pc = "returned" => cli # "open" /\ ~frame

(* What the flags say.                                                     *)
FlagsInv ==
  /\ pc \in {"create", "prepare"} => flags = {}
  /\ pc \in {"open", "array", "pipe", "enum", "browse", "release"} => flags \subseteq {"system"}
  /\ pc = "open" /\ ~frame => "system" \in flags
  /\ failed = 0 /\ "system" \in flags => ~info

(* What the keys say, as long as memory has not run out.                   *)
KeysRight ==
  /\ "fail" \in KeysOf(fields) => pc \in {"ends", "returned"}
  /\ "dirs" \in KeysOf(fields) =>
       /\ pc \in {"pipe", "enum", "browse", "release", "verdict", "ends", "returned"}
       /\ flags \subseteq {"system"}
  /\ pc \in {"pipe", "enum", "browse", "release"} => "dirs" \in KeysOf(fields)
  /\ pc \in {"verdict", "ends", "returned"} => "dirs" \in KeysOf(fields) \/ flags # {}
  /\ pc \in {"ends", "returned"} => ("fail" \in KeysOf(fields) <=> flags # {})

KeysInv == failed = 0 => KeysRight

IInv == TypeOK /\ PartsInv /\ ProgressInv /\ HeldInv /\ FlagsInv /\ KeysInv

-----------------------------------------------------------------------------
(* Time.                                                                   *)

(* The milliseconds in less than a second are less than a thousand.        *)
LEMMA MsOfSecond ==
  ASSUME NEW n \in 0..NsPerSec - 1
  PROVE  n \div NsPerMs \in 0..999
<1> DEFINE q == n \div NsPerMs
<1>0. NsPerMs \in Nat \ {0} /\ NsPerSec = 1000 * NsPerMs /\ n \in Nat
  BY SmbClientAssumption DEF NsPerSec
<1>1. q \in Nat /\ NsPerMs * q <= n
  BY <1>0
<1> HIDE DEF q
<1>2. ASSUME q >= 1000 PROVE FALSE
  <2>1. PICK d \in Nat : q = 1000 + d
    BY <1>1, <1>2
  <2>2. NsPerMs * q = 1000 * NsPerMs + NsPerMs * d
    BY <1>0, <2>1
  <2>3. NsPerMs * d >= 0
    BY <1>0, <2>1
  <2> QED BY <1>0, <1>1, <2>2, <2>3
<1> QED BY <1>1, <1>2 DEF q

(* A number of seconds and a rest is a second or more just when there is a *)
(* second in it.                                                           *)
LEMMA WholeSeconds ==
  ASSUME NEW sec \in Int, NEW n \in 0..NsPerSec - 1
  PROVE  /\ sec * NsPerSec + n >= NsPerSec <=> sec >= 1
         /\ sec * NsPerSec + n >= 0 <=> sec >= 0
<1> DEFINE N == NsPerSec
<1>0. N \in Nat \ {0} /\ n \in 0..N - 1
  BY SmbClientAssumption DEF NsPerSec
<1> HIDE DEF N
<1>1. CASE sec >= 1
  <2>1. PICK d \in Nat : sec = 1 + d
    BY <1>1
  <2>2. sec * N = N + d * N /\ d * N >= 0
    BY <1>0, <2>1
  <2> QED BY <1>0, <1>1, <2>2 DEF N
<1>2. CASE sec = 0
  BY <1>0, <1>2 DEF N
<1>3. CASE sec < 0
  <2>1. PICK d \in Nat : sec = -1 - d
    BY <1>3
  <2>2. sec * N = -N - d * N /\ d * N >= 0
    BY <1>0, <2>1
  <2> QED BY <1>0, <1>3, <2>2 DEF N
<1> QED BY <1>1, <1>2, <1>3

(* A second has passed by ElapsedMs just when it has by the clock.         *)
LEMMA ElapsedSecond ==
  ASSUME NEW s \in Times, NEW e \in Times, TotalNs(e) >= TotalNs(s)
  PROVE  ElapsedMs(s, e) >= TimeoutMs <=> TotalNs(e) - TotalNs(s) >= TimeoutMs * NsPerMs
<1> DEFINE borrow == IF e.nsec < s.nsec THEN 1 ELSE 0
           sec    == e.sec - borrow - s.sec
           nsec   == e.nsec + borrow * NsPerSec - s.nsec
<1>0. NsPerSec \in Nat \ {0} /\ NsPerSec = TimeoutMs * NsPerMs
  BY SmbClientAssumption DEF NsPerSec, TimeoutMs
<1>1. /\ s.sec \in Nat /\ s.nsec \in 0..NsPerSec - 1
      /\ e.sec \in Nat /\ e.nsec \in 0..NsPerSec - 1
  BY DEF Times
<1>2. borrow \in {0, 1} /\ sec \in Int
  BY <1>1
<1>3. nsec \in 0..NsPerSec - 1
  BY <1>0, <1>1
<1>4. ElapsedMs(s, e) = sec * 1000 + nsec \div NsPerMs
  BY DEF ElapsedMs
<1>5. TotalNs(e) - TotalNs(s) = sec * NsPerSec + nsec
  <2>1. sec * NsPerSec = e.sec * NsPerSec - borrow * NsPerSec - s.sec * NsPerSec
    BY <1>0, <1>1, <1>2
  <2> QED BY <1>0, <1>1, <1>2, <2>1 DEF TotalNs
<1> HIDE DEF borrow, sec, nsec
<1>6. nsec \div NsPerMs \in 0..999
  BY <1>3, MsOfSecond, ZenonT(60)
<1>7. TotalNs(e) \in Int /\ TotalNs(s) \in Int
  BY <1>0, <1>1 DEF TotalNs
<1>8. sec >= 0
  BY <1>2, <1>3, <1>5, <1>7, WholeSeconds
<1>9. ElapsedMs(s, e) >= 1000 <=> sec >= 1
  BY <1>2, <1>4, <1>6, <1>8
<1>10. TotalNs(e) - TotalNs(s) >= NsPerSec <=> sec >= 1
  BY <1>2, <1>3, <1>5, WholeSeconds
<1> QED BY <1>0, <1>9, <1>10 DEF TimeoutMs

-----------------------------------------------------------------------------
(* The invariant.                                                          *)

(* The invariant holds at first.                                           *)
LEMMA InitIInv == Init => IInv
<1> SUFFICES ASSUME Init PROVE IInv
  OBVIOUS
<1>1. failed \in 0..MaxFailed
  BY SmbClientAssumption DEF Init
<1>2. callStart \in Times /\ callEnd \in Times
  BY SmbClientAssumption DEF Init, Times, NsPerSec
<1>3. /\ <<>> \in Seq(ResponseFields) /\ <<>> \in Seq(Shares)
      /\ <<>> \in Seq([share : Nat, object : Seq(ShareFields)])
  OBVIOUS
<1>4. TypeOK
  BY <1>1, <1>2, <1>3 DEF Init, TypeOK
<1>5. PartsInv /\ ProgressInv /\ HeldInv /\ FlagsInv /\ KeysInv
  BY EmptyObject DEF Init, PartsInv, ProgressInv, HeldInv, FlagsInv, KeysInv, KeysRight
<1> QED BY <1>4, <1>5 DEF IInv

(* Allocations may have failed, but none has been made good.               *)
Failing == failed' \in 0..MaxFailed /\ (failed' = 0 => failed = 0)

(* A field of the response is added, within the bound on failures.         *)
LEMMA AddField ==
  ASSUME TypeOK, NEW key, NEW val,
         Field(key, val) \in ResponseFields, Field(NoKey, val) \in ResponseFields,
         \E a \in AddItem(fields, key, val) \cup AddString(fields, key, val) :
           fields' = a.object /\ Suffer(a.failed)
  PROVE  /\ Failing
         /\ fields' \in Seq(ResponseFields)
         /\ failed' = 0 => KeysOf(fields') = KeysOf(fields) \cup {key}
         /\ ValsOf(fields') \subseteq ValsOf(fields) \cup {val}
<1>1. fields \in Seq(ResponseFields) /\ failed \in 0..MaxFailed
  BY DEF TypeOK
<1>2. PICK a \in AddItem(fields, key, val) \cup AddString(fields, key, val) :
        fields' = a.object /\ Suffer(a.failed)
  OBVIOUS
<1>3. /\ a.object \in Seq(ResponseFields)
      /\ a.failed \in {0, 1}
      /\ a.failed = 0 => KeysOf(a.object) = KeysOf(fields) \cup {key}
      /\ ValsOf(a.object) \subseteq ValsOf(fields) \cup {val}
  BY <1>1, Added
<1> QED BY <1>1, <1>2, <1>3, SmbClientAssumption DEF Suffer, Failing

(* A share joins the list with what of its fields memory allowed.          *)
LEMMA ShareListed ==
  ASSUME TypeOK, ListShare
  PROVE  /\ Failing
         /\ dirs' \in Seq([share : Nat, object : Seq(ShareFields)])
         /\ Len(dirs') = Len(dirs) + 1
         /\ DOMAIN dirs' = DOMAIN dirs \cup {Len(dirs) + 1}
         /\ \A i \in DOMAIN dirs : dirs'[i] = dirs[i]
         /\ dirs'[Len(dirs) + 1].share = tmp + 1
<1>0. /\ tmp + 1 \in Nat /\ failed \in 0..MaxFailed
      /\ dirs \in Seq([share : Nat, object : Seq(ShareFields)])
  BY DEF TypeOK
<1>1. PICK named \in AddString(<<>>, "name", tmp + 1) :
        \E full \in IF shares[tmp + 1].comment
                      THEN AddString(named.object, "comment", tmp + 1)
                      ELSE {[object |-> named.object, failed |-> 0]} :
          /\ dirs' = Append(dirs, [share |-> tmp + 1, object |-> full.object])
          /\ Suffer(named.failed + full.failed)
  BY DEF ListShare
<1>2. PICK full \in IF shares[tmp + 1].comment
                     THEN AddString(named.object, "comment", tmp + 1)
                     ELSE {[object |-> named.object, failed |-> 0]} :
        /\ dirs' = Append(dirs, [share |-> tmp + 1, object |-> full.object])
        /\ Suffer(named.failed + full.failed)
  BY <1>1
<1>3. /\ Field("name", tmp + 1) \in ShareFields /\ Field("comment", tmp + 1) \in ShareFields
      /\ Field(NoKey, tmp + 1) \in ShareFields
  BY <1>0 DEF Field, ShareFields
<1>4. named.object \in Seq(ShareFields) /\ named.failed \in {0, 1}
  <2>1. <<>> \in Seq(ShareFields)
    OBVIOUS
  <2> QED BY <1>3, <2>1, Added
<1>5. full.object \in Seq(ShareFields) /\ full.failed \in {0, 1}
  <2>1. CASE shares[tmp + 1].comment
    BY <1>2, <1>3, <1>4, <2>1, Added
  <2>2. CASE ~shares[tmp + 1].comment
    BY <1>2, <1>4, <2>2
  <2> QED BY <2>1, <2>2
<1>6. Failing
  BY <1>0, <1>2, <1>4, <1>5, SmbClientAssumption DEF Suffer, Failing
<1>7. [share |-> tmp + 1, object |-> full.object] \in [share : Nat, object : Seq(ShareFields)]
  BY <1>0, <1>5
<1>8. /\ dirs' \in Seq([share : Nat, object : Seq(ShareFields)])
      /\ Len(dirs') = Len(dirs) + 1
      /\ DOMAIN dirs' = DOMAIN dirs \cup {Len(dirs) + 1}
      /\ \A i \in DOMAIN dirs : dirs'[i] = dirs[i]
      /\ dirs'[Len(dirs) + 1] = [share |-> tmp + 1, object |-> full.object]
  BY <1>0, <1>2, <1>7
<1> QED BY <1>6, <1>8

(* The steps that add to the response.                                     *)
LEMMA CreateIInv ==
  ASSUME IInv, CreateResponse PROVE IInv'
<1> USE DEF Step, samba, listing
<1>1. /\ Field("command", "smbclient") \in ResponseFields
      /\ Field(NoKey, "smbclient") \in ResponseFields
  BY DEF Field, ResponseFields
<1>2. /\ Failing
      /\ fields' \in Seq(ResponseFields)
      /\ failed' = 0 => KeysOf(fields') = KeysOf(fields) \cup {"command"}
      /\ ValsOf(fields') \subseteq ValsOf(fields) \cup {"smbclient"}
  BY <1>1, AddField DEF CreateResponse, IInv
<1>3. TypeOK'
  BY <1>2 DEF CreateResponse, Failing, IInv, TypeOK
<1>4. PartsInv'
  BY <1>2, EmptyObject DEF CreateResponse, IInv, PartsInv
<1>5. ProgressInv' /\ HeldInv'
  BY DEF CreateResponse, IInv, ProgressInv, HeldInv
<1>6. FlagsInv'
  BY <1>2 DEF CreateResponse, Failing, IInv, FlagsInv
<1>7. KeysInv'
  <2> SUFFICES ASSUME failed' = 0 PROVE KeysRight'
    BY DEF KeysInv
  <2>1. KeysOf(fields') = {"command"}
    BY <1>2, EmptyObject DEF CreateResponse, IInv, PartsInv
  <2>2. "fail" \notin KeysOf(fields') /\ "dirs" \notin KeysOf(fields')
    BY <2>1
  <2> QED BY <2>2 DEF CreateResponse, KeysRight
<1> QED BY <1>3, <1>4, <1>5, <1>6, <1>7 DEF IInv

(* The array of the shares is added to the response.                       *)
LEMMA AddDirsIInv ==
  ASSUME IInv, AddDirs PROVE IInv'
<1> USE DEF Step, samba, listing
<1>1. /\ Field("dirs", "array") \in ResponseFields
      /\ Field(NoKey, "array") \in ResponseFields
  BY DEF Field, ResponseFields
<1>2. /\ Failing
      /\ fields' \in Seq(ResponseFields)
      /\ failed' = 0 => KeysOf(fields') = KeysOf(fields) \cup {"dirs"}
      /\ ValsOf(fields') \subseteq ValsOf(fields) \cup {"array"}
  BY <1>1, AddField DEF AddDirs, IInv
<1>3. TypeOK'
  BY <1>2 DEF AddDirs, Failing, IInv, TypeOK
<1>4. PartsInv'
  BY <1>2 DEF AddDirs, IInv, PartsInv
<1>5. ProgressInv' /\ HeldInv'
  BY DEF AddDirs, IInv, ProgressInv, HeldInv
<1>6. FlagsInv'
  BY <1>2 DEF AddDirs, Failing, IInv, FlagsInv
<1>7. KeysInv'
  <2> SUFFICES ASSUME failed' = 0 PROVE KeysRight'
    BY DEF KeysInv
  <2>1. KeysRight /\ KeysOf(fields') = KeysOf(fields) \cup {"dirs"}
    BY <1>2 DEF Failing, IInv, KeysInv
  <2>2. "dirs" \in KeysOf(fields') /\ "fail" \notin KeysOf(fields')
    BY <2>1 DEF AddDirs, KeysRight
  <2> QED BY <2>2 DEF AddDirs, IInv, FlagsInv, KeysRight
<1> QED BY <1>3, <1>4, <1>5, <1>6, <1>7 DEF IInv

(* The flags are turned into fields of the response.                       *)
LEMMA JudgeIInv ==
  ASSUME IInv, Judge PROVE IInv'
<1> USE DEF Step, samba, listing
<1>0. flags \subseteq {"timeout", "auth", "system"}
  BY DEF IInv, TypeOK
<1>1. CASE Verdict = "none"
  <2>1. fields' = fields /\ failed' = failed
    BY <1>1 DEF Judge
  <2>2. flags = {}
    BY <1>0, <1>1 DEF Verdict
  <2>3. TypeOK'
    BY <2>1 DEF Judge, IInv, TypeOK
  <2>4. PartsInv' /\ ProgressInv' /\ HeldInv' /\ FlagsInv'
    BY <2>1 DEF Judge, IInv, PartsInv, ProgressInv, HeldInv, FlagsInv
  <2>5. KeysInv'
    BY <2>1, <2>2 DEF Judge, IInv, KeysInv, KeysRight
  <2> QED BY <2>3, <2>4, <2>5 DEF IInv
<1>2. CASE Verdict # "none"
  <2>1. /\ Field("fail", Verdict) \in ResponseFields
        /\ Field(NoKey, Verdict) \in ResponseFields
    BY <1>0, <1>2 DEF Field, ResponseFields, Verdict
  <2>2. /\ Failing
        /\ fields' \in Seq(ResponseFields)
        /\ failed' = 0 => KeysOf(fields') = KeysOf(fields) \cup {"fail"}
    BY <1>2, <2>1, AddField DEF Judge, IInv
  <2>3. flags # {}
    BY <1>2 DEF Verdict
  <2>4. TypeOK'
    BY <2>2 DEF Judge, Failing, IInv, TypeOK
  <2>5. PartsInv' /\ ProgressInv' /\ HeldInv'
    BY DEF Judge, IInv, PartsInv, ProgressInv, HeldInv
  <2>6. FlagsInv'
    BY <2>2 DEF Judge, Failing, IInv, FlagsInv
  <2>7. KeysInv'
    <3> SUFFICES ASSUME failed' = 0 PROVE KeysRight'
      BY DEF KeysInv
    <3>1. KeysRight /\ KeysOf(fields') = KeysOf(fields) \cup {"fail"}
      BY <2>2 DEF Failing, IInv, KeysInv
    <3>2. "fail" \in KeysOf(fields') /\ ("dirs" \in KeysOf(fields') <=> "dirs" \in KeysOf(fields))
      BY <3>1
    <3> QED BY <2>3, <3>1, <3>2 DEF Judge, KeysRight
  <2> QED BY <2>4, <2>5, <2>6, <2>7 DEF IInv
<1> QED BY <1>1, <1>2

(* The steps that fail for want of memory.                                 *)
LEMMA GivesUpIInv ==
  ASSUME IInv, NoResponse \/ NoDirs PROVE IInv'
<1> USE DEF Step, result, samba, listing
<1>1. failed' \in 0..MaxFailed /\ failed' # 0
  BY SmbClientAssumption DEF NoResponse, NoDirs, Suffer, IInv, TypeOK
<1>2. TypeOK'
  BY <1>1 DEF NoResponse, NoDirs, IInv, TypeOK
<1>3. PartsInv'
  BY EmptyObject DEF NoResponse, NoDirs, IInv, PartsInv
<1>4. ProgressInv' /\ HeldInv' /\ FlagsInv'
  BY <1>1 DEF NoResponse, NoDirs, IInv, ProgressInv, HeldInv, FlagsInv
<1>5. KeysInv'
  BY <1>1 DEF KeysInv
<1> QED BY <1>2, <1>3, <1>4, <1>5 DEF IInv

(* The connection.                                                         *)
LEMMA ConnectIInv ==
  ASSUME IInv, Prepare \/ Open \/ OpenFails \/ SkipOpen PROVE IInv'
<1> USE DEF Step, result, samba, listing
<1>1. CASE Prepare
  <2>1. TypeOK'
    BY <1>1 DEF Prepare, IInv, TypeOK
  <2>2. PartsInv' /\ ProgressInv' /\ HeldInv'
    BY <1>1 DEF Prepare, IInv, PartsInv, ProgressInv, HeldInv
  <2>3. FlagsInv'
    BY <1>1 DEF Prepare, IInv, FlagsInv
  <2>4. KeysInv'
    BY <1>1 DEF Prepare, IInv, KeysInv, KeysRight
  <2> QED BY <2>1, <2>2, <2>3, <2>4 DEF IInv
<1>2. CASE Open
  <2>1. TypeOK'
    BY <1>2 DEF Open, IInv, TypeOK
  <2>2. PartsInv' /\ ProgressInv' /\ HeldInv' /\ FlagsInv'
    BY <1>2 DEF Open, IInv, PartsInv, ProgressInv, HeldInv, FlagsInv
  <2>3. KeysInv'
    BY <1>2 DEF Open, IInv, KeysInv, KeysRight
  <2> QED BY <2>1, <2>2, <2>3 DEF IInv
<1>3. CASE OpenFails
  <2>1. flags' = flags \cup {"timeout"} \/ flags' = flags \cup {"auth"}
    BY <1>3 DEF OpenFails
  <2>2. callStart' \in Times /\ callEnd' \in Times
    BY <1>3, SmbClientAssumption DEF OpenFails
  <2>3. TypeOK'
    BY <1>3, <2>1, <2>2 DEF OpenFails, IInv, TypeOK
  <2>4. PartsInv' /\ ProgressInv' /\ HeldInv'
    BY <1>3 DEF OpenFails, IInv, PartsInv, ProgressInv, HeldInv
  <2>5. FlagsInv'
    BY <1>3, <2>1 DEF OpenFails, IInv, FlagsInv
  <2>6. KeysInv'
    BY <1>3, <2>1 DEF OpenFails, IInv, KeysInv, KeysRight
  <2> QED BY <2>3, <2>4, <2>5, <2>6 DEF IInv
<1>4. CASE SkipOpen
  <2>1. TypeOK'
    BY <1>4 DEF SkipOpen, IInv, TypeOK
  <2>2. PartsInv' /\ ProgressInv' /\ HeldInv' /\ FlagsInv'
    BY <1>4 DEF SkipOpen, IInv, PartsInv, ProgressInv, HeldInv, FlagsInv
  <2>3. KeysInv'
    BY <1>4 DEF SkipOpen, IInv, FlagsInv, KeysInv, KeysRight
  <2> QED BY <2>1, <2>2, <2>3 DEF IInv
<1> QED BY <1>1, <1>2, <1>3, <1>4

(* The steps of _smbc_browse_dir() and the end.                            *)
LEMMA BrowseIInv ==
  ASSUME IInv, Enumerate \/ IgnoreShare \/ ListShare \/ LoseShare PROVE IInv'
<1> USE DEF Step, result, samba, listing
<1>0. /\ tmp \in Nat /\ shares \in Seq(Shares) /\ failed \in 0..MaxFailed
      /\ tmp <= Len(shares)
  BY DEF IInv, TypeOK, ProgressInv
<1>1. CASE Enumerate
  <2>1. PICK n \in 0..MaxShares : shares' \in [1..n -> Shares]
    BY <1>1 DEF Enumerate
  <2>2. shares' \in Seq(Shares)
    BY <2>1, SmbClientAssumption
  <2>3. TypeOK'
    BY <1>1, <2>2 DEF Enumerate, IInv, TypeOK
  <2>4. ProgressInv'
    <3>1. tmp' = 0 /\ 0 <= Len(shares')
      BY <1>1, <2>2 DEF Enumerate, IInv, ProgressInv
    <3> QED BY <1>1, <3>1 DEF Enumerate, IInv, ProgressInv
  <2>5. PartsInv' /\ HeldInv' /\ FlagsInv'
    BY <1>1 DEF Enumerate, IInv, PartsInv, HeldInv, FlagsInv
  <2>6. KeysInv'
    BY <1>1 DEF Enumerate, IInv, KeysInv, KeysRight
  <2> QED BY <2>3, <2>4, <2>5, <2>6 DEF IInv
<1>2. CASE IgnoreShare \/ ListShare \/ LoseShare
  <2>1. /\ pc = "browse" /\ pc' = "browse" /\ tmp' = tmp + 1 /\ tmp < Len(shares)
        /\ UNCHANGED <<response, fields, flags, frame, info, cli, held, callStart, callEnd,
                       enumerated, shares, maxDir>>
    BY <1>2 DEF IgnoreShare, ListShare, LoseShare, More
  <2>2. Failing /\ dirs' \in Seq([share : Nat, object : Seq(ShareFields)])
    <3>1. CASE IgnoreShare
      BY <1>0, <3>1 DEF IgnoreShare, Failing, IInv, TypeOK
    <3>2. CASE ListShare
      BY <3>2, ShareListed DEF IInv
    <3>3. CASE LoseShare
      BY <1>0, <3>3, SmbClientAssumption DEF LoseShare, Suffer, Failing, IInv, TypeOK
    <3> QED BY <1>2, <3>1, <3>2, <3>3
  <2>3. tmp' \in Nat /\ tmp' <= Len(shares')
    BY <1>0, <2>1
  <2>4. TypeOK'
    BY <2>1, <2>2, <2>3 DEF Failing, IInv, TypeOK
  <2>5. PartsInv' /\ HeldInv'
    BY <2>1 DEF IInv, PartsInv, HeldInv
  <2>6. ProgressInv'
    BY <2>1, <2>3 DEF IInv, ProgressInv
  <2>7. FlagsInv'
    BY <2>1, <2>2 DEF Failing, IInv, FlagsInv
  <2>8. KeysInv'
    BY <2>1, <2>2 DEF Failing, IInv, KeysInv, KeysRight
  <2> QED BY <2>4, <2>5, <2>6, <2>7, <2>8 DEF IInv
<1> QED BY <1>1, <1>2

(* The steps on the pipe to srvsvc, and those that end the listing.        *)
LEMMA PipeIInv ==
  ASSUME IInv, OpenPipe \/ OpenPipeFails \/ EnumerateFails \/ BrowseEnds \/ Release
  PROVE  IInv'
<1> USE DEF Step, result, samba, listing
<1>1. CASE OpenPipe \/ OpenPipeFails
  <2>1. TypeOK'
    BY <1>1 DEF OpenPipe, OpenPipeFails, IInv, TypeOK
  <2>2. PartsInv' /\ ProgressInv' /\ HeldInv' /\ FlagsInv'
    BY <1>1
    DEF OpenPipe, OpenPipeFails, IInv, PartsInv, ProgressInv, HeldInv, FlagsInv
  <2>3. KeysInv'
    BY <1>1 DEF OpenPipe, OpenPipeFails, IInv, KeysInv, KeysRight
  <2> QED BY <2>1, <2>2, <2>3 DEF IInv
<1>2. CASE EnumerateFails \/ BrowseEnds
  <2>1. TypeOK'
    BY <1>2 DEF EnumerateFails, BrowseEnds, IInv, TypeOK
  <2>2. PartsInv' /\ ProgressInv' /\ HeldInv' /\ FlagsInv'
    BY <1>2
    DEF EnumerateFails, BrowseEnds, IInv, PartsInv, ProgressInv, HeldInv, FlagsInv
  <2>3. KeysInv'
    BY <1>2 DEF EnumerateFails, BrowseEnds, IInv, KeysInv, KeysRight
  <2> QED BY <2>1, <2>2, <2>3 DEF IInv
<1>3. CASE Release
  <2>1. TypeOK'
    BY <1>3 DEF Release, IInv, TypeOK
  <2>2. PartsInv' /\ ProgressInv' /\ HeldInv' /\ FlagsInv'
    BY <1>3 DEF Release, IInv, PartsInv, ProgressInv, HeldInv, FlagsInv
  <2>3. KeysInv'
    BY <1>3 DEF Release, IInv, KeysInv, KeysRight
  <2> QED BY <2>1, <2>2, <2>3 DEF IInv
<1> QED BY <1>1, <1>2, <1>3

(* Every step keeps the invariant.                                         *)
LEMMA NextIInv == IInv /\ [Next]_vars => IInv'
<1> SUFFICES ASSUME IInv, [Next]_vars PROVE IInv'
  OBVIOUS
<1> USE DEF Step, result, samba, listing
<1>1. CASE Ends
  <2>1. TypeOK'
    BY <1>1 DEF Ends, IInv, TypeOK
  <2>2. PartsInv' /\ ProgressInv' /\ HeldInv' /\ FlagsInv'
    BY <1>1 DEF Ends, IInv, PartsInv, ProgressInv, HeldInv, FlagsInv
  <2>3. KeysInv'
    BY <1>1 DEF Ends, IInv, KeysInv, KeysRight
  <2> QED BY <2>1, <2>2, <2>3 DEF IInv
<1>2. CASE UNCHANGED vars
  <2>1. TypeOK'
    BY <1>2 DEF vars, IInv, TypeOK
  <2>2. PartsInv' /\ ProgressInv' /\ HeldInv' /\ FlagsInv' /\ KeysInv'
    BY <1>2 DEF vars, IInv, PartsInv, ProgressInv, HeldInv, FlagsInv, KeysInv, KeysRight
  <2> QED BY <2>1, <2>2 DEF IInv
<1> QED
  BY <1>1, <1>2, CreateIInv, AddDirsIInv, JudgeIInv, GivesUpIInv, ConnectIInv, BrowseIInv,
     PipeIInv
  DEF Next, Work, Returned

(* It always holds.                                                        *)
THEOREM Invariance == Spec => []IInv
<1>1. IInv /\ [Next]_vars => IInv'
  BY NextIInv
<1> QED BY <1>1, InitIInv, PTL DEF Spec

(* The type invariant.                                                     *)
THEOREM TypeCorrect == Spec => []TypeOK
<1>1. IInv => TypeOK
  BY DEF IInv
<1> QED BY <1>1, Invariance, PTL

(* On every path the pipe, the connection and both frames are given back   *)
(* (util_smbclient.c:222-230, 381-391).                                    *)
THEOREM Released == Spec => []AllReleased
<1>1. IInv => AllReleased
  BY DEF IInv, HeldInv, AllReleased
<1> QED BY <1>1, Invariance, PTL

(* A response has a listing or names a failure, and both only when the     *)
(* login data could not be prepared (util_smbclient.c:356-379).            *)
THEOREM SaysSomething == Spec => []ListingOrFailure
<1>1. IInv => ListingOrFailure
  <2> SUFFICES ASSUME IInv, pc = "returned", failed = 0
               PROVE  /\ {"dirs", "fail"} \cap KeysOf(fields) # {}
                      /\ {"dirs", "fail"} \subseteq KeysOf(fields) => ~info
    BY DEF ListingOrFailure
  <2>1. KeysRight
    BY DEF IInv, KeysInv
  <2>2. "dirs" \in KeysOf(fields) \/ "fail" \in KeysOf(fields)
    BY <2>1 DEF KeysRight
  <2>3. "dirs" \in KeysOf(fields) /\ "fail" \in KeysOf(fields) => "system" \in flags
    BY <2>1 DEF KeysRight
  <2> QED BY <2>2, <2>3 DEF IInv, FlagsInv
<1> QED BY <1>1, Invariance, PTL

(* A failed connection is a timeout exactly when a whole second passed by  *)
(* the clock, for every pair of its readings (util_smbclient.c:319-333).   *)
THEOREM TimeoutsTimed == Spec => []TimeoutIsOneSecond
<1>1. Init => TimeoutIsOneSecond
  BY DEF Init, TimeoutIsOneSecond
<1>2. IInv /\ TimeoutIsOneSecond /\ [Next]_vars => TimeoutIsOneSecond'
  <2> SUFFICES ASSUME IInv, TimeoutIsOneSecond, [Next]_vars PROVE TimeoutIsOneSecond'
    OBVIOUS
  <2>1. CASE OpenFails
    <3>1. /\ callStart' \in Times /\ callEnd' \in Times
          /\ TotalNs(callEnd') >= TotalNs(callStart')
      BY <2>1, SmbClientAssumption DEF OpenFails
    <3>2. flags \cap {"timeout", "auth"} = {}
      BY <2>1 DEF OpenFails, Step, IInv, FlagsInv
    <3>3. "timeout" \in flags' <=> ElapsedMs(callStart', callEnd') >= TimeoutMs
      BY <2>1, <3>2 DEF OpenFails
    <3>4. ElapsedMs(callStart', callEnd') >= TimeoutMs <=>
            TotalNs(callEnd') - TotalNs(callStart') >= TimeoutMs * NsPerMs
      BY <3>1, ElapsedSecond
    <3> QED BY <3>3, <3>4 DEF TimeoutIsOneSecond, TotalNs, TimeoutMs
  <2>2. CASE ~OpenFails
    <3>1. /\ UNCHANGED <<callStart, callEnd>>
          /\ flags' = flags \/ flags' = flags \cup {"system"}
      BY <2>2 DEF Next, Work, Returned, vars, CreateResponse, NoResponse, Prepare, Open,
                  SkipOpen, AddDirs, NoDirs, OpenPipe, OpenPipeFails, Enumerate,
                  EnumerateFails, IgnoreShare, ListShare, LoseShare, BrowseEnds, Release,
                  Judge, Ends, result, samba, listing
    <3>2. /\ "timeout" \in flags' <=> "timeout" \in flags
          /\ "auth" \in flags' <=> "auth" \in flags
      BY <3>1
    <3> QED BY <3>1, <3>2 DEF TimeoutIsOneSecond, TotalNs
  <2> QED BY <2>1, <2>2
<1> QED BY <1>1, <1>2, Invariance, PTL DEF Spec

-----------------------------------------------------------------------------
(* The listing.                                                            *)

(* What the steps other than those of the loop do to the listing.          *)
LEMMA ListingKept ==
  ASSUME IInv, [Next]_vars, ~Enumerate, ~IgnoreShare, ~ListShare, ~LoseShare
  PROVE  UNCHANGED <<dirs, shares, tmp, maxDir>>
BY DEF Next, Work, Returned, vars, CreateResponse, NoResponse, Prepare, Open, OpenFails,
       SkipOpen, AddDirs, NoDirs, OpenPipe, OpenPipeFails, EnumerateFails, BrowseEnds,
       Release, Judge, Ends, result, samba, listing

(* Failed allocations are never made good.                                 *)
LEMMA FailuresKept == IInv /\ [Next]_vars => (failed' = 0 => failed = 0)
<1> SUFFICES ASSUME IInv, [Next]_vars, failed' = 0 PROVE failed = 0
  OBVIOUS
<1>0. failed \in Nat
  BY SmbClientAssumption DEF IInv, TypeOK
<1>1. \A n \in Nat : Suffer(n) => failed = 0
  BY <1>0 DEF Suffer
<1>2. CASE CreateResponse \/ AddDirs \/ Judge
  <2>1. \A key, val :
          \A a \in AddItem(fields, key, val) \cup AddString(fields, key, val) :
            a.failed \in Nat
    BY AddOutcomes
  <2> QED BY <1>1, <1>2, <2>1 DEF CreateResponse, AddDirs, Judge
<1>3. CASE NoResponse \/ NoDirs \/ LoseShare
  BY <1>1, <1>3 DEF NoResponse, NoDirs, LoseShare
<1>4. CASE ListShare
  BY <1>4, ShareListed DEF Failing, IInv
<1>5. CASE UNCHANGED failed
  BY <1>5
<1> QED
  BY <1>2, <1>3, <1>4, <1>5
  DEF Next, Work, Returned, vars, Prepare, Open, OpenFails, SkipOpen, OpenPipe,
      OpenPipeFails, Enumerate, EnumerateFails, IgnoreShare, BrowseEnds, Release, Ends,
      result, samba, listing

(* The array under "dirs" has shares of the server in the server's order,  *)
(* none twice, none that was not looked at, and no more than asked for     *)
(* (util_smbclient.c:152-154, 200-213).                                    *)
THEOREM ListedInOrder == Spec => []DirsInServerOrder
<1>1. Init => DirsInServerOrder
  <2> SUFFICES ASSUME Init PROVE DirsInServerOrder
    OBVIOUS
  <2>1. Len(dirs) = 0 /\ DOMAIN dirs = {} /\ 0 <= maxDir
    BY SmbClientAssumption DEF Init
  <2> QED BY <2>1 DEF DirsInServerOrder, DirCount
<1>2. IInv /\ DirsInServerOrder /\ [Next]_vars => DirsInServerOrder'
  <2> SUFFICES ASSUME IInv, DirsInServerOrder, [Next]_vars PROVE DirsInServerOrder'
    OBVIOUS
  <2> USE DEF Step, result, samba, listing
  <2>0. /\ dirs \in Seq([share : Nat, object : Seq(ShareFields)]) /\ tmp \in Nat
        /\ maxDir \in Nat
    BY SmbClientAssumption DEF IInv, TypeOK
  <2>1. CASE Enumerate
    <3>1. Len(dirs') = 0 /\ DOMAIN dirs' = {} /\ 0 <= maxDir'
      BY <2>0, <2>1 DEF Enumerate, IInv, ProgressInv
    <3> QED BY <3>1 DEF DirsInServerOrder, DirCount
  <2>2. CASE ListShare
    <3>1. /\ Len(dirs') = Len(dirs) + 1
          /\ \A i \in DOMAIN dirs : dirs'[i] = dirs[i]
          /\ dirs'[Len(dirs) + 1].share = tmp + 1
          /\ dirs' \in Seq([share : Nat, object : Seq(ShareFields)])
      BY <2>2, ShareListed DEF IInv
    <3>2. /\ tmp' = tmp + 1 /\ UNCHANGED <<shares, maxDir>>
          /\ Len(dirs) < maxDir
      BY <2>2 DEF ListShare, More, DirCount
    <3>3. DOMAIN dirs' = DOMAIN dirs \cup {Len(dirs) + 1}
      BY <2>2, ShareListed DEF IInv
    <3>4. ASSUME NEW i \in DOMAIN dirs'
          PROVE  /\ dirs'[i].share \in 1..tmp'
                 /\ \A j \in DOMAIN dirs' : i < j => dirs'[i].share < dirs'[j].share
      <4>1. CASE i = Len(dirs) + 1
        <5>1. \A j \in DOMAIN dirs' : ~(Len(dirs) + 1 < j)
          BY <2>0, <3>1
        <5> QED BY <2>0, <3>1, <3>2, <4>1, <5>1
      <4>2. CASE i \in DOMAIN dirs
        <5>1. /\ dirs[i].share \in 1..tmp
              /\ \A j \in DOMAIN dirs : i < j => dirs[i].share < dirs[j].share
          BY <4>2 DEF DirsInServerOrder
        <5>2. dirs'[i] = dirs[i]
          BY <3>1, <4>2
        <5>3. dirs[i].share \in 1..tmp' /\ dirs[i].share < tmp + 1
          BY <2>0, <3>2, <5>1
        <5>4. ASSUME NEW j \in DOMAIN dirs', i < j PROVE dirs[i].share < dirs'[j].share
          BY <3>1, <3>3, <5>1, <5>3, <5>4
        <5> QED BY <5>1, <5>2, <5>3, <5>4
      <4> QED BY <3>3, <4>1, <4>2
    <3>5. Len(dirs') <= maxDir'
      BY <2>0, <3>1, <3>2
    <3> QED BY <3>2, <3>4, <3>5 DEF DirsInServerOrder, DirCount
  <2>3. CASE IgnoreShare \/ LoseShare
    <3>1. tmp' = tmp + 1 /\ UNCHANGED <<dirs, shares, maxDir>>
      BY <2>3 DEF IgnoreShare, LoseShare
    <3>2. 1..tmp \subseteq 1..tmp'
      BY <2>0, <3>1
    <3> QED BY <3>1, <3>2 DEF DirsInServerOrder, DirCount
  <2>4. CASE ~Enumerate /\ ~IgnoreShare /\ ~ListShare /\ ~LoseShare
    <3>1. UNCHANGED <<dirs, shares, tmp, maxDir>>
      BY <2>4, ListingKept
    <3> QED BY <3>1 DEF DirsInServerOrder, DirCount
  <2> QED BY <2>1, <2>2, <2>3, <2>4
<1> QED BY <1>1, <1>2, Invariance, PTL DEF Spec

(* Of the shares looked at, none that is wanted is missing unless memory    *)
(* ran out, and looking stops early only at the limit                      *)
(* (util_smbclient.c:152-154, 201-213).                                    *)
THEOREM SharesComplete == Spec => []NoShareForgotten
<1>1. Init => NoShareForgotten
  <2>1. \A s \in 1..0 : FALSE
    OBVIOUS
  <2> QED BY <2>1 DEF Init, NoShareForgotten
<1>2. IInv /\ DirsInServerOrder /\ NoShareForgotten /\ [Next]_vars => NoShareForgotten'
  <2> SUFFICES ASSUME IInv, DirsInServerOrder, NoShareForgotten, [Next]_vars
               PROVE  NoShareForgotten'
    OBVIOUS
  <2> USE DEF Step, result, samba, listing
  <2>0. /\ dirs \in Seq([share : Nat, object : Seq(ShareFields)]) /\ tmp \in Nat
        /\ maxDir \in Nat /\ shares \in Seq(Shares) /\ tmp <= Len(shares)
    BY SmbClientAssumption DEF IInv, TypeOK, ProgressInv
  <2>1. CASE Enumerate
    <3>1. \A s \in 1..0 : FALSE
      OBVIOUS
    <3>2. tmp' = 0 /\ pc' = "browse"
      BY <2>1 DEF Enumerate, IInv, ProgressInv
    <3> QED BY <3>1, <3>2 DEF NoShareForgotten
  <2>2. CASE IgnoreShare \/ ListShare \/ LoseShare
    <3>0. tmp' = tmp + 1 /\ UNCHANGED shares /\ pc' = "browse"
      BY <2>2 DEF IgnoreShare, ListShare, LoseShare
    <3>1. SUFFICES ASSUME failed' = 0, NEW s \in 1..tmp + 1, Wanted(shares[s])
                   PROVE  \E i \in DOMAIN dirs' : dirs'[i].share = s
      BY <3>0 DEF NoShareForgotten, Wanted
    <3>2. failed = 0
      BY <3>1, FailuresKept
    <3>3. s \in 1..tmp => \E i \in DOMAIN dirs : dirs[i].share = s
      BY <3>1, <3>2 DEF NoShareForgotten
    <3>4. CASE ListShare
      <4>1. /\ \A i \in DOMAIN dirs : dirs'[i] = dirs[i]
            /\ dirs'[Len(dirs) + 1].share = tmp + 1
        BY <3>4, ShareListed DEF IInv
      <4>2. DOMAIN dirs' = DOMAIN dirs \cup {Len(dirs) + 1}
        BY <3>4, ShareListed DEF IInv
      <4>3. s \in 1..tmp \/ s = tmp + 1
        BY <2>0
      <4>4. CASE s = tmp + 1
        BY <4>1, <4>2, <4>4
      <4>5. CASE s \in 1..tmp
        <5>1. PICK i \in DOMAIN dirs : dirs[i].share = s
          BY <3>3, <4>5
        <5>2. i \in DOMAIN dirs' /\ dirs'[i].share = s
          BY <4>1, <4>2, <5>1
        <5> QED BY <5>2
      <4> QED BY <4>3, <4>4, <4>5
    <3>5. CASE IgnoreShare
      <4>1. dirs' = dirs /\ ~ShouldShow(shares[tmp + 1])
        BY <3>5 DEF IgnoreShare
      <4>2. s \in 1..tmp
        BY <2>0, <3>1, <4>1 DEF Wanted, ShouldShow
      <4> QED BY <3>3, <4>1, <4>2
    <3>6. CASE LoseShare
      <4>1. failed \in Nat
        BY SmbClientAssumption DEF IInv, TypeOK
      <4> QED BY <3>1, <3>6, <4>1 DEF LoseShare, Suffer
    <3> QED BY <2>2, <3>4, <3>5, <3>6
  <2>3. CASE ~Enumerate /\ ~IgnoreShare /\ ~ListShare /\ ~LoseShare
    <3>1. UNCHANGED <<dirs, shares, tmp, maxDir>>
      BY <2>3, ListingKept
    <3>2. failed' = 0 => failed = 0
      BY FailuresKept
    <3>3. (failed = 0 => \A s \in 1..tmp : Wanted(shares[s]) =>
                           \E i \in DOMAIN dirs : dirs[i].share = s)'
      BY <3>1, <3>2 DEF NoShareForgotten, Wanted
    <3>4. CASE BrowseEnds
      <4>1. tmp = Len(shares) \/ Len(dirs) = maxDir
        BY <2>0, <3>4 DEF BrowseEnds, More, DirCount, DirsInServerOrder
      <4> QED BY <3>1, <3>3, <4>1 DEF NoShareForgotten, DirCount
    <3>5. CASE ~BrowseEnds
      <4>1. enumerated' = "done" /\ pc' \in {"release", "verdict", "ends", "returned"} =>
              enumerated = "done" /\ pc \in {"release", "verdict", "ends", "returned"}
        BY <2>3, <3>5
        DEF Next, Work, Returned, vars, CreateResponse, NoResponse, Prepare, Open,
            OpenFails, SkipOpen, AddDirs, NoDirs, OpenPipe, OpenPipeFails, EnumerateFails,
            Release, Judge, Ends, IInv, ProgressInv
      <4> QED BY <3>1, <3>3, <4>1 DEF NoShareForgotten, DirCount
    <3> QED BY <3>4, <3>5
  <2> QED BY <2>1, <2>2, <2>3
<1> QED BY <1>1, <1>2, Invariance, ListedInOrder, PTL DEF Spec

-----------------------------------------------------------------------------
(* Refinement of Utility.                                                  *)

Layout == << [key |-> "command", vals |-> {"smbclient"}],
             [key |-> "dirs", vals |-> {"array"}],
             [key |-> "fail", vals |-> {"timeout", "auth", "no svc", "system"}] >>

(* The parts of a response, in their order.                                *)
LEMMA LayoutParts ==
  /\ DOMAIN Layout = {1, 2, 3}
  /\ Layout[1].key = "command" /\ Layout[1].vals = {"smbclient"}
  /\ Layout[2].key = "dirs" /\ Layout[2].vals = {"array"}
  /\ Layout[3].key = "fail" /\ Layout[3].vals = {"timeout", "auth", "no svc", "system"}
<1>1. DOMAIN Layout = {1, 2, 3}
  BY DEF Layout
<1>2. Layout[1].key = "command" /\ Layout[2].key = "dirs" /\ Layout[3].key = "fail"
  BY DEF Layout
<1>3. /\ Layout[1].vals = {"smbclient"} /\ Layout[2].vals = {"array"}
      /\ Layout[3].vals = {"timeout", "auth", "no svc", "system"}
  BY DEF Layout
<1> QED BY <1>1, <1>2, <1>3

(* Each value is that of one part.                                         *)
LEMMA OnePlace == Unambiguous(Layout)
<1> SUFFICES ASSUME NEW v
             PROVE  \A i, p \in DOMAIN Layout :
                      v \in Layout[i].vals /\ v \in Layout[p].vals => i = p
  BY DEF Unambiguous
<1>1. \A i \in DOMAIN Layout : i = 1 \/ i = 2 \/ i = 3
  BY LayoutParts
<1>2. \A i \in DOMAIN Layout : v \in Layout[i].vals =>
        \/ i = 1 /\ v = "smbclient"
        \/ i = 2 /\ v = "array"
        \/ i = 3 /\ v \in {"timeout", "auth", "no svc", "system"}
  <2> SUFFICES ASSUME NEW i \in DOMAIN Layout, v \in Layout[i].vals
               PROVE  \/ i = 1 /\ v = "smbclient"
                      \/ i = 2 /\ v = "array"
                      \/ i = 3 /\ v \in {"timeout", "auth", "no svc", "system"}
    OBVIOUS
  <2>1. CASE i = 1
    BY <2>1, LayoutParts
  <2>2. CASE i = 2
    BY <2>2, LayoutParts
  <2>3. CASE i = 3
    BY <2>3, LayoutParts
  <2> QED BY <1>1, <2>1, <2>2, <2>3
<1>3. /\ "smbclient" # "array"
      /\ "smbclient" \notin {"timeout", "auth", "no svc", "system"}
      /\ "array" \notin {"timeout", "auth", "no svc", "system"}
  OBVIOUS
<1> QED BY <1>2, <1>3, Zenon

(* What Utility allows to be added at a place p.                           *)
LEMMA AddsPart ==
  ASSUME NEW p \in DOMAIN Layout, NEW val \in Layout[p].vals,
         \A v \in ValsOf(fields) : \E i \in DOMAIN Layout : i < p /\ v \in Layout[i].vals,
         \E a \in AddItem(fields, Layout[p].key, val)
                 \cup AddString(fields, Layout[p].key, val) : fields' = a.object
  PROVE  UNCHANGED fields \/ Promise!Adds(DOMAIN Layout)
<1>1. fields' = fields \/ AddsTo(Layout, fields, fields', {p})
  BY OnePlace, AddsBehind
<1>2. AddsTo(Layout, fields, fields', {p}) => Promise!Adds({p})
  BY DEF AddsTo, PlaceIn, Promise!Adds, Promise!Place, Promise!Field, Promise!NoKey,
         Field, NoKey, Layout
<1>3. Promise!Adds({p}) => Promise!Adds(DOMAIN Layout)
  BY DEF Promise!Adds
<1> QED BY <1>1, <1>2, <1>3

(* The fields that are before the one for p, by the values there are.      *)
LEMMA Earlier ==
  /\ \A v \in {"smbclient"} : \E i \in DOMAIN Layout : i < 2 /\ v \in Layout[i].vals
  /\ \A v \in {"smbclient", "array"} :
       \E i \in DOMAIN Layout : i < 3 /\ v \in Layout[i].vals
<1>1. 1 \in DOMAIN Layout /\ "smbclient" \in Layout[1].vals
  BY LayoutParts
<1>2. 2 \in DOMAIN Layout /\ "array" \in Layout[2].vals
  BY LayoutParts
<1>3. 1 < 2 /\ 1 < 3 /\ 2 < 3
  OBVIOUS
<1> QED BY <1>1, <1>2, <1>3, Zenon

(* The initial states are initial states of Utility.                       *)
LEMMA InitRefines == Init => Promise!Init
BY DEF Init, Promise!Init

(* Every step is one of Utility or changes nothing that it sees.           *)
LEMMA NextRefines ==
  IInv /\ [Next]_vars => Promise!Next \/ UNCHANGED Promise!utilityVars
<1> SUFFICES ASSUME IInv, [Next]_vars
             PROVE  Promise!Next \/ UNCHANGED Promise!utilityVars
  OBVIOUS
<1> USE DEF Step, result, samba, listing
<1>1. CASE CreateResponse
  <2>1. /\ 1 \in DOMAIN Layout /\ Layout[1].key = "command"
        /\ "smbclient" \in Layout[1].vals
    BY LayoutParts
  <2>2. ValsOf(fields) = {}
    BY <1>1, EmptyObject DEF CreateResponse, IInv, PartsInv
  <2>3. \E a \in AddItem(fields, "command", "smbclient")
              \cup AddString(fields, "command", "smbclient") : fields' = a.object
    BY <1>1 DEF CreateResponse
  <2>4. UNCHANGED fields \/ Promise!Adds(DOMAIN Layout)
    BY <2>1, <2>2, <2>3, AddsPart
  <2> QED BY <1>1, <2>4 DEF CreateResponse, Promise!Next, Promise!Work, Layout
<1>2. CASE AddDirs
  <2>1. 2 \in DOMAIN Layout /\ Layout[2].key = "dirs" /\ "array" \in Layout[2].vals
    BY LayoutParts
  <2>2. \A v \in ValsOf(fields) : \E i \in DOMAIN Layout : i < 2 /\ v \in Layout[i].vals
    BY <1>2, Earlier DEF AddDirs, IInv, PartsInv
  <2>3. \E a \in AddItem(fields, "dirs", "array")
              \cup AddString(fields, "dirs", "array") : fields' = a.object
    BY <1>2 DEF AddDirs
  <2>4. UNCHANGED fields \/ Promise!Adds(DOMAIN Layout)
    BY <2>1, <2>2, <2>3, AddsPart
  <2> QED BY <1>2, <2>4 DEF AddDirs, Promise!Next, Promise!Work, Layout
<1>3. CASE Judge
  <2>1. UNCHANGED fields \/ Promise!Adds(DOMAIN Layout)
    <3>1. CASE Verdict = "none"
      BY <1>3, <3>1 DEF Judge
    <3>2. CASE Verdict # "none"
      <4>0. Verdict \in {"timeout", "auth", "no svc", "system"}
        BY <3>2 DEF Verdict
      <4>1. 3 \in DOMAIN Layout /\ Layout[3].key = "fail" /\ Verdict \in Layout[3].vals
        BY <4>0, LayoutParts
      <4>2. \A v \in ValsOf(fields) : \E i \in DOMAIN Layout : i < 3 /\ v \in Layout[i].vals
        BY <1>3, Earlier DEF Judge, IInv, PartsInv
      <4>3. \E a \in AddItem(fields, "fail", Verdict)
                  \cup AddString(fields, "fail", Verdict) : fields' = a.object
        BY <1>3, <3>2 DEF Judge
      <4> QED BY <4>1, <4>2, <4>3, AddsPart
    <3> QED BY <3>1, <3>2
  <2> QED BY <1>3, <2>1 DEF Judge, Promise!Next, Promise!Work, Layout
<1>4. CASE Ends
  <2>1. held' = {} /\ ~frame' /\ cli' # "open"
    BY <1>4 DEF Ends, IInv, HeldInv
  <2> QED BY <1>4, <2>1 DEF Ends, Promise!Next, Promise!Return
<1>5. CASE UNCHANGED fields /\ pc # "returned" /\ pc' # "returned"
  BY <1>5 DEF Promise!Next, Promise!Work
<1>6. CASE UNCHANGED vars
  BY <1>6 DEF vars, Promise!utilityVars
<1> QED
  BY <1>1, <1>2, <1>3, <1>4, <1>5, <1>6
  DEF Next, Work, Returned, NoResponse, Prepare, Open, OpenFails, SkipOpen, NoDirs,
      OpenPipe, OpenPipeFails, Enumerate, EnumerateFails, IgnoreShare, ListShare,
      LoseShare, BrowseEnds, Release

(* The safety part of ImplementsUtility: the response has its fields in    *)
(* their order and at most one failure, which is last, and nothing is held *)
(* or changed after the return (util_smbclient.c:356-394).                 *)
THEOREM UtilityRefined == Spec => Promise!Safety
<1>1. IInv /\ [Next]_vars => [Promise!Next]_(Promise!utilityVars)
  BY NextRefines
<1> QED BY <1>1, InitRefines, Invariance, PTL DEF Spec, Promise!Safety
=============================================================================
