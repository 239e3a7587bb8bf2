--------------------------- MODULE OptionsProofs ---------------------------
(***************************************************************************)
(* The properties of Options, for command lines of any length, any texts   *)
(* and numbers in them and any width of size_t.                            *)
(***************************************************************************)
EXTENDS Options, TLAPS

(* o is the last option of this name in s that counts, or stands for none. *)
IsLast(s, opt, o) ==
  \/ Places(s, opt) = {} /\ o = [opt |-> opt, text |-> "", num |-> 0]
  \/ \E i \in Places(s, opt) : s[i] = o /\ \A j \in Places(s, opt) : j <= i

LastInv == \A opt : IsLast(seen, opt, Last(seen, opt))

Modes  == {"D", "G", "L"}
Values == {"A", "U", "P", "K", "T", "M", "L"}

(* A context is what the options in s ask for, before it is checked.       *)
AddressOf(s) == IF Places(s, "A") = {} THEN "" ELSE Dotted[Last(s, "A").text]
TimeoutOf(s) == IF Last(s, "T").num < 0 THEN 0 ELSE Last(s, "T").num
LimitOf(s)   == Last(s, "M").num % SizeValues

TextsOf(c, s) ==
  /\ c.ipv4 = AddressOf(s)
  /\ c.username = Last(s, "U").text
  /\ c.srv_path = Last(s, "K").text
  /\ c.workgroups = Last(s, "L").text /\ c.workgroups \in {""} \cup NameLists
  /\ c.timeout = TimeoutOf(s)

ModesOf(c, s) ==
  /\ c.daemonize = TRUE <=> Places(s, "D") # {}
  /\ c.tree = TRUE <=> Places(s, "G") # {}
  /\ c.lookup = TRUE <=> Places(s, "L") # {}

(* What the check of smbclient changes.                                    *)
Unchecked(c, s) == c.password = Last(s, "P").text /\ c.max_dir = LimitOf(s)

IsClient(s) == Places(s, "G") = {} /\ Places(s, "L") = {}

Checked(c, s) ==
  /\ c.password = IF IsClient(s) /\ c.username = "" THEN "" ELSE Last(s, "P").text
  /\ c.max_dir = IF IsClient(s) /\ LimitOf(s) = 0 THEN 50 ELSE LimitOf(s)

ParsedInv ==
  /\ pc # "rejected" => TextsOf(ctx, seen) /\ ModesOf(ctx, seen)
  /\ pc \in {"parse", "check"} => Unchecked(ctx, seen) /\ sun_path = ""
  /\ pc \in {"accepted", "opened"} => Checked(ctx, seen)
  /\ pc = "opened" =>
       sun_path = IF ctx.srv_path \in LongPaths THEN Cut[ctx.srv_path] ELSE ctx.srv_path

IInv == TypeOK /\ LastInv /\ ParsedInv

-----------------------------------------------------------------------------
(* Which option is the last when one more is given.                        *)

(* What is assumed of the numbers.                                         *)
LEMMA NumbersAre == Numbers \subseteq Int /\ SizeValues \in Nat /\ SizeValues > 0
<1>1. Numbers \subseteq Int /\ SizeValues \in Nat \ {0}
  BY OptionsAssumption, Zenon
<1> HIDE DEF SizeValues
<1> QED BY <1>1

(* Max of a set of numbers that has a greatest one.                        *)
LEMMA MaxIs ==
  ASSUME NEW S \in SUBSET Nat, NEW i \in S, \A j \in S : j <= i PROVE Max(S) = i
<1>1. \A x \in S : (\A y \in S : x >= y) => x = i
  OBVIOUS
<1>2. \A y \in S : i >= y
  OBVIOUS
<1> QED BY <1>1, <1>2 DEF Max

(* There is no other last option.                                          *)
LEMMA LastIs ==
  ASSUME NEW s \in Seq(Given), NEW opt, NEW o, IsLast(s, opt, o)
  PROVE  Last(s, opt) = o
<1>1. Places(s, opt) \in SUBSET Nat
  BY DEF Places
<1>2. CASE Places(s, opt) = {} /\ o = [opt |-> opt, text |-> "", num |-> 0]
  BY <1>2 DEF Last
<1>3. CASE \E i \in Places(s, opt) : s[i] = o /\ \A j \in Places(s, opt) : j <= i
  <2>1. PICK i \in Places(s, opt) : s[i] = o /\ \A j \in Places(s, opt) : j <= i
    BY <1>3
  <2>2. Max(Places(s, opt)) = i
    BY <1>1, <2>1, MaxIs
  <2> QED BY <2>1, <2>2 DEF Last
<1> QED BY <1>2, <1>3 DEF IsLast

(* What one more option does to the sequence of those given.               *)
LEMMA OneMore ==
  ASSUME NEW s \in Seq(Given), NEW o \in Given
  PROVE  /\ Append(s, o) \in Seq(Given)
         /\ DOMAIN Append(s, o) = DOMAIN s \cup {Len(s) + 1}
         /\ \A i \in DOMAIN s : Append(s, o)[i] = s[i] /\ i < Len(s) + 1 /\ i # Len(s) + 1
         /\ Append(s, o)[Len(s) + 1] = o
OBVIOUS

(* It counts itself: it is the last one.                                   *)
LEMMA CountingMore ==
  ASSUME NEW s \in Seq(Given), NEW o \in Given, o.opt = "K" => o.text # "long"
  PROVE  IsLast(Append(s, o), o.opt, o) /\ Places(Append(s, o), o.opt) # {}
<1> DEFINE t == Append(s, o)
           n == Len(s) + 1
<1>1. n \in Places(t, o.opt)
  BY OneMore DEF Places
<1>2. \A j \in Places(t, o.opt) : j <= n
  BY OneMore DEF Places
<1> QED BY <1>1, <1>2, OneMore DEF IsLast

(* It does not count: nothing changes.                                     *)
LEMMA CountingSame ==
  ASSUME NEW s \in Seq(Given), NEW o \in Given, NEW opt,
         o.opt # opt \/ (o.opt = "K" /\ o.text = "long")
  PROVE  /\ Places(Append(s, o), opt) = Places(s, opt)
         /\ \A l : IsLast(s, opt, l) => IsLast(Append(s, o), opt, l)
<1> DEFINE t == Append(s, o)
<1>1. /\ DOMAIN t = DOMAIN s \cup {Len(s) + 1}
      /\ \A i \in DOMAIN s : t[i] = s[i]
      /\ t[Len(s) + 1] = o
  BY OneMore
<1> HIDE DEF t
<1>2. Places(t, opt) = Places(s, opt)
  BY <1>1 DEF Places
<1>3. \A i \in Places(s, opt) : t[i] = s[i]
  BY <1>1 DEF Places
<1> QED BY <1>2, <1>3 DEF IsLast, t

(* What the last options are when one more has been seen.                  *)
LEMMA OptionSeen ==
  ASSUME IInv, NEW opt, NEW text, NEW num, Option(opt, text, num),
         [opt |-> opt, text |-> text, num |-> num] \in Given
  PROVE  /\ seen' \in Seq(Given) /\ LastInv'
         /\ \A k : k # opt \/ (opt = "K" /\ text = "long") =>
              Places(seen', k) = Places(seen, k) /\ Last(seen', k) = Last(seen, k)
         /\ opt # "K" \/ text # "long" =>
              /\ Places(seen', opt) # {}
              /\ Last(seen', opt) = [opt |-> opt, text |-> text, num |-> num]
<1> DEFINE o == [opt |-> opt, text |-> text, num |-> num]
<1>1. seen \in Seq(Given) /\ seen' = Append(seen, o) /\ o \in Given
  BY DEF Option, IInv, TypeOK
<1>2. o.opt = opt /\ o.text = text
  OBVIOUS
<1> HIDE DEF o
<1>3. seen' \in Seq(Given)
  BY <1>1, OneMore
<1>4. ASSUME NEW k, k # opt \/ (opt = "K" /\ text = "long")
      PROVE  /\ Places(seen', k) = Places(seen, k)
             /\ IsLast(seen', k, Last(seen, k))
             /\ Last(seen', k) = Last(seen, k)
  <2>1. Places(seen', k) = Places(seen, k) /\ IsLast(seen', k, Last(seen, k))
    BY <1>1, <1>2, <1>4, CountingSame DEF IInv, LastInv
  <2> QED BY <1>3, <2>1, LastIs
<1>5. ASSUME opt # "K" \/ text # "long"
      PROVE  /\ Places(seen', opt) # {}
             /\ IsLast(seen', opt, o)
             /\ Last(seen', opt) = o
  <2>1. Places(seen', opt) # {} /\ IsLast(seen', opt, o)
    BY <1>1, <1>2, <1>5, CountingMore
  <2> QED BY <1>3, <2>1, LastIs
<1>6. LastInv'
  <2> SUFFICES ASSUME NEW k PROVE IsLast(seen', k, Last(seen', k))
    BY DEF LastInv
  <2>1. CASE k # opt \/ (opt = "K" /\ text = "long")
    BY <1>4, <2>1
  <2>2. CASE k = opt /\ (opt # "K" \/ text # "long")
    BY <1>5, <2>2
  <2> QED BY <2>1, <2>2
<1> QED BY <1>3, <1>4, <1>5, <1>6 DEF o

(* The options but the one that is given, and what it gives.               *)
Others(opt) == \A k \in (Values \cup Modes) \ {opt} :
                 Places(seen', k) = Places(seen, k) /\ Last(seen', k) = Last(seen, k)
Gives(opt, text, num) ==
  /\ Places(seen', opt) # {}
  /\ Last(seen', opt).text = text /\ Last(seen', opt).num = num

(* An option that is taken: what remains to be seen is the context.        *)
LEMMA Taken ==
  ASSUME IInv, NEW opt, NEW text, NEW num, Option(opt, text, num),
         [opt |-> opt, text |-> text, num |-> num] \in Given,
         opt # "K" \/ text # "long"
  PROVE  /\ pc = "parse" /\ sun_path' = sun_path
         /\ seen' \in Seq(Given) /\ LastInv'
         /\ Others(opt) /\ Gives(opt, text, num)
<1>1. /\ seen' \in Seq(Given) /\ LastInv'
      /\ \A k : k # opt => Places(seen', k) = Places(seen, k) /\ Last(seen', k) = Last(seen, k)
      /\ Places(seen', opt) # {}
      /\ Last(seen', opt) = [opt |-> opt, text |-> text, num |-> num]
  BY OptionSeen
<1>2. Last(seen', opt).text = text /\ Last(seen', opt).num = num
  BY <1>1
<1>3. pc = "parse" /\ sun_path' = sun_path
  BY DEF Option
<1> QED BY <1>1, <1>2, <1>3 DEF Others, Gives

(* Parsing goes on, with the context that is asked for.                    *)
LEMMA GoesOn ==
  ASSUME IInv, pc = "parse", pc' = "parse", sun_path' = sun_path, lost' \in Nat,
         seen' \in Seq(Given), LastInv', ctx' \in Contexts,
         TextsOf(ctx', seen'), ModesOf(ctx', seen'), Unchecked(ctx', seen')
  PROVE  IInv'
<1>1. TypeOK'
  BY DEF IInv, TypeOK
<1>2. ParsedInv'
  BY DEF IInv, ParsedInv
<1> QED BY <1>1, <1>2 DEF IInv

(* What is known of the context before.                                    *)
LEMMA Before ==
  ASSUME IInv, pc = "parse"
  PROVE  /\ ctx \in Contexts
         /\ TextsOf(ctx, seen) /\ ModesOf(ctx, seen) /\ Unchecked(ctx, seen)
BY DEF IInv, TypeOK, ParsedInv

(* An option that ends the parsing.                                        *)
LEMMA RejectIInv ==
  ASSUME IInv, pc' = "rejected", ctx' \in Contexts, lost' \in Nat,
         \E opt \in {"A", "U", "P", "L", "?", ":"}, text \in Texts : Option(opt, text, 0)
  PROVE  IInv'
<1>1. PICK opt \in {"A", "U", "P", "L", "?", ":"}, text \in Texts : Option(opt, text, 0)
  OBVIOUS
<1>2. [opt |-> opt, text |-> text, num |-> 0] \in Given
  BY DEF Given
<1>3. seen' \in Seq(Given) /\ LastInv' /\ sun_path' = sun_path
  BY <1>1, <1>2, OptionSeen DEF Option
<1>4. TypeOK'
  BY <1>3 DEF IInv, TypeOK
<1>5. ParsedInv'
  BY DEF ParsedInv
<1> QED BY <1>3, <1>4, <1>5 DEF IInv

-----------------------------------------------------------------------------
(* The options.                                                            *)

(* -T and -M.                                                              *)
LEMMA NumberIInv ==
  ASSUME IInv, Timeout \/ MaxDirs PROVE IInv'
<1>1. PICK opt \in {"T", "M"}, num \in Numbers :
        /\ Option(opt, "", num)
        /\ \/ opt = "T" /\ ctx' = [ctx EXCEPT !.timeout = IF num < 0 THEN 0 ELSE num]
           \/ opt = "M" /\ ctx' = [ctx EXCEPT !.max_dir = num % SizeValues]
  BY DEF Timeout, MaxDirs
<1>2. pc' = "parse" /\ lost' = lost /\ lost \in Nat
  BY DEF Timeout, MaxDirs, Proceed, IInv, TypeOK
<1>3. [opt |-> opt, text |-> "", num |-> num] \in Given
  BY DEF Given, Texts, Paths
<1>4. /\ pc = "parse" /\ sun_path' = sun_path
      /\ seen' \in Seq(Given) /\ LastInv'
      /\ Others(opt) /\ Gives(opt, "", num)
  BY <1>1, <1>3, Taken
<1>5. /\ ctx \in Contexts
      /\ TextsOf(ctx, seen) /\ ModesOf(ctx, seen) /\ Unchecked(ctx, seen)
  BY <1>4, Before
<1>6. CASE opt = "T"
  <2>1. (IF num < 0 THEN 0 ELSE num) \in Nat
    BY NumbersAre
  <2>2. /\ ctx' \in Contexts
        /\ ctx' = [ctx EXCEPT !.timeout = TimeoutOf(seen')]
    BY <1>1, <1>4, <1>5, <1>6, <2>1 DEF Contexts, TimeoutOf, Gives
  <2>3. TextsOf(ctx', seen')
    BY <1>4, <1>5, <1>6, <2>2 DEF Contexts, TextsOf, AddressOf, Others, Values, Modes
  <2>4. ModesOf(ctx', seen') /\ Unchecked(ctx', seen')
    BY <1>4, <1>5, <1>6, <2>2
    DEF Contexts, ModesOf, Unchecked, LimitOf, Others, Values, Modes
  <2> QED BY <1>2, <1>4, <2>2, <2>3, <2>4, GoesOn
<1>7. CASE opt = "M"
  <2>1. num % SizeValues \in 0..SizeValues - 1
    BY NumbersAre
  <2>2. /\ ctx' \in Contexts
        /\ ctx' = [ctx EXCEPT !.max_dir = LimitOf(seen')]
    <3>1. ctx' = [ctx EXCEPT !.max_dir = num % SizeValues]
      BY <1>1, <1>7
    <3>2. LimitOf(seen') = num % SizeValues
      BY <1>4, <1>7, Zenon DEF LimitOf, Gives
    <3>3. ctx' \in Contexts
      BY <1>5, <2>1, <3>1, ZenonT(60) DEF Contexts
    <3> QED BY <3>1, <3>2, <3>3
  <2>3. TextsOf(ctx', seen')
    BY <1>4, <1>5, <1>7, <2>2
    DEF Contexts, TextsOf, AddressOf, TimeoutOf, Others, Values, Modes
  <2>4. ModesOf(ctx', seen') /\ Unchecked(ctx', seen')
    BY <1>4, <1>5, <1>7, <2>2 DEF Contexts, ModesOf, Unchecked, Others, Values, Modes
  <2> QED BY <1>2, <1>4, <2>2, <2>3, <2>4, GoesOn
<1> QED BY <1>6, <1>7

(* -A.                                                                     *)
LEMMA AddressIInv ==
  ASSUME IInv, Address PROVE IInv'
<1>0. ctx \in Contexts /\ lost \in Nat
  BY DEF IInv, TypeOK
<1>1. CASE pc' = "parse"
  <2>1. PICK text \in Addresses :
          /\ Option("A", text, 0) /\ ctx' = [ctx EXCEPT !.ipv4 = Dotted[text]]
          /\ lost' = lost
    BY <1>1 DEF Address, ParseError
  <2>2. [opt |-> "A", text |-> text, num |-> 0] \in Given
    BY DEF Given, Texts
  <2>3. /\ pc = "parse" /\ sun_path' = sun_path
        /\ seen' \in Seq(Given) /\ LastInv'
        /\ Others("A") /\ Gives("A", text, 0)
    BY <2>1, <2>2, Taken
  <2>4. TextsOf(ctx, seen) /\ ModesOf(ctx, seen) /\ Unchecked(ctx, seen)
    BY <2>3, Before
  <2>5. /\ ctx' \in Contexts
        /\ ctx' = [ctx EXCEPT !.ipv4 = AddressOf(seen')]
    BY <1>0, <2>1, <2>3 DEF Contexts, AddressOf, Gives
  <2>6. TextsOf(ctx', seen')
    <3>1. /\ ctx'.ipv4 = AddressOf(seen') /\ ctx'.username = ctx.username
          /\ ctx'.srv_path = ctx.srv_path /\ ctx'.timeout = ctx.timeout
          /\ ctx'.workgroups = ctx.workgroups
      BY <1>0, <2>5 DEF Contexts
    <3>2. \A k \in {"U", "K", "T", "L"} : Last(seen', k) = Last(seen, k)
      BY <2>3 DEF Others, Values
    <3> QED BY <2>4, <3>1, <3>2 DEF TextsOf, TimeoutOf
  <2>7. ModesOf(ctx', seen') /\ Unchecked(ctx', seen')
    BY <1>0, <2>3, <2>4, <2>5
    DEF Contexts, ModesOf, Unchecked, LimitOf, Others, Values, Modes
  <2> QED BY <1>0, <1>1, <2>1, <2>3, <2>5, <2>6, <2>7, GoesOn
<1>2. CASE pc' = "rejected"
  BY <1>0, <1>2, RejectIInv DEF Address, Proceed, Texts
<1> QED BY <1>1, <1>2 DEF Address, Proceed, ParseError

(* -U.                                                                     *)
LEMMA UsernameIInv ==
  ASSUME IInv, Username PROVE IInv'
<1>0. ctx \in Contexts /\ lost \in Nat
  BY DEF IInv, TypeOK
<1>1. CASE pc' = "parse"
  <2>1. PICK text \in {""} \cup Words :
          /\ Option("U", text, 0) /\ ctx' = [ctx EXCEPT !.username = text]
          /\ lost' = lost
    BY <1>1 DEF Username, ParseError
  <2>2. [opt |-> "U", text |-> text, num |-> 0] \in Given
    BY DEF Given, Texts, Paths
  <2>3. /\ pc = "parse" /\ sun_path' = sun_path
        /\ seen' \in Seq(Given) /\ LastInv'
        /\ Others("U") /\ Gives("U", text, 0)
    BY <2>1, <2>2, Taken
  <2>4. TextsOf(ctx, seen) /\ ModesOf(ctx, seen) /\ Unchecked(ctx, seen)
    BY <2>3, Before
  <2>5. ctx' \in Contexts
    BY <1>0, <2>1 DEF Contexts
  <2>6. TextsOf(ctx', seen')
    <3>1. /\ ctx'.ipv4 = ctx.ipv4 /\ ctx'.username = text
          /\ ctx'.srv_path = ctx.srv_path /\ ctx'.timeout = ctx.timeout
          /\ ctx'.workgroups = ctx.workgroups
      BY <1>0, <2>1 DEF Contexts
    <3>2. \A k \in {"A", "K", "T", "L"} :
            Places(seen', k) = Places(seen, k) /\ Last(seen', k) = Last(seen, k)
      BY <2>3 DEF Others, Values
    <3>3. Last(seen', "U").text = text
      BY <2>3 DEF Gives
    <3> QED BY <2>4, <3>1, <3>2, <3>3 DEF TextsOf, AddressOf, TimeoutOf
  <2>7. ModesOf(ctx', seen') /\ Unchecked(ctx', seen')
    BY <1>0, <2>1, <2>3, <2>4
    DEF Contexts, ModesOf, Unchecked, LimitOf, Others, Values, Modes
  <2> QED BY <1>0, <1>1, <2>1, <2>3, <2>5, <2>6, <2>7, GoesOn
<1>2. CASE pc' = "rejected"
  BY <1>0, <1>2, RejectIInv DEF Username, Proceed, Texts
<1> QED BY <1>1, <1>2 DEF Username, Proceed, ParseError

(* -P.                                                                     *)
LEMMA PasswordIInv ==
  ASSUME IInv, Password PROVE IInv'
<1>0. ctx \in Contexts /\ lost \in Nat
  BY DEF IInv, TypeOK
<1>1. CASE pc' = "parse"
  <2>1. PICK text \in {""} \cup Words :
          /\ Option("P", text, 0) /\ ctx' = [ctx EXCEPT !.password = text]
          /\ lost' = lost
    BY <1>1 DEF Password, ParseError
  <2>2. [opt |-> "P", text |-> text, num |-> 0] \in Given
    BY DEF Given, Texts, Paths
  <2>3. /\ pc = "parse" /\ sun_path' = sun_path
        /\ seen' \in Seq(Given) /\ LastInv'
        /\ Others("P") /\ Gives("P", text, 0)
    BY <2>1, <2>2, Taken
  <2>4. TextsOf(ctx, seen) /\ ModesOf(ctx, seen) /\ Unchecked(ctx, seen)
    BY <2>3, Before
  <2>5. ctx' \in Contexts
    BY <1>0, <2>1 DEF Contexts
  <2>6. TextsOf(ctx', seen')
    <3>1. /\ ctx'.ipv4 = ctx.ipv4 /\ ctx'.username = ctx.username
          /\ ctx'.srv_path = ctx.srv_path /\ ctx'.timeout = ctx.timeout
          /\ ctx'.workgroups = ctx.workgroups
      BY <1>0, <2>1 DEF Contexts
    <3>2. \A k \in {"A", "U", "K", "T", "L"} :
            Places(seen', k) = Places(seen, k) /\ Last(seen', k) = Last(seen, k)
      BY <2>3 DEF Others, Values
    <3> QED BY <2>4, <3>1, <3>2 DEF TextsOf, AddressOf, TimeoutOf
  <2>7. ModesOf(ctx', seen') /\ Unchecked(ctx', seen')
    BY <1>0, <2>1, <2>3, <2>4
    DEF Contexts, ModesOf, Unchecked, LimitOf, Others, Gives, Values, Modes
  <2> QED BY <1>0, <1>1, <2>1, <2>3, <2>5, <2>6, <2>7, GoesOn
<1>2. CASE pc' = "rejected"
  BY <1>0, <1>2, RejectIInv DEF Password, Proceed, Texts
<1> QED BY <1>1, <1>2 DEF Password, Proceed, ParseError

(* -K: a path that is too long is passed over.                             *)
LEMMA SocketIInv ==
  ASSUME IInv, Socket PROVE IInv'
<1>0. ctx \in Contexts /\ lost \in Nat
  BY DEF IInv, TypeOK
<1>1. PICK text \in Paths \cup {"long"} :
        /\ Option("K", text, 0)
        /\ ctx' = IF text = "long" THEN ctx ELSE [ctx EXCEPT !.srv_path = text]
        /\ pc = "parse" /\ pc' = "parse" /\ lost' = lost /\ sun_path' = sun_path
  BY DEF Socket, Proceed, Option
<1>2. [opt |-> "K", text |-> text, num |-> 0] \in Given
  BY DEF Given, Texts
<1>3. TextsOf(ctx, seen) /\ ModesOf(ctx, seen) /\ Unchecked(ctx, seen)
  BY <1>1, Before
<1>4. CASE text = "long"
  <2>1. /\ seen' \in Seq(Given) /\ LastInv'
        /\ \A k : Places(seen', k) = Places(seen, k) /\ Last(seen', k) = Last(seen, k)
    BY <1>1, <1>2, <1>4, OptionSeen
  <2>2. ctx' = ctx
    BY <1>1, <1>4
  <2>3. AddressOf(seen') = AddressOf(seen) /\ TimeoutOf(seen') = TimeoutOf(seen)
    <3>1. AddressOf(seen') = AddressOf(seen)
      BY <2>1, Zenon DEF AddressOf
    <3>2. Last(seen', "T") = Last(seen, "T")
      BY <2>1
    <3>3. TimeoutOf(seen') = TimeoutOf(seen)
      BY <3>2 DEF TimeoutOf
    <3> QED BY <3>1, <3>3
  <2>4. TextsOf(ctx, seen')
    BY <1>3, <2>1, <2>3 DEF TextsOf
  <2>5. ModesOf(ctx, seen') /\ Unchecked(ctx, seen')
    BY <1>3, <2>1 DEF ModesOf, Unchecked, LimitOf
  <2> QED BY <1>0, <1>1, <2>1, <2>2, <2>4, <2>5, GoesOn
<1>5. CASE text # "long"
  <2>1. /\ seen' \in Seq(Given) /\ LastInv'
        /\ Others("K") /\ Gives("K", text, 0)
    BY <1>1, <1>2, <1>5, Taken
  <2>2. ctx' \in Contexts
    BY <1>0, <1>1, <1>5 DEF Contexts
  <2>3. TextsOf(ctx', seen')
    <3>1. /\ ctx'.ipv4 = ctx.ipv4 /\ ctx'.username = ctx.username
          /\ ctx'.srv_path = text /\ ctx'.timeout = ctx.timeout
          /\ ctx'.workgroups = ctx.workgroups
      BY <1>0, <1>1, <1>5 DEF Contexts
    <3>2. \A k \in {"A", "U", "T", "L"} :
            Places(seen', k) = Places(seen, k) /\ Last(seen', k) = Last(seen, k)
      BY <2>1 DEF Others, Values
    <3>3. Last(seen', "K").text = text
      BY <2>1 DEF Gives
    <3> QED BY <1>3, <3>1, <3>2, <3>3 DEF TextsOf, AddressOf, TimeoutOf
  <2>4. ModesOf(ctx', seen') /\ Unchecked(ctx', seen')
    BY <1>0, <1>1, <1>3, <1>5, <2>1
    DEF Contexts, ModesOf, Unchecked, LimitOf, Others, Values, Modes
  <2> QED BY <1>0, <1>1, <2>1, <2>2, <2>3, <2>4, GoesOn
<1> QED BY <1>4, <1>5

(* -D and -G.                                                              *)
LEMMA SwitchIInv ==
  ASSUME IInv, Switch PROVE IInv'
<1>0. ctx \in Contexts /\ lost \in Nat
  BY DEF IInv, TypeOK
<1>1. PICK opt \in {"D", "G"} :
        /\ Option(opt, "", 0) /\ pc' = "parse" /\ lost' = lost
        /\ \/ opt = "D" /\ ctx' = [ctx EXCEPT !.daemonize = TRUE]
           \/ opt = "G" /\ ctx' = [ctx EXCEPT !.tree = TRUE]
  BY DEF Switch, Proceed
<1>2. [opt |-> opt, text |-> "", num |-> 0] \in Given
  BY DEF Given, Texts, Paths
<1>3. /\ pc = "parse" /\ sun_path' = sun_path
      /\ seen' \in Seq(Given) /\ LastInv'
      /\ Others(opt) /\ Gives(opt, "", 0)
  BY <1>1, <1>2, Taken
<1>4. TextsOf(ctx, seen) /\ ModesOf(ctx, seen) /\ Unchecked(ctx, seen)
  BY <1>3, Before
<1>5. CASE opt = "D"
  <2>0. ctx' = [ctx EXCEPT !.daemonize = TRUE]
    BY <1>1, <1>5
  <2>1. ctx' \in Contexts
    BY <1>0, <2>0, ZenonT(60) DEF Contexts
  <2>2. TextsOf(ctx', seen')
    <3>1. /\ ctx'.ipv4 = ctx.ipv4 /\ ctx'.username = ctx.username
          /\ ctx'.srv_path = ctx.srv_path /\ ctx'.timeout = ctx.timeout
          /\ ctx'.workgroups = ctx.workgroups
      BY <1>0, <2>0 DEF Contexts
    <3>2. \A k \in {"A", "U", "K", "T", "L"} :
            Places(seen', k) = Places(seen, k) /\ Last(seen', k) = Last(seen, k)
      BY <1>3, <1>5 DEF Others, Values
    <3> QED BY <1>4, <3>1, <3>2 DEF TextsOf, AddressOf, TimeoutOf
  <2>3. Unchecked(ctx', seen')
    BY <1>0, <1>3, <1>4, <1>5, <2>0 DEF Contexts, Unchecked, LimitOf, Others, Values
  <2>4. ModesOf(ctx', seen')
    BY <1>0, <1>3, <1>4, <1>5, <2>0 DEF Contexts, ModesOf, Others, Gives, Modes
  <2> QED BY <1>0, <1>1, <1>3, <2>1, <2>2, <2>3, <2>4, GoesOn
<1>6. CASE opt = "G"
  <2>0. ctx' = [ctx EXCEPT !.tree = TRUE]
    BY <1>1, <1>6
  <2>1. ctx' \in Contexts
    BY <1>0, <2>0, ZenonT(60) DEF Contexts
  <2>2. TextsOf(ctx', seen')
    <3>1. /\ ctx'.ipv4 = ctx.ipv4 /\ ctx'.username = ctx.username
          /\ ctx'.srv_path = ctx.srv_path /\ ctx'.timeout = ctx.timeout
          /\ ctx'.workgroups = ctx.workgroups
      BY <1>0, <2>0 DEF Contexts
    <3>2. \A k \in {"A", "U", "K", "T", "L"} :
            Places(seen', k) = Places(seen, k) /\ Last(seen', k) = Last(seen, k)
      BY <1>3, <1>6 DEF Others, Values
    <3> QED BY <1>4, <3>1, <3>2 DEF TextsOf, AddressOf, TimeoutOf
  <2>3. Unchecked(ctx', seen')
    BY <1>0, <1>3, <1>4, <1>6, <2>0 DEF Contexts, Unchecked, LimitOf, Others, Values
  <2>4. ModesOf(ctx', seen')
    BY <1>0, <1>3, <1>4, <1>6, <2>0 DEF Contexts, ModesOf, Others, Gives, Modes
  <2> QED BY <1>0, <1>1, <1>3, <2>1, <2>2, <2>3, <2>4, GoesOn
<1> QED BY <1>5, <1>6

(* -L.                                                                     *)
LEMMA LookupIInv ==
  ASSUME IInv, Lookup PROVE IInv'
<1>0. ctx \in Contexts /\ lost \in Nat
  BY DEF IInv, TypeOK
<1>1. lost' \in Nat
  <2>1. Replaced = lost \/ Replaced = lost + 1
    BY Zenon DEF Replaced
  <2>2. lost' = Replaced \/ lost' = lost
    BY DEF Lookup
  <2> QED BY <1>0, <2>1, <2>2
<1>2. CASE pc' = "parse"
  <2>1. PICK list \in NameLists :
          /\ Option("L", list, 0)
          /\ ctx' = [ctx EXCEPT !.lookup = TRUE, !.workgroups = list]
    BY <1>2 DEF Lookup, ParseError
  <2>2. [opt |-> "L", text |-> list, num |-> 0] \in Given
    BY DEF Given, Texts
  <2>3. /\ pc = "parse" /\ sun_path' = sun_path
        /\ seen' \in Seq(Given) /\ LastInv'
        /\ Others("L") /\ Gives("L", list, 0)
    BY <2>1, <2>2, Taken
  <2>4. TextsOf(ctx, seen) /\ ModesOf(ctx, seen) /\ Unchecked(ctx, seen)
    BY <2>3, Before
  <2>5. ctx' \in Contexts
    BY <1>0, <2>1 DEF Contexts
  <2>6. TextsOf(ctx', seen')
    <3>1. /\ ctx'.ipv4 = ctx.ipv4 /\ ctx'.username = ctx.username
          /\ ctx'.srv_path = ctx.srv_path /\ ctx'.timeout = ctx.timeout
          /\ ctx'.workgroups = list
      BY <1>0, <2>1 DEF Contexts
    <3>2. \A k \in {"A", "U", "K", "T"} :
            Places(seen', k) = Places(seen, k) /\ Last(seen', k) = Last(seen, k)
      BY <2>3 DEF Others, Values
    <3>3. Last(seen', "L").text = list
      BY <2>3 DEF Gives
    <3> QED BY <2>4, <3>1, <3>2, <3>3 DEF TextsOf, AddressOf, TimeoutOf
  <2>7. ModesOf(ctx', seen') /\ Unchecked(ctx', seen')
    BY <1>0, <2>1, <2>3, <2>4
    DEF Contexts, ModesOf, Unchecked, LimitOf, Others, Gives, Values, Modes
  <2> QED BY <1>1, <1>2, <2>3, <2>5, <2>6, <2>7, GoesOn
<1>3. CASE pc' = "rejected"
  <2>1. ctx' \in Contexts
    <3>1. ctx' = ctx \/ \E array \in {"", "empty"} : ctx' = [ctx EXCEPT !.workgroups = array]
      BY <1>3 DEF Lookup, Proceed
    <3>2. ASSUME NEW array \in {"", "empty"}
          PROVE  [ctx EXCEPT !.workgroups = array] \in Contexts
      BY <1>0, ZenonT(60) DEF Contexts
    <3> QED BY <1>0, <3>1, <3>2
  <2>2. \E text \in Texts : Option("L", text, 0)
    BY DEF Lookup, Texts, Paths
  <2> QED BY <1>1, <1>3, <2>1, <2>2, RejectIInv
<1> QED BY <1>2, <1>3 DEF Lookup, Proceed, ParseError

-----------------------------------------------------------------------------
(* What follows the options.                                               *)

(* The configuration is accepted or not.                                   *)
LEMMA ChecksIInv ==
  ASSUME IInv, CheckTree \/ CheckLookup \/ CheckClient \/ CheckClientFails PROVE IInv'
<1>0. ctx \in Contexts
  BY DEF IInv, TypeOK
<1>1. /\ UNCHANGED <<seen, lost, sun_path>> /\ pc = "check"
      /\ pc' \in {"accepted", "rejected"}
  BY DEF CheckTree, CheckLookup, CheckClient, CheckClientFails
<1>2. /\ TextsOf(ctx, seen) /\ ModesOf(ctx, seen) /\ Unchecked(ctx, seen)
      /\ ctx.tree \in BOOLEAN /\ ctx.lookup \in BOOLEAN
  BY <1>0, <1>1 DEF IInv, ParsedInv, Contexts
<1>3. LastInv'
  BY <1>1 DEF IInv, LastInv
<1>4. CASE pc' = "rejected"
  <2>1. TypeOK'
    BY <1>0, <1>1, <1>4
    DEF IInv, TypeOK, CheckTree, CheckLookup, CheckClient, CheckClientFails
  <2> QED BY <1>3, <1>4, <2>1 DEF IInv, ParsedInv
<1>5. CASE pc' = "accepted" /\ ~CheckClient
  <2>1. ctx' = ctx /\ (ctx.tree = TRUE \/ ctx.lookup = TRUE)
    BY <1>2, <1>5 DEF CheckTree, CheckLookup, CheckClientFails
  <2>2. ~IsClient(seen)
    BY <1>2, <2>1 DEF ModesOf, IsClient
  <2>3. Checked(ctx, seen)
    BY <1>2, <2>2 DEF Unchecked, Checked
  <2>4. TypeOK'
    BY <1>1, <1>5, <2>1 DEF IInv, TypeOK
  <2>5. ParsedInv'
    BY <1>1, <1>2, <1>5, <2>1, <2>3 DEF ParsedInv
  <2> QED BY <1>3, <2>4, <2>5 DEF IInv
<1>6. CASE pc' = "accepted" /\ CheckClient
  <2>1. ctx.tree # TRUE /\ ctx.lookup # TRUE
    BY <1>6 DEF CheckClient
  <2>2. IsClient(seen)
    BY <1>2, <2>1 DEF ModesOf, IsClient
  <2>3. ctx' = [ctx EXCEPT !.password = IF ctx.username = "" THEN "" ELSE ctx.password,
                           !.max_dir  = IF ctx.max_dir = 0 THEN 50 ELSE ctx.max_dir]
    BY <1>6 DEF CheckClient
  <2>4. /\ ctx' \in Contexts
        /\ ctx'.password = IF ctx.username = "" THEN "" ELSE ctx.password
        /\ ctx'.max_dir = IF ctx.max_dir = 0 THEN 50 ELSE ctx.max_dir
    <3>1. (IF ctx.username = "" THEN "" ELSE ctx.password) \in {""} \cup Words
      BY <1>0, Zenon DEF Contexts
    <3>2. (IF ctx.max_dir = 0 THEN 50 ELSE ctx.max_dir) \in 0..SizeValues - 1 \cup {50}
      BY <1>0, Zenon DEF Contexts
    <3> QED BY <1>0, <2>3, <3>1, <3>2, ZenonT(60) DEF Contexts
  <2>5. /\ ctx'.ipv4 = ctx.ipv4 /\ ctx'.username = ctx.username
        /\ ctx'.srv_path = ctx.srv_path /\ ctx'.timeout = ctx.timeout
        /\ ctx'.daemonize = ctx.daemonize /\ ctx'.tree = ctx.tree
        /\ ctx'.lookup = ctx.lookup /\ ctx'.workgroups = ctx.workgroups
    BY <1>0, <2>3 DEF Contexts
  <2>6. Checked(ctx', seen)
    BY <1>2, <2>2, <2>4, <2>5 DEF Unchecked, Checked
  <2>7. TextsOf(ctx', seen) /\ ModesOf(ctx', seen)
    BY <1>2, <2>5 DEF TextsOf, ModesOf
  <2>8. TypeOK'
    BY <1>1, <1>6, <2>4 DEF IInv, TypeOK
  <2>9. ParsedInv'
    BY <1>1, <1>6, <2>6, <2>7 DEF ParsedInv
  <2> QED BY <1>3, <2>8, <2>9 DEF IInv
<1> QED BY <1>1, <1>4, <1>5, <1>6

(* The socket gets its address.                                            *)
LEMMA OpenIInv ==
  ASSUME IInv, OpenSocket PROVE IInv'
<1>1. /\ UNCHANGED <<seen, ctx, lost>> /\ pc = "accepted" /\ pc' = "opened"
      /\ sun_path' = IF ctx.srv_path \in LongPaths THEN Cut[ctx.srv_path] ELSE ctx.srv_path
  BY DEF OpenSocket
<1>2. ctx.srv_path \in Paths
  BY DEF IInv, TypeOK, Contexts
<1>3. sun_path' \in {""} \cup Words \cup {Cut[p] : p \in LongPaths}
  BY <1>1, <1>2 DEF Paths
<1>4. TypeOK'
  BY <1>1, <1>3 DEF IInv, TypeOK
<1>5. LastInv'
  BY <1>1 DEF IInv, LastInv
<1>6. ParsedInv'
  BY <1>1 DEF IInv, ParsedInv
<1> QED BY <1>4, <1>5, <1>6 DEF IInv

(* The invariant holds at first.                                           *)
LEMMA InitIInv == Init => IInv
<1> SUFFICES ASSUME Init PROVE IInv
  OBVIOUS
<1>0. pc = "parse" /\ sun_path = ""
  BY DEF Init
<1>1. seen \in Seq(Given) /\ DOMAIN seen = {} /\ lost \in Nat
  <2>1. seen = <<>> /\ lost = 0
    BY DEF Init
  <2> QED BY <2>1
<1>2. 0 \in 0..SizeValues - 1 \cup {50} /\ 0 % SizeValues = 0
  BY NumbersAre
<1>3. ctx \in Contexts
  BY <1>2 DEF Init, Contexts, Paths
<1>4. \A opt : Places(seen, opt) = {}
  BY <1>1 DEF Places
<1>5. LastInv /\ \A opt : Last(seen, opt).text = "" /\ Last(seen, opt).num = 0
  BY <1>4 DEF LastInv, IsLast, Last
<1>6. /\ ctx.ipv4 = "" /\ ctx.username = "" /\ ctx.password = "" /\ ctx.srv_path = ""
      /\ ctx.workgroups = "" /\ ctx.timeout = 0 /\ ctx.max_dir = 0
      /\ ctx.daemonize = FALSE /\ ctx.tree = FALSE /\ ctx.lookup = FALSE
  BY DEF Init
<1>7. TextsOf(ctx, seen) /\ ModesOf(ctx, seen)
  BY <1>4, <1>5, <1>6 DEF TextsOf, ModesOf, AddressOf, TimeoutOf
<1>8. Unchecked(ctx, seen)
  BY <1>2, <1>5, <1>6 DEF Unchecked, LimitOf
<1>9. TypeOK /\ ParsedInv
  BY <1>0, <1>1, <1>3, <1>7, <1>8 DEF TypeOK, ParsedInv
<1> QED BY <1>5, <1>9 DEF IInv

(* Every step keeps it.                                                    *)
LEMMA NextIInv == IInv /\ [Next]_vars => IInv'
<1> SUFFICES ASSUME IInv, [Next]_vars PROVE IInv'
  OBVIOUS
<1>0. ctx \in Contexts /\ lost \in Nat
  BY DEF IInv, TypeOK
<1>1. CASE BadOption
  <2>1. ctx' \in Contexts /\ lost' \in Nat /\ pc' = "rejected"
    BY <1>0, <1>1 DEF BadOption, ParseError
  <2>2. \E opt \in {"?", ":"}, text \in Texts : Option(opt, text, 0)
    BY <1>1 DEF BadOption, Texts, Paths
  <2> QED BY <2>1, <2>2, RejectIInv
<1>2. CASE OptionsEnd
  <2>1. UNCHANGED <<seen, ctx, lost, sun_path>> /\ pc = "parse" /\ pc' = "check"
    BY <1>2 DEF OptionsEnd
  <2>2. TypeOK' /\ LastInv' /\ ParsedInv'
    BY <2>1 DEF IInv, TypeOK, LastInv, ParsedInv
  <2> QED BY <2>2 DEF IInv
<1>3. CASE UNCHANGED vars
  BY <1>3 DEF vars, IInv, TypeOK, LastInv, ParsedInv
<1> QED
  BY <1>1, <1>2, <1>3, AddressIInv, UsernameIInv, PasswordIInv, SocketIInv, NumberIInv,
     SwitchIInv, LookupIInv, ChecksIInv, OpenIInv
  DEF Next, Stopped

(* It always holds.                                                        *)
THEOREM Invariance == Spec => []IInv
<1>1. IInv /\ [Next]_vars => IInv'
  BY NextIInv
<1> QED BY <1>1, InitIInv, PTL DEF Spec

(* The type invariant.                                                     *)
THEOREM TypeCorrect == Spec => []TypeOK
<1>1. IInv => TypeOK
  BY DEF IInv
<1> QED BY <1>1, Invariance, PTL

(* Whatever the order of the options and however often they are given, an  *)
(* accepted configuration is the one the last option of each name asks     *)
(* for, and the socket that of the last path, cut to the room there is     *)
(* (smb_discover.c:196-284, 293-304, 379).                                 *)
THEOREM LastCounts == Spec => []LastOptionsCount
<1>1. IInv => LastOptionsCount
  <2> SUFFICES ASSUME IInv, pc \in {"accepted", "opened"} PROVE LastOptionsCount
    BY DEF LastOptionsCount
  <2>1. /\ ctx.daemonize \in BOOLEAN /\ ctx.tree \in BOOLEAN /\ ctx.lookup \in BOOLEAN
    BY DEF IInv, TypeOK, Contexts
  <2>2. TextsOf(ctx, seen) /\ ModesOf(ctx, seen) /\ Checked(ctx, seen)
    BY DEF IInv, ParsedInv
  <2>3. pc = "opened" =>
          sun_path = IF ctx.srv_path \in LongPaths THEN Cut[ctx.srv_path] ELSE ctx.srv_path
    BY DEF IInv, ParsedInv
  <2>4. /\ ctx.ipv4 = IF Places(seen, "A") = {} THEN "" ELSE Dotted[Last(seen, "A").text]
        /\ ctx.username = Last(seen, "U").text
        /\ ctx.srv_path = Last(seen, "K").text
        /\ ctx.workgroups = Last(seen, "L").text
        /\ ctx.timeout = IF Last(seen, "T").num < 0 THEN 0 ELSE Last(seen, "T").num
    BY <2>2 DEF TextsOf, AddressOf, TimeoutOf
  <2>5. /\ ctx.daemonize <=> Places(seen, "D") # {}
        /\ ctx.tree <=> Places(seen, "G") # {}
        /\ ctx.lookup <=> Places(seen, "L") # {}
    BY <2>1, <2>2 DEF ModesOf
  <2> QED BY <2>2, <2>3, <2>4, <2>5
          DEF LastOptionsCount, Checked, IsClient, LimitOf
<1> QED BY <1>1, Invariance, PTL

(* A configuration that is accepted has what its utility takes for granted *)
(* (util_nmblookup.c:152, util_smbclient.c:107, 281, 303).                 *)
THEOREM UsableAccepted == Spec => []AcceptedIsUsable
<1>1. Init => AcceptedIsUsable
  BY DEF Init, AcceptedIsUsable
<1>2. IInv /\ AcceptedIsUsable /\ [Next]_vars => AcceptedIsUsable'
  <2> SUFFICES ASSUME IInv, AcceptedIsUsable, [Next]_vars, pc' \in {"accepted", "opened"}
               PROVE  AcceptedIsUsable'
    BY DEF AcceptedIsUsable
  <2>0. ctx \in Contexts
    BY DEF IInv, TypeOK
  <2>1. CASE CheckTree
    BY <2>1 DEF CheckTree, AcceptedIsUsable
  <2>2. CASE CheckLookup
    <3>1. pc = "check" /\ ctx' = ctx /\ ctx.workgroups # "" /\ ctx.lookup
      BY <2>2 DEF CheckLookup
    <3>2. ctx.workgroups \in NameLists
      BY <3>1 DEF IInv, ParsedInv, TextsOf
    <3> QED BY <3>1, <3>2 DEF AcceptedIsUsable
  <2>3. CASE CheckClient
    <3>1. /\ ctx'.ipv4 \in {Dotted[a] : a \in Addresses} /\ ctx'.lookup = FALSE
          /\ ctx'.username = "" => ctx'.password = ""
      BY <2>0, <2>3 DEF CheckClient, Contexts
    <3>2. ctx'.max_dir > 0
      <4>1. ctx'.max_dir = IF ctx.max_dir = 0 THEN 50 ELSE ctx.max_dir
        BY <2>0, <2>3 DEF CheckClient, Contexts
      <4>2. ctx.max_dir \in Nat
        <5>1. ctx.max_dir \in 0..SizeValues - 1 \cup {50}
          BY <2>0 DEF Contexts
        <5> QED BY <5>1, NumbersAre
      <4> QED BY <4>1, <4>2
    <3> QED BY <3>1, <3>2 DEF AcceptedIsUsable
  <2>4. CASE OpenSocket
    BY <2>4 DEF OpenSocket, AcceptedIsUsable
  <2>5. CASE UNCHANGED vars
    BY <2>5 DEF vars, AcceptedIsUsable
  <2> QED
    BY <2>1, <2>2, <2>3, <2>4, <2>5
    DEF Next, Stopped, Address, Username, Password, Socket, Timeout, MaxDirs, Switch,
        Lookup, BadOption, OptionsEnd, CheckClientFails, Proceed, ParseError
<1> QED BY <1>1, <1>2, Invariance, PTL DEF Spec
=============================================================================
