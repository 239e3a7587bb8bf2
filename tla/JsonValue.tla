----------------------------- MODULE JsonValue -----------------------------
(***************************************************************************)
(* What the printer and the parser of cJSON.c work on: texts, which are    *)
(* sequences of bytes without the terminating NUL, the items of a JSON     *)
(* document, and the allocator, one of whose calls may fail.               *)
(*                                                                         *)
(* A number is mant * 10^exp.  That doubles are binary is left out; that   *)
(* they have an end is not.                                                *)
(***************************************************************************)
EXTENDS Integers, SequencesExt, TLC

CONSTANT Null   (* the null pointer                                        *)

Printable == " !\"#$%&'()*+,-./0123456789:;<=>?@ABCDEFGHIJKLMNOPQRSTUVWXYZ[\\]^_"
Lower == "abcdefghijklmnopqrstuvwxyz{|}~"

CodeIn(s, first) ==
  [c \in {SubSeq(s, i, i) : i \in 1..Len(s)} |->
     first - 1 + CHOOSE i \in 1..Len(s) : SubSeq(s, i, i) = c]
Code == CodeIn(Printable, 32) @@ CodeIn(Lower, 97)

(* The text that a string literal of the C source stands for.              *)
Bytes(s) == [i \in 1..Len(s) |-> Code[SubSeq(s, i, i)]]

NUL == 0   TAB == 9   LF == 10   CR == 13   Space == 32
Quote == Code["\""]
Backslash == Code["\\"]
IsDigit(c) == c \in Code["0"]..Code["9"]

(* The byte at position i of text t; position Len(t) + 1 holds the NUL.    *)
At(t, i) == IF i <= Len(t) THEN t[i] ELSE NUL

-----------------------------------------------------------------------------
(* Items: key and str are texts on the heap of their own.                  *)

Blank == [type |-> "none", key |-> Null, str |-> Null, mant |-> 0, exp |-> 0,
          kids |-> <<>>]

Plain(type) == [Blank EXCEPT !.type = type]
Str(s) == [Plain("string") EXCEPT !.str = s]
Arr(kids) == [Plain("array") EXCEPT !.kids = kids]
Obj(kids) == [Plain("object") EXCEPT !.kids = kids]
Keyed(key, v) == [v EXCEPT !.key = key]

Abs(n) == IF n < 0 THEN -n ELSE n
Places(v) == Len(ToString(Abs(v.mant)))
Lead(v) == Places(v) - 1 + v.exp   (* the exponent of the first digit      *)
Nine(v) ==                         (* the first nine digits                *)
  IF Places(v) <= 9 THEN Abs(v.mant) * 10^(9 - Places(v))
  ELSE Abs(v.mant) \div 10^(Places(v) - 9)

(* Is |v| above DBL_MAX, 1.797...e308, or up to DBL_EPSILON, 2.220...e-16? *)
TooLarge(v) == Lead(v) > 308 \/ (Lead(v) = 308 /\ Nine(v) > 179769313)
Tiny(v) == Lead(v) < -16 \/ (Lead(v) = -16 /\ Nine(v) <= 222044604)

(* Every number has one form: 0, a mantissa that does not end in 0, or     *)
(* plus or minus infinity and NaN (0 times infinity), 1, -1 and 0 with the *)
(* exponent 309.                                                           *)
Num(mant, exp) ==
  LET zeros == CHOOSE k \in 0..9 : /\ mant % 10^k = 0
                                   /\ k = 9 \/ mant % 10^(k + 1) # 0
      Number(m, e) == [Plain("number") EXCEPT !.mant = m, !.exp = e]
      v == Number(mant \div 10^zeros, exp + zeros)
  IN  IF mant = 0 THEN Number(0, IF exp > 308 THEN 309 ELSE 0)
      ELSE IF TooLarge(v) THEN Number(IF mant < 0 THEN -1 ELSE 1, 309) ELSE v

IsZero(v) == v.mant = 0 /\ v.exp = 0
IsFinite(v) == v.exp # 309

RECURSIVE Blocks(_)
(* The blocks that cJSON_Delete(v) frees.                                  *)
Blocks(v) ==
  LET inside[i \in 0..Len(v.kids)] ==
        IF i = 0 THEN 0 ELSE inside[i - 1] + Blocks(v.kids[i])
  IN  1 + (IF v.str = Null THEN 0 ELSE 1) + (IF v.key = Null THEN 0 ELSE 1)
        + inside[Len(v.kids)]

-----------------------------------------------------------------------------
(* The allocator during one operation: the number of the call that fails   *)
(* (0 for none), the calls so far, the blocks the operation now holds, and *)
(* whether all it wrote and read lay inside what it had allocated and      *)
(* written.                                                                *)

Memory(fail) == [fail |-> fail, calls |-> 0, held |-> 0, sound |-> TRUE]

Grants(m) == m.calls + 1 # m.fail
Malloc(m) == [m EXCEPT !.calls = @ + 1, !.held = IF Grants(m) THEN @ + 1 ELSE @]
Free(m, n) == [m EXCEPT !.held = @ - n]
Check(m, ok) == [m EXCEPT !.sound = @ /\ ok]
=============================================================================
