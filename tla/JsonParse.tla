----------------------------- MODULE JsonParse -----------------------------
(***************************************************************************)
(* The parser and cJSON_Minify() of cJSON.c.  A pointer into the text is a *)
(* position; the result of parsing is the position behind what was parsed, *)
(* or Null, the item as far as it was filled -- cJSON_Delete() has to free *)
(* it after a failure --, what *ep was set to (0 is the null pointer), and *)
(* the memory.                                                             *)
(***************************************************************************)
EXTENDS JsonValue

Parsed(at, item, m) == [at |-> at, item |-> item, ep |-> 0, mem |-> m]
Failed(ep, item, m) == [at |-> Null, item |-> item, ep |-> ep, mem |-> m]

(* The first position from i on whose byte is in no run of Skipped bytes.  *)
Past(t, i, Skipped(_)) ==
  CHOOSE j \in i..Len(t) + 1 : /\ ~Skipped(At(t, j))
                               /\ \A k \in i..j - 1 : Skipped(At(t, k))

Skip(t, i) == Past(t, i, LAMBDA c : c \in 1..32)
StartsWith(t, i, s) == \A k \in 1..Len(s) : At(t, i + k - 1) = Bytes(s)[k]
Is(t, i, c) == At(t, i) = Code[c]

-----------------------------------------------------------------------------
(* parse_number().                                                         *)

RECURSIVE Natural(_)
(* The number that a sequence of digits denotes.                           *)
Natural(digits) ==
  IF digits = <<>> THEN 0 ELSE 10 * Natural(Front(digits)) + Last(digits) - Code["0"]

(* The number without the zeros at its end.                                *)
Significant(digits) ==
  SubSeq(digits, 1, CHOOSE k \in 0..Len(digits) :
    /\ k = 0 \/ digits[k] # Code["0"]
    /\ \A j \in k + 1..Len(digits) : digits[j] = Code["0"])

(* Where the digits before the point, the fraction and the exponent end.   *)
Whole(t, i) == IF At(t, i) \in Code["1"]..Code["9"] THEN Past(t, i, IsDigit) ELSE i
Fraction(t, i) == IF Is(t, i, ".") /\ IsDigit(At(t, i + 1)) THEN Past(t, i + 1, IsDigit) ELSE i
IsSign(c) == c \in {Code["+"], Code["-"]}
Power(t, i) == IF IsSign(At(t, i + 1)) THEN i + 2 ELSE i + 1
Exponent(t, i) ==
  IF At(t, i) \in {Code["e"], Code["E"]} THEN Past(t, Power(t, i), IsDigit) ELSE i

(* The digits as one number, times pow(10.0, power - places), which is 0   *)
(* below the smallest double.  No digit is lost in a number of that many.  *)
Scaled(digits, places, power) ==
  LET known == Significant(digits)
      zeros == IF known = <<>> THEN 0 ELSE Len(digits) - Len(known)
  IN  IF power - places < -323 THEN Num(0, 0)
      ELSE Num(Natural(known), power - places + zeros)

(* The number whose digits start at position start, and whose parts end at *)
(* those positions.                                                        *)
NumberOf(t, start, point, tail, end) ==
  Scaled(SubSeq(t, start, point - 1) \o SubSeq(t, point + 1, tail - 1),
         IF tail > point THEN tail - point - 1 ELSE 0,
         IF end = tail THEN 0
         ELSE (IF Is(t, tail + 1, "-") THEN -1 ELSE 1)
                * Natural(SubSeq(t, Power(t, tail), end - 1)))

ScannedTo(t, start, point, tail) ==
  [at |-> Exponent(t, tail), num |-> NumberOf(t, start, point, tail, Exponent(t, tail))]
Scanned(t, start, point) == ScannedTo(t, start, point, Fraction(t, point))

WithNumber(r, sign, item, m) ==
  Parsed(r.at, [item EXCEPT !.type = "number", !.mant = sign * r.num.mant, !.exp = r.num.exp], m)

(* A leading zero is passed over, other digits may follow it; a sign       *)
(* without digits is the number 0.                                         *)
Start(t, i) == IF Is(t, i, "0") THEN i + 1 ELSE i
ParseNumber(t, i, item, m) ==
  IF Is(t, i, "-")
    THEN WithNumber(Scanned(t, Start(t, i + 1), Whole(t, Start(t, i + 1))), -1, item, m)
    ELSE WithNumber(Scanned(t, Start(t, i), Whole(t, Start(t, i))), 1, item, m)

-----------------------------------------------------------------------------
(* parse_string().                                                         *)

HexValue ==
  [c \in {Code[d] : d \in {"0", "1", "2", "3", "4", "5", "6", "7", "8", "9"}} |-> c - Code["0"]]
    @@ [c \in Code["A"]..Code["F"] |-> c - Code["A"] + 10]
    @@ [c \in Code["a"]..Code["f"] |-> c - Code["a"] + 10]

(* parse_hex4(): 0 for anything that is not four hexadecimal digits.       *)
Hex4(t, i) ==
  LET digit(k) == HexValue[At(t, i + k)]
  IN  IF \A k \in 0..3 : At(t, i + k) \in DOMAIN HexValue
        THEN ((digit(0) * 16 + digit(1)) * 16 + digit(2)) * 16 + digit(3) ELSE 0

(* Mutant of UTF8: three bytes only from 0x1000 on.                        *)
UTF8TwoBytesTooLong(uc) ==
  LET Low(k) == 128 + ((uc \div 64^k) % 64)
  IN  CASE uc < 128 -> <<uc>>
        [] uc >= 128 /\ uc < 4096 -> <<192 + uc \div 64, Low(0)>>
        [] uc >= 4096 /\ uc < 65536 -> <<224 + uc \div 64^2, Low(1), Low(0)>>
        [] uc >= 65536 -> <<240 + uc \div 64^3, Low(2), Low(1), Low(0)>>

UTF8(uc) ==
  LET Low(k) == 128 + ((uc \div 64^k) % 64)
  IN  CASE uc < 128 -> <<uc>>
        [] uc >= 128 /\ uc < 2048 -> <<192 + uc \div 64, Low(0)>>
        [] uc >= 2048 /\ uc < 65536 -> <<224 + uc \div 64^2, Low(1), Low(0)>>
        [] uc >= 65536 -> <<240 + uc \div 64^3, Low(2), Low(1), Low(0)>>

RECURSIVE StringEnd(_, _, _)
(* The end of a string -- its quotation mark or the end of the text -- and *)
(* the number of rounds to it; Null after a backslash that comes last.     *)
StringEnd(t, i, len) ==
  IF At(t, i) \in {Quote, NUL} THEN [at |-> i, len |-> len]
  ELSE IF At(t, i) # Backslash THEN StringEnd(t, i + 1, len + 1)
  ELSE IF At(t, i + 1) = NUL THEN [at |-> Null, len |-> len + 1]
  ELSE StringEnd(t, i + 2, len + 1)

Unescape ==
  (Code["b"] :> 8) @@ (Code["f"] :> 12) @@ (Code["n"] :> LF) @@ (Code["r"] :> CR)
    @@ (Code["t"] :> TAB)

Surrogates(high, low) == 65536 + (high % 1024) * 1024 + (low % 1024)

(* Mutant of CodePoint: \u0000 is accepted.                                *)
CodePointOrNUL(t, i, end, uc) ==
  IF i + 4 >= end \/ uc \in 56320..57343 THEN [at |-> Null]
  ELSE IF uc \notin 55296..56319 THEN [at |-> i + 4, uc |-> uc]
  ELSE IF /\ i + 10 <= end /\ StartsWith(t, i + 5, "\\u")
          /\ Hex4(t, i + 7) \in 56320..57343
    THEN [at |-> i + 10, uc |-> Surrogates(uc, Hex4(t, i + 7))]
  ELSE [at |-> Null]

(* The \u escape whose u is at position i and whose value is uc: the code  *)
(* point and the position of the last digit, or Null.                      *)
CodePoint(t, i, end, uc) ==
  IF i + 4 >= end \/ uc = 0 \/ uc \in 56320..57343 THEN [at |-> Null]
  ELSE IF uc \notin 55296..56319 THEN [at |-> i + 4, uc |-> uc]
  ELSE IF /\ i + 10 <= end /\ StartsWith(t, i + 5, "\\u")
          /\ Hex4(t, i + 7) \in 56320..57343
    THEN [at |-> i + 10, uc |-> Surrogates(uc, Hex4(t, i + 7))]
  ELSE [at |-> Null]

(* What the escape with c behind its backslash at position i stands for,   *)
(* and the position of its last character.                                 *)
Escape(t, i, end, c) ==
  IF c = Code["u"] THEN CodePoint(t, i + 1, end, Hex4(t, i + 2))
  ELSE [at |-> i + 1, uc |-> IF c \in DOMAIN Unescape THEN Unescape[c] ELSE c]

Decoded(c, uc) == IF c = Code["u"] THEN UTF8(uc) ELSE <<uc>>

RECURSIVE Unescaped(_, _, _, _)
(* The bytes of positions i to end - 1, behind those in out; Null if an    *)
(* escape is invalid.                                                      *)
Unescaped(t, i, end, out) ==
  LET escape == Escape(t, i, end, At(t, i + 1))
      escaped == At(t, i) = Backslash
  IN  IF i >= end THEN out
      ELSE IF escaped /\ escape.at = Null THEN Null
      ELSE Unescaped(t, IF escaped THEN escape.at + 1 ELSE i + 1, end,
                     out \o IF escaped THEN Decoded(At(t, i + 1), escape.uc) ELSE <<At(t, i)>>)

(* The characters go into a block for len bytes and a NUL.                 *)
WithString(t, i, item, end, out, m) ==
  IF ~Grants(m) THEN Failed(0, item, Malloc(m))
  ELSE IF out = Null THEN Failed(i, [item EXCEPT !.type = "string", !.str = <<>>], Malloc(m))
  ELSE Parsed(IF At(t, end.at) = Quote THEN end.at + 1 ELSE end.at,
              [item EXCEPT !.type = "string", !.str = out],
              Check(Malloc(m), Len(out) <= end.len))

StringTo(t, i, item, end, m) ==
  IF end.at = Null THEN Failed(0, item, m)
  ELSE WithString(t, i, item, end, Unescaped(t, i + 1, end.at, <<>>), m)

(* The string may end with the text: the quotation mark is not required.   *)
(* A backslash at the end and a failed allocation leave *ep alone.         *)
ParseString(t, i, item, m) ==
  IF At(t, i) # Quote THEN Failed(i, item, m)
  ELSE StringTo(t, i, item, StringEnd(t, i + 1, 0), m)

-----------------------------------------------------------------------------
(* parse_value(), parse_array(), parse_object().                           *)

RECURSIVE ParseValue(_, _, _, _), ParseElements(_, _, _, _), ParseMembers(_, _, _, _)

Words == {"null", "false", "true"}

WithKid(item, kid) == [item EXCEPT !.kids = Append(@, kid)]

(* What follows the item r of an array, at position next.                  *)
AfterElement(t, item, r, next) ==
  IF r.at = Null THEN Failed(r.ep, item, r.mem)
  ELSE IF Is(t, next, ",") THEN ParseElements(t, next + 1, item, r.mem)
  ELSE IF Is(t, next, "]") THEN Parsed(next + 1, item, r.mem)
  ELSE Failed(next, item, r.mem)

Element(t, item, r) == AfterElement(t, WithKid(item, r.item), r, Skip(t, r.at))

(* Position i is behind the opening bracket or a comma.                    *)
ParseElements(t, i, item, m) ==
  IF ~Grants(m) THEN Failed(0, item, Malloc(m))
  ELSE Element(t, item, ParseValue(t, Skip(t, i), Blank, Malloc(m)))

AfterMember(t, item, r, next) ==
  IF r.at = Null THEN Failed(r.ep, item, r.mem)
  ELSE IF Is(t, next, ",") THEN ParseMembers(t, next + 1, item, r.mem)
  ELSE IF Is(t, next, "}") THEN Parsed(next + 1, item, r.mem)
  ELSE Failed(next, item, r.mem)

Member(t, item, r) == AfterMember(t, WithKid(item, r.item), r, Skip(t, r.at))

(* The string just parsed is the key of the item, and its value follows.   *)
AfterName(t, item, kid, colon, m) ==
  IF ~Is(t, colon, ":") THEN Failed(colon, WithKid(item, kid), m)
  ELSE Member(t, item, ParseValue(t, Skip(t, colon + 1), kid, m))

Named(t, item, name) ==
  IF name.at = Null THEN Failed(name.ep, WithKid(item, name.item), name.mem)
  ELSE AfterName(t, item, [name.item EXCEPT !.key = name.item.str, !.str = Null],
                 Skip(t, name.at), name.mem)

ParseMembers(t, i, item, m) ==
  IF ~Grants(m) THEN Failed(0, item, Malloc(m))
  ELSE Named(t, item, ParseString(t, Skip(t, i), Blank, Malloc(m)))

ParseArray(t, i, item, m) ==
  LET array == [item EXCEPT !.type = "array"]
      first == Skip(t, i + 1)
  IN  IF Is(t, first, "]") THEN Parsed(first + 1, array, m)
      ELSE ParseElements(t, first, array, m)

ParseObject(t, i, item, m) ==
  LET object == [item EXCEPT !.type = "object"]
      first == Skip(t, i + 1)
  IN  IF Is(t, first, "}") THEN Parsed(first + 1, object, m)
      ELSE ParseMembers(t, first, object, m)

ParseValue(t, i, item, m) ==
  CASE \E w \in Words : StartsWith(t, i, w) ->
         LET w == CHOOSE w \in Words : StartsWith(t, i, w)
         IN  Parsed(i + Len(w), [item EXCEPT !.type = w], m)
    [] At(t, i) = Quote -> ParseString(t, i, item, m)
    [] Is(t, i, "-") \/ IsDigit(At(t, i)) -> ParseNumber(t, i, item, m)
    [] Is(t, i, "[") -> ParseArray(t, i, item, m)
    [] Is(t, i, "{") -> ParseObject(t, i, item, m)
    [] OTHER -> Failed(i, item, m)

(* The end of cJSON_ParseWithOpts(); whole is require_null_terminated.     *)
(* What was built is deleted if it fails.                                  *)
Root(t, whole, r, end) ==
  IF r.at = Null THEN Failed(r.ep, Null, Free(r.mem, Blocks(r.item)))
  ELSE IF whole /\ At(t, end) # NUL THEN Failed(end, Null, Free(r.mem, Blocks(r.item)))
  ELSE Parsed(end, r.item, r.mem)

RootFrom(t, whole, r) == Root(t, whole, r, IF whole THEN Skip(t, r.at) ELSE r.at)

ParseWithOpts(t, whole, m) ==
  IF ~Grants(m) THEN Failed(0, Null, Malloc(m))
  ELSE RootFrom(t, whole, ParseValue(t, Skip(t, 1), Blank, Malloc(m)))

-----------------------------------------------------------------------------
(* Mutant of Blanks: tabs stay.                                            *)
BlanksButTabs == {Space, CR, LF}

Blanks == {Space, TAB, CR, LF}

RECURSIVE Minified(_, _)
(* cJSON_Minify() from position i on: without blanks and comments.  Null   *)
(* if a string or comment does not end: the code then leaves the text.     *)
Minified(t, i) ==
  LET c == At(t, i)
      Behind(j, s) == LET rest == Minified(t, j) IN IF rest = Null THEN Null ELSE s \o rest
      end == StringEnd(t, i + 1, 0).at
      stars == {j \in i..Len(t) : StartsWith(t, j, "*/")}
  IN  IF c = NUL THEN <<>>
      ELSE IF c \in Blanks THEN Minified(t, i + 1)
      ELSE IF StartsWith(t, i, "//") THEN Minified(t, Past(t, i, LAMBDA d : d \notin {LF, NUL}))
      ELSE IF StartsWith(t, i, "/*")
        THEN IF stars = {} THEN Null
             ELSE Minified(t, 2 + CHOOSE j \in stars : \A k \in stars : j <= k)
      ELSE IF c # Quote THEN Behind(i + 1, <<c>>)
      ELSE IF end = Null THEN Null
      ELSE IF At(t, end) = NUL THEN Null
      ELSE Behind(end + 1, SubSeq(t, i, end))
=============================================================================
