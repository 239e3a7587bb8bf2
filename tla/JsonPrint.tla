----------------------------- MODULE JsonPrint -----------------------------
(***************************************************************************)
(* The printer of cJSON.c.  print_value() without a printbuffer gives      *)
(* every piece a block of its own, of a size computed beforehand, and      *)
(* puts the pieces together (PrintValue).  With a printbuffer it writes    *)
(* into one block that is replaced when it becomes too small (PutValue).   *)
(* Room is what the code asks for, independently of what it then writes.   *)
(***************************************************************************)
EXTENDS JsonValue

INT_MAX == 2147483647
Digits(n) == Bytes(ToString(n))
Repeat(k, c) == [i \in 1..k |-> c]
Tabs(k) == Repeat(k, TAB)
When(p, s) == IF p THEN s ELSE <<>>

-----------------------------------------------------------------------------
(* print_number().                                                         *)

Size(v) == Abs(v.mant)
Sign(v) == When(v.mant < 0, Bytes("-"))

(* d equals (int)d up to DBL_EPSILON: it is an int, or next to 0.  With    *)
(* ten digits a number cannot be as near to any other int.                 *)
IsInt(v) ==
  \/ v.exp \in 0..9 /\ Size(v) <= INT_MAX \div 10^v.exp
  \/ Tiny(v)

Rounded(n, k) == IF k <= 0 THEN n * 10^(-k) ELSE (n + 5 * 10^(k - 1)) \div 10^k
Padded(n, width) == Bytes(SubSeq(ToString(10^width + n), 2, width + 1))
Decimals(n) == Digits(n \div 10^6) \o Bytes(".") \o Padded(n % 10^6, 6)

(* %f and %e.                                                              *)
Fixed(v) == Sign(v) \o Decimals(Rounded(Size(v), -6 - v.exp))
Scientific(v) ==
  LET r == Rounded(Size(v), Lead(v) - v.exp - 6)
      carried == r = 10^7
      e == IF carried THEN Lead(v) + 1 ELSE Lead(v)
      size == IF e < 0 THEN -e ELSE e
  IN  Sign(v) \o Decimals(IF carried THEN 10^6 ELSE r)
        \o Bytes(IF e < 0 THEN "e-" ELSE "e+")
        \o IF size < 100 THEN Padded(size, 2) ELSE Digits(size)

NumberText(v) ==
  IF IsZero(v) THEN Bytes("0")
  ELSE IF IsInt(v) THEN Digits(IF v.exp < 0 THEN 0 ELSE v.mant * 10^v.exp)
  ELSE IF ~IsFinite(v) THEN Bytes("null")
  ELSE IF v.exp >= 0 /\ Lead(v) < 60 THEN Digits(v.mant) \o Repeat(v.exp, Code["0"])
  ELSE IF Lead(v) < -6 \/ Lead(v) >= 9 THEN Scientific(v)
  ELSE Fixed(v)

NumberRoom(v) == IF IsZero(v) THEN 2 ELSE IF IsInt(v) THEN 21 ELSE 64

-----------------------------------------------------------------------------
(* print_string_ptr().                                                     *)

Short ==
  (Quote :> Quote) @@ (Backslash :> Backslash) @@ (8 :> Code["b"]) @@ (12 :> Code["f"])
    @@ (LF :> Code["n"]) @@ (CR :> Code["r"]) @@ (TAB :> Code["t"])

Hex == Bytes("0123456789abcdef")

Escaped(c) ==
  IF c \in DOMAIN Short THEN <<Backslash, Short[c]>>
  ELSE IF c < 32 THEN Bytes("\\u00") \o <<Hex[c \div 16 + 1], Hex[(c % 16) + 1]>>
  ELSE <<c>>

Quoted(s) == <<Quote>> \o s \o <<Quote>>
StringText(s) ==
  Quoted(IF s = Null THEN <<>> ELSE FlattenSeq([i \in DOMAIN s |-> Escaped(s[i])]))

(* The two quotation marks, the NUL, and what the counting loop finds.     *)
StringRoom(s) ==
  LET Extra(c) == IF c \in DOMAIN Short THEN 1 ELSE IF c < 32 THEN 5 ELSE 0
      count[i \in 0..Len(s)] == IF i = 0 THEN 0 ELSE count[i - 1] + 1 + Extra(s[i])
  IN  3 + IF s = Null THEN 0 ELSE count[Len(s)]

-----------------------------------------------------------------------------
(* What has no items in it.                                                *)

Room(v) ==
  CASE v.type \in {"null", "true"} -> 5
    [] v.type = "false" -> 6
    [] v.type = "number" -> NumberRoom(v)
    [] v.type = "string" -> StringRoom(v.str)

ScalarText(v) ==
  CASE v.type \in {"null", "true", "false"} -> Bytes(v.type)
    [] v.type = "number" -> NumberText(v)
    [] v.type = "string" -> StringText(v.str)

EmptyObject(depth, fmt) == Bytes("{") \o When(fmt, <<LF>> \o Tabs(depth)) \o Bytes("}")
EmptyObjectRoom(depth, fmt) == IF fmt THEN depth + 4 ELSE 3

Comma(fmt) == Bytes(IF fmt THEN ", " ELSE ",")
Colon(fmt) == Bytes(":") \o When(fmt, <<TAB>>)

-----------------------------------------------------------------------------
(* Without a buffer.  A result is a text, or Null, and the memory.         *)

(* A new block of that size, filled with the text.                         *)
Filled(m, size, text) ==
  [text |-> IF Grants(m) THEN text ELSE Null,
   mem |-> Check(Malloc(m), Grants(m) => Len(text) < size)]

RECURSIVE PrintValue(_, _, _, _)

(* The pieces printed so far: of an array its entries, of an object names  *)
(* and entries by turns.  After a failure no further item is printed.      *)
NoPieces(m) == [texts |-> <<>>, failed |-> FALSE, mem |-> m]
Piece(got, r) ==
  [texts |-> IF r.text = Null THEN got.texts ELSE Append(got.texts, r.text),
   failed |-> got.failed \/ r.text = Null, mem |-> r.mem]

TotalLen(texts) == Len(FlattenSeq(texts))

(* Mutant of Gathered: on failure the entries themselves are not freed.    *)
GatheredLeaking(got, tables, room, text) ==
  LET r == IF got.failed THEN [text |-> Null, mem |-> got.mem]
           ELSE Filled(got.mem, room, text)
  IN  [r EXCEPT !.mem = Free(@, tables + IF r.text = Null THEN 0 ELSE Len(got.texts))]

(* The end of print_array() and print_object(): one block for the whole,   *)
(* if all went well so far; the pieces and the tables of them are freed.   *)
Gathered(got, tables, room, text) ==
  LET r == IF got.failed THEN [text |-> Null, mem |-> got.mem]
           ELSE Filled(got.mem, room, text)
  IN  [r EXCEPT !.mem = Free(@, tables + Len(got.texts))]

PrintArray(v, depth, fmt, m) ==
  LET n == Len(v.kids)
      Entry(got, i) ==
        IF got.failed THEN got
        ELSE Piece(got, PrintValue(v.kids[i], depth + 1, fmt, got.mem))
      got == FoldLeftDomain(Entry, NoPieces(Malloc(m)), v.kids)
      room == 5 + TotalLen(got.texts) + n * (IF fmt THEN 3 ELSE 2)
      Body(i) == got.texts[i] \o When(i < n, Comma(fmt))
  IN  IF n = 0 THEN Filled(m, 3, Bytes("[]"))
      ELSE IF ~Grants(m) THEN [text |-> Null, mem |-> Malloc(m)]
      ELSE Gathered(got, 1, room,
             Bytes("[") \o FlattenSeq([i \in 1..n |-> Body(i)]) \o Bytes("]"))

(* Mutant of ObjectRoom: the tabs before each name are forgotten.          *)
ObjectRoomUnindented(texts, n, inner, fmt) ==
  7 + TotalLen(texts) + (IF fmt THEN inner + n * 4 ELSE n * 2)

ObjectRoom(texts, n, inner, fmt) ==
  7 + TotalLen(texts) + (IF fmt THEN inner + n * (4 + inner) ELSE n * 2)

(* The name and the value of an item are both printed, even if the name    *)
(* could not be.                                                           *)
PrintObject(v, depth, fmt, m) ==
  LET n == Len(v.kids)
      inner == depth + 1
      m1 == Malloc(m)
      m2 == Malloc(m1)
      Entry(got, i) ==
        IF got.failed THEN got
        ELSE LET name == Piece(got, Filled(got.mem, StringRoom(v.kids[i].key),
                                           StringText(v.kids[i].key)))
             IN  Piece(name, PrintValue(v.kids[i], inner, fmt, name.mem))
      got == FoldLeftDomain(Entry, NoPieces(m2), v.kids)
      Body(i) ==
        When(fmt, Tabs(inner)) \o got.texts[2 * i - 1] \o Colon(fmt) \o got.texts[2 * i]
          \o When(i < n, Bytes(",")) \o When(fmt, <<LF>>)
  IN  IF n = 0 THEN Filled(m, EmptyObjectRoom(depth, fmt), EmptyObject(depth, fmt))
      ELSE IF ~Grants(m) THEN [text |-> Null, mem |-> m1]
      ELSE IF ~Grants(m1) THEN [text |-> Null, mem |-> Free(m2, 1)]
      ELSE Gathered(got, 2, ObjectRoom(got.texts, n, inner, fmt),
             Bytes("{") \o When(fmt, <<LF>>) \o FlattenSeq([i \in 1..n |-> Body(i)])
               \o When(fmt, Tabs(depth)) \o Bytes("}"))

PrintValue(v, depth, fmt, m) ==
  CASE v.type = "array" -> PrintArray(v, depth, fmt, m)
    [] v.type = "object" -> PrintObject(v, depth, fmt, m)
    [] OTHER -> Filled(m, Room(v), ScalarText(v))

-----------------------------------------------------------------------------
(* With a printbuffer p.  Its length is the length of the sequence; Fresh  *)
(* is a byte that nobody has written.  Once ensure() has failed the buffer *)
(* is Null, every function returns and nothing is done any more.           *)

Fresh == -1
Buffer(size, m) == [buffer |-> Repeat(size, Fresh), offset |-> 0, mem |-> m]

(* The smallest power of two from x on; overflow is out of bounds.         *)
Pow2gt(x) == 2^(CHOOSE k \in 0..30 : x <= 2^k /\ (k = 0 \/ 2^(k - 1) < x))

Ensure(p, needed) ==
  LET total == p.offset + needed
  IN  IF p.buffer = Null \/ total <= Len(p.buffer) THEN p
      ELSE [p EXCEPT !.buffer = IF Grants(p.mem)
                                  THEN @ \o Repeat(Pow2gt(total) - Len(@), Fresh) ELSE Null,
                     !.mem = Free(Malloc(@), 1)]

(* Ask for room, write the bytes at the offset and move the offset.        *)
Put(p, needed, bytes, ahead) ==
  LET q == Ensure(p, needed)
      end == q.offset + Len(bytes)
      Written(i) == IF i \in q.offset + 1..end THEN bytes[i - q.offset] ELSE q.buffer[i]
  IN  IF q.buffer = Null THEN q
      ELSE [buffer |-> [i \in 1..Len(q.buffer) |-> Written(i)],
            offset |-> q.offset + ahead,
            mem |-> Check(q.mem, end <= Len(q.buffer))]

Terminated(s) == s \o <<NUL>>

(* Where the text that starts at the offset ends.                          *)
EndOf(p) ==
  CHOOSE k \in p.offset..Len(p.buffer) :
    /\ k = Len(p.buffer) \/ p.buffer[k + 1] \in {NUL, Fresh}
    /\ \A j \in p.offset..k - 1 : p.buffer[j + 1] \notin {NUL, Fresh}

(* p->offset = update(p).                                                  *)
Update(p) ==
  IF p.buffer = Null THEN [p EXCEPT !.offset = 0]
  ELSE [p EXCEPT !.offset = EndOf(p),
                 !.mem = Check(@, EndOf(p) < Len(p.buffer) /\ p.buffer[EndOf(p) + 1] = NUL)]

RECURSIVE PutValue(_, _, _, _)

PutArray(v, depth, fmt, p) ==
  LET n == Len(v.kids)
      Entry(q, i) ==
        LET r == Update(PutValue(v.kids[i], depth + 1, fmt, q))
            len == Len(Comma(fmt))
        IN  IF i = n THEN r ELSE Put(r, len + 1, Terminated(Comma(fmt)), len)
  IN  IF n = 0 THEN Put(p, 3, Terminated(Bytes("[]")), 0)
      ELSE Put(FoldLeftDomain(Entry, Put(p, 1, Bytes("["), 1), v.kids),
               2, Terminated(Bytes("]")), 0)

PutObject(v, depth, fmt, p) ==
  LET n == Len(v.kids)
      inner == depth + 1
      opening == Bytes("{") \o When(fmt, <<LF>>)
      Entry(q, i) ==
        LET key == v.kids[i].key
            ending == When(i < n, Bytes(",")) \o When(fmt, <<LF>>)
            tabbed == IF fmt THEN Put(q, inner, Tabs(inner), inner) ELSE q
            named == Update(Put(tabbed, StringRoom(key), Terminated(StringText(key)), 0))
            split == Put(named, Len(Colon(fmt)), Colon(fmt), Len(Colon(fmt)))
            valued == Update(PutValue(v.kids[i], inner, fmt, split))
        IN  Put(valued, Len(ending) + 1, Terminated(ending), Len(ending))
  IN  IF n = 0 THEN Put(p, EmptyObjectRoom(depth, fmt), Terminated(EmptyObject(depth, fmt)), 0)
      ELSE Put(FoldLeftDomain(Entry, Put(p, Len(opening) + 1, Terminated(opening), Len(opening)),
                              v.kids),
               IF fmt THEN inner + 1 ELSE 2,
               Terminated(When(fmt, Tabs(depth)) \o Bytes("}")), 0)

PutValue(v, depth, fmt, p) ==
  CASE v.type = "array" -> PutArray(v, depth, fmt, p)
    [] v.type = "object" -> PutObject(v, depth, fmt, p)
    [] OTHER -> Put(p, Room(v), Terminated(ScalarText(v)), 0)

(* cJSON_Print(), cJSON_PrintUnformatted().                                *)
PrintWhole(v, fmt, m) == PrintValue(v, 0, fmt, m)

(* cJSON_PrintBuffered(); the result is the buffer, read as a string.      *)
PrintBuffered(v, prebuffer, fmt, m) ==
  LET p == PutValue(v, 0, fmt, Buffer(prebuffer, Malloc(m)))
      end == EndOf([p EXCEPT !.offset = 0])
  IN  IF ~Grants(m) THEN [text |-> Null, mem |-> Malloc(m)]
      ELSE [text |-> IF p.buffer = Null THEN Null ELSE SubSeq(p.buffer, 1, end),
            mem |-> p.mem]
=============================================================================
