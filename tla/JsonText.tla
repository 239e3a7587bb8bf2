------------------------------ MODULE JsonText ------------------------------
(***************************************************************************)
(* A document on its way between a cJSON item and a text: printed by       *)
(* either strategy, minified, parsed back, printed again, with an          *)
(* allocation failing at any point of any of these operations.  It starts  *)
(* as an item that a program has built, as a text that somebody else has   *)
(* written, or as the report of _report_self_to_server(), which the        *)
(* program writes without cJSON.                                           *)
(***************************************************************************)
EXTENDS JsonPrint, JsonParse

CONSTANTS
  Unread,      (* the meaning of a text nobody has read yet                *)
  Documents,   (* items that a program has built                           *)
  KnownTexts,  (* texts with their meaning; Null if they are not accepted  *)
  Commented,   (* texts with comments and the meaning of the rest          *)
  AnyTexts,    (* texts of which nothing is known                          *)
  Reports,     (* addresses, user names, passwords and pids for the report *)
  Prebuffers,  (* values of prebuffer                                      *)
  MaxFail      (* bound: which call of the allocator may fail              *)

ASSUME TextAssumption ==
  /\ Unread # Null
  /\ Prebuffers \subseteq Nat /\ MaxFail \in Nat

VARIABLES
  item,     (* the item the program has, or Null                           *)
  text,     (* the text, or Null                                           *)
  form,     (* how the text came about: raw, formatted or compact          *)
  comments, (* does the text have comments                                 *)
  source,   (* what the document is meant to say                           *)
  op,       (* the last operation                                          *)
  mem,      (* the allocator during that operation                         *)
  errorAt   (* global_ep                                                   *)

vars == <<item, text, form, comments, source, op, mem, errorAt>>

-----------------------------------------------------------------------------
(* The report in smbclient mode; r has the four values as texts.           *)

ReportMax == 254

ReportText(r) ==
  LET whole == Bytes("{\"command\":\"report self\",\"mode\":\"smbclient\",\"IPv4\":\"") \o r.url
                 \o Bytes("\",\"username\":\"") \o r.user
                 \o Bytes("\",\"password\":\"") \o r.pass
                 \o Bytes("\",\"pid\":") \o r.pid \o Bytes("}")
  IN  SubSeq(whole, 1, IF Len(whole) < ReportMax THEN Len(whole) ELSE ReportMax)

ReportMeaning(r) ==
  LET Field(name, v) == Keyed(Bytes(name), v)
  IN  Obj(<<Field("command", Str(Bytes("report self"))), Field("mode", Str(Bytes("smbclient"))),
            Field("IPv4", Str(r.url)), Field("username", Str(r.user)), Field("password", Str(r.pass)),
            Field("pid", Num(Natural(r.pid), 0))>>)

(* Credentials that need no escapes are reported as they are, unless they  *)
(* are too long; nothing is said about others.                             *)
Expected(r) ==
  IF \E c \in ToSet(r.user \o r.pass) : c < 32 \/ c \in {Quote, Backslash} THEN Unread
  ELSE IF Len(ReportText(r)) = ReportMax THEN Null ELSE ReportMeaning(r)

-----------------------------------------------------------------------------
Starts(i, t, means) == item = i /\ text = t /\ source = means

Init ==
  /\ \/ \E v \in Documents : Starts(v, Null, v) /\ comments = FALSE
     \/ \E k \in KnownTexts : Starts(Null, k.text, k.means) /\ comments = FALSE
     \/ \E k \in Commented : Starts(Null, k.text, k.means) /\ comments = TRUE
     \/ \E t \in AnyTexts : Starts(Null, t, Unread) /\ comments = FALSE
     \/ \E r \in Reports : Starts(Null, ReportText(r), Expected(r)) /\ comments = FALSE
  /\ form = "raw" /\ op = "none" /\ mem = Memory(0) /\ errorAt = 0

(* The allocator of one operation; a call that is never made cannot fail.  *)
Uses(m) == m.fail <= m.calls /\ mem' = m

PrintInto(r, fmt) ==
  /\ item # Null /\ text = Null
  /\ Uses(r.mem)
  /\ text' = r.text
  /\ form' = IF fmt THEN "formatted" ELSE "compact"
  /\ op' = "print"
  /\ UNCHANGED <<item, comments, source, errorAt>>

(* cJSON_Print() and cJSON_PrintUnformatted().                             *)
PrintItem == \E fmt \in BOOLEAN, k \in 0..MaxFail :
  item # Null /\ PrintInto(PrintWhole(item, fmt, Memory(k)), fmt)

PrintItemBuffered == \E fmt \in BOOLEAN, k \in 0..MaxFail, prebuffer \in Prebuffers :
  item # Null /\ PrintInto(PrintBuffered(item, prebuffer, fmt, Memory(k)), fmt)

(* The text is parsed and, if that succeeds, freed; so is the old item.    *)
ParseText == \E whole \in BOOLEAN, k \in 0..MaxFail :
  /\ text # Null /\ ~comments
  /\ LET r == ParseWithOpts(text, whole, Memory(k))
     IN  /\ Uses(r.mem)
         /\ item' = r.item
         /\ text' = IF r.item = Null THEN text ELSE Null
         /\ source' = IF source = Unread /\ r.item # Null THEN r.item ELSE source
         /\ errorAt' = r.ep
  /\ form' = "raw" /\ op' = "parse"
  /\ UNCHANGED comments

(* The caller minifies only texts whose strings and comments end.  A       *)
(* malformed text may become well-formed: 1 2 becomes 12.                  *)
MinifyText ==
  /\ text # Null
  /\ Minified(text, 1) # Null
  /\ text' = Minified(text, 1)
  /\ form' = IF form = "raw" THEN "raw" ELSE "compact"
  /\ comments' = FALSE
  /\ source' = IF source = Null THEN Unread ELSE source
  /\ op' = "minify" /\ mem' = Memory(0)
  /\ UNCHANGED <<item, errorAt>>

Next == PrintItem \/ PrintItemBuffered \/ ParseText \/ MinifyText

Spec == Init /\ [][Next]_vars

-----------------------------------------------------------------------------
(* Properties.                                                             *)

IsText(s) == s = Null \/ \A i \in 1..Len(s) : s[i] \in 1..255

RECURSIVE IsItem(_)
IsItem(v) ==
  /\ v.type \in {"null", "true", "false", "number", "string", "array", "object"}
  /\ IsText(v.key) /\ IsText(v.str) /\ (v.type = "string") = (v.str # Null)
  /\ v.kids # <<>> => v.type \in {"array", "object"}
  /\ \A i \in 1..Len(v.kids) : IsItem(v.kids[i])

(* The types of the variables: no text and no string in an item has a NUL  *)
(* or unwritten bytes in it, and an item has what belongs to its type.     *)
TypeOK ==
  /\ IsText(text)
  /\ item = Null \/ IsItem(item)
  /\ form \in {"raw", "formatted", "compact"} /\ comments \in BOOLEAN
  /\ op \in {"none", "print", "parse", "minify"}
  /\ mem.calls \in Nat /\ mem.held \in Nat /\ mem.sound \in BOOLEAN
  /\ errorAt \in Nat

(* Numbers are printed with six places behind the point, very small and    *)
(* very large ones with six behind the first digit.                        *)
Near(a, b) ==
  LET low == IF a.exp < b.exp THEN a.exp ELSE b.exp
      x == a.mant * 10^(a.exp - low)
      y == b.mant * 10^(b.exp - low)
      off == Abs(x - y)
  IN  IF Lead(a) \in -6..8 THEN 2 * off <= 10^(-6 - low)
      ELSE off <= Abs(x) \div (2 * 10^6)

(* Three numbers are lost: one up to DBL_EPSILON, at the latest when its   *)
(* printed digits are, is printed as an int, 0 (cJSON.c:294), and infinity *)
(* and NaN are printed as null (:325-329).                                 *)
Vanishes(v) == Tiny(v) \/ (Lead(v) = -16 /\ Nine(v) < 222044650)
SameNumber(a, b) ==
  \/ b.type = "number" /\ b.mant = a.mant /\ b.exp = a.exp
  \/ b.type = "null" /\ ~IsFinite(a)
  \/ b.type = "number" /\ IsZero(b) /\ Vanishes(a)
  \/ b.type = "number" /\ ~Tiny(a) /\ IsFinite(a) /\ ~IsZero(b) /\ Near(a, b)

RECURSIVE Same(_, _)
(* A key that could not be copied is read back as an empty one.            *)
Same(a, b) ==
  /\ a.key = b.key \/ (a.key = Null /\ b.key = <<>>)
  /\ IF a.type = "number" THEN SameNumber(a, b) ELSE a.type = b.type
  /\ a.str = b.str /\ Len(a.kids) = Len(b.kids)
  /\ \A i \in 1..Len(a.kids) : Same(a.kids[i], b.kids[i])

(* A document says the same however often and in whichever way it is       *)
(* printed, minified and parsed, its strings byte for byte, its numbers up *)
(* to the digits printed, but for the numbers of SameNumber.  A known text *)
(* says what it is known to say, \u escapes and the report included: also  *)
(* a string that the text breaks off, which is taken as it is (:463).      *)
(* Other malformed texts, such as a report that was cut off, say nothing.  *)
ItemKept ==
  source = Null \/ item = Null \/ source = Unread \/ Same(source, item)

RECURSIVE Rendered(_, _, _)
(* How a document is to look, regardless of how the text is put together.  *)
Rendered(v, depth, fmt) ==
  LET n == Len(v.kids)
      line == When(fmt, <<LF>> \o Tabs(depth + 1))
      Entry(i) == line \o StringText(v.kids[i].key) \o Colon(fmt)
                       \o Rendered(v.kids[i], depth + 1, fmt)
      List(Part(_), comma) ==
        FlattenSeq([i \in 1..n |-> When(i > 1, comma) \o Part(i)])
      Kid(i) == Rendered(v.kids[i], depth + 1, fmt)
  IN  CASE v.type = "array" -> Bytes("[") \o List(Kid, Comma(fmt)) \o Bytes("]")
        [] v.type = "object" -> Bytes("{") \o List(Entry, Bytes(","))
                                  \o When(fmt, <<LF>> \o Tabs(depth)) \o Bytes("}")
        [] OTHER -> ScalarText(v)

(* Both strategies, and minifying after formatting, give the same text.    *)
RenderedAlike ==
  form # "raw" /\ text # Null => text = Rendered(item, 0, form = "formatted")

(* The printer and parse_string() write only into what they have allocated *)
(* -- the sizes are computed before and apart from what is then written -- *)
(* and update() reads only what has been written (:203-270, 468-506).      *)
OutputFits == mem.sound

(* One operation either succeeds or, if an allocation failed, gives NULL,  *)
(* and in both cases it holds no memory but that of its result.            *)
AllOrNothing ==
  /\ op = "print" => /\ (text = Null) = (mem.fail # 0)
                     /\ mem.held = IF text = Null THEN 0 ELSE 1
  /\ op = "parse" => /\ mem.fail # 0 \/ source = Null => item = Null
                     /\ mem.fail = 0 /\ source \notin {Null, Unread} => item # Null
                     /\ mem.held = IF item = Null THEN 0 ELSE Blocks(item)
                     /\ item # Null => errorAt = 0
=============================================================================
