----------------------------- MODULE MCJsonText -----------------------------
(***************************************************************************)
(* A small instance of JsonText.                                           *)
(***************************************************************************)
EXTENDS JsonText

UpTo(n, S) == UNION {[1..k -> S] : k \in 0..n}

(* Control characters with and without an escape of their own, the limits  *)
(* of what is escaped, quotation mark, backslash, and bytes of UTF-8.      *)
StringBytes == {1, 9, 31, 32, 34, 92, 117, 127, 195, 255}

(* 0, integers up to INT_MAX and beyond it, six places behind the point    *)
(* and more, a carry, very large and very small numbers; up to DBL_EPSILON *)
(* and just above; up to DBL_MAX, and infinity.                            *)
Numbers ==
  {Num(0, 0), Num(-7, 0), Num(INT_MAX, 0), Num(3, 9), Num(-1, 59), Num(1, 60), Num(-125, -2),
   Num(1, -6), Num(1999999999, -9), Num(123456789, -8), Num(-123456789, -15),
   Num(999999996, -16),
   Num(1, -16), Num(222044604, -24), Num(-222044605, -24), Num(3, -16), Num(1, -300),
   Num(179769313, 300), Num(-179769314, 300)}

Strings == {Str(s) : s \in UpTo(2, StringBytes)}

Few == {Plain("null"), Num(-12, 0), Str(<<>>), Str(<<34, 1>>), Arr(<<>>), Obj(<<>>)}
Names == {Null, <<>>, <<97>>, <<92, 9>>}

Flat ==
  {Arr(<<a, b>>) : a, b \in Few}
    \cup {Obj(<<Keyed(n, a), Keyed(<<98>>, b)>>) : n \in Names, a \in Few, b \in {Num(5, 0), Arr(<<>>)}}

(* Lists in lists, and what the utilities answer.                          *)
Deep ==
  LET inner == Arr(<<Num(1, 0), Obj(<<Keyed(<<97>>, Obj(<<>>))>>)>>)
      dirs == Arr(<<Str(<<97>>), Str(<<195, 164>>)>>)
  IN  {Arr(<<inner>>), Obj(<<Keyed(<<99>>, inner), Keyed(<<100>>, Plain("true"))>>),
       Obj(<<Keyed(Bytes("command"), Str(Bytes("list dirs"))), Keyed(Bytes("dirs"), dirs),
             Keyed(Bytes("fail"), Plain("false"))>>)}

MCDocuments ==
  {Plain("null"), Plain("true"), Plain("false"), Arr(<<>>), Obj(<<>>)}
    \cup Numbers \cup Strings \cup Flat \cup Deep

Known(t, v) == [text |-> Bytes(t), means |-> v]

(* The code points are those of RFC 3629.                                  *)
MCKnownTexts ==
  {Known("\"\\u0041\\u007f\"", Str(<<65, 127>>)),
   Known("\"\\u0080\\u07FF\"", Str(<<194, 128, 223, 191>>)),
   Known("\"\\u0800\\u20ac\\uffff\"", Str(<<224, 160, 128, 226, 130, 172, 239, 191, 191>>)),
   Known("\"\\ud800\\udc00\\uD83D\\uDE00\"", Str(<<240, 144, 128, 128, 240, 159, 152, 128>>)),
   Known("\"\\b\\f\\/\\q\"", Str(<<8, 12, 47, 113>>)),
   Known("\"\\ud83d\"", Null), Known("\"\\ude00\"", Null), Known("\"\\ud83d\\u0041\"", Null),
   Known("\"\\u0000\"", Null), Known("\"\\u12\"", Null), Known("{\"a\" 1}", Null),
   Known("\"a\\nb", Str(<<97, LF, 98>>)), Known("\"", Str(<<>>)), Known("\"a\\", Null),
   Known("[\"a", Null), Known("{\"a", Null), Known("{\"a\":\"b", Null),
   Known("[1e308, 0.1e309, 10e308, -1e999]",
         Arr(<<Num(1, 308), Num(1, 308), Num(1, 309), Num(-1, 309)>>)),
   Known("[0e308, 0e309, 1e-323, 1e-324]",
         Arr(<<Num(0, 0), Num(0, 309), Num(1, -323), Num(0, 0)>>)),
   Known("[1,]", Null), Known("{1:2}", Null), Known("[1 2]", Null), Known("", Null),
   Known(" [ 1.50 , -0 ,2e+2, 12E-1 ] ", Arr(<<Num(15, -1), Num(0, 0), Num(2, 2), Num(12, -1)>>)),
   Known(" { \"a\" : { } , \"b\" : [ null ] } ",
         Obj(<<Keyed(<<97>>, Obj(<<>>)), Keyed(<<98>>, Arr(<<Plain("null")>>))>>))}

MCCommented ==
  {[text |-> Bytes("[1,/* ] */ 2]// 3"), means |-> Arr(<<Num(1, 0), Num(2, 0)>>)],
   [text |-> Bytes("[\"//\",//") \o <<LF>> \o Bytes("\"\\\"/*\" /**/]"),
    means |-> Arr(<<Str(Bytes("//")), Str(Bytes("\"/*"))>>)]}

MCAnyTexts == UpTo(3, {Code[c] : c \in {"\"", "\\", "[", "]", "{", "}", ",", "/", "-", ".",
                                        "e", "0", "7", " "}})

(* Credentials without and with a character to escape, none, long ones.    *)
MCReports ==
  {[url |-> Bytes("smb://10.0.0.1"), user |-> u, pass |-> p, pid |-> Bytes("321")] :
     u \in {<<>>, Bytes("me")}, p \in {<<>>, Bytes("a/b c"), Bytes("a\"b"), Bytes("a\\tb"),
                                       Repeat(240, 97)}}
=============================================================================
