------------------------------ MODULE LuaUtf8 ------------------------------
(***************************************************************************)
(* The utf8 library (lutf8lib.c).  A string is a sequence of bytes; C sees *)
(* a zero after the last one.  Positions p of the code count from 0,       *)
(* arguments and results from 1, and from the end if they are negative.    *)
(* An optional argument is a sequence of length 0 or 1.  Codes with more   *)
(* than four bytes, where the code shifts beyond the width of an int       *)
(* before it refuses them, are refused at once.                            *)
(***************************************************************************)
EXTENDS LuaLex

MAXUNICODE == 1114111

ByteAt(s, p) == IF p < Len(s) THEN s[p + 1] ELSE 0
iscont(s, p) == ByteAt(s, p) \in 128 .. 191

u_posrelat(pos, len) ==
  CASE pos >= 0 -> pos
    [] pos < 0 /\ -pos > len -> 0
    [] OTHER -> len + pos + 1
Given(arg, default) == IF arg = <<>> THEN default ELSE arg[1]

\* Continuation bytes, by the ones after the first bit.
ContBytes(c) ==
  CASE c < 192 -> 0
    [] c \in 192 .. 223 -> 1
    [] c \in 224 .. 239 -> 2
    [] c \in 240 .. 247 -> 3
    [] OTHER -> 4

limits == <<255, 127, 2047, 65535>>

\* The code at p, and the position after it.
Invalid == [ok |-> FALSE, code |-> 0, next |-> 0]
utf8_decode(s, p) ==
  LET c == ByteAt(s, p)
      count == ContBytes(c)
      low == FoldLeft(LAMBDA r, j : r * 64 + (ByteAt(s, p + j) % 64), 0, [j \in 1 .. count |-> j])
      res == ((c * 2 ^ count) % 128) * 2 ^ (5 * count) + low
  IN IF c < 128 THEN [ok |-> TRUE, code |-> c, next |-> p + 1]
     ELSE IF \/ \E j \in 1 .. count : ~iscont(s, p + j)
             \/ count > 3
             \/ res > MAXUNICODE \/ res <= limits[count + 1]
     THEN Invalid
     ELSE [ok |-> TRUE, code |-> res, next |-> p + count + 1]

Gives(v) == [t |-> "values", v |-> v]
UtfError == [t |-> "error", v |-> <<>>]
NoValue == [t |-> "nil", v |-> <<>>]

\* Characters from p on while p <= last: their codes, and where it stopped.
Decoded(s, first, last) ==
  LET Onward[p \in first .. Len(s) + 4] ==
        LET d == utf8_decode(s, p)
        IN IF p > last THEN [ok |-> TRUE, codes |-> <<>>, p |-> p]
           ELSE IF ~d.ok THEN [ok |-> FALSE, codes |-> <<>>, p |-> p]
           ELSE [Onward[d.next] EXCEPT !.codes = <<d.code>> \o @]
  IN Onward[first]

utflen(s, i, j) ==
  LET posi == u_posrelat(Given(i, 1), Len(s)) - 1
      posj == u_posrelat(Given(j, -1), Len(s)) - 1
      d == Decoded(s, posi, posj)
  IN IF posi \notin 0 .. Len(s) \/ posj >= Len(s) THEN UtfError
     ELSE IF d.ok THEN Gives(<<Len(d.codes)>>) ELSE [t |-> "nil", v |-> <<d.p + 1>>]

codepoint(s, i, j) ==
  LET posi == u_posrelat(Given(i, 1), Len(s))
      pose == u_posrelat(Given(j, posi), Len(s))
      d == Decoded(s, posi - 1, pose - 1)
  IN IF posi < 1 \/ pose > Len(s) THEN UtfError
     ELSE IF posi > pose THEN Gives(<<>>)
     ELSE IF d.ok THEN Gives(d.codes) ELSE UtfError

pushutfchar(code) == IF code \in 0 .. MAXUNICODE THEN luaO_utf8esc(code) ELSE <<>>
utfchar(codes) ==
  IF \E k \in DOMAIN codes : codes[k] \notin 0 .. MAXUNICODE THEN UtfError
  ELSE Gives(FoldLeft(LAMBDA b, code : b \o pushutfchar(code), <<>>, codes))

\* The beginning of the character before p, and of the one after it.
Back1(s, p) == CHOOSE q \in 0 .. p - 1 : (q = 0 \/ ~iscont(s, q)) /\ \A r \in q + 1 .. p - 1 : iscont(s, r)
Forth1(s, p) == CHOOSE q \in p + 1 .. Len(s) : ~iscont(s, q) /\ \A r \in p + 1 .. q - 1 : iscont(s, r)

byteoffset(s, n, i) ==
  LET len == Len(s)
      start == u_posrelat(Given(i, IF n >= 0 THEN 1 ELSE len + 1), len) - 1
      Move[m \in -(len + 9) .. len + 9, p \in 0 .. len] ==
        CASE m < 0 /\ p > 0 -> Move[m + 1, Back1(s, p)]
          [] m > 0 /\ p < len -> Move[m - 1, Forth1(s, p)]
          [] OTHER -> IF m = 0 THEN Gives(<<p + 1>>) ELSE NoValue
  IN IF start \notin 0 .. len THEN UtfError
     ELSE IF n = 0
     THEN Gives(<<1 + (IF start > 0 /\ iscont(s, start) THEN Back1(s, start) ELSE start)>>)
     ELSE IF iscont(s, start) THEN UtfError
     ELSE Move[IF n > 0 THEN n - 1 ELSE n, start]

\* iter_aux: the next position and code after control variable n, or the end.
iter_aux(s, n) ==
  LET p == CASE n - 1 < 0 -> 0
             [] n - 1 >= 0 /\ n - 1 < Len(s) -> Forth1(s, n - 1)
             [] OTHER -> n - 1
      d == utf8_decode(s, p)
  IN IF p >= Len(s) THEN NoValue
     ELSE IF ~d.ok \/ iscont(s, d.next) THEN UtfError
     ELSE Gives(<<p + 1, d.code>>)

\* for p, c in utf8.codes(s).
iter_codes(s) ==
  LET Loop[n \in 0 .. Len(s) + 1] ==
        LET r == iter_aux(s, n)
        IN IF r.t # "values" THEN [t |-> r.t, v |-> <<>>]
           ELSE [Loop[r.v[1]] EXCEPT !.v = <<r.v>> \o @]
  IN Loop[0]

Utf8Op(op, s, a) ==
  CASE op = "len" -> utflen(s, a[1], a[2])
    [] op = "codepoint" -> codepoint(s, a[1], a[2])
    [] op = "offset" -> byteoffset(s, a[1], a[2])
    [] op = "codes" -> iter_codes(s)
    [] op = "char" -> utfchar(s)

-----------------------------------------------------------------------------
(* The characters of Unicode (table 3-7 of the standard, with surrogates), *)
(* and what the manual says of the functions.                              *)

Trail == 128 .. 191
UnicodeChar(c) ==
  CASE Len(c) = 1 -> c[1] \in 0 .. 127
    [] Len(c) = 2 -> c[1] \in 194 .. 223 /\ c[2] \in Trail
    [] Len(c) = 3 -> /\ c[1] \in 224 .. 239 /\ c[3] \in Trail
                     /\ c[2] \in IF c[1] = 224 THEN 160 .. 191 ELSE Trail
    [] Len(c) = 4 -> /\ c[1] \in 240 .. 244 /\ c[3] \in Trail /\ c[4] \in Trail
                     /\ c[2] \in CASE c[1] = 240 -> 144 .. 191
                                   [] c[1] = 244 -> 128 .. 143
                                   [] OTHER -> Trail
    [] OTHER -> FALSE

\* S cuts s, from position i to before position e, into characters.
NextIn(S, b) == CHOOSE c \in S : b < c /\ \A d \in S : b < d => c <= d
Cuts(s, S, i, e) == i \in S /\ e \in S /\ \A b \in S \ {e} : UnicodeChar(SubSeq(s, b, NextIn(S, b) - 1))
Cuttings(s, i, e) == {S \in SUBSET (i .. e) : i <= e /\ Cuts(s, S, i, e)}
\* The code of the only character at b, if there is one.
CodeAt(s, b) ==
  LET lengths == {n \in 1 .. 4 : b + n <= Len(s) + 1 /\ UnicodeChar(SubSeq(s, b, b + n - 1))}
      n == IF lengths = {} THEN 0 ELSE CHOOSE n \in lengths : TRUE
  IN CASE n = 0 -> -1
       [] n = 1 -> s[b]
       [] n = 2 -> (s[b] - 192) * 64 + s[b + 1] - 128
       [] n = 3 -> ((s[b] - 224) * 64 + s[b + 1] - 128) * 64 + s[b + 2] - 128
       [] n = 4 -> (((s[b] - 240) * 64 + s[b + 1] - 128) * 64 + s[b + 2] - 128) * 64 + s[b + 3] - 128

\* Characters that start at i or later and at j or before, when they follow one another.
Span(s, i, j) == {S \in UNION {Cuttings(s, i, e) : e \in j + 1 .. Len(s) + 1} : Cardinality({b \in S : b > j}) = 1}
FirstBad(s, i, j) ==
  {e \in i .. j : Cuttings(s, i, e) # {} /\ \A n \in 1 .. 4 : e + n <= Len(s) + 1 => ~UnicodeChar(SubSeq(s, e, e + n - 1))}

Absolute(arg, default, len) == LET n == Given(arg, default) IN IF n < 0 THEN (IF len + n + 1 < 0 THEN 0 ELSE len + n + 1) ELSE n

LenIs(s, i, j, res) ==
  IF i < 1 \/ i > Len(s) + 1 \/ j > Len(s) THEN res = UtfError
  ELSE IF j < i THEN res = Gives(<<0>>)
  ELSE IF res.t = "values" THEN \E S \in Span(s, i, j) : res.v = <<Cardinality(S) - 1>>
  ELSE res.t = "nil" /\ res.v[1] \in FirstBad(s, i, j)

PointsAre(s, i, j, res) ==
  IF i < 1 \/ j > Len(s) THEN res = UtfError
  ELSE IF j < i THEN res = Gives(<<>>)
  ELSE IF res.t = "values"
  THEN \E S \in Span(s, i, j) : res.v = [k \in 1 .. Cardinality(S) - 1 |-> CodeAt(s, SetToSortSeq(S, LAMBDA a, b : a < b)[k])]
  ELSE res = UtfError /\ FirstBad(s, i, j) # {}

\* Characters begin where no continuation byte is.
OffsetIs(s, n, i, res) ==
  LET begins == {p \in 1 .. Len(s) + 1 : ~iscont(s, p - 1)}
      back == begins \cup {1}
      hits == CASE n > 0 -> {p \in begins : p >= i /\ Cardinality(begins \cap i .. p - 1) = n - 1}
                [] n < 0 -> {p \in back : p < i /\ Cardinality(back \cap p .. i - 1) = -n}
                [] OTHER -> {p \in back : p <= i /\ back \cap p + 1 .. i = {}}
  IN IF i \notin 1 .. Len(s) + 1 \/ (n # 0 /\ i \notin begins) THEN res = UtfError
     ELSE IF hits = {} THEN res = NoValue ELSE \E p \in hits : res = Gives(<<p>>)

CodesAre(s, res) ==
  LET whole == Cuttings(s, 1, Len(s) + 1)
      good == \A k \in DOMAIN res.v : res.v[k][2] = CodeAt(s, res.v[k][1])
  IN good /\ IF whole = {} THEN res.t = "error"
             ELSE res.t = "nil" /\ \E S \in whole : {res.v[k][1] : k \in DOMAIN res.v} = S \ {Len(s) + 1}

\* What utf8.char writes, codepoint and codes read.
CharsAre(codes, res) ==
  IF \E k \in DOMAIN codes : codes[k] < 0 \/ codes[k] > MAXUNICODE THEN res = UtfError
  ELSE /\ codepoint(res.v, <<>>, <<-1>>) = Gives(codes)
       /\ [k \in DOMAIN iter_codes(res.v).v |-> iter_codes(res.v).v[k][2]] = codes

Utf8As(op, s, a, res) ==
  CASE op = "len" -> LenIs(s, Absolute(a[1], 1, Len(s)), Absolute(a[2], -1, Len(s)), res)
    [] op = "codepoint" -> LET i == Absolute(a[1], 1, Len(s)) IN PointsAre(s, i, Absolute(a[2], i, Len(s)), res)
    [] op = "offset" -> OffsetIs(s, a[1], Absolute(a[2], IF a[1] < 0 THEN Len(s) + 1 ELSE 1, Len(s)), res)
    [] op = "codes" -> CodesAre(s, res)
    [] op = "char" -> CharsAre(s, res)
=============================================================================
