------------------------------- MODULE LuaLex -------------------------------
(***************************************************************************)
(* The scanner (llex.c) and the conversion of numerals (lobject.c): one    *)
(* character of look-ahead, and one buffer that long brackets, escapes and *)
(* numerals fill, and take back from, while they read.                     *)
(*                                                                         *)
(* ls is [z, current, buff, linenumber, decpoint, err, t, lookahead]: the  *)
(* input that is left, its current character, the codes in the buffer, the *)
(* token and the one read ahead.  An error ends the scan.  A token is      *)
(* [t, v] with v a sequence: the codes of a string, a name or a symbol,    *)
(* the value of an integer, the text of a float.                           *)
(***************************************************************************)
EXTENDS LuaNumber, SequencesExt, LuaSteps

CONSTANTS
  Reserved,           \* the reserved words, as sequences of characters
  MAX_LINES           \* MAX_INT in the code

ASSUME LexAssumption == MAX_LINES \in Nat /\ MAX_LINES > 1

EOZ == "end"

\* The characters of the inputs, each at the place of its code.
Ascii == <<"\t", "\n", "\r", " ", "\"", "'", "+", "-", ".", "/", "0", "1", "2", "3", "4", "5", "6", "7", "8", "9",
           ":", "<", "=", ">", "[", "\\", "]", "_", "a", "e", "f", "i", "n", "o", "p", "u", "x", "z", "{", "}", "~", ",">>
Codes == <<9, 10, 13, 32, 34, 39, 43, 45, 46, 47, 48, 49, 50, 51, 52, 53, 54, 55, 56, 57,
           58, 60, 61, 62, 91, 92, 93, 95, 97, 101, 102, 105, 110, 111, 112, 117, 120, 122, 123, 125, 126, 44>>
Chars == {Ascii[i] : i \in DOMAIN Ascii}
Code == [c \in Chars |-> Codes[CHOOSE i \in DOMAIN Ascii : Ascii[i] = c]]
TextOf(codes) == [i \in DOMAIN codes |-> CHOOSE c \in Chars : Code[c] = codes[i]]
Coded(s) == [i \in DOMAIN s |-> Code[s[i]]]

Digits == {"0", "1", "2", "3", "4", "5", "6", "7", "8", "9"}
XDigits == Digits \cup {"a", "e", "f"}
Alpha == {"_", "a", "e", "f", "i", "n", "o", "p", "u", "x", "z"}
Spaces == {" ", "\t", "\n", "\r"}
Newlines == {"\n", "\r"}

luaO_hexavalue(c) == IF c \in Digits THEN Code[c] - 48 ELSE IF c \in XDigits THEN Code[c] - 87 ELSE 0

-----------------------------------------------------------------------------
(* Numerals (luaO_str2num). *)

SpanLen(s, set) == CHOOSE n \in 0 .. Len(s) : /\ \A i \in 1 .. n : s[i] \in set
                                             /\ n < Len(s) => s[n + 1] \notin set
From(s, i) == SubSeq(s, i, Len(s))
After(s, set) == From(s, SpanLen(s, set) + 1)
Starts(s, set) == s # <<>> /\ s[1] \in set

Failed == [t |-> "none", v |-> <<>>]

\* Digits of an integer that does not fit wrap around.
Accumulate(s, base) == FoldLeft(LAMBDA a, c : Wrap(a * base + luaO_hexavalue(c)), 0, s)

l_str2int(s) ==
  Then(After(s, Spaces), LAMBDA s1 :
  Then(IF Starts(s1, {"-", "+"}) THEN Tail(s1) ELSE s1, LAMBDA s2 :
  Then(Starts(s2, {"0"}) /\ Starts(Tail(s2), {"x"}), LAMBDA hex :
  Then(IF hex THEN From(s2, 3) ELSE s2, LAMBDA s3 :
  Then(SpanLen(s3, IF hex THEN XDigits ELSE Digits), LAMBDA n :
  Then(Accumulate(SubSeq(s3, 1, n), IF hex THEN 16 ELSE 10), LAMBDA a :
    IF n = 0 \/ After(From(s3, n + 1), Spaces) # <<>> THEN Failed
    ELSE [t |-> "int", v |-> <<IF Starts(s1, {"-"}) THEN Wrap(-a) ELSE a>>]))))))

\* External: strtod of C99 takes the longest prefix that is a number written with
\* the decimal point of the locale.
Fraction(s, digits, point) ==
  Then(SpanLen(s, digits), LAMBDA n :
  Then(IF Starts(From(s, n + 1), {point}) THEN SpanLen(From(s, n + 2), digits) ELSE 0, LAMBDA m :
    IF n + m = 0 THEN 0 ELSE IF Starts(From(s, n + 1), {point}) THEN n + 1 + m ELSE n))
ExponentPart(s, marker) ==
  IF ~Starts(s, {marker}) THEN 0
  ELSE LET sign == IF Starts(Tail(s), {"-", "+"}) THEN 1 ELSE 0
           n == SpanLen(From(s, 2 + sign), Digits)
       IN IF n = 0 THEN 0 ELSE 1 + sign + n
Magnitude(s, point) ==
  Then(Fraction(From(s, 3), XDigits, point), LAMBDA h :
  Then(Fraction(s, Digits, point), LAMBDA d :
    IF Starts(s, {"0"}) /\ Starts(Tail(s), {"x"}) /\ h > 0 THEN 2 + h + ExponentPart(From(s, 3 + h), "p")
    ELSE IF d = 0 THEN 0 ELSE d + ExponentPart(From(s, d + 1), "e")))
strtod(s, point) ==
  Then(SpanLen(s, Spaces), LAMBDA spaces :
  Then(IF Starts(From(s, spaces + 1), {"-", "+"}) THEN 1 ELSE 0, LAMBDA sign :
  Then(Magnitude(From(s, spaces + sign + 1), point), LAMBDA n :
    IF n = 0 THEN 0 ELSE spaces + sign + n)))

\* A float is the text of its numeral, with a point.
Pointed(s, point) == [i \in DOMAIN s |-> IF s[i] = point THEN Code["."] ELSE Code[s[i]]]

l_str2d(s, point) ==
  Then(strtod(s, point), LAMBDA n :
    IF (\E i \in DOMAIN s : s[i] = "n") \/ n = 0 \/ After(From(s, n + 1), Spaces) # <<>> THEN Failed
    ELSE [t |-> "flt", v |-> Pointed(SubSeq(s, SpanLen(s, Spaces) + 1, n), point)])

luaO_str2num(s, point) ==
  IF l_str2int(s) # Failed THEN l_str2int(s) ELSE l_str2d(s, point)

-----------------------------------------------------------------------------
(* The input and the buffer. *)

next(ls) == [ls EXCEPT !.current = IF ls.z = <<>> THEN EOZ ELSE Head(ls.z), !.z = IF @ = <<>> THEN @ ELSE Tail(@)]
save(ls, c) == [ls EXCEPT !.buff = Append(@, c)]
save_and_next(ls) == next(save(ls, Code[ls.current]))
luaZ_resetbuffer(ls) == [ls EXCEPT !.buff = <<>>]
luaZ_buffremove(ls, i) == [ls EXCEPT !.buff = SubSeq(@, 1, Len(@) - i)]
currIsNewline(ls) == ls.current \in Newlines
lexerror(ls, msg) == [ls EXCEPT !.err = msg]

Eos == [t |-> "eos", v |-> <<>>]
luaX_setinput(z) ==
  next([z |-> z, current |-> EOZ, buff |-> <<>>, linenumber |-> 1, decpoint |-> ".",
        err |-> "", t |-> Eos, lookahead |-> Eos])

\* Any of \n, \r, \n\r and \r\n is one line break.
inclinenumber(ls) ==
  Then(next(ls), LAMBDA a :
  Then(IF currIsNewline(a) /\ a.current # ls.current THEN next(a) ELSE a, LAMBDA b :
  LET c == [b EXCEPT !.linenumber = @ + 1] IN
    IF c.linenumber >= MAX_LINES THEN lexerror(c, "too many lines") ELSE c))

RECURSIVE SaveWhile(_, _)
SaveWhile(ls, set) == IF ls.current \in set THEN SaveWhile(save_and_next(ls), set) ELSE ls
RECURSIVE SkipWhile(_, _)
SkipWhile(ls, set) == IF ls.current \in set THEN SkipWhile(next(ls), set) ELSE ls

check_next1(ls, c) == IF ls.current = c THEN next(ls) ELSE ls
check_next2(ls, set) == IF ls.current \in set THEN save_and_next(ls) ELSE ls

buffreplace(ls, from, to) == [ls EXCEPT !.buff = [i \in DOMAIN @ |-> IF @[i] = Code[from] THEN Code[to] ELSE @[i]]]

-----------------------------------------------------------------------------
(* Numerals.  Each of these returns the state with the token in t. *)

Lexed(ls, t, v) == [ls EXCEPT !.t = [t |-> t, v |-> v]]
Converted(ls, locale) == luaO_str2num(TextOf(ls.buff), locale)

\* The decimal point that was tried is kept for the numerals that follow.
trydecpoint(ls, locale) ==
  Then(buffreplace([ls EXCEPT !.decpoint = locale], ls.decpoint, locale), LAMBDA a :
  Then(Converted(a, locale), LAMBDA o :
    IF o = Failed THEN lexerror(buffreplace(a, locale, "."), "malformed number") ELSE Lexed(a, o.t, o.v)))

RECURSIVE NumeralRest(_, _)
NumeralRest(ls, expo) ==
  Then(check_next2(ls, {expo}), LAMBDA a :
  Then(IF ls.current = expo THEN check_next2(a, {"-", "+"}) ELSE a, LAMBDA b :
    IF b.current \in XDigits \cup {"."} THEN NumeralRest(save_and_next(b), expo) ELSE b))

read_numeral(ls, locale) ==
  Then(save_and_next(ls), LAMBDA a :
  LET hex == ls.current = "0" /\ a.current = "x" IN
  Then(NumeralRest(IF hex THEN save_and_next(a) ELSE a, IF hex THEN "p" ELSE "e"), LAMBDA b :
  Then(buffreplace(b, ".", b.decpoint), LAMBDA c :
  Then(Converted(c, locale), LAMBDA o :
    IF o = Failed THEN trydecpoint(c, locale) ELSE Lexed(c, o.t, o.v)))))

-----------------------------------------------------------------------------
(* Long brackets. *)

\* sep is the level of a bracket, negative if it is none, -1 without any '='.
skip_sep(ls) ==
  Then(save_and_next(ls), LAMBDA a :
  Then(SaveWhile(a, {"="}), LAMBDA b :
  LET count == Len(b.buff) - Len(a.buff) IN
    [ls |-> b, sep |-> IF b.current = ls.current THEN count ELSE -count - 1]))

RECURSIVE LongRest(_, _, _)
LongRest(ls, sep, keep) ==
  IF ls.err # "" THEN ls
  ELSE CASE ls.current = EOZ -> lexerror(ls, "unfinished long bracket")
         [] ls.current = "]" -> LET s == skip_sep(ls)
                                IN IF s.sep = sep THEN save_and_next(s.ls) ELSE LongRest(s.ls, sep, keep)
         [] currIsNewline(ls) -> LET a == inclinenumber(save(ls, Code["\n"]))
                                 IN LongRest(IF keep THEN a ELSE luaZ_resetbuffer(a), sep, keep)
         [] OTHER -> LongRest(IF keep THEN save_and_next(ls) ELSE next(ls), sep, keep)

\* A string, or a comment if its text is not kept.
read_long_string(ls, sep, keep) ==
  Then(save_and_next(ls), LAMBDA a :
  Then(LongRest(IF currIsNewline(a) THEN inclinenumber(a) ELSE a, sep, keep), LAMBDA b :
    IF keep THEN Lexed(b, "string", SubSeq(b.buff, 3 + sep, Len(b.buff) - (2 + sep))) ELSE b))

-----------------------------------------------------------------------------
(* Quoted strings.  What an escape saved before it is known, it removes. *)

esccheck(ls, c, msg) ==
  IF c \/ ls.err # "" THEN ls ELSE lexerror(IF ls.current # EOZ THEN save_and_next(ls) ELSE ls, msg)

gethexa(ls) ==
  Then(save_and_next(ls), LAMBDA a :
    [ls |-> esccheck(a, a.current \in XDigits, "hexadecimal digit expected"), r |-> luaO_hexavalue(a.current)])

readhexaesc(ls) ==
  Then(gethexa(ls), LAMBDA h :
  Then(gethexa(h.ls), LAMBDA l :
    IF h.ls.err # "" THEN h ELSE [ls |-> luaZ_buffremove(l.ls, 2), r |-> 16 * h.r + l.r]))

\* i counts the characters to remove: the backslash, 'u', '{' and the digits.
RECURSIVE Utf8Digits(_, _, _)
Utf8Digits(ls, r, i) ==
  Then(save_and_next(ls), LAMBDA a :
  Then(16 * r + luaO_hexavalue(a.current), LAMBDA n :
  Then(esccheck(a, n <= 1114111, "UTF-8 value too large"), LAMBDA b :
    IF a.current \notin XDigits THEN [ls |-> a, r |-> r, i |-> i]
    ELSE IF b.err # "" THEN [ls |-> b, r |-> 0, i |-> i] ELSE Utf8Digits(b, n, i + 1))))

readutf8esc(ls) ==
  Then(save_and_next(ls), LAMBDA a :
  Then(esccheck(a, a.current = "{", "missing '{'"), LAMBDA b :
  Then(gethexa(b), LAMBDA h :
  Then(Utf8Digits(h.ls, h.r, 4), LAMBDA d :
  Then(esccheck(d.ls, d.ls.current = "}", "missing '}'"), LAMBDA e :
    CASE b.err # "" -> [ls |-> b, r |-> 0]
      [] b.err = "" /\ h.ls.err # "" -> h
      [] OTHER -> [ls |-> IF e.err # "" THEN e ELSE luaZ_buffremove(next(e), d.i), r |-> d.r])))))

\* Continuation bytes, last one first, until the rest fits into the first byte.
RECURSIVE Continuations(_, _, _)
Continuations(x, mfb, bytes) ==
  LET rest == x \div 64
      more == <<128 + (x % 64)>> \o bytes
      m == mfb \div 2
  IN IF rest > m THEN Continuations(rest, m, more) ELSE <<(254 - 2 * m) + rest>> \o more
luaO_utf8esc(x) == IF x < 128 THEN <<x>> ELSE Continuations(x, 63, <<>>)

utf8esc(ls) ==
  Then(readutf8esc(ls), LAMBDA u :
    IF u.ls.err # "" THEN u.ls ELSE [u.ls EXCEPT !.buff = @ \o luaO_utf8esc(u.r)])

\* Mutant: a decimal escape reads all the digits there are.
DecimalsAll(ls) == SpanLen(<<ls.current>> \o ls.z, Digits)

Decimals(ls) ==
    Then(SpanLen(<<ls.current>> \o ls.z, Digits), LAMBDA n :
      IF n > 3 THEN 3 ELSE n)

readdecesc(ls) ==
  Then(Decimals(ls), LAMBDA n :
  LET digits == SubSeq(<<ls.current>> \o ls.z, 1, n) IN
  Then(FoldLeft(LAMBDA a, c : 10 * a + luaO_hexavalue(c), 0, digits), LAMBDA r :
  LET read[i \in 0 .. n] == IF i = 0 THEN ls ELSE save_and_next(read[i - 1]) IN
    [ls |-> luaZ_buffremove(esccheck(read[n], r <= 255, "decimal escape too large"), n), r |-> r]))

RECURSIVE Zap(_)
Zap(ls) ==
  IF ls.current \notin Spaces \/ ls.err # "" THEN ls ELSE Zap(IF currIsNewline(ls) THEN inclinenumber(ls) ELSE next(ls))

Letter == [a |-> 7, f |-> 12, n |-> 10]

\* An escape, from its backslash.
Escape(bs) ==
  Then(save_and_next(bs), LAMBDA ls :
  LET c == ls.current
      only_save(s, v) == IF s.err # "" THEN s ELSE save(luaZ_buffremove(s, 1), v)
      read_save(s, v) == only_save(next(s), v) IN
  Then(readhexaesc(ls), LAMBDA h :
  Then(readdecesc(ls), LAMBDA d :
    CASE c \in DOMAIN Letter -> read_save(ls, Letter[c])
      [] c = "x" -> read_save(h.ls, h.r)
      [] c = "u" -> utf8esc(ls)
      [] c \in Newlines -> only_save(inclinenumber(ls), Code["\n"])
      [] c \in {"\\", "\"", "'"} -> read_save(ls, Code[c])
      [] c = EOZ -> ls
      [] c = "z" -> Zap(next(luaZ_buffremove(ls, 1)))
      [] c \in Digits -> only_save(d.ls, d.r)
      [] OTHER -> esccheck(ls, FALSE, "invalid escape sequence"))))

RECURSIVE StringRest(_, _)
StringRest(ls, del) ==
  IF ls.err # "" THEN ls
  ELSE CASE ls.current = del -> save_and_next(ls)
         [] ls.current \in Newlines \cup {EOZ} -> lexerror(ls, "unfinished string")
         [] ls.current = "\\" -> StringRest(Escape(ls), del)
         [] OTHER -> StringRest(save_and_next(ls), del)

read_string(ls) ==
  Then(StringRest(save_and_next(ls), ls.current), LAMBDA a :
    Lexed(a, "string", SubSeq(a.buff, 2, Len(a.buff) - 1)))

-----------------------------------------------------------------------------
(* Tokens. *)

\* After "--": a long comment, or one until the end of the line.
Comment(ls) ==
  Then(skip_sep(ls), LAMBDA s :
  LET long == ls.current = "[" /\ s.sep >= 0 IN
  Then(IF ls.current = "[" THEN luaZ_resetbuffer(s.ls) ELSE ls, LAMBDA short :
    IF long THEN luaZ_resetbuffer(read_long_string(luaZ_resetbuffer(s.ls), s.sep, FALSE))
    ELSE SkipWhile(short, Chars \ Newlines)))

\* What may follow a symbol to make it another one.
Second == [c \in {"=", "<", ">", "/", "~", ":"} |->
             CASE c = "<" -> {"=", "<"} [] c = ">" -> {"=", ">"} [] c \in {"/", ":"} -> {c} [] OTHER -> {"="}]
Symbol(ls) ==
  Then(next(ls), LAMBDA a :
    IF a.current \in Second[ls.current] THEN Lexed(next(a), "symbol", Coded(<<ls.current, a.current>>))
    ELSE Lexed(a, "symbol", Coded(<<ls.current>>)))

Dots(ls, locale) ==
  Then(save_and_next(ls), LAMBDA a :
  Then(check_next1(a, "."), LAMBDA b :
  Then(check_next1(b, "."), LAMBDA c :
    CASE a.current # "." /\ a.current \in Digits -> read_numeral(a, locale)
      [] a.current # "." /\ a.current \notin Digits -> Lexed(a, "symbol", Coded(<<".">>))
      [] a.current = "." /\ b.current = "." -> Lexed(c, "symbol", Coded(<<".", ".", ".">>))
      [] OTHER -> Lexed(b, "symbol", Coded(<<".", ".">>)))))

Name(ls) ==
  Then(SaveWhile(ls, Alpha \cup Digits), LAMBDA a :
    Lexed(a, IF TextOf(a.buff) \in Reserved THEN "reserved" ELSE "name", a.buff))

Bracket(ls) ==
  Then(skip_sep(ls), LAMBDA s :
    CASE s.sep >= 0 -> read_long_string(s.ls, s.sep, TRUE)
      [] s.sep = -1 -> Lexed(s.ls, "symbol", Coded(<<"[">>))
      [] OTHER -> lexerror(s.ls, "invalid long string delimiter"))

RECURSIVE LexFrom(_, _)
LexFrom(ls, locale) ==
  IF ls.err # "" THEN ls
  ELSE LET c == ls.current
       IN CASE currIsNewline(ls) -> LexFrom(inclinenumber(ls), locale)
            [] c \in Spaces \ Newlines -> LexFrom(next(ls), locale)
            [] c = "-" -> IF next(ls).current = "-" THEN LexFrom(Comment(next(next(ls))), locale)
                          ELSE Lexed(next(ls), "symbol", Coded(<<c>>))
            [] c = "[" -> Bracket(ls)
            [] c \in DOMAIN Second -> Symbol(ls)
            [] c \in {"\"", "'"} -> read_string(ls)
            [] c = "." -> Dots(ls, locale)
            [] c \in Digits -> read_numeral(ls, locale)
            [] c = EOZ -> Lexed(ls, "eos", <<>>)
            [] c \in Alpha -> Name(ls)
            [] OTHER -> Lexed(next(ls), "symbol", Coded(<<c>>))

llex(ls, locale) == LexFrom(luaZ_resetbuffer(ls), locale)

\* No token has been read ahead when lookahead is the end of the input.
luaX_next(ls, locale) ==
  IF ls.lookahead # Eos THEN [ls EXCEPT !.t = ls.lookahead, !.lookahead = Eos] ELSE llex(ls, locale)
luaX_lookahead(ls, locale) ==
    Then(llex(ls, locale), LAMBDA a :
      [a EXCEPT !.lookahead = a.t, !.t = ls.t])

\* All tokens with their lines; with peek the parser looks ahead before each.
ScanError == [t |-> "error", v |-> <<>>, line |-> 0]
RECURSIVE Scan(_, _, _)
Scan(ls, locale, peek) ==
  Then(IF peek THEN luaX_lookahead(ls, locale) ELSE ls, LAMBDA a :
  Then(luaX_next(a, locale), LAMBDA b :
  LET token == [t |-> b.t.t, v |-> b.t.v, line |-> b.linenumber] IN
    IF a.err # "" \/ b.err # "" THEN <<ScanError>>
    ELSE <<token>> \o (IF b.t = Eos THEN <<>> ELSE Scan(b, locale, peek))))

-----------------------------------------------------------------------------
(* The reference: lexical conventions by the manual (3.1), on the text.    *)

At(s, i) == IF i \in DOMAIN s THEN s[i] ELSE EOZ
Least(set) == CHOOSE n \in set : \A m \in set : n <= m
Greatest(set) == CHOOSE n \in set : \A m \in set : n >= m

BreakLen(s) ==
  IF At(s, 1) \notin Newlines THEN 0 ELSE IF At(s, 2) \in Newlines \ {s[1]} THEN 2 ELSE 1

\* The codes of a text, with one newline for every line break.
RECURSIVE Unbroken(_)
Unbroken(s) ==
  IF s = <<>> THEN <<>>
  ELSE IF BreakLen(s) > 0 THEN <<10>> \o Unbroken(From(s, BreakLen(s) + 1))
  ELSE <<Code[s[1]]>> \o Unbroken(Tail(s))
LineAfter(s) == 1 + Len(SelectSeq(Unbroken(s), LAMBDA c : c = 10))

\* A long bracket at the start of s: its level, and where it is closed.
Long(b, n) == <<b>> \o [i \in 1 .. n |-> "="] \o <<b>>
Levels(s) == {n \in 0 .. Len(s) : IsPrefix(Long("[", n), s)}
Closings(s, n) == {k \in DOMAIN s : IsPrefix(Long("]", n), From(s, k))}
LongText(s, n) ==
  Then(SubSeq(s, n + 3, Least(Closings(s, n)) - 1), LAMBDA body :
    From(body, BreakLen(body) + 1))
LongEnd(s, n) == Least(Closings(s, n)) + n + 1

Utf8(x) ==
  LET tail(n) == [i \in 1 .. n |-> 128 + ((x \div 64 ^ (n - i)) % 64)]
  IN CASE x < 128 -> <<x>>
       [] x \in 128 .. 2047 -> <<192 + x \div 64>> \o tail(1)
       [] x \in 2048 .. 65535 -> <<224 + x \div 4096>> \o tail(2)
       [] OTHER -> <<240 + x \div 262144>> \o tail(3)

\* The first element of a quoted string: its length, 0 if it is none, and value.
Base(s, b) == FoldLeft(LAMBDA a, c : a * b + luaO_hexavalue(c), 0, s)
Element(s) ==
  Then(SpanLen(From(s, 4), XDigits), LAMBDA hex :
  Then(Base(SubSeq(s, 4, hex + 3), 16), LAMBDA point :
  Then(SpanLen(From(s, 2), Digits), LAMBDA three :
  LET dec == IF three > 3 THEN 3 ELSE three IN
  Then(Base(SubSeq(s, 2, dec + 1), 10), LAMBDA byte :
  LET none == [n |-> 0, v |-> <<>>] IN
  Then(At(s, 2), LAMBDA c :
    CASE s[1] \in Newlines -> none
      [] s[1] \notin Newlines \cup {"\\"} -> [n |-> 1, v |-> <<Code[s[1]]>>]
      [] s[1] = "\\" /\ c \in DOMAIN Letter -> [n |-> 2, v |-> <<Letter[c]>>]
      [] s[1] = "\\" /\ c \in {"\\", "\"", "'"} -> [n |-> 2, v |-> <<Code[c]>>]
      [] s[1] = "\\" /\ c \in Newlines -> [n |-> 1 + BreakLen(Tail(s)), v |-> <<10>>]
      [] s[1] = "\\" /\ c = "z" -> [n |-> 2 + SpanLen(From(s, 3), Spaces), v |-> <<>>]
      [] s[1] = "\\" /\ c \in Digits -> IF byte > 255 THEN none ELSE [n |-> 1 + dec, v |-> <<byte>>]
      [] s[1] = "\\" /\ c = "x" -> IF {At(s, 3), At(s, 4)} \subseteq XDigits
                                  THEN [n |-> 4, v |-> <<Base(SubSeq(s, 3, 4), 16)>>] ELSE none
      [] s[1] = "\\" /\ c = "u" -> IF At(s, 3) = "{" /\ hex > 0 /\ At(s, 4 + hex) = "}" /\ point <= 1114111
                                  THEN [n |-> 4 + hex, v |-> Utf8(point)] ELSE none
      [] OTHER -> none)))))

\* A quoted string after its first quote, with n the length of what was read.
RECURSIVE Quoted(_, _, _, _)
Quoted(s, del, n, v) ==
  Then(Element(s), LAMBDA e :
    IF s = <<>> THEN [n |-> 0, v |-> <<>>]
    ELSE IF s[1] = del THEN [n |-> n + 1, v |-> v]
    ELSE IF e.n = 0 THEN e ELSE Quoted(From(s, e.n + 1), del, n + e.n, v \o e.v))

\* What looks like a numeral, whether it is one or not.
LooksNumeral(s) ==
  Then(IF At(s, 1) = "." THEN 2 ELSE 1, LAMBDA start :
  Then(At(s, start) = "0" /\ At(s, start + 1) = "x", LAMBDA hex :
  LET marker == IF hex THEN "p" ELSE "e" IN
    /\ At(s, start) \in Digits
    /\ \A i \in start + 1 .. Len(s) :
         \/ s[i] \in XDigits \cup {".", marker}
         \/ hex /\ i = start + 1
         \/ s[i] \in {"-", "+"} /\ s[i - 1] = marker))

\* The value of a numeral: an integer has no point and no exponent.
NumeralIs(s) ==
  Then(At(s, 1) = "0" /\ At(s, 2) = "x", LAMBDA hex :
  Then(IF hex THEN From(s, 3) ELSE s, LAMBDA digits :
    IF digits # <<>> /\ \A i \in DOMAIN digits : digits[i] \in (IF hex THEN XDigits ELSE Digits)
    THEN [t |-> "int", v |-> <<Wrap(Base(digits, IF hex THEN 16 ELSE 10))>>]
    ELSE IF s # <<>> /\ Magnitude(s, ".") = Len(s) THEN [t |-> "flt", v |-> Coded(s)] ELSE Failed))

\* A number written as a string: spaces, a sign, a numeral, spaces.
NumberOf(s) ==
  Then(After(s, Spaces), LAMBDA s1 :
  Then(Starts(s1, {"-", "+"}), LAMBDA signed :
  LET s2 == IF signed THEN Tail(s1) ELSE s1 IN
  Then(Greatest({0} \cup {i \in DOMAIN s2 : s2[i] \notin Spaces}), LAMBDA last :
  Then(NumeralIs(SubSeq(s2, 1, last)), LAMBDA x :
    CASE x.t = "int" -> [x EXCEPT !.v = IF Starts(s1, {"-"}) THEN <<Wrap(-x.v[1])>> ELSE @]
      [] x.t = "flt" -> [x EXCEPT !.v = (IF signed THEN <<Code[s1[1]]>> ELSE <<>>) \o @]
      [] OTHER -> Failed))))

LongSymbols == {<<c, "=">> : c \in {"=", "<", ">", "~"}} \cup {<<c, c>> : c \in {"<", ">", "/", ":", "."}}
               \cup {<<".", ".", ".">>}

\* The token at the start of s, of length n, or the space or comment there.
Lexeme(s) ==
  LET tok(n, t, v) == [n |-> n, t |-> t, v |-> v]
      error == tok(0, "error", <<>>)
      comment == IsPrefix(<<"-", "-">>, s) IN
  Then(Levels(IF comment THEN From(s, 3) ELSE s), LAMBDA level :
  Then(IF comment THEN From(s, 3) ELSE s, LAMBDA long :
  Then(Least(level), LAMBDA n :
  Then(Quoted(Tail(s), s[1], 1, <<>>), LAMBDA string :
  Then(Greatest({k \in 0 .. Len(s) : \A j \in 1 .. k : LooksNumeral(SubSeq(s, 1, j)) \/ (j = 1 /\ s[1] = ".")}), LAMBDA numeral :
  Then(NumeralIs(SubSeq(s, 1, numeral)), LAMBDA number :
  Then(SpanLen(s, Alpha \cup Digits), LAMBDA name :
  Then(Greatest({1} \cup {Len(x) : x \in {y \in LongSymbols : IsPrefix(y, s)}}), LAMBDA symbol :
    CASE s[1] \in Spaces -> tok(SpanLen(s, Spaces), "space", <<>>)
      [] comment /\ level = {} -> tok(2 + SpanLen(From(s, 3), Chars \ Newlines), "space", <<>>)
      [] comment /\ level # {} -> IF Closings(long, n) = {} THEN error ELSE tok(2 + LongEnd(long, n), "space", <<>>)
      [] s[1] = "[" -> IF level # {} /\ Closings(s, n) # {} THEN tok(LongEnd(s, n), "string", Unbroken(LongText(s, n)))
                       ELSE IF level = {} /\ At(s, 2) # "=" THEN tok(1, "symbol", Coded(<<"[">>)) ELSE error
      [] s[1] \in {"\"", "'"} -> IF string.n = 0 THEN error ELSE tok(string.n, "string", string.v)
      [] s[1] \in Digits \/ (s[1] = "." /\ At(s, 2) \in Digits) ->
           IF number = Failed THEN error ELSE tok(numeral, number.t, number.v)
      [] s[1] \in Alpha -> tok(name, IF SubSeq(s, 1, name) \in Reserved THEN "reserved" ELSE "name", Coded(SubSeq(s, 1, name)))
      [] OTHER -> tok(symbol, "symbol", Coded(SubSeq(s, 1, symbol)))))))))))

\* The tokens of s from its i-th character on, with their lines.
RECURSIVE Tokens(_, _)
Tokens(s, i) ==
  Then(IF i > Len(s) THEN [n |-> 0, t |-> "eos", v |-> <<>>] ELSE Lexeme(From(s, i)), LAMBDA x :
  Then(LineAfter(SubSeq(s, 1, i + x.n - 1)), LAMBDA line :
  LET token == [t |-> x.t, v |-> x.v, line |-> line] IN
    IF x.t = "error" \/ line >= MAX_LINES THEN <<ScanError>>
    ELSE IF x.t = "eos" THEN <<token>>
    ELSE (IF x.t = "space" THEN <<>> ELSE <<token>>) \o Tokens(s, i + x.n)))
=============================================================================
