------------------------------ MODULE MCLuaLib ------------------------------
EXTENDS LuaLib

MCStrings == UNION {[1 .. n -> {0, 1, 2}] : n \in 0 .. 3}

\* Integers with and without bits above the four in use, displacements beyond both widths.
MCWide == -32 .. 31
MCBitArgs(op) ==
  CASE op \in {"band", "btest", "bor", "bxor"} -> {<<>>} \cup {<<x, y>> : x \in MCWide, y \in MCWide} \cup {<<x, 5, 14>> : x \in MCWide}
    [] op = "bnot" -> {<<x>> : x \in MCWide}
    [] op = "extract" -> {<<x, f, w>> : x \in MCWide, f \in -1 .. 5, w \in -1 .. 5}
    [] op = "replace" -> {<<x, v, f, w>> : x \in MCWide, v \in {-2, 0, 5, 10, 15, 29}, f \in -1 .. 5, w \in -1 .. 5}
    [] OTHER -> {<<x, i>> : x \in MCWide, i \in -7 .. 7}

\* Bytes at both ends of the ranges of the Unicode table, and beyond.
MCBytes == {0, 65, 127, 128, 191, 192, 193, 194, 223, 224, 237, 239, 240, 244, 245, 247, 248, 255}
MCPieces == {<<65>>, <<194, 128>>, <<225, 128, 128>>, <<240, 144, 128, 128>>, <<191>>, <<244, 128>>}
MCUtf8Strings ==
  UNION {[1 .. n -> MCBytes] : n \in 0 .. 2}
  \cup {<<a, b, c>> : a \in {224, 225, 237, 239}, b, c \in {65, 128, 159, 160, 191, 194}}
  \cup {<<a, b, c, d>> : a \in {240, 241, 244, 245, 248}, b \in {127, 128, 143, 144, 191}, c \in {128, 191, 192}, d \in {65, 128, 191}}
  \cup {p \o q : p, q \in MCPieces}
MCOptional(S) == {<<>>} \cup {<<i>> : i \in S}
MCCodes == {-1, 0, 127, 128, 2047, 2048, 55296, 65535, 65536, 1114111, 1114112}
MCUtf8Args(op) ==
  CASE op \in {"len", "codepoint"} -> {<<s, <<i, j>>>> : s \in MCUtf8Strings, i \in MCOptional({-3, 0, 1, 2, 3}), j \in MCOptional({-1, 2, 5})}
    [] op = "offset" -> {<<s, <<n, i>>>> : s \in MCUtf8Strings, n \in -3 .. 3, i \in MCOptional({-2, 0, 1, 3, 5})}
    [] op = "codes" -> {<<s, <<>>>> : s \in MCUtf8Strings}
    [] op = "char" -> {<<codes, <<>>>> : codes \in UNION {[1 .. n -> MCCodes] : n \in 0 .. 2}}

PackOptions == {Opt("int", 1), Opt("int", 2), Opt("int", 3), Opt("uint", 1), Opt("uint", 3), Opt("float", 2),
                Opt("char", 2), Opt("string", 1), Opt("zstr", 0), Opt("padding", 1), Xopt(2), Little, Big, MaxAlign(2)}
Arguments(o) ==
  CASE o.k \in {"int", "uint"} -> {-8, -3, -1, 0, 1, 2, 7}
    [] o.k = "float" -> {<<1, 2>>}
    [] OTHER -> {<<>>, <<1>>, <<3, 0>>, <<2, 3, 1>>}
MCPackArgs(fmt) ==
  LET takers == SelectSeq(fmt, Takes)
  IN CASE Len(takers) = 0 -> {<<>>}
       [] Len(takers) = 1 -> {<<a>> : a \in Arguments(takers[1])}
       [] Len(takers) = 2 -> {<<a, b>> : a \in Arguments(takers[1]), b \in Arguments(takers[2])}
       [] OTHER -> {}
MCFormats == UNION {[1 .. n -> PackOptions] : n \in 1 .. 3}

ClassA == Class(FALSE, {<<1, 1>>})
Any1 == Class(TRUE, {})
PatternItems == {Single(ClassA, ""), Single(ClassA, "*"), Single(Any1, "-"), Single(Any1, "?"),
                 Single(Class(TRUE, {<<1, 1>>}), "+"), Item("open"), Item("close"), Item("position"),
                 Back(1), Frontier(ClassA), Balance(1, 2)}
MCPatterns == UNION {[1 .. n -> PatternItems] : n \in 1 .. 3}
              \cup {<<Item("open"), p, Item("close"), q>> : p, q \in PatternItems}
              \cup {<<p, q, Item("end")>> : p, q \in PatternItems}
MCSubjects == {<<1, 1, 2>>, <<2, 1, 1, 2>>, <<1, 3, 2>>}

\* Sequences of up to six values; a strict order, a weak one, an inconsistent
\* function and the constant ones.
MCArrays == UNION {[1 .. n -> 1 .. 3] : n \in 0 .. 6}
MCOrderings == {{<<1, 2>>, <<1, 3>>, <<2, 3>>}, {<<1, 3>>, <<2, 3>>}, {<<1, 2>>, <<2, 1>>, <<3, 3>>}, (1 .. 3) \X (1 .. 3), {}}

L(x) == Leaf(x)
F(e) == Node("call", <<L("f"), e>>)
Bin(ops, A, B) == {Node(op, <<x, y>>) : op \in ops, x \in A, y \in B}
Un(ops, A) == {Node(op, <<x>>) : op \in ops, x \in A}
Operands == {L("nil"), L("1"), L("a"), L("g")}
Small == Bin({"and", "or", "==", ">", "..", "+"}, Operands, {L("b"), L("2"), F(L("a"))}) \cup Un({"not", "neg"}, Operands)
Large == Bin({"and", "or", "~=", "..", "//", "^"}, Small, {L("a"), L("0"), F(L("b"))})
         \cup Bin({"and", "or", "<=", "..", "-", "^", "&"}, {L("a"), L("1"), L("u")}, Small)
         \cup Un({"not", "neg", "#"}, Small)
Logic == Bin({"and", "or"}, Operands, {L("b"), F(L("a"))}) \cup Un({"not"}, Operands) \cup Bin({"==", "<"}, {L("a")}, {L("1")})
Deep == Bin({"and", "or", "=="}, Logic, Logic) \cup Un({"not"}, Bin({"and", "or"}, Logic, Logic))
Variables == {L("a"), L("u"), L("g"), Node("index", <<L("b"), L("a")>>), Node("index", <<L("a"), L("b")>>),
              Node("dot", <<L("u")>>), Node("index", <<L("g"), F(L("1"))>>)}
Values == {L("nil"), L("1"), L("b"), Node("call", <<L("f"), L("1"), L("2")>>), L("..."), Node("and", <<L("a"), L("b")>>)}
Lists(S) == {<<x>> : x \in S} \cup {<<x, y>> : x, y \in S}
Assign(vs, es) == Node("assign", <<Node("list", vs), Node("list", es)>>)
Fields == {L("a"), F(L("1")), L("..."), Node("field", <<L("'s'"), L("b")>>), Node("named", <<F(L("2"))>>)}
MCStatements ==
  {Node(kind, <<e>>) : kind \in {"return", "if"}, e \in Small \cup Large \cup Deep}
  \cup {Assign(vs, es) : vs \in Lists(Variables), es \in Lists(Values)}
  \cup {Assign(<<L("a")>>, <<e>>) : e \in Deep}
  \cup {Node("return", <<Node("{}", items)>>) : items \in UNION {[1 .. n -> Fields] : n \in 0 .. 3}}
  \cup {Node("return", <<Node("self", <<obj>> \o args)>>) :
          obj \in {L("a"), L("b"), F(L("b"))}, args \in {<<>>, <<L("...")>>, <<L("a"), F(L("1"))>>}}
  \cup {Node("return", <<e, L("a")>>) : e \in Small}
  \cup {Node("return", <<Node("paren", <<F(e)>>)>>) : e \in Small}
  \cup {Node("do", <<F(e)>>) : e \in Small}

MCEnvs == {[a |-> a, b |-> b, u |-> <<"table", "t">>, g |-> <<"table", "t">>, va |-> <<NumV("1"), NumV("2")>>] :
             a \in {NumV("1"), Nil}, b \in {<<"table", "t">>, False}}

\* Functions with strings around the size that is written in one byte.
MCFunction(source, k, p) ==
  [source |-> source, lines |-> <<1, 9>>, sizes |-> <<1, 0, 2>>, code |-> <<3, 10>>, k |-> k,
   upvalues |-> <<[instack |-> 1, idx |-> 0, name |-> <<4>>]>>, p |-> p, lineinfo |-> <<1, 9>>,
   locvars |-> <<[name |-> <<2>>, startpc |-> 0, endpc |-> 1]>>]
MCText(n) == [t |-> IF n > 6 THEN "lngstr" ELSE "shrstr", v |-> [i \in 1..n |-> i - 1]]
MCConstants == <<[t |-> "nil", v |-> 0], [t |-> "bool", v |-> 1], [t |-> "flt", v |-> 17], [t |-> "int", v |-> 10]>>
MCProtos ==
  LET inner == MCFunction(<<1, 2>>, <<[t |-> "int", v |-> 12]>>, <<>>)
      none == [MCFunction(NULL, <<>>, <<>>) EXCEPT !.lineinfo = <<>>, !.locvars = <<>>, !.upvalues = <<>>, !.code = <<>>]
  IN {none, MCFunction(<<1, 2>>, [n \in 1..4 |-> MCText(n + 3)], <<>>),
      MCFunction(<<1, 2>>, MCConstants \o <<MCText(0)>>, <<inner, [inner EXCEPT !.p = <<inner>>]>>)}
MCMachine == [version |-> 3, format |-> 0, int |-> 2, size_t |-> 2, little |-> TRUE, num |-> "low first"]
MCMachines ==
  {MCMachine, [MCMachine EXCEPT !.version = 4], [MCMachine EXCEPT !.format = 1], [MCMachine EXCEPT !.int = 3], [MCMachine EXCEPT !.size_t = 3],
   [MCMachine EXCEPT !.little = FALSE], [MCMachine EXCEPT !.num = "high first"]}
\* Long brackets and comments, escapes, numerals, symbols and names.
MCWords(set, n) == UNION {[1 .. k -> set] : k \in 0 .. n}
MCPrefixed(p, set, n) == {p \o s : s \in MCWords(set, n)}
MCSources ==
  MCWords({"[", "=", "]", "-", "\n", "a"}, 4)
  \cup MCPrefixed(<<"[", "=", "[">>, {"]", "=", "\n", "\r", "a"}, 5)
  \cup MCPrefixed(<<"-", "-", "[", "[">>, {"]", "[", "\n", "a"}, 4)
  \cup MCPrefixed(<<"\"">>, {"\\", "\"", "\n", "\r", "z", " ", "a", "x"}, 4)
  \cup MCPrefixed(<<"'", "\\">>, {"2", "5", "6", "x", "f", "'"}, 5)
  \cup {<<"'", "a", "\\", "u">> \o s \o <<"1", "'">> : s \in MCWords({"{", "}", "7"}, 4)
           \cup {<<"{">> \o x \o <<"}">> : x \in MCWords({"0", "1", "7", "8", "f"}, 4) \cup
                    {<<"1", "0", f, "f", "f", "f">> : f \in {"f", "0"}} \cup {<<"1", "1", "0", "0", "0", "0">>}}}
  \cup MCPrefixed(<<>>, {"0", "1", "x", ".", "e", "-", "f", "p"}, 4)
  \cup MCPrefixed(<<"0", "x">>, {".", "1", "f", "p", "-"}, 4)
  \cup MCWords({"=", "<", ">", "/", "~", ":", ".", "+"}, 3)
  \cup MCWords({"i", "f", "_", "1"}, 3)
MCReserved == {<<"i", "f">>}
MCNumerals == {p \o s \o t : p \in {<<>>, <<" ">>, <<" ", "-">>, <<"+">>}, t \in {<<>>, <<" ">>, <<"n">>},
                 s \in MCWords({"0", "1", "x", ".", "e", "p"}, 3) \cup {<<"1", "3">>, <<"-">>}}
MCSignature == <<5, 6>>
MCData == <<1, 2>>
=============================================================================
