------------------------------- MODULE LuaLib -------------------------------
(***************************************************************************)
(* Calls of functions that keep no state between calls: numbers (lvm.c,    *)
(* lmathlib.c, lbitlib.c), string.pack and patterns (lstrlib.c), UTF-8     *)
(* (lutf8lib.c), the table library (ltablib.c),                            *)
(* the scanner (llex.c), precompiled chunks (ldump.c, lundump.c), and the  *)
(* compilation and execution of one statement (lparser.c, lcode.c, lvm.c). *)
(* A behavior is one call: call holds its arguments, ret what it returned. *)
(* The modules it extends hold the functions and, for each, the definition *)
(* that its result is compared with.                                       *)
(***************************************************************************)
EXTENDS LuaNumber, LuaBits, LuaMath, LuaPack, LuaPattern, LuaTabLib, LuaExpr, LuaDump, LuaLex, LuaUtf8

CONSTANTS
  Strings,            \* byte strings
  BitArgs(_), Utf8Args(_), \* arguments of each function of the bit and of the utf8 library
  Formats, PackArgs(_), \* of string.pack, and the arguments for a format
  Subjects, Patterns, \* of the pattern functions
  Arrays, Orderings,  \* of sort: sequences and comparison functions
  Randoms,            \* what l_randomizePivot may return
  TableSize,          \* list elements of the table library's tables, at most
  Statements, Envs,   \* programs and the states they run in
  Protos, Machines,   \* functions to dump, machines to dump and to load them on
  ThisMachine,
  Sources, Locales,   \* texts to scan, and the decimal points of locales
  NumberTexts         \* texts to convert to a number

ASSUME OneInteger == LUA_MAXINTEGER = MaxInt

VARIABLES call, ret

vars == <<call, ret>>

Pending == [done |-> FALSE]
Returns(v) == call' = call /\ ret' = [done |-> TRUE, v |-> v]
Calls(fn) == ~ret.done /\ call.fn = fn

BitOps == {"band", "btest", "bor", "bxor", "bnot", "lshift", "rshift", "arshift", "lrotate", "rrotate", "extract", "replace"}
Utf8Ops == {"len", "codepoint", "offset", "codes", "char"}
Tab == [i \in LuaInt |-> 20 + i]

Init ==
  /\ ret = Pending
  /\ \/ \E l, r \in Ints \cup Floats : call = [fn |-> "compare", l |-> l, r |-> r]
     \/ \E x, y \in Ints \cup Floats, rand \in 0 .. L_RANDMAX : call = [fn |-> "math", x |-> x, y |-> y, rand |-> rand]
     \/ \E op \in BitOps : \E args \in BitArgs(op) : call = [fn |-> "bits", op |-> op, args |-> args]
     \/ \E op \in Utf8Ops : \E x \in Utf8Args(op) : call = [fn |-> "utf8", op |-> op, s |-> x[1], args |-> x[2]]
     \/ \E m, n \in LuaInt : call = [fn |-> "compute", m |-> m, n |-> n]
     \/ \E l, r \in Strings : call = [fn |-> "strcmp", l |-> l, r |-> r]
     \/ \E i \in LuaInt, s \in LuaInt \ {0}, l \in (Ints \cup Floats) \ {NaN} :
           call = [fn |-> "for", init |-> i, limit |-> l, step |-> s]
     \/ \E fmt \in Formats : \E args \in PackArgs(fmt) : call = [fn |-> "pack", fmt |-> fmt, args |-> args]
     \/ \E s \in Subjects, p \in Patterns, init \in {1, 2}, find, anchor \in BOOLEAN :
           call = [fn |-> "find", x |-> [src |-> s, pat |-> p], init |-> init, find |-> find, anchor |-> anchor]
     \/ \E s \in Subjects, p \in Patterns : call = [fn |-> "gsub", x |-> [src |-> s, pat |-> p]]
     \/ \E a \in Arrays, lt \in Orderings, random \in Randoms :
           call = [fn |-> "sort", a |-> a, lt |-> lt, random |-> random]
     \/ \E f, e, t \in LuaInt : call = [fn |-> "move", f |-> f, e |-> e, t |-> t]
     \/ \E size \in 0 .. TableSize : \E pos \in 1 .. size + 1 : call = [fn |-> "insert", size |-> size, pos |-> pos]
     \/ \E s \in Statements, env \in Envs : call = [fn |-> "run", stat |-> s, env |-> env]
     \/ \E s \in Sources, locale \in Locales, peek \in BOOLEAN :
           call = [fn |-> "scan", s |-> s, locale |-> locale, peek |-> peek]
     \/ \E s \in NumberTexts : call = [fn |-> "tonumber", s |-> s]
     \/ \E f \in Protos, strip \in BOOLEAN, m \in Machines, mode \in SUBSET {"binary", "text"} :
           LET n == Len(luaU_dump(m, f, strip))
           IN \E i \in IF m = ThisMachine /\ mode = {"binary"} THEN 0 .. n ELSE {n} : \E j \in {i, i + 1, n} :
                j \in i .. n /\ call = [fn |-> "load", f |-> f, strip |-> strip, from |-> m, mode |-> mode, i |-> i, j |-> j]

Compares == Calls("compare") /\ Returns(Compared(call.l, call.r))
MathCalls == Calls("math") /\ Returns(Math(call.x, call.y, call.rand))
BitCalls == Calls("bits") /\ Returns(BitOp(call.op, call.args))
Utf8Calls == Calls("utf8") /\ Returns(Utf8Op(call.op, call.s, call.args))
Computes == Calls("compute") /\ Returns(Computed(call.m, call.n))
ComparesStrings == Calls("strcmp") /\ Returns(l_strcmp(call.l, call.r))
Loops == Calls("for") /\ Returns(ForValues(call.init, call.limit, call.step))
Packs == Calls("pack") /\ Returns(PackUnpack(call.fmt, call.args))
Finds == Calls("find") /\ Returns(str_find_aux(call.x, call.init, call.anchor, call.find))
Substitutes == Calls("gsub") /\ Returns(Traversed(call.x))
Sorts == Calls("sort") /\ Returns(sort(call.a, call.lt, call.random))
Moves == Calls("move") /\ Returns(tmove(Tab, call.f, call.e, call.t))
Inserts == Calls("insert") /\ Returns(tinsert(Tab, call.size, call.pos, 7))
Pieces == Cut(luaU_dump(call.from, call.f, call.strip), call.i, call.j)
LoadsChunk == Calls("load") /\ Returns(f_parser(ThisMachine, Pieces, call.mode))
Scans == Calls("scan") /\ Returns(Scan(luaX_setinput(call.s), call.locale, call.peek))
Converts == Calls("tonumber") /\ Returns(luaO_str2num(call.s, "."))
Runs == Calls("run") /\ Returns(Run(call.stat, call.env))

Next ==
  \/ Compares \/ Computes \/ ComparesStrings \/ Loops \/ Packs \/ Finds
  \/ MathCalls \/ BitCalls \/ Utf8Calls \/ Substitutes \/ Sorts \/ Moves \/ Inserts \/ Runs \/ LoadsChunk \/ Scans \/ Converts

Spec == Init /\ [][Next]_vars

-----------------------------------------------------------------------------
Returned(fn) == ret.done /\ call.fn = fn

\* Comparisons of integers and floats give what the exact values give (LTnum,
\* LEnum, luaV_equalobj), division and remainder round down and shifts move
\* bits at every width (luaV_div, luaV_mod, luaV_shiftl), strings with zeros
\* are ordered byte by byte (l_strcmp), and the numeric for visits the values
\* of the manual's loop with the limit as given (forlimit, OP_FORLOOP).  The math
\* library rounds to an integer whenever one holds the value and errs or wraps
\* where none does (pushnumint, math_fmod, math_random), and the bit library
\* works on the bits in use, whatever its arguments have above (arshift, mask).
NumbersAsManual ==
  /\ Returned("compare") => ComparesAs(call.l, call.r, ret.v)
  /\ Returned("compute") => ComputesAs(call.m, call.n, ret.v)
  /\ Returned("strcmp") => ret.v = StringOrder(call.l, call.r)
  /\ Returned("math") => MathAs(call.x, call.y, ret.v)
  /\ Returned("bits") => BitsAs(call.op, call.args, ret.v)
  /\ Returned("for") => ret.v = LoopOfManual(call.init, call.limit, call.step)

\* string.find returns the first match in the order of preference of the
\* pattern's items, with its captures, whatever was tried and undone before
\* (start_capture, end_capture); but find takes a ')' that closes nothing for plain
\* text when nothing else is magic (nospecials), where the manual knows no such
\* pattern and match raises an error.  gsub with %0 rebuilds the subject and
\* replaces as many matches as gmatch visits.
PatternsAsManual ==
  /\ Returned("find") => FindsFirst(call.x, call.init, call.anchor, call.find, ret.v)
  /\ Returned("gsub") => Rebuilds(call.x, ret.v)

\* sort loses no element whatever the comparison function answers, and sorts
\* when it is a strict weak order (auxsort, partition); table.move copies as
\* if it read everything first (tmove); an insertion and the removal at its
\* place cancel out (tinsert, tremove).
TablesAsManual ==
  /\ Returned("sort") => SortIsRight(call.a, call.lt, ret.v)
  /\ Returned("move") => MoveIsRight(Tab, call.f, call.e, call.t, ret.v)
  /\ Returned("insert") => InsertIsRight(Tab, call.size, call.pos, 7, ret.v)

\* What was written is read back.  What string.pack accepts string.unpack gives
\* back, at the position after it, and string.packsize tells its size (alignment,
\* sign and endianness of integers longer and shorter than a Lua integer).  What
\* string.dump wrote load reads as the same function, whatever pieces the reader
\* cuts it into (DumpString's sizes, sources that are not repeated); input that ends
\* too early, comes from another kind of machine or is not wanted by the mode is an
\* error and never some other function (luaZ_read, checkHeader).  Bytes are read as
\* the characters of the Unicode table and no others, at every position from either
\* end, and what utf8.char writes reads as its codes (utf8_decode, byteoffset).
ReadBack ==
  /\ Returned("pack") => RoundTrip(call.fmt, call.args, ret.v)
  /\ Returned("utf8") => Utf8As(call.op, call.s, call.args, ret.v)
  /\ Returned("load") => LoadsAs(call.f, call.strip, call.from, ThisMachine, Pieces, call.mode, ret.v)

\* The scanner gives the longest tokens, with the values of strings whatever
\* their escapes and long brackets put into the buffer and took back, on their
\* lines however those are broken, and in every locale (read_string,
\* read_long_string, inclinenumber, trydecpoint); a string converts to the number
\* of its numeral, with spaces and a sign (luaO_str2num).
LexesAsWritten ==
  /\ Returned("scan") => ret.v = Tokens(call.s, 1)
  /\ Returned("tonumber") => ret.v = NumberOf(call.s)

\* A statement, compiled in one pass and executed, ends in a state and with
\* the calls that the manual gives it: jumps leave the value of 'and', 'or'
\* and 'not' in its register, a multiple assignment stores the values from
\* before it, and the compiler keeps its assertions on registers.
CodeEvaluates == Returned("run") => RunsAs(call.stat, call.env, ret.v)
=============================================================================
