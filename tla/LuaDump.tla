------------------------------ MODULE LuaDump ------------------------------
(***************************************************************************)
(* Precompiled chunks: string.dump (ldump.c), and load of what it wrote    *)
(* (lundump.c) from a reader that hands it out in pieces (lzio.c).         *)
(*                                                                         *)
(* A machine is [version, format, int, size_t, little, num]: the version   *)
(* and format of chunks, the sizes of int (that of Instruction and         *)
(* lua_Integer here) and size_t, the order of bytes, how floats are kept.  *)
(* A byte holds 0 .. MaxByte (0xFF in the code).  A prototype is [source,  *)
(* lines, sizes, code, k, upvalues, p, lineinfo, locvars]; lines has the   *)
(* first and the last one, sizes are numparams, is_vararg, maxstacksize.   *)
(***************************************************************************)
EXTENDS Integers, Sequences, SequencesExt, LuaSteps

CONSTANTS
  MaxByte, MAXSHORTLEN,
  LUA_SIGNATURE, LUAC_DATA, LUAC_INT, LUAC_NUM

ASSUME DumpAssumption ==
  /\ MaxByte \in Nat /\ MaxByte > 5 /\ MAXSHORTLEN \in Nat
  /\ LUA_SIGNATURE \in Seq(0..MaxByte) /\ LUA_SIGNATURE # <<>> /\ LUAC_DATA \in Seq(0..MaxByte)

NULL == <<-1>>        \* no string
Flat(seqs) == FlattenSeq(seqs)
Ordered(mach, bytes) == IF mach.little THEN bytes ELSE Reverse(bytes)

-----------------------------------------------------------------------------
(* Writing.  The writer of string.dump never fails. *)

DumpByte(y) == <<y>>
DumpVar(mach, size, n) ==
  Ordered(mach, [i \in 1..size |-> (n \div (MaxByte + 1) ^ (i - 1)) % (MaxByte + 1)])
DumpInt(mach, n) == DumpVar(mach, mach.int, n)
DumpInteger(mach, n) == DumpVar(mach, mach.int, n)
DumpNumber(mach, n) == DumpVar([mach EXCEPT !.little = (mach.num = "low first")], 2, n)

\* Mutant: the size that marks a long one is written as a short one.
FitsByteToo(size) == size <= MaxByte

FitsByte(size) == size < MaxByte

\* The size includes the trailing zero, which is not written.
DumpString(mach, s) ==
  IF s = NULL THEN DumpByte(0)
  ELSE LET size == Len(s) + 1
       IN (IF FitsByte(size) THEN DumpByte(size) ELSE DumpByte(MaxByte) \o DumpVar(mach, mach.size_t, size)) \o s

\* DumpVector with its length, each element by D.
DumpList(mach, list, D(_)) == DumpInt(mach, Len(list)) \o Flat([i \in DOMAIN list |-> D(list[i])])

Tag == [nil |-> 0, bool |-> 1, flt |-> 2, int |-> 3, shrstr |-> 4, lngstr |-> 5]
DumpConstant(mach, o) ==
  DumpByte(Tag[o.t]) \o
  (CASE o.t = "nil" -> <<>>
     [] o.t = "bool" -> DumpByte(o.v)
     [] o.t = "flt" -> DumpNumber(mach, o.v)
     [] o.t = "int" -> DumpInteger(mach, o.v)
     [] o.t \in {"shrstr", "lngstr"} -> DumpString(mach, o.v))

DumpDebug(mach, f, strip) ==
  LET kept(list) == IF strip THEN <<>> ELSE list
  IN DumpList(mach, kept(f.lineinfo), LAMBDA n : DumpInt(mach, n))
     \o DumpList(mach, kept(f.locvars),
                 LAMBDA v : DumpString(mach, v.name) \o DumpInt(mach, v.startpc) \o DumpInt(mach, v.endpc))
     \o DumpList(mach, kept(f.upvalues), LAMBDA u : DumpString(mach, u.name))

\* A nested function has the source of its parent, and does not repeat it.
RECURSIVE DumpFunction(_, _, _, _)
DumpFunction(mach, f, psource, strip) ==
  DumpString(mach, IF strip \/ f.source = psource THEN NULL ELSE f.source)
  \o Flat([i \in 1..2 |-> DumpInt(mach, f.lines[i])]) \o f.sizes
  \o DumpList(mach, f.code, LAMBDA i : DumpInt(mach, i))
  \o DumpList(mach, f.k, LAMBDA o : DumpConstant(mach, o))
  \o DumpList(mach, f.upvalues, LAMBDA u : DumpByte(u.instack) \o DumpByte(u.idx))
  \o DumpList(mach, f.p, LAMBDA g : DumpFunction(mach, g, f.source, strip))
  \o DumpDebug(mach, f, strip)

Sizes(mach) == <<mach.int, mach.size_t, mach.int, mach.int, 2>>

DumpHeader(mach) ==
  LUA_SIGNATURE \o DumpByte(mach.version) \o DumpByte(mach.format) \o LUAC_DATA \o Sizes(mach)
  \o DumpInteger(mach, LUAC_INT) \o DumpNumber(mach, LUAC_NUM)

luaU_dump(mach, f, strip) ==
  DumpHeader(mach) \o DumpByte(Len(f.upvalues)) \o DumpFunction(mach, f, NULL, strip)

-----------------------------------------------------------------------------
(* Reading.  A load state has the input z, the value v read last and the   *)
(* reason of the error that ended the load, "" as long as there is none.   *)

luaZ_init(pieces) == [p |-> <<>>, rest |-> pieces]

\* The reader's next piece; an empty one is the end of the input.
AtEnd(z) == z.rest = <<>> \/ Head(z.rest) = <<>>
luaZ_fill(z) == [p |-> Head(z.rest), rest |-> Tail(z.rest)]

\* The n bytes that follow, or as many as there are.
RECURSIVE luaZ_read(_, _, _)
luaZ_read(z, n, b) ==
  IF n = 0 THEN [z |-> z, b |-> b, missing |-> 0]
  ELSE IF z.p = <<>>
  THEN IF AtEnd(z) THEN [z |-> z, b |-> b, missing |-> n] ELSE luaZ_read(luaZ_fill(z), n, b)
  ELSE LET m == IF n <= Len(z.p) THEN n ELSE Len(z.p)
       IN luaZ_read([z EXCEPT !.p = SubSeq(@, m + 1, Len(@))], n - m, b \o SubSeq(z.p, 1, m))

error(S, why) == IF S.err = "" THEN [S EXCEPT !.err = why] ELSE S

LoadBlock(S, size) ==
  IF S.err # "" THEN S
  ELSE LET r == luaZ_read(S.z, size, <<>>)
       IN IF r.missing # 0 THEN error(S, "truncated") ELSE [S EXCEPT !.z = r.z, !.v = r.b]

\* An error ends the load: no value is computed after it.
Value(S, v) == IF S.err = "" THEN [S EXCEPT !.v = v] ELSE [S EXCEPT !.v = 0]

LoadByte(S) ==
    Then(LoadBlock(S, 1), LAMBDA s :
      IF s.err = "" THEN Value(s, s.v[1]) ELSE Value(s, 0))
LoadVar(S, little, size) ==
  Then(LoadBlock(S, size), LAMBDA s :
  Then(Ordered([little |-> little], s.v), LAMBDA bytes :
    IF s.err = "" THEN Value(s, FoldRight(LAMBDA b, n : b + (MaxByte + 1) * n, bytes, 0)) ELSE Value(s, 0)))
LoadInt(mach, S) == LoadVar(S, mach.little, mach.int)
LoadInteger(mach, S) == LoadVar(S, mach.little, mach.int)
LoadNumber(mach, S) == LoadVar(S, mach.num = "low first", 2)

LoadString(mach, S) ==
  Then(LoadByte(S), LAMBDA s1 :
  Then(IF s1.v = MaxByte THEN LoadVar(s1, mach.little, mach.size_t) ELSE s1, LAMBDA s2 :
    IF s2.err # "" \/ s2.v = 0 THEN Value(s2, NULL)
    ELSE LoadBlock(s2, s2.v - 1)))

\* n elements by L.
LoadN(S, n, L(_)) ==
  FoldLeft(LAMBDA s, i : LET list == s.v
                             r == L(s)
                         IN IF s.err # "" THEN s ELSE [r EXCEPT !.v = Append(list, r.v)],
           [S EXCEPT !.v = <<>>], [i \in 1..n |-> i])
LoadList(mach, S, L(_)) ==
    Then(LoadInt(mach, S), LAMBDA s :
      LoadN(s, s.v, L))

\* A type that there is none of is left to an assertion, and the constant is nil.
LoadConstant(mach, S) ==
  Then(LoadByte(S), LAMBDA s :
  Then(CHOOSE x \in DOMAIN Tag : Tag[x] = s.v \/ (x = "nil" /\ s.v > 5), LAMBDA t :
  Then(CASE t = "nil" -> s
         [] t = "bool" -> LoadByte(s)
         [] t = "flt" -> LoadNumber(mach, s)
         [] t = "int" -> LoadInteger(mach, s)
         [] t \in {"shrstr", "lngstr"} -> LoadString(mach, s), LAMBDA r :
  LET long == s.v \in {4, 5} /\ r.err = "" /\ Len(r.v) > MAXSHORTLEN IN
    Value(r, [t |-> IF s.v \notin {4, 5} THEN t ELSE IF long THEN "lngstr" ELSE "shrstr", v |-> r.v]))))

LoadUpvalue(S) ==
  Then(LoadByte(S), LAMBDA s1 :
  Then(LoadByte(s1), LAMBDA s2 :
    Value(s2, [instack |-> s1.v, idx |-> s2.v, name |-> NULL])))

LoadLocVar(mach, S) ==
  Then(LoadString(mach, S), LAMBDA s1 :
  Then(LoadInt(mach, s1), LAMBDA s2 :
  Then(LoadInt(mach, s2), LAMBDA s3 :
    Value(s3, [name |-> s1.v, startpc |-> s2.v, endpc |-> s3.v]))))

\* Lines, local variables and the names of upvalues, of which there may be none.
LoadDebug(mach, S, f) ==
  Then(LoadList(mach, S, LAMBDA s : LoadInt(mach, s)), LAMBDA s1 :
  Then(LoadList(mach, s1, LAMBDA s : LoadLocVar(mach, s)), LAMBDA s2 :
  Then(LoadList(mach, s2, LAMBDA s : LoadString(mach, s)), LAMBDA s3 :
  LET name(i) == IF i <= Len(s3.v) THEN s3.v[i] ELSE NULL IN
    IF s3.err # "" THEN s3
    ELSE Value(s3, [f EXCEPT !.lineinfo = s1.v, !.locvars = s2.v,
                             !.upvalues = [i \in DOMAIN @ |-> [@[i] EXCEPT !.name = name(i)]]]))))

RECURSIVE LoadFunction(_, _, _)
LoadFunction(mach, S, psource) ==
  Then(LoadString(mach, S), LAMBDA s1 :
  Then(IF s1.v = NULL THEN psource ELSE s1.v, LAMBDA source :
  Then(LoadN(s1, 2, LAMBDA s : LoadInt(mach, s)), LAMBDA s2 :
  Then(LoadN(s2, 3, LoadByte), LAMBDA s3 :
  Then(LoadList(mach, s3, LAMBDA s : LoadInt(mach, s)), LAMBDA s4 :
  Then(LoadList(mach, s4, LAMBDA s : LoadConstant(mach, s)), LAMBDA s5 :
  Then(LoadList(mach, s5, LoadUpvalue), LAMBDA s6 :
  Then(LoadList(mach, s6, LAMBDA s : LoadFunction(mach, s, source)), LAMBDA s7 :
    IF s7.err # "" THEN s7
    ELSE LoadDebug(mach, s7, [source |-> source, lines |-> s2.v, sizes |-> s3.v, code |-> s4.v, k |-> s5.v,
                              upvalues |-> s6.v, p |-> s7.v, lineinfo |-> <<>>, locvars |-> <<>>])))))))))

checkliteral(S, text, msg) ==
  Then(LoadBlock(S, Len(text)), LAMBDA s :
    IF s.err = "" /\ s.v # text THEN error(s, msg) ELSE s)
Checked(s, v, msg) == IF s.err = "" /\ s.v # v THEN error(s, msg) ELSE s
checksize(mach, S) == FoldLeft(LAMBDA s, size : Checked(LoadByte(s), size, "size mismatch"), S, Sizes(mach))

\* The first byte of the signature has been read by f_parser.
checkHeader(mach, S) ==
  Then(checkliteral(S, Tail(LUA_SIGNATURE), "not a"), LAMBDA s1 :
  Then(Checked(LoadByte(s1), mach.version, "version mismatch"), LAMBDA s2 :
  Then(Checked(LoadByte(s2), mach.format, "format mismatch"), LAMBDA s3 :
  Then(checksize(mach, checkliteral(s3, LUAC_DATA, "corrupted")), LAMBDA s4 :
  Then(Checked(LoadInteger(mach, s4), LUAC_INT, "endianness mismatch"), LAMBDA s5 :
    Checked(LoadNumber(mach, s5), LUAC_NUM, "float format mismatch"))))))

luaU_undump(mach, S) == LoadFunction(mach, LoadByte(checkHeader(mach, S)), NULL)

checkmode(S, mode, x) == IF x \in mode THEN S ELSE error(S, "mode")

\* The first byte tells a precompiled chunk; other input goes to luaY_parser.
f_parser(mach, pieces, mode) ==
  Then(luaZ_init(pieces), LAMBDA z :
  LET S == [z |-> z, err |-> "", v |-> 0] IN
  Then(LoadByte(S), LAMBDA s :
  Then(~AtEnd(z) /\ s.v = LUA_SIGNATURE[1], LAMBDA binary :
  Then(luaU_undump(mach, checkmode(s, mode, "binary")), LAMBDA r :
    IF ~binary THEN [err |-> checkmode(S, mode, "text").err, v |-> "text"]
    ELSE [err |-> r.err, v |-> IF r.err = "" THEN r.v ELSE NULL]))))

-----------------------------------------------------------------------------
(* What is read is what was written. *)

\* A function without its debug information: it has no source either.
RECURSIVE Stripped(_)
Stripped(f) ==
  [f EXCEPT !.source = NULL, !.lineinfo = <<>>, !.locvars = <<>>,
            !.upvalues = [i \in DOMAIN @ |-> [@[i] EXCEPT !.name = NULL]],
            !.p = [i \in DOMAIN @ |-> Stripped(@[i])]]

\* What the reader hands out before the first empty piece.
Input(pieces) ==
  LET ends == SelectInSeq(pieces, LAMBDA p : p = <<>>)
  IN Flat(IF ends = 0 THEN pieces ELSE SubSeq(pieces, 1, ends - 1))

\* A dump handed out in pieces, cut after i and after j bytes.
Cut(bytes, i, j) == <<SubSeq(bytes, 1, i), SubSeq(bytes, i + 1, j), SubSeq(bytes, j + 1, Len(bytes)), <<0>> >>

\* f, dumped by one machine, cut in pieces and loaded by another one, is the
\* same function if the machines are alike and the input is complete, and
\* otherwise nothing at all.
LoadsAs(f, strip, from, to, pieces, mode, res) ==
  Then(luaU_dump(from, f, strip), LAMBDA bytes :
  Then(IsPrefix(bytes, Input(pieces)), LAMBDA complete :
    IF Input(pieces) = <<>> THEN res.v = "text"
    ELSE IF complete /\ from = to /\ "binary" \in mode
    THEN res.err = "" /\ res.v = (IF strip THEN Stripped(f) ELSE f)
    ELSE res.err # ""))
=============================================================================
