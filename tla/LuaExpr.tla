------------------------------ MODULE LuaExpr ------------------------------
(***************************************************************************)
(* Expressions and assignments: the one-pass compiler (lparser.c,          *)
(* lcode.c) and the instructions it emits (lvm.c).                         *)
(*                                                                         *)
(* The parser reads a sequence of tokens and emits code as it goes.  f is  *)
(* the FuncState: f.toks the tokens not read, f.code the instructions,     *)
(* f.k the constants, f.jpc the jumps waiting for the next instruction,    *)
(* f.last the last jump target, f.free the first free register, f.e the    *)
(* expression descriptor being built, f.j the last jump list made, f.n     *)
(* the length of the last expression list, f.ok the compiler's lua_asserts *)
(* so far.  A list of jumps, which the code threads through the jump       *)
(* instructions, is the set of their positions; positions start at 1.      *)
(*                                                                         *)
(* A value is a sequence of strings, its type first.  Arithmetic builds    *)
(* terms: two computations have equal results only if they applied the     *)
(* same operators to the same operands in the same order.  Two locals, a   *)
(* and b, are in registers 0 and 1; upvalue 0 is _ENV, upvalue 1 is u;     *)
(* every other name is global.  A register the code may not rely on holds  *)
(* Junk.  MAXREGS and MAXARG_Bx are out of the reach of the inputs.        *)
(***************************************************************************)
EXTENDS Integers, Sequences, FiniteSets, LuaSteps

CONSTANTS MAXINDEXRK,        \* constants an operand can name
          LFIELDS_PER_FLUSH  \* list items stored by one OP_SETLIST

ASSUME ExprAssumption == MAXINDEXRK \in 0..255 /\ LFIELDS_PER_FLUSH \in Nat \ {0}

BITRK == 256
NO_REG == 255
ISK(x) == x >= BITRK
nactvar == 2
LUA_MULTRET == -1

Nil == <<"nil">>
False == <<"false">>
True == <<"true">>
Junk == <<"junk">>
ErrorV == <<"error">>
BoolV(p) == IF p THEN True ELSE False
NumV(tok) == <<"num", tok>>
IsFalse(v) == v \in {Nil, False}

Numerals == {"0", "1", "2"}
Locals == [a |-> 0, b |-> 1]
ArithOps == {"+", "-", "*", "/", "//", "%", "^", "&"}
CompOps == {"==", "~=", "<", ">", "<=", ">="}
BinOps == ArithOps \cup CompOps \cup {"..", "and", "or"}
UnOps == {"not", "-", "#"}

(***************************************************************************)
(* What an operator computes (shared by the folding and by the machine).   *)
(***************************************************************************)
Arith(op, x, y) ==
    IF x[1] = "num" /\ y[1] = "num" /\ ~(op \in {"//", "%"} /\ y = NumV("0"))
    THEN <<"num", op>> \o Tail(x) \o Tail(y) ELSE ErrorV

Negate(x) == IF x[1] = "num" THEN <<"num", "neg">> \o Tail(x) ELSE ErrorV
Length(x) == IF x[1] \in {"str", "table"} THEN <<"num", "len">> \o Tail(x) ELSE ErrorV

Rank(x) == 10 * Len(x) + (IF Len(x) = 2 /\ x[2] = "2" THEN 2 ELSE IF Len(x) = 2 /\ x[2] = "1" THEN 1 ELSE 0)
Compare(op, x, y) ==
    CASE op = "EQ" -> BoolV(x = y)
      [] x[1] # y[1] \/ x[1] \notin {"num", "str"} -> ErrorV
      [] op = "LT" -> BoolV(Rank(x) < Rank(y))
      [] op = "LE" -> BoolV(Rank(x) <= Rank(y))

Join(vals) ==
    IF \E i \in 1..Len(vals) : vals[i][1] \notin {"num", "str"} THEN ErrorV
    ELSE LET all[i \in 0..Len(vals)] == IF i = 0 THEN <<"str">> ELSE all[i - 1] \o Tail(vals[i]) IN all[Len(vals)]

(***************************************************************************)
(* Instructions and jump lists.                                            *)
(***************************************************************************)
NoExp == [k |-> "VVOID", i |-> 0, idx |-> 0, vt |-> "", t |-> {}, f |-> {}]
init_exp(f, k, i) == [f EXCEPT !.e = [NoExp EXCEPT !.k = k, !.i = i]]
SetKind(f, k, i) == [f EXCEPT !.e.k = k, !.e.i = i]
hasjumps(e) == e.t # e.f
hasmultret(k) == k \in {"VCALL", "VVARARG"}
Pc(f) == Len(f.code) + 1
Check(f, p) == [f EXCEPT !.ok = @ /\ p]

TestMode == {"EQ", "LT", "LE", "TEST", "TESTSET"}
getjumpcontrol(f, pc) == IF pc > 1 /\ f.code[pc - 1].op \in TestMode THEN pc - 1 ELSE pc
Valued(f, list) == {j \in list : f.code[getjumpcontrol(f, j)].op = "TESTSET"}
need_value(f, list) == Valued(f, list) # list

patchtestreg(i, reg) ==
    IF reg # NO_REG /\ reg # i.b THEN [i EXCEPT !.a = reg]
    ELSE [op |-> "TEST", a |-> i.b, b |-> 0, c |-> i.c]

removevalues(f, list) ==
    [f EXCEPT !.code = [pc \in DOMAIN @ |->
        IF pc + 1 \in Valued(f, list) THEN patchtestreg(@[pc], NO_REG) ELSE @[pc]]]

patchlistaux(f, list, vtarget, reg, dtarget) ==
    Then(Valued(f, list), LAMBDA valued :
      [f EXCEPT !.code = [pc \in DOMAIN @ |->
          CASE pc \in list -> [@[pc] EXCEPT !.b = IF pc \in valued THEN vtarget ELSE dtarget]
            [] pc + 1 \in valued -> patchtestreg(@[pc], reg)
            [] OTHER -> @[pc]]])

dischargejpc(f) == [patchlistaux(f, f.jpc, Pc(f), NO_REG, Pc(f)) EXCEPT !.jpc = {}]

luaK_code(f, op, a, b, c) ==
    [dischargejpc(f) EXCEPT !.code = Append(@, [op |-> op, a |-> a, b |-> b, c |-> c])]

luaK_getlabel(f) == [f EXCEPT !.last = Pc(f)]
luaK_patchtohere(f, list) == [luaK_getlabel(f) EXCEPT !.jpc = @ \cup list]

luaK_jump(f) ==
    Then(luaK_code([f EXCEPT !.jpc = {}], "JMP", 0, 0, 0), LAMBDA f1 :
      [f1 EXCEPT !.j = {Len(f1.code)} \cup f.jpc])

condjump(f, op, a, b, c) == luaK_jump(luaK_code(f, op, a, b, c))

luaK_nil(f, from, n) ==
    LET l == from + n - 1
        previous == f.code[Len(f.code)]
        pl == previous.a + previous.b
        start == IF previous.a < from THEN previous.a ELSE from
        end == IF pl > l THEN pl ELSE l
    IN  IF /\ Pc(f) > f.last
           /\ previous.op = "LOADNIL"
           /\ (previous.a <= from /\ from <= pl + 1) \/ (from <= previous.a /\ previous.a <= l + 1)
        THEN [f EXCEPT !.code[Len(f.code)].a = start, !.code[Len(f.code)].b = end - start]
        ELSE luaK_code(f, "LOADNIL", from, n - 1, 0)

(***************************************************************************)
(* Registers and constants.                                                *)
(***************************************************************************)
luaK_reserveregs(f, n) == [f EXCEPT !.free = @ + n]

freereg(f, reg) ==
    IF ~ISK(reg) /\ reg >= nactvar THEN Check([f EXCEPT !.free = @ - 1], reg = f.free - 1) ELSE f

freeexp(f, e) == IF e.k = "VNONRELOC" THEN freereg(f, e.i) ELSE f

\* Makes v a constant, reusing its index, and the expression that constant.
addk(f, v) ==
    LET at == {i \in 1..Len(f.k) : f.k[i] = v}
    IN  IF at # {} THEN SetKind(f, "VK", CHOOSE i \in at : TRUE)
        ELSE SetKind([f EXCEPT !.k = Append(@, v)], "VK", Len(f.k) + 1)

tonumeral(e) == e.k = "VKINT" /\ ~hasjumps(e)

(***************************************************************************)
(* Expressions to values, to registers, to conditions.                     *)
(***************************************************************************)
Relocatable(f) == SetKind(f, "VRELOCABLE", Len(f.code))

luaK_setoneret(f) ==
    CASE f.e.k = "VCALL" -> SetKind(f, "VNONRELOC", f.code[f.e.i].a)
      [] f.e.k = "VVARARG" -> [f EXCEPT !.code[f.e.i].b = 2, !.e.k = "VRELOCABLE"]
      [] OTHER -> f

luaK_setreturns(f, nresults) ==
    CASE f.e.k = "VCALL" -> [f EXCEPT !.code[f.e.i].c = nresults + 1]
      [] f.e.k = "VVARARG" ->
            luaK_reserveregs([f EXCEPT !.code[f.e.i].b = nresults + 1, !.code[f.e.i].a = f.free], 1)
      [] OTHER -> f

luaK_dischargevars(f) ==
    LET e == f.e
        inreg == e.vt = "VLOCAL"
        Freed(g) == IF inreg THEN freereg(g, e.i) ELSE g
    IN  CASE e.k = "VLOCAL" -> [f EXCEPT !.e.k = "VNONRELOC"]
          [] e.k = "VUPVAL" -> Relocatable(luaK_code(f, "GETUPVAL", 0, e.i, 0))
          [] e.k = "VINDEXED" ->
                Relocatable(luaK_code(Freed(freereg(f, e.idx)), IF inreg THEN "GETTABLE" ELSE "GETTABUP", 0, e.i, e.idx))
          [] OTHER -> luaK_setoneret(f)

LoadOp(e) == CASE e.k \in {"VFALSE", "VTRUE"} -> "LOADBOOL" [] e.k = "VK" -> "LOADK" [] e.k = "VNONRELOC" -> "MOVE"
LoadArg(e) == CASE e.k = "VFALSE" -> 0 [] e.k = "VTRUE" -> 1 [] OTHER -> e.i

discharge2reg(f, reg) ==
    Then(luaK_dischargevars(f), LAMBDA f1 :
    Then(IF f1.e.k = "VKINT" THEN addk(f1, f1.e.i) ELSE f1, LAMBDA f2 :
    LET e == f2.e
        Loaded(g) == SetKind(g, "VNONRELOC", reg) IN
      CASE e.k = "VNIL" -> Loaded(luaK_nil(f2, reg, 1))
        [] e.k = "VRELOCABLE" -> Loaded([f2 EXCEPT !.code[e.i].a = reg])
        [] e.k \in {"VFALSE", "VTRUE", "VK", "VNONRELOC"} ->
              Loaded(IF e.k = "VNONRELOC" /\ reg = e.i THEN f2 ELSE luaK_code(f2, LoadOp(e), reg, LoadArg(e), 0))
        [] OTHER -> f2))

discharge2anyreg(f) ==
    IF f.e.k = "VNONRELOC" THEN f ELSE discharge2reg(luaK_reserveregs(f, 1), f.free)

code_label(f, a, b, jump) == luaK_code(luaK_getlabel(f), "LOADBOOL", a, b, jump)

\* The jumps of the expression: those whose test leaves the value in reg go
\* to the end, the others through a LOADBOOL.
LoadJumps(f, reg) ==
    Then(need_value(f, f.e.t) \/ need_value(f, f.e.f), LAMBDA need :
    Then(IF f.e.k = "VJMP" THEN [f EXCEPT !.j = {}] ELSE luaK_jump(f), LAMBDA f1 :
    Then(Pc(f1), LAMBDA p_f :
    Then(luaK_patchtohere(code_label(code_label(f1, reg, 0, 1), reg, 1, 0), f1.j), LAMBDA f2 :
    Then(luaK_getlabel(IF need THEN f2 ELSE f), LAMBDA f3 :
      patchlistaux(patchlistaux(f3, f.e.f, Pc(f3), reg, p_f), f.e.t, Pc(f3), reg, p_f + 1))))))

exp2reg(f, reg) ==
    Then(discharge2reg(f, reg), LAMBDA f1 :
    Then(IF f1.e.k = "VJMP" THEN [f1 EXCEPT !.e.t = @ \cup {f1.e.i}] ELSE f1, LAMBDA f2 :
    Then(IF hasjumps(f2.e) THEN LoadJumps(f2, reg) ELSE f2, LAMBDA f3 :
      [f3 EXCEPT !.e.f = {}, !.e.t = {}, !.e.i = reg, !.e.k = "VNONRELOC"])))

NextReg(f) == luaK_reserveregs(freeexp(f, f.e), 1)

luaK_exp2nextreg(f) ==
    Then(NextReg(luaK_dischargevars(f)), LAMBDA f1 : exp2reg(f1, f1.free - 1))

luaK_exp2anyreg(f) ==
    Then(luaK_dischargevars(f), LAMBDA f1 :
    Then(f1.e.k = "VNONRELOC" /\ hasjumps(f1.e) /\ f1.e.i >= nactvar, LAMBDA own :
    Then(IF own THEN f1 ELSE NextReg(f1), LAMBDA f2 :
      IF f1.e.k = "VNONRELOC" /\ ~hasjumps(f1.e) THEN f1
      ELSE exp2reg(f2, IF own THEN f1.e.i ELSE f2.free - 1))))

luaK_exp2anyregup(f) == IF f.e.k # "VUPVAL" \/ hasjumps(f.e) THEN luaK_exp2anyreg(f) ELSE f

luaK_exp2val(f) == IF hasjumps(f.e) THEN luaK_exp2anyreg(f) ELSE luaK_dischargevars(f)

luaK_exp2RK(f) ==
    Then(luaK_exp2val(f), LAMBDA f1 :
    Then(CASE f1.e.k \in {"VTRUE", "VFALSE", "VNIL"} /\ Len(f1.k) < MAXINDEXRK ->
                addk(f1, CASE f1.e.k = "VNIL" -> Nil [] f1.e.k = "VTRUE" -> True [] OTHER -> False)
           [] f1.e.k = "VKINT" -> addk(f1, f1.e.i)
           [] OTHER -> f1, LAMBDA f2 :
      IF f2.e.k = "VK" /\ f2.e.i <= MAXINDEXRK THEN f2 ELSE luaK_exp2anyreg(f2)))

RK(e) == IF e.k = "VK" THEN BITRK + e.i ELSE e.i

luaK_storevar(f, var) ==
    Then(IF var.k = "VUPVAL" THEN luaK_exp2anyreg(f) ELSE luaK_exp2RK(f), LAMBDA f1 :
    LET Emit(op, a, b, c) == freeexp(luaK_code(f1, op, a, b, c), f1.e) IN
      CASE var.k = "VLOCAL" -> exp2reg(freeexp(f, f.e), var.i)
        [] var.k = "VUPVAL" -> Emit("SETUPVAL", f1.e.i, var.i, 0)
        [] var.k = "VINDEXED" ->
              Emit(IF var.vt = "VLOCAL" THEN "SETTABLE" ELSE "SETTABUP", var.i, var.idx, RK(f1.e)))

luaK_indexed(f, t) ==
    Then(luaK_exp2RK(f), LAMBDA f1 :
      Check([f1 EXCEPT !.e = [t EXCEPT !.idx = RK(f1.e), !.k = "VINDEXED",
                                       !.vt = IF t.k = "VUPVAL" THEN "VUPVAL" ELSE "VLOCAL"]],
            ~hasjumps(t)))

luaK_self(f, name) ==
    Then(addk(f, <<"str", name>>), LAMBDA f0 :
    Then(luaK_exp2anyreg([f0 EXCEPT !.e = f.e]), LAMBDA f1 :
    Then(freeexp(f1, f1.e), LAMBDA f2 :
    Then(luaK_exp2RK([luaK_reserveregs(f2, 2) EXCEPT !.e = [NoExp EXCEPT !.k = "VK", !.i = f0.e.i]]), LAMBDA f3 :
      init_exp(freeexp(luaK_code(f3, "SELF", f2.free, f1.e.i, RK(f3.e)), f3.e), "VNONRELOC", f2.free)))))

invertjump(f) == [f EXCEPT !.code[getjumpcontrol(f, f.e.i)].a = 1 - @]

jumponcond(f, cond) ==
    Then(discharge2anyreg(f), LAMBDA f1 :
      IF f.e.k = "VRELOCABLE" /\ f.code[f.e.i].op = "not"
      THEN condjump([f EXCEPT !.code = SubSeq(@, 1, Len(@) - 1)], "TEST", f.code[f.e.i].b, 0, 1 - cond)
      ELSE condjump(freeexp(f1, f1.e), "TESTSET", NO_REG, f1.e.i, cond))

luaK_goiftrue(f) ==
    Then(luaK_dischargevars(f), LAMBDA f1 :
    Then(CASE f1.e.k = "VJMP" -> [invertjump(f1) EXCEPT !.j = {f1.e.i}]
           [] f1.e.k \in {"VK", "VKINT", "VTRUE"} -> [f1 EXCEPT !.j = {}]
           [] OTHER -> jumponcond(f1, 0), LAMBDA f2 :
      [luaK_patchtohere(f2, f2.e.t) EXCEPT !.e.f = @ \cup f2.j, !.e.t = {}]))

luaK_goiffalse(f) ==
    Then(luaK_dischargevars(f), LAMBDA f1 :
    Then(CASE f1.e.k = "VJMP" -> [f1 EXCEPT !.j = {f1.e.i}]
           [] f1.e.k \in {"VNIL", "VFALSE"} -> [f1 EXCEPT !.j = {}]
           [] OTHER -> jumponcond(f1, 1), LAMBDA f2 :
      [luaK_patchtohere(f2, f2.e.f) EXCEPT !.e.t = @ \cup f2.j, !.e.f = {}]))

(***************************************************************************)
(* Operators.                                                              *)
(***************************************************************************)
codenot(f) ==
    Then(luaK_dischargevars(f), LAMBDA f1 :
    Then(discharge2anyreg(f1), LAMBDA f2 :
    Then(CASE f1.e.k \in {"VNIL", "VFALSE"} -> [f1 EXCEPT !.e.k = "VTRUE"]
           [] f1.e.k \in {"VK", "VKINT", "VTRUE"} -> [f1 EXCEPT !.e.k = "VFALSE"]
           [] f1.e.k = "VJMP" -> invertjump(f1)
           [] OTHER -> Relocatable(luaK_code(freeexp(f2, f2.e), "not", 0, f2.e.i, 0)), LAMBDA f3 :
    Then([f3 EXCEPT !.e.f = f3.e.t, !.e.t = f3.e.f], LAMBDA f4 :
      removevalues(removevalues(f4, f4.e.f), f4.e.t)))))

validop(op, v2) == ~(op \in {"/", "//", "%"} /\ v2 = NumV("0"))

\* The second operand of a unary operator is the numeral 0.
Folds(op, e1, e2) == op \in ArithOps \cup {"neg"} /\ tonumeral(e1) /\ tonumeral(e2) /\ validop(op, e2.i)
constfolding(op, e1, e2) ==
    [e1 EXCEPT !.i = IF op = "neg" THEN Negate(e1.i) ELSE Arith(op, e1.i, e2.i)]

FreeBoth(f, first, second) == freeexp(freeexp(f, first), second)

\* The operands in proper order are e1 and, the one just read, f.e.
codeexpval(f, op, e1) ==
    Then(luaK_exp2RK(f), LAMBDA f1 :
    Then(luaK_exp2RK([f1 EXCEPT !.e = e1]), LAMBDA f2 :
    Then(RK(f2.e), LAMBDA o1 :
    Then(RK(f1.e), LAMBDA o2 :
    Then(IF o1 > o2 THEN FreeBoth(f2, f2.e, f1.e) ELSE FreeBoth(f2, f1.e, f2.e), LAMBDA f3 :
      IF Folds(op, e1, f.e) THEN [f EXCEPT !.e = constfolding(op, e1, f.e)]
      ELSE Relocatable(luaK_code(f3, op, 0, o1, o2)))))))

codeunary(f, op) ==
    Then(luaK_exp2anyreg(f), LAMBDA f1 :
      IF Folds(op, f.e, [NoExp EXCEPT !.k = "VKINT", !.i = NumV("0")])
      THEN [f EXCEPT !.e = constfolding(op, f.e, f.e)]
      ELSE Relocatable(luaK_code(freeexp(f1, f1.e), op, 0, f1.e.i, 0)))

codecomp(f, op, cond, e1) ==
    Then(luaK_exp2RK([f EXCEPT !.e = e1]), LAMBDA f1 :
    Then(luaK_exp2RK([f1 EXCEPT !.e = f.e]), LAMBDA f2 :
    Then(FreeBoth(f2, f2.e, f1.e), LAMBDA f3 :
    Then(cond = 0 /\ op # "EQ", LAMBDA swap :
    Then(IF swap THEN condjump(f3, op, 1, RK(f2.e), RK(f1.e))
         ELSE condjump(f3, op, cond, RK(f1.e), RK(f2.e)), LAMBDA f4 :
      [f4 EXCEPT !.e = [f1.e EXCEPT !.k = "VJMP", !.i = Len(f4.code)]])))))

luaK_prefix(f, op) == IF op = "not" THEN codenot(f) ELSE codeunary(f, IF op = "-" THEN "neg" ELSE op)

luaK_infix(f, op) ==
    CASE op = "and" -> luaK_goiftrue(f)
      [] op = "or" -> luaK_goiffalse(f)
      [] op = ".." -> luaK_exp2nextreg(f)
      [] op \in ArithOps \cup CompOps -> IF op \in ArithOps /\ tonumeral(f.e) THEN f ELSE luaK_exp2RK(f)

CompOp(op) == CASE op \in {"==", "~="} -> "EQ" [] op \in {"<", ">"} -> "LT" [] op \in {"<=", ">="} -> "LE"

posfixconcat(f, e1) ==
    Then(luaK_exp2val(f), LAMBDA f1 :
    Then(f1.e.i, LAMBDA at :
    Then(luaK_exp2nextreg(f1), LAMBDA f2 :
    Then(freeexp(freeexp(f2, f2.e), e1), LAMBDA f3 :
      IF f1.e.k = "VRELOCABLE" /\ f1.code[at].op = "CONCAT"
      THEN SetKind([Check(freeexp(f1, e1), e1.i = f1.code[at].b - 1) EXCEPT !.code[at].b = e1.i, !.e = e1],
                   "VRELOCABLE", at)
      ELSE Relocatable([luaK_code(f3, "CONCAT", 0, e1.i, f2.e.i) EXCEPT !.e = e1])))))

luaK_posfix(f, op, e1) ==
    Then(luaK_dischargevars(f), LAMBDA f1 :
      CASE op = "and" -> Check([f1 EXCEPT !.e.f = @ \cup e1.f], e1.t = {})
        [] op = "or" -> Check([f1 EXCEPT !.e.t = @ \cup e1.t], e1.f = {})
        [] op = ".." -> posfixconcat(f, e1)
        [] op \in ArithOps -> codeexpval(f, op, e1)
        [] op \in CompOps -> codecomp(f, CompOp(op), IF op \in {"==", "<", "<="} THEN 1 ELSE 0, e1))

(***************************************************************************)
(* The parser.                                                             *)
(***************************************************************************)
Token(f) == IF f.toks = <<>> THEN "" ELSE Head(f.toks)
SkipToken(f) == [f EXCEPT !.toks = Tail(@)]

LeftPriority(op) ==
    CASE op = "^" -> 14 [] op \in {"*", "/", "//", "%"} -> 11 [] op \in {"+", "-"} -> 10
      [] op = ".." -> 9 [] op = "&" -> 6 [] op \in CompOps -> 3 [] op = "and" -> 2 [] op = "or" -> 1
RightPriority(op) == CASE op = "^" -> 13 [] op = ".." -> 8 [] OTHER -> LeftPriority(op)
UNARY_PRIORITY == 12

singlevar(f, name) ==
    CASE name \in DOMAIN Locals -> init_exp(f, "VLOCAL", Locals[name])
      [] name = "u" -> init_exp(f, "VUPVAL", 1)
      [] OTHER -> luaK_indexed(addk(init_exp(f, "VK", 0), <<"str", name>>),
                               [NoExp EXCEPT !.k = "VUPVAL", !.i = 0])

luaK_setlist(f, base, nelems, tostore) ==
    [luaK_code(f, "SETLIST", base, IF tostore = LUA_MULTRET THEN 0 ELSE tostore,
               (nelems - 1) \div LFIELDS_PER_FLUSH + 1) EXCEPT !.free = base + 1]

\* The productions that refer to one another: "expr", "explist", "suffixedexp"
\* and "statement".
RECURSIVE parse(_, _)
RECURSIVE subexpr(_, _), climb(_, _), suffixes(_), explist(_, _), fields(_, _)

explist(f, n) ==
    Then(parse(f, "expr"), LAMBDA f1 :
      IF Token(f1) = "," THEN explist(luaK_exp2nextreg(SkipToken(f1)), n + 1) ELSE [f1 EXCEPT !.n = n])

\* f.e is the function; the first token is the opening parenthesis.
funcargs(f) ==
    LET base == f.e.i
        empty == f.toks[2] = ")" IN
    Then(IF empty THEN init_exp(SkipToken(f), "VVOID", 0)
         ELSE luaK_setreturns(parse(SkipToken(f), "explist"), LUA_MULTRET), LAMBDA f1 :
    Then(hasmultret(f1.e.k), LAMBDA open :
    Then(IF open \/ empty THEN f1 ELSE luaK_exp2nextreg(f1), LAMBDA f2 :
    Then(luaK_code(SkipToken(f2), "CALL", base, IF open THEN 0 ELSE f2.free - base, 2), LAMBDA f3 :
      [init_exp(f3, "VCALL", Len(f3.code)) EXCEPT !.free = base + 1]))))

primaryexp(f) ==
    IF Token(f) = "(" THEN luaK_dischargevars(SkipToken(parse(SkipToken(f), "expr")))
    ELSE singlevar(SkipToken(f), Token(f))

yindex(f) == SkipToken(luaK_exp2val(parse(SkipToken(f), "expr")))

suffixes(f) ==
    Then(luaK_exp2anyregup(f), LAMBDA t :
    Then(IF Token(f) = "[" THEN yindex(t)
         ELSE addk(init_exp(SkipToken(SkipToken(t)), "VK", 0), <<"str", f.toks[2]>>), LAMBDA key :
      CASE Token(f) \in {".", "["} -> suffixes(luaK_indexed(key, t.e))
        [] Token(f) \in {":", "("} ->
              suffixes(funcargs(IF Token(f) = "(" THEN luaK_exp2nextreg(f)
                                ELSE SkipToken(SkipToken(luaK_self(f, f.toks[2])))))
        [] OTHER -> f))

suffixedexp(f) == suffixes(primaryexp(f))

recfield(f, t) ==
    Then(IF Token(f) = "[" THEN yindex(f) ELSE addk(init_exp(SkipToken(f), "VK", 0), <<"str", Token(f)>>), LAMBDA f1 :
    Then(luaK_exp2RK(SkipToken(f1)), LAMBDA f2 :
    Then(luaK_exp2RK(parse(f2, "expr")), LAMBDA f3 :
      [luaK_code(f3, "SETTABLE", t, RK(f2.e), RK(f3.e)) EXCEPT !.free = f.free])))

closelistfield(f, cc) ==
    Then(luaK_exp2nextreg([f EXCEPT !.e = cc.v]), LAMBDA f1 :
    LET full == cc.tostore = LFIELDS_PER_FLUSH IN
      IF cc.v.k = "VVOID" THEN [f |-> f, cc |-> cc]
      ELSE [f |-> IF full THEN luaK_setlist(f1, cc.t, cc.na, cc.tostore) ELSE f1,
            cc |-> [cc EXCEPT !.v = NoExp, !.tostore = IF full THEN 0 ELSE @]])

lastlistfield(f, cc) ==
    LET f1 == [f EXCEPT !.e = cc.v]
    IN  CASE cc.tostore = 0 -> f
          [] cc.tostore # 0 /\ hasmultret(cc.v.k) ->
                luaK_setlist(luaK_setreturns(f1, LUA_MULTRET), cc.t, cc.na, LUA_MULTRET)
          [] OTHER -> luaK_setlist(IF cc.v.k = "VVOID" THEN f1 ELSE luaK_exp2nextreg(f1), cc.t, cc.na, cc.tostore)

\* The fields left, with the constructor's control cc.
fields(f, cc) ==
    Then(closelistfield(f, cc), LAMBDA closed :
    Then(recfield(closed.f, cc.t), LAMBDA rec :
    Then(parse(closed.f, "expr"), LAMBDA list :
      CASE Token(f) = "}" -> SkipToken(lastlistfield(f, cc))
        [] Token(f) = "," -> fields(SkipToken(f), cc)
        [] Token(f) = "[" \/ (Len(f.toks) > 1 /\ f.toks[2] = "=") -> fields(rec, closed.cc)
        [] OTHER -> fields(list, [closed.cc EXCEPT !.v = list.e, !.na = @ + 1, !.tostore = @ + 1]))))

constructor(f) ==
    Then(luaK_exp2nextreg(Relocatable(init_exp(luaK_code(f, "NEWTABLE", 0, 0, 0), "VVOID", 0))), LAMBDA f1 :
    Then(fields(SkipToken(f1), [v |-> NoExp, t |-> f1.e.i, na |-> 0, tostore |-> 0]), LAMBDA f2 :
      [f2 EXCEPT !.e = f1.e]))

simpleexp(f) ==
    Then(Token(f), LAMBDA tok :
    Then(SkipToken(f), LAMBDA f1 :
      CASE tok \in Numerals -> init_exp(f1, "VKINT", NumV(tok))
        [] tok = "'s'" -> addk(init_exp(f1, "VK", 0), <<"str", tok>>)
        [] tok = "nil" -> init_exp(f1, "VNIL", 0)
        [] tok = "true" -> init_exp(f1, "VTRUE", 0)
        [] tok = "false" -> init_exp(f1, "VFALSE", 0)
        [] tok = "..." -> init_exp(luaK_code(f1, "VARARG", 0, 1, 0), "VVARARG", Pc(f1))
        [] tok = "{" -> constructor(f)
        [] OTHER -> parse(f, "suffixedexp")))

subexpr(f, limit) ==
    climb(IF Token(f) \in UnOps THEN luaK_prefix(subexpr(SkipToken(f), UNARY_PRIORITY), Token(f))
          ELSE simpleexp(f), limit)

climb(f, limit) ==
    Then(Token(f), LAMBDA op :
    Then(luaK_infix(SkipToken(f), op), LAMBDA f1 :
      IF op \in BinOps /\ LeftPriority(op) > limit
      THEN climb(luaK_posfix(subexpr(f1, RightPriority(op)), op, f1.e), limit)
      ELSE f))

(***************************************************************************)
(* Statements.                                                             *)
(***************************************************************************)
adjust_assign(f, nvars, nexps) ==
    LET extra == nvars - nexps
        more == IF extra + 1 < 0 THEN 0 ELSE extra + 1 IN
    Then(luaK_setreturns(f, more), LAMBDA f1 :
    Then(IF f.e.k # "VVOID" THEN luaK_exp2nextreg(f) ELSE f, LAMBDA f2 :
      CASE hasmultret(f.e.k) -> IF more > 1 THEN luaK_reserveregs(f1, more - 1) ELSE f1
        [] ~hasmultret(f.e.k) /\ extra > 0 -> luaK_nil(luaK_reserveregs(f2, extra), f2.free, extra)
        [] OTHER -> f2))

\* Mutant: earlier variables keep using the local that is assigned.
check_conflictNot(f, vars) == vars

\* The descriptors of earlier variables that use the local or upvalue f.e
\* turn to the copy that is made of it.
check_conflict(f, vars) ==
    LET v == f.e
        Safe(w) == [w EXCEPT !.i = IF w.vt = v.k /\ w.i = v.i THEN f.free ELSE @,
                             !.vt = IF @ = v.k /\ w.i = v.i THEN "VLOCAL" ELSE @,
                             !.idx = IF v.k = "VLOCAL" /\ @ = v.i THEN f.free ELSE @]
    IN  [n \in 1..Len(vars) |-> IF vars[n].k = "VINDEXED" THEN Safe(vars[n]) ELSE vars[n]]

CopyConflict(f, conflict) ==
    IF ~conflict THEN f
    ELSE luaK_reserveregs(luaK_code(f, IF f.e.k = "VLOCAL" THEN "MOVE" ELSE "GETUPVAL", f.free, f.e.i, 0), 1)

RECURSIVE StoreRest(_, _)
StoreRest(f, vars) ==
    IF vars = <<>> THEN f
    ELSE StoreRest(luaK_storevar(init_exp(f, "VNONRELOC", f.free - 1), vars[Len(vars)]),
                   SubSeq(vars, 1, Len(vars) - 1))

RECURSIVE assignment(_, _)
assignment(f, vars) ==
    Then(parse(SkipToken(f), "suffixedexp"), LAMBDA f1 :
    Then(IF f1.e.k = "VINDEXED" THEN vars ELSE check_conflict(f1, vars), LAMBDA safe :
    Then(parse(SkipToken(f), "explist"), LAMBDA f2 :
    LET n == Len(vars) IN
    Then(adjust_assign(f2, n, f2.n), LAMBDA f3 :
    Then(IF f2.n > n THEN [f3 EXCEPT !.free = @ - (f2.n - n)] ELSE f3, LAMBDA f4 :
      CASE Token(f) = "," -> assignment(CopyConflict(f1, safe # vars), Append(safe, f1.e))
        [] Token(f) # "," /\ f2.n # n -> StoreRest(f4, vars)
        [] OTHER -> StoreRest(luaK_storevar(luaK_setoneret(f2), vars[n]), SubSeq(vars, 1, n - 1)))))))

exprstat(f) ==
    Then(parse(f, "suffixedexp"), LAMBDA f1 :
      IF Token(f1) \in {"=", ","} THEN assignment(f1, <<f1.e>>) ELSE [f1 EXCEPT !.code[f1.e.i].c = 1])

retstat(f) ==
    Then(parse(f, "explist"), LAMBDA f1 :
    Then(luaK_setreturns(f1, LUA_MULTRET), LAMBDA f2 :
    Then(IF f1.e.k = "VCALL" /\ f1.n = 1
         THEN Check([f2 EXCEPT !.code[f2.e.i].op = "TAILCALL"], f2.code[f2.e.i].a = nactvar) ELSE f2, LAMBDA f3 :
    Then(luaK_exp2anyreg(f1), LAMBDA f4 :
    Then(luaK_exp2nextreg(f1), LAMBDA f5 :
      CASE hasmultret(f1.e.k) -> luaK_code(f3, "RETURN", nactvar, 0, 0)
        [] ~hasmultret(f1.e.k) /\ f1.n = 1 -> luaK_code(f4, "RETURN", f4.e.i, 2, 0)
        [] OTHER -> luaK_code(Check(f5, f1.n = f5.free - nactvar), "RETURN", nactvar, f1.n + 1, 0))))))

\* if exp then return true end
ifstat(f) ==
    Then(luaK_goiftrue(parse(f, "expr")), LAMBDA f1 :
      luaK_patchtohere(retstat([f1 EXCEPT !.toks = <<"true">>]), f1.e.f))

statement(f) ==
    Then(CASE Token(f) = "return" -> retstat(SkipToken(f))
           [] Token(f) = "if" -> ifstat(SkipToken(f))
           [] OTHER -> exprstat(f), LAMBDA f1 :
      [Check(f1, f1.free >= nactvar) EXCEPT !.free = nactvar])

parse(f, what) ==
    CASE what = "expr" -> subexpr(f, 0)
      [] what = "explist" -> explist(f, 1)
      [] what = "suffixedexp" -> suffixedexp(f)
      [] what = "statement" -> statement(f)

NewFunc(toks) == [toks |-> toks, code |-> <<>>, k |-> <<>>, jpc |-> {}, last |-> 1, free |-> nactvar,
                  e |-> NoExp, j |-> {}, n |-> 0, ok |-> TRUE]

\* One statement, and the return that closes the function.
Compile(toks) == luaK_code(parse(NewFunc(toks), "statement"), "RETURN", 0, 1, 0)

(***************************************************************************)
(* The machine.  m.reg registers, m.up upvalues, m.tab the tables' fields, *)
(* m.va the variable arguments, m.top the end of open results, m.log the   *)
(* arguments of the calls made, m.st "run", "done" or "error", m.ret the   *)
(* returned values.  A function returns its arguments.                     *)
(***************************************************************************)
Registers == 0..12
NewTables == <<"n1", "n2", "n3", "n4">>

GetTable(m, t, key) ==
    CASE t[1] # "table" -> ErrorV
      [] t[1] = "table" /\ key \in DOMAIN m.tab[t[2]] -> m.tab[t[2]][key]
      [] OTHER -> Nil
MaySet(t, key) == t[1] = "table" /\ key # Nil
Put(fields1, key, v) == [x \in DOMAIN fields1 \cup {key} |-> IF x = key THEN v ELSE fields1[x]]
SetTable(m, t, key, v) ==
    IF MaySet(t, key) THEN [m EXCEPT !.tab[t[2]] = Put(@, key, v)] ELSE [m EXCEPT !.st = "error"]

ArrayKey(n) == <<"num", <<"1", "2", "3", "4", "5", "6">>[n]>>
NextTable(m) == NewTables[Cardinality({x \in DOMAIN m.tab : x \in {NewTables[n] : n \in 1..4}}) + 1]
AddTable(m, name) == [m EXCEPT !.tab = [x \in DOMAIN @ \cup {name} |-> IF x = name THEN <<>> ELSE @[x]]]

SetReg(m, a, v) == IF v = ErrorV THEN [m EXCEPT !.st = "error"] ELSE [m EXCEPT !.reg[a] = v]
\* Results beyond the ones asked for are dropped, missing ones are nil.
Results(m, a, vals, nresults) ==
    Then(IF nresults = LUA_MULTRET THEN Len(vals) ELSE nresults, LAMBDA n :
      [m EXCEPT !.top = a + n,
                !.reg = [r \in Registers |->
                    IF r \notin a..a + n - 1 THEN @[r]
                    ELSE IF r - a + 1 <= Len(vals) THEN vals[r - a + 1] ELSE Nil]])
Window(m, from, upto) == [n \in 1..(upto - from) |-> m.reg[from + n - 1]]

OP_CALL(m, i) ==
    Then(Window(m, i.a + 1, IF i.b = 0 THEN m.top ELSE i.a + i.b), LAMBDA args :
      IF m.reg[i.a][1] # "func" THEN [m EXCEPT !.st = "error"]
      ELSE Results([m EXCEPT !.log = Append(@, args),
                             !.reg = [r \in Registers |-> IF r < i.a THEN @[r] ELSE Junk]], i.a, args,
                   IF i.op = "TAILCALL" THEN LUA_MULTRET ELSE i.c - 1))

OP_SETLIST(m, i) ==
    LET n == IF i.b = 0 THEN m.top - i.a - 1 ELSE i.b
        all[j \in 0..n] == IF j = 0 THEN m
                           ELSE SetTable(all[j - 1], m.reg[i.a],
                                         ArrayKey((i.c - 1) * LFIELDS_PER_FLUSH + j), m.reg[i.a + j])
    IN  all[n]

OP_VARARG(m, i) == Results(m, i.a, m.va, i.b - 1)

RKV(m, ks, x) == IF ISK(x) THEN ks[x - BITRK] ELSE m.reg[x]

\* A test is followed by its jump: on p the jump is taken, else skipped.
Test(m, code, p) == [m EXCEPT !.pc = IF p THEN code[m.pc + 1].b ELSE m.pc + 2]

\* The instructions that move values, with n the state at the next one.
Loads == {"MOVE", "LOADK", "LOADBOOL", "LOADNIL", "GETUPVAL", "SETUPVAL"}
OP_LOAD(n, i, ks) ==
    CASE i.op = "MOVE" -> SetReg(n, i.a, n.reg[i.b])
      [] i.op = "LOADK" -> SetReg(n, i.a, ks[i.b])
      [] i.op = "LOADBOOL" -> SetReg([n EXCEPT !.pc = @ + i.c], i.a, BoolV(i.b = 1))
      [] i.op = "LOADNIL" -> [n EXCEPT !.reg = [r \in Registers |-> IF r \in i.a..i.a + i.b THEN Nil ELSE @[r]]]
      [] i.op = "GETUPVAL" -> SetReg(n, i.a, n.up[i.b])
      [] i.op = "SETUPVAL" -> [n EXCEPT !.up[i.b] = n.reg[i.a]]

\* The instructions that index a table or make one.
Indexing == {"GETTABUP", "GETTABLE", "SETTABUP", "SETTABLE", "NEWTABLE", "SELF"}
OP_TABLE(n, i, ks) ==
    Then(RKV(n, ks, i.b), LAMBDA rb :
    Then(RKV(n, ks, i.c), LAMBDA rc :
      CASE i.op = "GETTABUP" -> SetReg(n, i.a, GetTable(n, n.up[i.b], rc))
        [] i.op = "GETTABLE" -> SetReg(n, i.a, GetTable(n, n.reg[i.b], rc))
        [] i.op = "SETTABUP" -> SetTable(n, n.up[i.a], rb, rc)
        [] i.op = "SETTABLE" -> SetTable(n, n.reg[i.a], rb, rc)
        [] i.op = "NEWTABLE" -> SetReg(AddTable(n, NextTable(n)), i.a, <<"table", NextTable(n)>>)
        [] i.op = "SELF" -> SetReg(SetReg(n, i.a + 1, n.reg[i.b]), i.a, GetTable(n, n.reg[i.b], rc))))

OP_ARITH(n, i, ks) == SetReg(n, i.a, Arith(i.op, RKV(n, ks, i.b), RKV(n, ks, i.c)))

Unary == {"neg", "not", "#", "CONCAT"}
OP_UNARY(n, i) ==
    SetReg(n, i.a, CASE i.op = "neg" -> Negate(n.reg[i.b])
                     [] i.op = "not" -> BoolV(IsFalse(n.reg[i.b]))
                     [] i.op = "#" -> Length(n.reg[i.b])
                     [] i.op = "CONCAT" -> Join(Window(n, i.b, i.c + 1)))

OP_TEST(m, i, code, ks) ==
    Then(Compare(i.op, RKV(m, ks, i.b), RKV(m, ks, i.c)), LAMBDA compared :
    Then(IsFalse(m.reg[IF i.op = "TEST" THEN i.a ELSE i.b]) = (i.c = 0), LAMBDA go :
      CASE i.op = "TEST" -> Test(m, code, go)
        [] i.op = "TESTSET" -> Test(IF go THEN SetReg(m, i.a, m.reg[i.b]) ELSE m, code, go)
        [] OTHER -> IF compared = ErrorV THEN [m EXCEPT !.st = "error"]
                    ELSE Test(m, code, compared = BoolV(i.a = 1))))

OP_RETURN(m, i) ==
    [m EXCEPT !.st = "done", !.ret = Window(m, i.a, IF i.b = 0 THEN m.top ELSE i.a + i.b - 1)]

Execute(m, code, ks) ==
    LET i == code[m.pc]
        n == [m EXCEPT !.pc = @ + 1]
    IN  CASE i.op \in Loads -> OP_LOAD(n, i, ks)
          [] i.op \in Indexing -> OP_TABLE(n, i, ks)
          [] i.op \in ArithOps -> OP_ARITH(n, i, ks)
          [] i.op \in Unary -> OP_UNARY(n, i)
          [] i.op = "JMP" -> [n EXCEPT !.pc = i.b]
          [] i.op \in TestMode -> OP_TEST(m, i, code, ks)
          [] i.op \in {"CALL", "TAILCALL"} -> OP_CALL(n, i)
          [] i.op = "VARARG" -> OP_VARARG(n, i)
          [] i.op = "SETLIST" -> OP_SETLIST(n, i)
          [] i.op = "RETURN" -> OP_RETURN(m, i)

RECURSIVE luaV_execute(_, _, _)
luaV_execute(m, code, ks) ==
    IF m.st # "run" THEN m ELSE luaV_execute(Execute(m, code, ks), code, ks)

(***************************************************************************)
(* The reference: statements as trees, what they mean by the manual (3.3,  *)
(* 3.4), and how they are written with the precedence of 3.4.8.            *)
(***************************************************************************)
Node(op, args) == [op |-> op, args |-> args]
Leaf(op) == Node(op, <<>>)

Level(op) ==
    CASE op = "or" -> 1 [] op = "and" -> 2 [] op \in CompOps -> 3 [] op = "&" -> 6 [] op = ".." -> 8
      [] op \in {"+", "-"} -> 9 [] op \in {"*", "/", "//", "%"} -> 10 [] op \in {"not", "neg", "#"} -> 11
      [] op = "^" -> 12 [] OTHER -> 13

RECURSIVE Show(_), ShowList(_)
ShowIn(e, level) == IF Level(e.op) < level THEN <<"(">> \o Show(e) \o <<")">> ELSE Show(e)
ShowList(es) ==
    IF es = <<>> THEN <<>> ELSE Show(Head(es)) \o (IF Len(es) > 1 THEN <<",">> ELSE <<>>) \o ShowList(Tail(es))
Show(e) ==
    LET x == e.args IN
    Then(Level(e.op), LAMBDA l :
    LET right == IF e.op \in {"..", "^"} THEN 1 ELSE 0 IN
      CASE x = <<>> /\ e.op # "{}" -> <<e.op>>
        [] e.op \in {"not", "#"} -> <<e.op>> \o ShowIn(x[1], 11)
        [] e.op = "neg" -> <<"-">> \o ShowIn(x[1], 11)
        [] e.op \in BinOps -> ShowIn(x[1], l + right) \o <<e.op>> \o ShowIn(x[2], l + 1 - right)
        [] e.op = "call" -> Show(x[1]) \o <<"(">> \o ShowList(Tail(x)) \o <<")">>
        [] e.op = "self" -> Show(x[1]) \o <<":", "f", "(">> \o ShowList(Tail(x)) \o <<")">>
        [] e.op = "index" -> Show(x[1]) \o <<"[">> \o Show(x[2]) \o <<"]">>
        [] e.op = "dot" -> Show(x[1]) \o <<".", "x">>
        [] e.op = "{}" -> <<"{">> \o ShowList(x) \o <<"}">>
        [] e.op = "field" -> <<"[">> \o Show(x[1]) \o <<"]", "=">> \o Show(x[2])
        [] e.op = "named" -> <<"x", "=">> \o Show(x[1])
        [] e.op = "paren" -> <<"(">> \o Show(x[1]) \o <<")">>
        [] e.op = "list" -> ShowList(x)
        [] e.op = "assign" -> Show(x[1]) \o <<"=">> \o Show(x[2])
        [] e.op = "do" -> Show(x[1])
        [] e.op \in {"return", "if"} -> <<e.op>> \o ShowList(x))

Aborts(s) == [s EXCEPT !.st = "error", !.vals = <<Nil>>]
Yields(s, v) == IF v = ErrorV THEN Aborts(s) ELSE [s EXCEPT !.vals = <<v>>]
OneValue(s) == [s EXCEPT !.vals = <<IF @ = <<>> THEN Nil ELSE @[1]>>]

Apply(op, v) ==
    CASE op = "not" -> BoolV(IsFalse(v[1])) [] op = "neg" -> Negate(v[1]) [] op = "#" -> Length(v[1])
      [] op \in ArithOps -> Arith(op, v[1], v[2])
      [] op = "==" -> BoolV(v[1] = v[2]) [] op = "~=" -> BoolV(v[1] # v[2])
      [] op = "<" -> Compare("LT", v[1], v[2]) [] op = ">" -> Compare("LT", v[2], v[1])
      [] op = "<=" -> Compare("LE", v[1], v[2]) [] op = ">=" -> Compare("LE", v[2], v[1])
      [] op = ".." -> Join(v)

CallWith(s, fn, args) ==
    IF fn[1] # "func" THEN Aborts(s) ELSE [s EXCEPT !.log = Append(@, args), !.vals = args]

RECURSIVE Eval(_, _), EvalList(_, _), EvalFields(_, _, _, _)
EvalOne(s, e) == IF s.st = "error" THEN s ELSE OneValue(Eval(s, e))
EvalTwo(s, e1, e2) ==
    Then(EvalOne(s, e1), LAMBDA s1 : Then(EvalOne(s1, e2), LAMBDA s2 : [s2 EXCEPT !.vals = s1.vals \o s2.vals]))

EvalList(s, es) ==
    Then(EvalOne(s, es[1]), LAMBDA s1 :
    Then(EvalList(s1, Tail(es)), LAMBDA s2 :
      CASE s.st = "error" -> s
        [] s.st # "error" /\ es = <<>> -> [s EXCEPT !.vals = <<>>]
        [] s.st # "error" /\ Len(es) = 1 -> Eval(s, es[1])
        [] OTHER -> [s2 EXCEPT !.vals = s1.vals \o s2.vals]))

\* Stores the items es of a constructor in table t, list items from n + 1 on.
EvalFields(s, t, es, n) ==
    LET e == es[1] IN
    Then(EvalTwo(s, e.args[1], e.args[2]), LAMBDA pair :
    Then(EvalOne(s, e.args[1]), LAMBDA named :
    Then(IF Len(es) = 1 THEN Eval(s, e) ELSE EvalOne(s, e), LAMBDA item :
    LET all[j \in 0..Len(item.vals)] ==
             IF j = 0 THEN item ELSE SetTable(all[j - 1], t, ArrayKey(n + j), item.vals[j]) IN
      CASE s.st = "error" -> s
        [] s.st # "error" /\ es = <<>> -> [s EXCEPT !.vals = <<t>>]
        [] s.st # "error" /\ es # <<>> /\ e.op = "field" ->
              EvalFields(IF pair.st = "error" THEN pair ELSE SetTable(pair, t, pair.vals[1], pair.vals[2]),
                         t, Tail(es), n)
        [] s.st # "error" /\ es # <<>> /\ e.op = "named" ->
              EvalFields(IF named.st = "error" THEN named ELSE SetTable(named, t, <<"str", "x">>, named.vals[1]),
                         t, Tail(es), n)
        [] OTHER -> EvalFields(IF item.st = "error" THEN item ELSE all[Len(item.vals)], t, Tail(es), n + 1))))

Eval(s, e) ==
    LET x == e.args IN
    Then(EvalOne(s, x[1]), LAMBDA left :
    Then(EvalList(s, x), LAMBDA list :
    Then(GetTable(left, left.vals[1], <<"str", "f">>), LAMBDA method :
    Then(EvalList(left, Tail(x)), LAMBDA args :
    Then(EvalTwo(s, x[1], x[2]), LAMBDA both :
      CASE s.st = "error" -> s
        [] e.op \in Numerals -> Yields(s, NumV(e.op))
        [] e.op = "'s'" -> Yields(s, <<"str", e.op>>)
        [] e.op = "nil" -> Yields(s, Nil)
        [] e.op = "true" -> Yields(s, True)
        [] e.op = "false" -> Yields(s, False)
        [] e.op = "..." -> [s EXCEPT !.vals = s.va]
        [] e.op \in DOMAIN Locals -> Yields(s, s.reg[Locals[e.op]])
        [] e.op = "u" -> Yields(s, s.up[1])
        [] e.op \in {"and", "or"} ->
              IF left.st = "error" \/ IsFalse(left.vals[1]) = (e.op = "and") THEN left ELSE EvalOne(left, x[2])
        [] e.op \in {"not", "neg", "#"} -> IF left.st = "error" THEN left ELSE Yields(left, Apply(e.op, left.vals))
        [] e.op \in BinOps -> IF both.st = "error" THEN both ELSE Yields(both, Apply(e.op, both.vals))
        [] e.op = "call" -> IF list.st = "error" THEN list ELSE CallWith(list, list.vals[1], Tail(list.vals))
        [] e.op = "self" ->
              CASE left.st = "error" -> left
                [] left.st # "error" /\ method = ErrorV -> Aborts(left)
                [] OTHER -> IF args.st = "error" THEN args
                            ELSE CallWith(args, method, <<left.vals[1]>> \o args.vals)
        [] e.op = "index" -> IF both.st = "error" THEN both ELSE Yields(both, GetTable(both, both.vals[1], both.vals[2]))
        [] e.op = "dot" -> IF left.st = "error" THEN left ELSE Yields(left, GetTable(left, left.vals[1], <<"str", "x">>))
        [] e.op = "{}" -> EvalFields(AddTable(s, NextTable(s)), <<"table", NextTable(s)>>, x, 0)
        [] e.op = "paren" -> left
        [] OTHER -> Yields(s, GetTable(s, s.up[0], <<"str", e.op>>)))))))

(***************************************************************************)
(* Assignments: the variables' tables and keys, then the values, then the  *)
(* stores, in an order the manual leaves open.                             *)
(***************************************************************************)
RECURSIVE EvalTargets(_, _)
EvalTargets(s, vars) ==
    LET v == Head(vars) IN
    Then(EvalTwo(s, v.args[1], v.args[2]), LAMBDA pair :
    Then(EvalOne(s, v.args[1]), LAMBDA obj :
    LET at == CASE v.op = "index" -> pair [] v.op = "dot" -> [obj EXCEPT !.vals = <<@[1], <<"str", "x">>>>]
                [] OTHER -> [s EXCEPT !.vals = <<>>] IN
    Then(EvalTargets(at, Tail(vars)), LAMBDA rest :
      CASE s.st = "error" -> s
        [] s.st # "error" /\ vars = <<>> -> [s EXCEPT !.vals = <<>>]
        [] OTHER -> [rest EXCEPT !.vals = <<at.vals>> \o @])))

Store(s, var, at, v) ==
    CASE s.st = "error" -> s
      [] s.st # "error" /\ var.op \in {"index", "dot"} -> SetTable(s, at[1], at[2], v)
      [] s.st # "error" /\ var.op \in DOMAIN Locals -> [s EXCEPT !.reg[Locals[var.op]] = v]
      [] s.st # "error" /\ var.op = "u" -> [s EXCEPT !.up[1] = v]
      [] OTHER -> SetTable(s, s.up[0], <<"str", var.op>>, v)

Orders(n) == {p \in [1..n -> 1..n] : \A i, j \in 1..n : p[i] = p[j] => i = j}
StoreIn(s, order, vars, at, vals) ==
    LET all[j \in 0..Len(vars)] ==
            IF j = 0 THEN s
            ELSE Store(all[j - 1], vars[order[j]], at[order[j]],
                       IF order[j] <= Len(vals) THEN vals[order[j]] ELSE Nil)
    IN  all[Len(vars)]

\* The states a statement may end in.
Meanings(s, stat) ==
    LET x == stat.args IN
    Then(EvalList(s, x), LAMBDA list :
    Then(EvalTargets(s, x[1].args), LAMBDA at :
    Then(EvalList(at, x[2].args), LAMBDA vals :
    LET Ends(r, ret) == [r EXCEPT !.st = IF @ = "error" THEN @ ELSE "done", !.ret = ret] IN
      CASE stat.op = "return" -> {Ends(list, list.vals)}
        [] stat.op = "do" -> {Ends(list, <<>>)}
        [] stat.op = "if" -> {LET c == EvalOne(s, x[1]) IN Ends(c, IF IsFalse(c.vals[1]) THEN <<>> ELSE <<True>>)}
        [] stat.op = "assign" ->
              IF vals.st = "error" THEN {vals}
              ELSE {Ends(StoreIn(vals, order, x[1].args, at.vals, vals.vals), <<>>) : order \in Orders(Len(x[1].args))})))

\* A state to run in: values of a, b, u, the global g and the extra arguments.
Machine(env) ==
    [reg |-> [r \in Registers |-> CASE r = 0 -> env.a [] r = 1 -> env.b [] OTHER -> Junk],
     up |-> [n \in 0..1 |-> IF n = 0 THEN <<"table", "env">> ELSE env.u],
     tab |-> [env |-> [key \in {<<"str", "f">>, <<"str", "g">>} |->
                          IF key = <<"str", "f">> THEN <<"func", "f">> ELSE env.g],
              t |-> [key \in {<<"num", "1">>, <<"str", "f">>} |->
                          IF key = <<"str", "f">> THEN <<"func", "m">> ELSE <<"num", "2">>]],
     va |-> env.va, top |-> 0, log |-> <<>>, st |-> "run", ret |-> <<>>, pc |-> 1, vals |-> <<>>]

\* What the compiled statement does, with whether the compiler kept its assertions.
Run(stat, env) ==
    Then(Compile(Show(stat)), LAMBDA f :
      [ok |-> f.ok, m |-> luaV_execute(Machine(env), f.code, f.k)])

\* After an error only the calls made are compared.
RunsAs(stat, env, res) ==
    /\ res.ok
    /\ \E r \in Meanings(Machine(env), stat) :
          /\ r.st = res.m.st /\ r.log = res.m.log
          /\ r.st = "done" => /\ r.ret = res.m.ret /\ r.up = res.m.up /\ r.tab = res.m.tab
                              /\ \A n \in 0..nactvar - 1 : r.reg[n] = res.m.reg[n]
============================================================================
