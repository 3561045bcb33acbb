------------------------------ MODULE LuaScope ------------------------------
(***************************************************************************)
(* Scopes and jumps in the Lua compiler (lparser.c, and the jumps of       *)
(* lcode.c): blocks, local variables, upvalues, gotos, labels and loops.   *)
(*                                                                         *)
(* A step is a statement or the end of one, chosen freely: the behaviours  *)
(* are the programs, up to a number of statements.  An instruction is kept *)
(* only as far as control and scopes go: 'to' is the target of a jump and  *)
(* A the level it closes upvalues to, plus one.  A list of jumps is the    *)
(* set of their positions.                                                 *)
(***************************************************************************)
EXTENDS Integers, Sequences, FiniteSets, SequencesExt, FiniteSetsExt

CONSTANTS
  Name,        \* names of variables
  Label,       \* names of labels
  Budgets,     \* bound: statements of each kind, one choice for a program
  MaxDepth     \* bound: functions being compiled

Kind == {"local", "use", "function", "block", "loop", "jump", "label", "control"}

ASSUME ScopeAssumption ==
  Budgets \subseteq [Kind -> Nat] /\ MaxDepth \in Nat /\ "break" \notin Label

VARIABLES
  fs,          \* the functions being compiled, the current one last
  gt, label,   \* dyd: pending gotos and active labels
  expect,      \* what the grammar lets follow: "any", "end", "more", or "error", "eos"
  used,        \* history: the last variable, as it was resolved and as scopes say
  done,        \* history: the last function that was closed
  budget,      \* the statements left to the program
  ids          \* blocks and variables so far

vars == <<fs, gt, label, expect, used, done, budget, ids>>

NoPc == -1
NoId == 0

-----------------------------------------------------------------------------
(* Code.  'act' are the variables in scope at an instruction, by register. *)

FS == Last(fs)
Block == Last(FS.bl)
SetTop(f) == [fs EXCEPT ![Len(fs)] = f]
pc(f) == Len(f.code)
nactvar(f) == Len(f.actvar)

\* fixjump for a list.
Fix(code, list, dest) ==
  [i \in DOMAIN code |-> IF i - 1 \in list THEN [code[i] EXCEPT !.to = dest] ELSE code[i]]

\* luaK_code: the jumps to here are discharged.
luaK_code(f, op, to) ==
  [f EXCEPT !.code = Append(Fix(@, f.jpc, pc(f)),
                       [op |-> op, A |-> 0, to |-> to, act |-> f.actvar]),
            !.jpc = {}]

\* luaK_jump: jumps to here are kept on hold, in the list of the new jump.
luaK_jump(f) == luaK_code([f EXCEPT !.jpc = {}], "jmp", NoPc)

\* Mutant: jumps to here are lost when a jump is next.
JumpListAlone(f) == {pc(f)}

JumpList(f) == {pc(f)} \cup f.jpc

luaK_patchtohere(f, list) == [f EXCEPT !.jpc = @ \cup list]

luaK_patchlist(f, list, target) ==
  IF target = pc(f) THEN luaK_patchtohere(f, list) ELSE [f EXCEPT !.code = Fix(@, list, target)]

luaK_patchclose(f, list, level) ==
  [f EXCEPT !.code = [i \in DOMAIN @ |-> IF i - 1 \in list THEN [@[i] EXCEPT !.A = level + 1] ELSE @[i]]]

\* cond and the test of an if: a test, and a jump that is not always taken.
Cond(f) == luaK_code(luaK_code(f, "op", NoPc), "cjmp", NoPc)
CondList(f) == {pc(f) + 1}

-----------------------------------------------------------------------------
(* Gotos and labels, on a record of the current function and the lists. *)

\* For the properties: a label is noted, with the block in which control goes on
\* after it, and its place where that block's next statement begins, or the block ends.
NoteLabel(f, name, next) ==
  [f EXCEPT !.marks = @ \cup {[name |-> name, block |-> Last(f.bl).id, next |-> next, place |-> NoPc, behind |-> FALSE]}]

NotePlaces(f, behind) ==
  [f EXCEPT !.marks = {IF m.place = NoPc /\ m.next = Last(f.bl).id
                       THEN [m EXCEPT !.place = pc(f), !.behind = @ \/ behind] ELSE m : m \in @}]

\* Labels at the end of a part of an 'if' that has others: it goes on after them.
NotePast(f) ==
  [f EXCEPT !.marks = {IF m.place = NoPc /\ m.next = Last(f.bl).id
                       THEN [m EXCEPT !.next = f.bl[Len(f.bl) - 1].id, !.behind = TRUE] ELSE m : m \in @}]

Now == [f |-> FS, gt |-> gt, label |-> label, err |-> FALSE]

\* Where something else than a label comes next.
S == [Now EXCEPT !.f = NotePlaces(@, FALSE)]
Entry(f, name, p) == [name |-> name, pc |-> p, nactvar |-> nactvar(f)]

\* The goto g is resolved, unless it jumps into the scope of a local variable.
closegoto(s, g, lb) ==
  IF g.nactvar < lb.nactvar THEN [s EXCEPT !.err = TRUE]
  ELSE [s EXCEPT !.f = luaK_patchlist(@, g.pc, lb.pc)]

\* A goto out of the scope of variables, back to a label, closes them.
BackClose(f, g, lb) ==
  IF g.nactvar > lb.nactvar THEN luaK_patchclose(f, g.pc, lb.nactvar) ELSE f

\* findlabel: a label of the current block resolves the goto; else it is pending.
findlabel(s, g) ==
  LET first == Last(s.f.bl).firstlabel
      i == SelectInSubSeq(s.label, first + 1, Len(s.label), LAMBDA l : l.name = g.name)
  IN IF i = 0 THEN [s EXCEPT !.gt = Append(@, g)]
     ELSE closegoto([s EXCEPT !.f = BackClose(@, g, s.label[i])], g, s.label[i])

\* findgotos: a new label resolves pending gotos of the current block.
findgotos(s, lb) ==
  LET first == Last(s.f.bl).firstgoto
  IN FoldLeft(LAMBDA r, g : IF g.name = lb.name THEN closegoto(r, g, lb) ELSE [r EXCEPT !.gt = Append(@, g)],
              [s EXCEPT !.gt = SubSeq(@, 1, first)], SubSeq(s.gt, first + 1, Len(s.gt)))

\* Mutant: a goto that leaves a block does not close its variables.
LeavesScopeNot(g, bl) == FALSE

LeavesScope(g, bl) == g.nactvar > bl.nactvar /\ bl.upval

\* movegotosout, with the outer block as the current one already.
movegotosout(s, bl) ==
  FoldLeft(LAMBDA r, g :
             findlabel([r EXCEPT !.f = IF LeavesScope(g, bl) THEN luaK_patchclose(@, g.pc, bl.nactvar) ELSE @],
                       [g EXCEPT !.nactvar = IF @ > bl.nactvar THEN bl.nactvar ELSE @]),
           [s EXCEPT !.gt = SubSeq(@, 1, bl.firstgoto)], SubSeq(s.gt, bl.firstgoto + 1, Len(s.gt)))

newlabel(s, name, nact) ==
  [s EXCEPT !.label = Append(@, [name |-> name, pc |-> pc(s.f), nactvar |-> nact])]

breaklabel(s) ==
  LET r == newlabel([s EXCEPT !.f = NoteLabel(@, "break", @.bl[Len(@.bl) - 1].id)], "break", nactvar(s.f))
  IN findgotos(r, Last(r.label))

enterblock(s, stat, isloop, id) ==
  [s EXCEPT !.f.bl = Append(@,
     [stat |-> stat, isloop |-> isloop, nactvar |-> nactvar(s.f), firstlabel |-> Len(s.label),
      firstgoto |-> Len(s.gt), upval |-> FALSE, id |-> id, init |-> 0, jf |-> {}, esc |-> {}])]

leaveblock(s) ==
  LET bl == Last(s.f.bl)
      inner == Len(s.f.bl) > 1
      list == JumpList(s.f)
      closed == IF inner /\ bl.upval
                THEN [s EXCEPT !.f = luaK_patchtohere(luaK_patchclose(luaK_jump(@), list, bl.nactvar), list)]
                ELSE s
      broken == IF bl.isloop THEN breaklabel(closed) ELSE closed
      left == [broken EXCEPT !.f.bl = Front(@), !.f.actvar = SubSeq(@, 1, bl.nactvar),
                             !.label = SubSeq(@, 1, bl.firstlabel)]
  IN IF inner THEN movegotosout(left, bl)
     ELSE [left EXCEPT !.err = @ \/ Len(left.gt) > bl.firstgoto]

\* gotostat: the jump j is to go to the label.
gotostat(s, name, list, j) ==
  findlabel([s EXCEPT !.f.want = @ \cup {[pc |-> j, name |-> name, blocks |-> [i \in DOMAIN s.f.bl |-> s.f.bl[i].id]]}],
            Entry(s.f, name, list))

-----------------------------------------------------------------------------
(* Variables. *)

\* Mutant: the first variable with the name is taken.
searchvarFirst(f, n) == SelectInSeq(f.actvar, LAMBDA v : v.name = n)

\* The position of the last variable of f with the name, 0 if there is none.
searchvar(f, n) == SelectLastInSeq(f.actvar, LAMBDA v : v.name = n)

\* The block where the variable was declared has an upvalue.
markupval(f, v) ==
  LET b == Max({i \in DOMAIN f.bl : f.bl[i].nactvar < v})
  IN [f EXCEPT !.bl[b].upval = TRUE, !.captured = @ \cup {f.actvar[v].id}]

\* singlevaraux: the functions with the upvalues that it adds, and where the
\* variable is for the function at level k.
singlevaraux(all, n) ==
  LET Aux[k \in 0..Len(all)] ==
        LET here == searchvar(all[k], n)
            up == SelectInSeq(all[k].ups, LAMBDA u : u.name = n)
            outer == Aux[k - 1]
            new == [name |-> n, instack |-> outer.kind = "local", idx |-> outer.idx]
        IN IF k = 0 THEN [fs |-> <<>>, kind |-> "void", idx |-> 0]
           ELSE IF here # 0
           THEN [fs |-> SubSeq(all, 1, k - 1) \o <<IF k = Len(all) THEN all[k] ELSE markupval(all[k], here)>>,
                 kind |-> "local", idx |-> here]
           ELSE IF up # 0 THEN [fs |-> SubSeq(all, 1, k), kind |-> "upval", idx |-> up]
           ELSE IF outer.kind = "void" THEN [fs |-> SubSeq(all, 1, k), kind |-> "void", idx |-> 0]
           ELSE [fs |-> Append(outer.fs, [all[k] EXCEPT !.ups = Append(@, new)]),
                 kind |-> "upval", idx |-> Len(all[k].ups) + 1]
  IN Aux[Len(all)]

\* The variable an expression denotes at run time: upvalues lead to the outer
\* function, where the closure was created.
Denotes(g, kind, idx) ==
  LET Follow[k \in 1..Len(g), i \in 1..100, instack \in BOOLEAN] ==
        IF instack THEN g[k].actvar[i].id ELSE Follow[k - 1, g[k].ups[i].idx, g[k].ups[i].instack]
  IN IF kind = "void" THEN NoId ELSE Follow[Len(g), idx, kind = "local"]

-----------------------------------------------------------------------------
(* Statements.  The first one of a 'then' part that begins with a goto and *)
(* labels comes after the jump over that part (test_then_block).           *)

NoUse == [got |-> NoId, want |-> NoId]
NoFun == [code |-> <<>>, captured |-> {}, want |-> {}, marks |-> {}]

Start ==
  IF Block.stat # "ifgoto" THEN S
  ELSE [Now EXCEPT !.f = NotePlaces([luaK_jump(FS) EXCEPT !.bl[Len(FS.bl)].stat = "then",
                                                        !.bl[Len(FS.bl)].jf = JumpList(FS)], TRUE)]

Put(s, next) ==
  /\ fs' = SetTop(s.f) /\ gt' = s.gt /\ label' = s.label
  /\ expect' = IF s.err THEN "error" ELSE next

Control == {"block", "loop", "jump", "label"}

Count(kind) ==
  LET spent == IF kind \in Control THEN {kind, "control"} ELSE {kind}
  IN /\ \A k \in spent : budget[k] > 0
     /\ budget' = [k \in Kind |-> budget[k] - IF k \in spent THEN 1 ELSE 0]

Stat(kind, s, new) ==
  /\ expect \in {"any", "more"} /\ Count(kind)
  /\ Put(s, "any")
  /\ ids' = ids + new
  /\ used' = NoUse /\ done' = NoFun

Op(s) == [s EXCEPT !.f = luaK_code(@, "op", NoPc)]
adjustlocalvars(s, names) ==
  [s EXCEPT !.f.actvar = @ \o [i \in DOMAIN names |-> [name |-> names[i], id |-> ids + i]]]

\* localstat, with an initial value.
localstat(n) == Stat("local", adjustlocalvars(Op(Start), <<n>>), 1)

NewFunc(stat, id) ==
  [code |-> <<>>, jpc |-> {}, actvar |-> <<>>, ups |-> <<>>, captured |-> {}, want |-> {}, marks |-> {},
   bl |-> <<[stat |-> stat, isloop |-> FALSE, nactvar |-> 0, firstlabel |-> Len(label),
             firstgoto |-> Len(gt), upval |-> FALSE, id |-> id, init |-> 0, jf |-> {}, esc |-> {}]>>]

\* open_func in body, for a function in an expression and for localfunc.
OpenIn(s, stat, new) ==
  /\ expect \in {"any", "more"} /\ Count("function") /\ Len(fs) < MaxDepth
  /\ fs' = Append(SetTop(s.f), NewFunc(stat, ids + new)) /\ ids' = ids + new
  /\ expect' = "any"
  /\ used' = NoUse /\ done' = NoFun /\ UNCHANGED <<gt, label>>

funcstat == OpenIn(Start, "function", 1)
localfunc(n) == OpenIn(adjustlocalvars(Start, <<n>>), "localfunc", 2)

\* singlevar, in a statement that uses the variable: a global is a field of _ENV.
singlevar(n) ==
  LET s == Start
      all == SetTop(s.f)
      r == singlevaraux(all, n)
      g == IF r.kind = "void" THEN singlevaraux(all, "_ENV").fs ELSE r.fs
      visible == SelectSeq(FlattenSeq([k \in DOMAIN all |-> all[k].actvar]), LAMBDA v : v.name = n)
  IN /\ expect \in {"any", "more"} /\ Count("use")
     /\ fs' = [g EXCEPT ![Len(g)] = luaK_code(@, "op", NoPc)]
     /\ used' = [got |-> Denotes(g, r.kind, r.idx), want |-> IF visible = <<>> THEN NoId ELSE Last(visible).id]
     /\ expect' = "any" /\ done' = NoFun
     /\ UNCHANGED <<gt, label, ids>>

dostat == Stat("block", enterblock(Start, "do", FALSE, ids + 1), 1)

SetBlock(s, init, jf) ==
  [s EXCEPT !.f.bl[Len(s.f.bl)].init = init, !.f.bl[Len(s.f.bl)].jf = jf]

whilestat ==
  LET s == Start
      loop == enterblock([s EXCEPT !.f = Cond(@)], "while", TRUE, ids + 1)
  IN Stat("loop", enterblock(SetBlock(loop, pc(s.f), CondList(s.f)), "whilebody", FALSE, ids + 2), 2)

repeatstat ==
  LET s == Start
  IN Stat("loop", enterblock(SetBlock(enterblock(s, "repeat", TRUE, ids + 1), pc(s.f), {}),
                     "repeatbody", FALSE, ids + 2), 2)

\* forstat and forbody: three control variables, and the one that is declared.
forstat(n, isnum) ==
  LET s == adjustlocalvars(Op(enterblock(Start, "for", TRUE, ids + 5)), <<"(for)", "(for)", "(for)">>)
      prep == IF isnum THEN {pc(s.f)} ELSE JumpList(s.f)
      f == IF isnum THEN luaK_code(s.f, "for", NoPc) ELSE luaK_jump(s.f)
      inner == enterblock(SetBlock([s EXCEPT !.f = f], pc(s.f), prep),
                          IF isnum THEN "fornum" ELSE "forlist", FALSE, ids + 6)
  IN Stat("loop", [inner EXCEPT !.f.actvar = Append(@, [name |-> n, id |-> ids + 4])], 6)

ThenBlock(s, esc, id) ==
  LET b == enterblock([s EXCEPT !.f = Cond(@)], "then", FALSE, id)
  IN [SetBlock(b, 0, CondList(s.f)) EXCEPT !.f.bl[Len(b.f.bl)].esc = esc]

ifstat == Stat("block", ThenBlock(Start, {}, ids + 1), 1)

\* test_then_block when a goto or break starts the 'then' part: the test jumps to
\* the label.
ifgoto(name) ==
  LET s == Start
      b == enterblock([s EXCEPT !.f = Cond(@)], "ifgoto", FALSE, ids + 1)
  IN Stat("jump", gotostat(b, name, CondList(s.f), pc(s.f) + 1), 1)

goto(name) ==
  LET s == Start
  IN Stat("jump", gotostat([s EXCEPT !.f = luaK_jump(@)], name, JumpList(s.f), pc(s.f)), 0)

\* labelstat and checkrepeated.  'last' says whether only labels follow in the block:
\* then the variables of the block count as out of scope.
labelstat(name, last) ==
  LET s == [Now EXCEPT !.f = NoteLabel(@, name, Block.id)]
      lb == newlabel(s, name, IF last THEN Block.nactvar ELSE nactvar(FS))
      repeated == \E i \in Block.firstlabel + 1 .. Len(label) : label[i].name = name
  IN /\ expect \in (IF last THEN {"any", "last"} ELSE {"any", "more"}) /\ Count("label")
     /\ Put(IF repeated THEN [s EXCEPT !.err = TRUE] ELSE findgotos(lb, Last(lb.label)),
            IF last THEN "last" ELSE "more")
     /\ used' = NoUse /\ done' = NoFun /\ UNCHANGED ids

retstat ==
  /\ expect \in {"any", "more"} /\ Count("jump")
  /\ Put([Start EXCEPT !.f = luaK_code(@, "ret", NoPc)], "end")
  /\ used' = NoUse /\ done' = NoFun /\ UNCHANGED ids

-----------------------------------------------------------------------------
(* Ends of blocks. *)

luaK_jumpto(f, target) == luaK_patchlist(luaK_jump(f), JumpList(f), target)

Leave(s) ==
  /\ Put(s, "any") /\ used' = NoUse /\ done' = NoFun
  /\ UNCHANGED <<budget, ids>>

Enclosing == FS.bl[Len(FS.bl) - 1]
Here(s, list) == [s EXCEPT !.f = luaK_patchtohere(@, list)]

EndWhile ==
  /\ Block.stat = "whilebody"
  /\ LET s == leaveblock(S)
     IN Leave(Here(leaveblock([s EXCEPT !.f = luaK_jumpto(@, Enclosing.init)]), Enclosing.jf))

\* The end of forbody and of forstat.
EndFor ==
  /\ Block.stat \in {"fornum", "forlist"}
  /\ LET s == Here(leaveblock(S), Enclosing.jf)
         t == IF Block.stat = "forlist" THEN Op(s) ELSE s
     IN Leave(leaveblock([t EXCEPT !.f = luaK_code(@, "for", Enclosing.init + 1)]))

EndDo == Block.stat = "do" /\ Leave(leaveblock(S))

\* The end of test_then_block, with the jump over the parts that follow.
EndThen(follows) ==
  LET s == leaveblock(IF Block.stat = "ifgoto" /\ follows THEN [Now EXCEPT !.f = NotePast(@)] ELSE S)
      out == IF follows THEN [s EXCEPT !.f = luaK_jump(@)] ELSE s
  IN IF Block.stat = "ifgoto" THEN s ELSE Here(out, Block.jf)
Escapes ==
  IF Block.stat = "ifgoto" THEN Block.esc ELSE Block.esc \cup JumpList(leaveblock(S).f)

EndIf ==
  \/ Block.stat \in {"then", "ifgoto"} /\ Leave(Here(EndThen(FALSE), Block.esc))
  \/ Block.stat = "else" /\ Leave(Here(leaveblock(S), Block.esc))

Else ==
  /\ Block.stat \in {"then", "ifgoto"}
  /\ LET s == enterblock(EndThen(TRUE), "else", FALSE, ids + 1)
     IN Put([s EXCEPT !.f.bl[Len(s.f.bl)].esc = Escapes], "any")
  /\ ids' = ids + 1 /\ used' = NoUse /\ done' = NoFun /\ UNCHANGED budget

ElseIf ==
  /\ Block.stat \in {"then", "ifgoto"} /\ Count("block")
  /\ Put(ThenBlock(EndThen(TRUE), Escapes, ids + 1), "any")
  /\ ids' = ids + 1 /\ used' = NoUse /\ done' = NoFun

Until ==
  /\ expect \in {"any", "more", "end"} /\ Block.stat = "repeatbody"
  /\ LET list == CondList(FS)
         c == [S EXCEPT !.f = IF Block.upval THEN luaK_patchclose(Cond(@), list, Block.nactvar) ELSE Cond(@)]
         s == leaveblock(c)
     IN Leave(leaveblock([s EXCEPT !.f = luaK_patchlist(@, list, Enclosing.init)]))

\* codeclosure: a local function is a variable only after this instruction.
codeclosure(f) ==
  IF Block.stat = "function" THEN luaK_code(f, "op", NoPc)
  ELSE [luaK_code([f EXCEPT !.actvar = Front(@)], "op", NoPc) EXCEPT !.actvar = f.actvar]

\* close_func: for a function in another one, codeclosure comes first.
close_func ==
  /\ Block.stat \in {"function", "localfunc"}
  /\ Len(fs) > 1 => FS.code # <<>>
  /\ LET s == leaveblock([S EXCEPT !.f = luaK_code(@, "ret", NoPc)])
         up == Front(fs)
         outer == Len(fs) - 1
     IN /\ fs' = IF Len(fs) = 1 THEN <<s.f>> ELSE [up EXCEPT ![outer] = codeclosure(@)]
        /\ gt' = s.gt /\ label' = s.label
        /\ expect' = IF s.err THEN "error" ELSE IF Len(fs) = 1 THEN "eos" ELSE "any"
        /\ done' = IF s.err THEN NoFun
                   ELSE [code |-> s.f.code, captured |-> s.f.captured, want |-> s.f.want, marks |-> s.f.marks]
  /\ used' = NoUse /\ UNCHANGED <<budget, ids>>

BlockEnds ==
  /\ expect \in {"any", "end", "last"}
  /\ EndWhile \/ EndFor \/ EndDo \/ EndIf \/ Else \/ ElseIf \/ close_func

\* mainfunc: a function with the upvalue _ENV.
Init ==
  /\ gt = <<>> /\ label = <<>>
  /\ fs = <<[NewFunc("function", 1) EXCEPT !.ups = <<[name |-> "_ENV", instack |-> TRUE, idx |-> 0]>>]>>
  /\ expect = "any" /\ used = NoUse /\ done = NoFun
  /\ budget \in Budgets /\ ids = 1

\* Bound: variables are used in functions inside the main one only, and each of
\* these uses one.
Variables ==
  \/ \E n \in Name : localstat(n) \/ localfunc(n) \/ (Len(fs) > 1 /\ singlevar(n))
  \/ funcstat

Flow ==
  \/ dostat \/ whilestat \/ repeatstat \/ ifstat \/ retstat
  \/ \E n \in Name, isnum \in BOOLEAN : forstat(n, isnum)
  \/ \E l \in Label \cup {"break"} : goto(l) \/ ifgoto(l)
  \/ \E l \in Label, last \in BOOLEAN : labelstat(l, last)

\* Bound: control statements are those of the main function only.
Next == Variables \/ (Len(fs) = 1 /\ Flow) \/ BlockEnds \/ Until

Spec == Init /\ [][Next]_vars

-----------------------------------------------------------------------------
(* Properties. *)

At(p) == done.code[p + 1]
IsJump(p) == At(p).op \in {"jmp", "cjmp", "for"}
Ids(act) == {act[i].id : i \in DOMAIN act}

\* Where a jump to p ends up, through the jumps that are there.
Lands(p) ==
  FoldLeft(LAMBDA seen, i : seen \cup {At(q).to : q \in {r \in seen \ {NoPc} : At(r).op = "jmp"}}, {p}, done.code)

\* A name denotes the variable of the innermost scope that declares it, through any
\* number of functions (singlevaraux, newupvalue): a closure never gets the upvalue
\* of a variable that another one hides.
NamesResolve == used.got = used.want

\* In the code of a function that compiles, every goto and break reaches what follows
\* the label with its name in the innermost block around it that has one, whether it
\* was resolved at once, by a later label, or after it moved out of blocks.  Excepted,
\* against the manual, is a label between the goto that a 'then' part begins with and
\* what comes next, a statement or an 'else': the jump there is compiled behind it.
GotoReachesLabel ==
  \A w \in done.want :
    LET cand == {m \in done.marks : m.name = w.name /\ \E i \in DOMAIN w.blocks : w.blocks[i] = m.block}
        depth(m) == CHOOSE i \in DOMAIN w.blocks : w.blocks[i] = m.block
    IN \E m \in cand : /\ \A o \in cand : depth(o) <= depth(m)
                       /\ m.behind \/ Lands(m.place) \cap Lands(At(w.pc).to) # {}

\* In the code of a function that compiles, every jump has a target, and it closes the
\* upvalues of the captured variables whose scope it leaves, and of no other.
JumpsClose ==
  \A p \in 0 .. Len(done.code) - 1 :
    IsJump(p) =>
      /\ At(p).to \in 0 .. Len(done.code) - 1
      /\ LET from == At(p).act
             closed == IF At(p).A = 0 THEN {} ELSE {from[i].id : i \in {j \in DOMAIN from : j >= At(p).A}}
         IN closed \cap done.captured = (Ids(from) \ Ids(At(At(p).to).act)) \cap done.captured

=============================================================================
