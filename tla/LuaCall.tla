------------------------------ MODULE LuaCall ------------------------------
(***************************************************************************)
(* Calls, errors and coroutines of the Lua interpreter (ldo.c, lstate.c,   *)
(* lcorolib.c, and the calls of lapi.c and lvm.c).                         *)
(*                                                                         *)
(* Every thread has a list of CallInfo; all of them share the one C stack  *)
(* of the process, of which the model keeps the activations that restore   *)
(* something: calls made from C code, protected calls and resumes.  A call *)
(* from Lua code to a Lua function has no activation of its own.  Errors   *)
(* and yields jump down the C stack.                                       *)
(*                                                                         *)
(* What functions compute is left out: a function may do any call that its *)
(* kind, Lua or C, allows.                                                 *)
(***************************************************************************)
EXTENDS Integers, Sequences, FiniteSets, SequencesExt, FiniteSetsExt

CONSTANTS
  Main,          \* the main thread
  Co,            \* coroutines
  MaxCcalls,     \* LUAI_MAXCCALLS
  MaxFrames      \* bound: CallInfo records in all threads

Thread == Co \cup {Main}
Nobody == "nobody"

ASSUME CallAssumption == Main \notin Co /\ Nobody \notin Thread /\ MaxCcalls \in Nat \ {0} /\ MaxFrames \in Nat

VARIABLES
  th,            \* [Thread -> lua_State]
  host,          \* the C stack
  run,           \* the thread that runs, Nobody after abort()
  thrown         \* error or yield on its way, "no" if there is none

vars == <<th, host, run, thrown>>

State == [th |-> th, host |-> host, run |-> run, thrown |-> thrown]
Becomes(s) == th' = s.th /\ host' = s.host /\ run' = s.run /\ thrown' = s.thrown

-----------------------------------------------------------------------------
(* CallInfo: 'k' a continuation is set, 'yp' CIST_YPCALL, 'ef' the handler of *)
(* that protected call and 'oldef' the one it replaced.                      *)

Frame(lua) == [lua |-> lua, k |-> FALSE, yp |-> FALSE, ef |-> 0, oldef |-> 0]

\* A handler is named by the CallInfo in whose stack frame it is; 0 for none.
\* 'open' are the CallInfo whose frames have open upvalues, and 'fn' says that
\* there is a function at the base level.
preinit_thread ==
  [ci |-> <<>>, status |-> "ok", nny |-> 1, nCcalls |-> 0, errfunc |-> 0, open |-> {}, fn |-> FALSE]

luaB_cocreate == [preinit_thread EXCEPT !.fn = TRUE]

\* A C function of the program runs in the main thread.
Init ==
  /\ th = [t \in Thread |-> IF t = Main THEN [preinit_thread EXCEPT !.ci = <<Frame(FALSE)>>] ELSE luaB_cocreate]
  /\ host = <<>> /\ run = Main /\ thrown = "no"

L == th[run]
Depth == Len(L.ci)
Top == Last(L.ci)
NumFrames == MapThenSumSet(LAMBDA t : Len(th[t].ci), Thread)

Pop(q) == SubSeq(q, 1, Len(q) - 1)
luaF_close(t, level) == [t EXCEPT !.open = {u \in t.open : u < level}]

\* The parser is the protected function: no call is above luaD_pcall.
InParser == host # <<>> /\ Last(host).kind = "pcall" /\ Last(host).L = run

\* The function at the top of the running thread goes on.
Running == run # Nobody /\ thrown = "no" /\ ~InParser

-----------------------------------------------------------------------------
(* Calls from C. *)

\* luaD_call and luaD_callnoyield (ny): the activation, then the error of
\* stackerror or the new CallInfo.
luaD_call(s, kind, ny, lua) ==
  LET t == s.th[s.run]
      n == t.nCcalls + 1
      called == [s EXCEPT
        !.host = Append(@, [kind |-> kind, L |-> s.run, at |-> Len(t.ci) + 1, ny |-> ny]),
        !.th[s.run].nCcalls = n,
        !.th[s.run].nny = IF ny THEN @ + 1 ELSE @]
  IN IF n = MaxCcalls THEN [called EXCEPT !.thrown = "raise"]
     ELSE IF n >= MaxCcalls + MaxCcalls \div 8 THEN [called EXCEPT !.thrown = "errerr"]
     ELSE [called EXCEPT !.th[s.run].ci = Append(@, Frame(lua)), !.thrown = "no"]

\* luaD_pcall up to the protected function: what it will restore.
luaD_pcall(s, of, ef) ==
  LET t == s.th[s.run]
  IN [s EXCEPT
       !.host = Append(@, [kind |-> "pcall", of |-> of, L |-> s.run, at |-> Len(t.ci),
                           nny |-> t.nny, ncc |-> t.nCcalls, errfunc |-> t.errfunc, ef |-> ef]),
       !.th[s.run].errfunc = ef]

\* Mutant: a yieldable protected call leaves the handler of its caller.
YpcallNoHandler(t, ef) ==
  [t EXCEPT !.ci[Len(t.ci)] = [@ EXCEPT !.k = TRUE, !.yp = TRUE, !.ef = ef, !.oldef = t.errfunc]]

\* lua_pcallk with a continuation: recovery is left to 'resume'.
Ypcall(t, ef) ==
  [t EXCEPT !.ci[Len(t.ci)] = [@ EXCEPT !.k = TRUE, !.yp = TRUE, !.ef = ef, !.oldef = t.errfunc],
            !.errfunc = ef]

\* The end of lua_pcallk, reached from luaD_call or from finishCcall.
EndYpcall(t) ==
  IF Last(t.ci).yp
  THEN [t EXCEPT !.ci[Len(t.ci)] = [@ EXCEPT !.yp = FALSE, !.ef = 0, !.oldef = 0], !.errfunc = Last(t.ci).oldef]
  ELSE t

-----------------------------------------------------------------------------
(* Operations of a running function. *)

MoreFrames == NumFrames < MaxFrames

\* OP_CALL: no activation for a Lua function; a C function runs in the one of
\* luaV_execute.
OpCall(lua) ==
  /\ Running /\ Top.lua /\ MoreFrames
  /\ Becomes([State EXCEPT !.th[run].ci = Append(@, Frame(lua))])

\* OP_TAILCALL of a Lua function takes the caller's CallInfo.
OpTailCall ==
  /\ Running /\ Top.lua
  /\ Becomes([State EXCEPT !.th[run] = luaF_close(L, Depth)])

\* OP_CLOSURE over a local variable.
luaF_findupval ==
  /\ Running /\ Top.lua
  /\ Becomes([State EXCEPT !.th[run].open = @ \cup {Depth}])

\* Mutant: a metamethod called from a C function may yield.
MayYieldAlways(lua) == TRUE

\* A metamethod may yield only when called from Lua code.
MayYield(lua) == lua

luaT_callTM(lua) ==
  /\ Running /\ MoreFrames
  /\ Becomes(luaD_call(State, "call", ~MayYield(Top.lua), lua))

\* lua_callk, with or without a continuation.
lua_callk(k, lua) ==
  /\ Running /\ ~Top.lua /\ MoreFrames
  /\ LET s == IF k /\ L.nny = 0 THEN [State EXCEPT !.th[run].ci[Depth].k = TRUE] ELSE State
     IN Becomes(luaD_call(s, "call", ~(k /\ L.nny = 0), lua))

\* pcall and xpcall: the handler, if any, is in the frame of the C function.
lua_pcallk(k, handler, lua) ==
  LET ef == IF handler THEN Depth ELSE 0
  IN /\ Running /\ ~Top.lua /\ MoreFrames
     /\ IF k /\ L.nny = 0
        THEN Becomes(luaD_call([State EXCEPT !.th[run] = Ypcall(L, ef)], "call", FALSE, lua))
        ELSE Becomes(luaD_call(luaD_pcall(State, "call", ef), "call", TRUE, lua))

\* A collection runs a finalizer in whatever function allocates.
GCTM(lua) ==
  /\ run # Nobody /\ thrown = "no" /\ MoreFrames
  /\ Becomes(luaD_call(luaD_pcall(State, "gc", 0), "call", TRUE, lua))

\* luaD_protectedparser: no yields while the chunk is parsed.
lua_load ==
  /\ Running /\ ~Top.lua
  /\ Becomes([luaD_pcall(State, "load", L.errfunc) EXCEPT !.th[run].nny = @ + 1])

\* The parser asks for more of the chunk, and the reader is a Lua function.
generic_reader(lua) ==
  /\ run # Nobody /\ thrown = "no" /\ InParser /\ MoreFrames
  /\ Becomes(luaD_call(State, "call", TRUE, lua))

SyntaxError ==
  /\ run # Nobody /\ thrown = "no" /\ InParser
  /\ Becomes([State EXCEPT !.thrown = "syntax"])

ParserEnds ==
  /\ run # Nobody /\ thrown = "no" /\ InParser
  /\ LET f == Last(host)
     IN Becomes([State EXCEPT !.host = Pop(@),
          !.th[run] = [@ EXCEPT !.errfunc = f.errfunc, !.nCcalls = f.ncc, !.nny = f.nny]])

\* lua_error and every run-time error.
lua_error ==
  /\ Running
  /\ Becomes([State EXCEPT !.thrown = "raise"])

\* The message handler is called where the error happened.
luaG_errormsg(lua) ==
  /\ thrown = "raise"
  /\ IF L.errfunc # 0 THEN Becomes(luaD_call(State, "handler", TRUE, lua))
     ELSE Becomes([State EXCEPT !.thrown = "run"])

-----------------------------------------------------------------------------
(* Returns. *)

\* lua_resume gives back to the caller what it saved, and the control.
EndResume(s) ==
  LET f == Last(s.host)
  IN [s EXCEPT !.host = Pop(@), !.run = f.from, !.thrown = "no",
               !.th[f.L].nny = f.nny, !.th[f.L].nCcalls = f.ncc - 1]

\* A CallInfo has been removed and only 'resume' is below: unroll goes on with the
\* next one, or the coroutine has ended.  For a C function that is finishCcall.
unroll(s) ==
  LET t == s.th[s.run]
  IN IF t.ci = <<>> THEN EndResume(s)
     ELSE IF Last(t.ci).lua THEN s
     ELSE [s EXCEPT !.th[s.run] = EndYpcall(t)]

\* luaD_poscall and OP_RETURN, then what the caller does on a normal return.
Return ==
  LET d == Depth
      s == [State EXCEPT !.th[run] = [luaF_close(L, d) EXCEPT !.ci = Pop(@)]]
      h == Last(host)
      below == host[Len(host) - 1]
      counted == [s EXCEPT !.host = Pop(@), !.th[run].nCcalls = @ - 1, !.th[run].nny = IF h.ny THEN @ - 1 ELSE @]
      protected == Len(host) > 1 /\ below.kind = "pcall" /\ below.L = run /\ below.at = d - 1 /\ below.of # "load"
  IN /\ Running /\ ~(run = Main /\ d = 1)
     /\ IF host = <<>> THEN Becomes(s)
        ELSE IF h.kind \in {"call", "handler"} /\ h.L = run /\ h.at = d
        THEN IF h.kind = "handler" THEN Becomes([counted EXCEPT !.thrown = "run"])
             ELSE IF protected
             THEN Becomes([counted EXCEPT !.host = Pop(Pop(host)),
                            !.th[run].errfunc = below.errfunc, !.th[run].nCcalls = below.ncc])
             ELSE Becomes([counted EXCEPT !.th[run] = EndYpcall(@)])
        ELSE IF h.kind = "resume" THEN Becomes(unroll(s))
        ELSE Becomes(s)

-----------------------------------------------------------------------------
(* Throws. *)

\* Activations that catch what the running thread throws.
Catchers == {i \in DOMAIN host : host[i].kind \in {"pcall", "resume"} /\ host[i].L = run}

\* luaD_rawrunprotected and the end of luaD_pcall.
CaughtByPcall(j) ==
  LET f == host[j]
      s == [State EXCEPT !.host = SubSeq(@, 1, j - 1), !.thrown = "no",
             !.th[run] = [luaF_close(L, f.at + 1) EXCEPT
                !.ci = SubSeq(@, 1, f.at), !.nny = f.nny, !.nCcalls = f.ncc, !.errfunc = f.errfunc]]
  IN \/ Becomes(s)
     \/ f.of = "gc" /\ Becomes([s EXCEPT !.thrown = "gcmm"])

\* Recovery points of a coroutine.
findpcall == {i \in DOMAIN L.ci : L.ci[i].yp}

\* Mutant: upvalues of the frames that are dropped stay open.
recoverNoClose(t, p) ==
  EndYpcall([t EXCEPT !.ci = SubSeq(@, 1, p), !.nny = 0])

\* recover, and finishCcall with the status of the error.
recover(t, p) ==
  EndYpcall([luaF_close(t, p + 1) EXCEPT !.ci = SubSeq(@, 1, p), !.nny = 0])

\* An error that nothing in the coroutine catches.
MarkDead(t) == [t EXCEPT !.status = "error"]

\* lua_resume after a jump: a yield, a recovery, or the death of the coroutine.
CaughtByResume(j) ==
  LET f == host[j]
      s == [State EXCEPT !.host = SubSeq(@, 1, j), !.thrown = "no", !.th[run].nCcalls = f.ncc]
  IN IF thrown = "yield" THEN Becomes(EndResume(s))
     ELSE IF findpcall # {} THEN Becomes([s EXCEPT !.th[run] = recover(@, Max(findpcall))])
     ELSE Becomes(EndResume([s EXCEPT !.th[run] = MarkDead(@)]))

luaD_throw ==
  /\ thrown \notin {"no", "raise"}
  /\ IF Catchers = {} THEN Becomes([State EXCEPT !.run = Nobody, !.thrown = "no"])
     ELSE LET j == Max(Catchers)
          IN IF host[j].kind = "pcall" THEN CaughtByPcall(j) ELSE CaughtByResume(j)

-----------------------------------------------------------------------------
(* Coroutines. *)

\* lua_yieldk; the error is "attempt to yield across a C-call boundary" or from
\* outside a coroutine.
lua_yieldk(k) ==
  /\ Running /\ ~Top.lua
  /\ IF L.nny > 0 THEN Becomes([State EXCEPT !.thrown = "raise"])
     ELSE Becomes([State EXCEPT !.th[run].status = "yield", !.th[run].ci[Depth].k = k, !.thrown = "yield"])

\* The coroutine is new or has yielded.
Resumable(t) == t.status = "yield" \/ (t.status = "ok" /\ t.ci = <<>> /\ t.fn)

\* Mutant: a coroutine counts its C calls from one.
StartCountOne(from) == 1

\* A coroutine counts the C calls below it.
StartCount(from) == from.nCcalls + 1

\* lua_resume of a coroutine that can run.
Resumed(co) ==
  LET n == StartCount(L)
  IN [State EXCEPT
       !.host = Append(@, [kind |-> "resume", L |-> co, from |-> run, nny |-> th[co].nny, ncc |-> n]),
       !.run = co,
       !.th[co] = [@ EXCEPT !.nCcalls = n, !.nny = 0, !.status = "ok", !.fn = FALSE]]

\* No value is on the stack of a coroutine that has ended; of one that runs or waits
\* for another there may be none.
Ended(t) == t.status = "ok" /\ t.ci = <<>> /\ ~t.fn
MayBeEmpty(t) == t.status = "ok" /\ ~Resumable(t)

\* coroutine.resume and wrap.  A thread that is "ok" with an empty stack is refused as
\* dead.  An error of the resume itself leaves the thread as it was, except that its
\* count of C calls is now that of the caller.
auxresume(co, lua) ==
  LET s == Resumed(co)
      t == s.th[co]
  IN /\ Running /\ ~Top.lua
     /\ \/ MayBeEmpty(th[co]) /\ Becomes(State)
        \/ /\ ~Ended(th[co])
           /\ IF ~Resumable(th[co]) \/ StartCount(L) >= MaxCcalls
              THEN Becomes([State EXCEPT !.th[co].nCcalls = StartCount(L) - 1])
              ELSE IF th[co].status = "ok"
              THEN MoreFrames /\ Becomes([s EXCEPT !.th[co].ci = <<Frame(lua)>>])
              ELSE IF Last(t.ci).k THEN Becomes(s)
              ELSE Becomes(unroll([s EXCEPT !.th[co].ci = Pop(@)]))

luaB_costatus(co) ==
  IF co = run THEN "running"
  ELSE IF th[co].status = "yield" THEN "suspended"
  ELSE IF th[co].status = "error" THEN "dead"
  ELSE IF th[co].ci # <<>> THEN "normal"
  ELSE IF th[co].fn THEN "suspended" ELSE "dead"

Next ==
  \/ \E lua \in BOOLEAN :
       \/ OpCall(lua) \/ luaT_callTM(lua) \/ GCTM(lua) \/ generic_reader(lua) \/ luaG_errormsg(lua)
       \/ \E k \in BOOLEAN : lua_callk(k, lua) \/ \E handler \in BOOLEAN : lua_pcallk(k, handler, lua)
       \/ \E co \in Thread : auxresume(co, lua)
  \/ OpTailCall \/ luaF_findupval \/ lua_load \/ SyntaxError \/ ParserEnds
  \/ lua_error \/ Return \/ luaD_throw
  \/ \E k \in BOOLEAN : lua_yieldk(k)

Spec == Init /\ [][Next]_vars

-----------------------------------------------------------------------------
(* Properties. *)

\* Every C function that waits for a call has somebody to go on with it: the
\* activation that called, or a continuation for 'unroll' (the assertion of
\* finishCcall).  No yield, however protected calls, metamethods, readers and
\* finalizers are nested, drops the C code of a function that cannot be continued.
Continuable ==
  \A t \in Thread, i \in 1..MaxFrames :
    i < Len(th[t].ci) /\ th[t].status # "error" /\ ~th[t].ci[i].lua =>
      \/ th[t].ci[i].k
      \/ \E j \in DOMAIN host : host[j].kind \in {"call", "handler"} /\ host[j].L = t /\ host[j].at = i + 1

\* Protected calls of t, by the CallInfo above which they protect.
Protections(t) ==
  {<<host[j].at, j, host[j].ef>> : j \in {i \in DOMAIN host : host[i].kind = "pcall" /\ host[i].L = t}}
  \cup {<<i, 0, th[t].ci[i].ef>> : i \in {p \in DOMAIN th[t].ci : th[t].ci[p].yp}}

\* The message handler in force is the one of the innermost protected call of the
\* thread, on every way out of the calls above it: return, error, error of a handler,
\* yield, recovery.
HandlerInForce ==
  \A t \in Thread :
    run # Nobody /\ thrown = "no" /\ th[t].status # "error" =>
      LET P == Protections(t)
      IN IF P = {} THEN th[t].errfunc = 0
         ELSE \E p \in P : /\ p[3] = th[t].errfunc
                           /\ \A q \in P : q[1] < p[1] \/ (q[1] = p[1] /\ q[2] <= p[2])

\* Open upvalues are those of Lua functions that have not returned: no jump past a
\* function leaves one that points into its stack frame.
UpvaluesLive ==
  \A t \in Thread : \A u \in th[t].open : u \in DOMAIN th[t].ci /\ th[t].ci[u].lua

\* The nesting of C calls, over all the coroutines that wait for each other, is
\* limited by LUAI_MAXCCALLS and the eighth more that error handling may use.
CStackBounded ==
  run # Nobody /\ thrown = "no" =>
    Cardinality({j \in DOMAIN host : host[j].kind # "pcall"}) < MaxCcalls + MaxCcalls \div 8

=============================================================================
