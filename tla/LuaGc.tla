------------------------------- MODULE LuaGc -------------------------------
(***************************************************************************)
(* The incremental garbage collector of the Lua interpreter kept with the  *)
(* web proxy (lgc.c), against a program that runs between its steps.       *)
(*                                                                         *)
(* A thread has slots, a table one entry, a userdata one user value, a     *)
(* closure one upvalue; metatables, prototypes and the registry are        *)
(* always reachable and left out.  Gray lists are sets: the collector      *)
(* takes from them in any order.  A sweep step takes one object            *)
(* (GCSWEEPMAX = 1, the finest grain).                                     *)
(***************************************************************************)
EXTENDS Naturals, Sequences, FiniteSets, SequencesExt, FiniteSetsExt

CONSTANTS
  Main,                       \* the main thread, never freed
  Co, Tab, Udata, Lcl, Str,   \* names for other objects, by type
  Modes,                      \* the values of __mode tables are made with, "strong" for none
  Slots,                      \* slots of the main stack; a coroutine has one
  Nil,
  Start,                      \* heaps the program may have built already
  MaxOps                      \* bound: operations of the program

Thread == {Main} \cup Co
Obj == Thread \cup Tab \cup Udata \cup Lcl \cup Str
Finalizable == Tab \cup Udata
Dead == "dead key"
Slot(th) == IF th = Main THEN 1..Slots ELSE {1}
Upvalue == [open : Thread \cup {Nil}, v : Obj \cup {Nil}, touched : BOOLEAN]

\* A heap the program may have built: every object is in one place of one list,
\* what has a finalizer is a table or a userdata (lua_setmetatable).
HeapOK(h) ==
  /\ h.allgc \in Seq(Obj \ {Main}) /\ h.finobj \in Seq(Finalizable)
  /\ IsInjective(h.allgc) /\ IsInjective(h.finobj)
  /\ ToSet(h.allgc) \cap ToSet(h.finobj) = {}
  /\ DOMAIN h.stack = Thread
  /\ \A th \in Thread : h.stack[th] \in [Slot(th) -> Obj \cup {Nil}]
  /\ h.mode \in [Tab -> {"strong", "k", "v", "kv"}]
  /\ h.entry \in [Tab -> (Obj \cup {Nil}) \X (Obj \cup {Nil})]
  /\ h.uservalue \in [Udata -> Obj \cup {Nil}]
  /\ h.upval \in [Lcl -> Upvalue]

ASSUME GcAssumption ==
  /\ Nil \notin Obj /\ "head" \notin Obj \cup {Nil} /\ Dead \notin Obj \cup {Nil}
  /\ Main \notin Co \cup Tab \cup Udata \cup Lcl \cup Str
  /\ Co \cap (Tab \cup Udata \cup Lcl \cup Str) = {} /\ Tab \cap (Udata \cup Lcl \cup Str) = {}
  /\ Udata \cap (Lcl \cup Str) = {} /\ Lcl \cap Str = {}
  /\ Modes \subseteq {"strong", "k", "v", "kv"} /\ Modes # {}
  /\ Slots \in Nat \ {0} /\ MaxOps \in Nat
  /\ \A h \in Start : HeapOK(h)

VARIABLES
  allgc, finobj, tobefnz,     \* the lists of objects
  marked,                     \* colour bits
  tofinalize,                 \* objects with FINALIZEDBIT
  currentwhite, gcstate, sweepgc,
  gray, grayagain, weak, allweak, ephemeron, twups,
  todo, changed,              \* locals of convergeephemerons
  gckind, goal,               \* luaC_fullgc and the state it runs to
  fin,                        \* the object whose finalizer runs
  stack, mode, entry, uservalue, upval,
  ops,
  unswept                     \* history: what the last sweep left as it was

listVars == <<allgc, finobj, tobefnz, tofinalize>>
grayVars == <<gray, grayagain, weak, allweak, ephemeron>>
convVars == <<todo, changed>>
callVars == <<gckind, goal, fin>>
heapVars == <<stack, entry, uservalue, upval>>
idleVars == <<mode, ops, unswept>>
vars == <<listVars, marked, currentwhite, gcstate, sweepgc, grayVars, twups, convVars, callVars, heapVars, idleVars>>

White == {"white0", "white1"}
otherwhite == IF currentwhite = "white0" THEN "white1" ELSE "white0"
iswhite(o) == marked[o] \in White
isdead(o) == marked[o] = otherwhite
keepinvariant == gcstate \in {"propagate", "atomic"}
issweepphase == gcstate \in {"swpallgc", "swpfinobj", "swptobefnz", "swpend"}

Live == {Main} \cup ToSet(allgc) \cup ToSet(finobj) \cup ToSet(tobefnz)

\* An upvalue is open while its value is in a slot of a thread.
upisopen(c) == upval[c].open # Nil
UpValue(c) == IF upisopen(c) THEN stack[upval[c].open][1] ELSE upval[c].v

-----------------------------------------------------------------------------
(* Marking. *)

\* The parts of the atomic phase; the program waits in all of them.
insideatomic == gcstate \in {"marked", "again", "converge1", "separate", "fnz", "converge2"}
Inside == {"propagateall", "marked", "again", "converge1", "separate", "fnz", "converge2", "entersweep"}

\* reallymarkobject goes on from a userdata to its user value: the least set of
\* white userdata that has those of S and is closed under that.
MarkSet(S) ==
  LET white == {o \in Obj : iswhite(o)}
      closed == {U \in SUBSET (Udata \cap white) :
                   \A u \in Udata \cap white : u \in S \/ (\E x \in U : uservalue[x] = u) => u \in U}
      users == {u \in Udata \cap white : \A U \in closed : u \in U}
  IN white \cap (S \cup {uservalue[u] : u \in users})

Leaf == Udata \cup Str

\* The colours and the gray list after marking S, o having colour c.
MarkAnd(S, o, c, rest) ==
  LET M == MarkSet(S) \ {o}
  IN /\ marked' = [x \in Obj |-> IF x = o THEN c
                                 ELSE IF x \in M THEN IF x \in Leaf THEN "black" ELSE "gray"
                                 ELSE marked[x]]
     /\ gray' = rest \cup (M \ Leaf)

Mark(S) == MarkAnd(S, Nil, Nil, gray)

\* A string is never cleared from a weak table, it is marked.
iscleared(v) == v \in Obj \ Str /\ iswhite(v)

\* Key and value of the entry of t.
Key(t) == entry[t][1]
Val(t) == entry[t][2]

\* The key of an empty entry may be collected: it becomes a dead key.
removeentry(t) == IF Key(t) \in Obj /\ iswhite(Key(t)) THEN <<Dead, Nil>> ELSE <<Key(t), Nil>>

\* What the traversal of table t marks.
TableMarks(t) ==
  IF Val(t) = Nil THEN {}
  ELSE CASE mode[t] = "strong" -> {Key(t), Val(t)}
         [] mode[t] = "v" -> {Key(t)} \cup ({Val(t)} \cap Str)
         [] mode[t] = "k" -> IF iscleared(Key(t)) THEN {} ELSE {Key(t), Val(t)}
         [] mode[t] = "kv" -> {}

\* Where a traversed table is linked, besides being black.
Again(t) == mode[t] \in {"k", "v"} /\ gcstate = "propagate"
HasClears(t) == Val(t) # Nil /\ ~Again(t) /\ 
                /\ \/ mode[t] = "v" /\ iscleared(Val(t))
                   \/ mode[t] = "k" /\ iscleared(Key(t))
WhiteWhite(t) == HasClears(t) /\ mode[t] = "k" /\ Val(t) \in Obj /\ iswhite(Val(t))

traversetable(t, rest) ==
  /\ MarkAnd(TableMarks(t), t, IF mode[t] = "strong" THEN "black" ELSE "gray", rest)
  /\ entry' = IF Val(t) = Nil /\ mode[t] # "kv" THEN [entry EXCEPT ![t] = removeentry(t)] ELSE entry
  /\ grayagain' = grayagain \cup {x \in {t} : Again(x)}
  /\ weak' = weak \cup {x \in {t} : HasClears(x) /\ mode[x] = "v"}
  /\ ephemeron' = ephemeron \cup {x \in {t} : WhiteWhite(x)}
  /\ allweak' = allweak \cup {x \in {t} : mode[x] = "kv" \/ (HasClears(x) /\ mode[x] = "k" /\ ~WhiteWhite(x))}
  /\ UNCHANGED <<twups, upval>>

\* The value of an open upvalue is left to its thread, but touched.
traverseLclosure(c, rest) ==
  /\ IF upisopen(c) /\ ~insideatomic
     THEN /\ upval' = [upval EXCEPT ![c].touched = TRUE]
          /\ MarkAnd({}, c, "black", rest)
     ELSE /\ UNCHANGED upval
          /\ MarkAnd({UpValue(c)}, c, "black", rest)
  /\ UNCHANGED <<entry, grayagain, weak, allweak, ephemeron, twups>>

HasOpenUpvalues(th) == \E c \in Lcl : upval[c].open = th

\* The argument of a running finalizer is on the stack too.
StackOf(th) == {stack[th][i] : i \in Slot(th)} \cup {x \in {fin} : th = Main}

\* A thread is never black.
traversethread(th, rest) ==
  /\ MarkAnd(StackOf(th), th, "gray", rest)
  /\ grayagain' = grayagain \cup {th}
  /\ twups' = IF insideatomic /\ HasOpenUpvalues(th) THEN twups \cup {th} ELSE twups
  /\ UNCHANGED <<entry, upval, weak, allweak, ephemeron>>

propagatemark(o) ==
  /\ o \in gray
  /\ \/ o \in Tab /\ traversetable(o, gray \ {o})
     \/ o \in Lcl /\ traverseLclosure(o, gray \ {o})
     \/ o \in Thread /\ traversethread(o, gray \ {o})
  /\ UNCHANGED <<listVars, currentwhite, sweepgc, stack, uservalue, callVars, idleVars>>

-----------------------------------------------------------------------------
(* The cycle: singlestep, and atomic in the steps it is made of. *)

\* luaC_runtilstate has reached the state it runs to.
GoalReached ==
  \/ goal \in {"pause", "finish"} /\ gcstate = "pause"
  \/ goal = "leave" /\ gcstate # "pause"
  \/ goal = "callfin" /\ gcstate = "callfin"

\* A finalizer runs with the collector stopped; an emergency still collects.
Runs == (fin = Nil \/ gckind = "emergency") /\ ~GoalReached

\* Mutant: the objects to be finalized are not marked.
markbeingfnzNot(q) == {}

markbeingfnz(q) == ToSet(q)

\* Mark root set and reset all gray lists.
restartcollection ==
  /\ gcstate = "pause" /\ Runs
  /\ MarkAnd({Main} \cup markbeingfnz(tobefnz), Nil, Nil, {})
  /\ grayagain' = {} /\ weak' = {} /\ allweak' = {} /\ ephemeron' = {}
  /\ gcstate' = "propagate"
  /\ UNCHANGED <<listVars, currentwhite, sweepgc, twups, convVars, callVars, heapVars, idleVars>>

PropagateStep ==
  /\ gcstate = "propagate" /\ Runs
  /\ \E o \in Obj : propagatemark(o)
  /\ gcstate' = IF gray' = {} THEN "atomic" ELSE "propagate"
  /\ UNCHANGED convVars

propagateall ==
  /\ gcstate \in Inside \ {"entersweep"}
  /\ \E o \in Obj : propagatemark(o)
  /\ UNCHANGED <<gcstate, convVars>>

\* From one part of the atomic phase to the next.
Enter(from, to) ==
  /\ gcstate = from /\ Runs
  /\ gray = {}
  /\ gcstate' = to

\* No step of the program comes from here to the sweep.
AtomicBegins ==
  /\ gcstate = "atomic" /\ Runs
  /\ gcstate' = "propagateall"
  /\ UNCHANGED <<listVars, marked, currentwhite, sweepgc, grayVars, twups, convVars, callVars, heapVars, idleVars>>

\* Threads that are not marked, or have no open upvalues.
NotKept == {th \in twups : marked[th] # "gray" \/ ~HasOpenUpvalues(th)}

\* The start of atomic: the running thread is marked already; touched upvalues
\* of threads that are not kept are.
remarkupvals ==
  LET touched == {c \in Lcl : upval[c].open \in NotKept /\ upval[c].touched}
  IN /\ Enter("propagateall", "marked")
     /\ MarkAnd({UpValue(c) : c \in touched}, Nil, Nil, {})
     /\ upval' = [c \in Lcl |-> IF c \in touched THEN [upval[c] EXCEPT !.touched = FALSE] ELSE upval[c]]
     /\ twups' = twups \ NotKept
     /\ todo' = grayagain
     /\ UNCHANGED <<listVars, currentwhite, sweepgc, grayagain, weak, allweak, ephemeron, changed, callVars, stack, entry, uservalue, idleVars>>

TraverseAgain ==
  /\ Enter("marked", "again")
  /\ gray' = todo /\ todo' = {}
  /\ UNCHANGED <<listVars, marked, currentwhite, sweepgc, grayagain, weak, allweak, ephemeron, twups, changed, callVars, heapVars, idleVars>>

\* One round of convergeephemerons, the first or another one.
ConvergeRound ==
  /\ \/ Enter("again", "converge1")
     \/ Enter("fnz", "converge2")
     \/ \E c \in {"converge1", "converge2"} : Enter(c, c) /\ todo = {} /\ changed
  /\ todo' = ephemeron /\ ephemeron' = {}
  /\ changed' = FALSE
  /\ UNCHANGED <<listVars, marked, currentwhite, sweepgc, gray, grayagain, weak, allweak, twups, callVars, heapVars, idleVars>>

traverseephemeron(w) ==
  /\ gcstate \in {"converge1", "converge2"} /\ gray = {}
  /\ w \in todo
  /\ traversetable(w, gray)
  /\ todo' = todo \ {w}
  /\ changed' = (changed \/ (Val(w) \in Obj /\ iswhite(Val(w)) /\ ~iscleared(Key(w))))
  /\ UNCHANGED <<listVars, currentwhite, gcstate, sweepgc, stack, uservalue, callVars, idleVars>>

\* clearkeys, at the end of atomic.
KeyCleared(t) == gcstate = "converge2" /\ t \in ephemeron \cup allweak /\ Val(t) # Nil /\ iscleared(Key(t))

\* Mutant: tables with weak keys and values are forgotten.
ValueClearedWeak(t) == t \in weak /\ iscleared(Val(t))

\* clearvalues; at the end only resurrected tables can have a white value.
ValueCleared(t) == t \in weak \cup allweak /\ iscleared(Val(t))

ClearEntries == entry' = [t \in Tab |-> IF KeyCleared(t) \/ ValueCleared(t) THEN removeentry(t) ELSE entry[t]]

\* Strings that iscleared meets on the way are marked.
MetStrings ==
  Str \cap ({Val(t) : t \in {x \in weak \cup allweak : ~KeyCleared(x)}}
            \cup {Key(t) : t \in {x \in ephemeron \cup allweak : gcstate = "converge2" /\ Val(x) # Nil}})

\* Values of weak tables go before finalizers are looked for.
ClearValues ==
  /\ Enter("converge1", "separate") /\ todo = {} /\ ~changed
  /\ ClearEntries
  /\ MarkAnd(MetStrings, Nil, Nil, gray)
  /\ UNCHANGED <<listVars, currentwhite, sweepgc, grayagain, weak, allweak, ephemeron, twups, convVars, callVars, stack, uservalue, upval, idleVars>>

\* One object: the first that was not reached goes to the end of tobefnz.
separatetobefnz ==
  /\ gcstate = "separate"
  /\ \E i \in 1..Len(finobj) :
       /\ iswhite(finobj[i]) /\ \A j \in 1..(i - 1) : ~iswhite(finobj[j])
       /\ tobefnz' = Append(tobefnz, finobj[i])
       /\ finobj' = RemoveAt(finobj, i)
  /\ UNCHANGED <<allgc, tofinalize, marked, currentwhite, gcstate, sweepgc, grayVars, twups, convVars, callVars, heapVars, idleVars>>

\* What is to be finalized is marked again.
MarkToBeFnz ==
  /\ Enter("separate", "fnz")
  /\ \A o \in ToSet(finobj) : ~iswhite(o)
  /\ MarkAnd(markbeingfnz(tobefnz), Nil, Nil, gray)
  /\ UNCHANGED <<listVars, currentwhite, sweepgc, grayagain, weak, allweak, ephemeron, twups, convVars, callVars, heapVars, idleVars>>

\* Mutant: what was white before the cycle is not told from what is new.
FlippedNot == currentwhite

\* The white of the next cycle.
Flipped == otherwhite

FlipWhite ==
  /\ Enter("converge2", "entersweep") /\ todo = {} /\ ~changed
  /\ ClearEntries
  /\ MarkAnd(MetStrings, Nil, Nil, gray)
  /\ currentwhite' = Flipped
  /\ UNCHANGED <<listVars, sweepgc, grayagain, weak, allweak, ephemeron, twups, convVars, callVars, stack, uservalue, upval, idleVars>>

-----------------------------------------------------------------------------
(* Sweeping. *)

\* freeobj for a set of objects: a thread closes its upvalues, an upvalue
\* nobody has is gone once it is closed.
Free(D) ==
  LET closing(c) == upval[c].open \in D
      gone(c) == (c \in D \/ marked[c] = "free") /\ (closing(c) \/ ~upisopen(c))
      NoUpval == [open |-> Nil, v |-> Nil, touched |-> FALSE]
  IN /\ upval' = [c \in Lcl |-> IF gone(c) THEN NoUpval
                                ELSE IF closing(c) THEN [open |-> Nil, v |-> UpValue(c), touched |-> FALSE]
                                ELSE upval[c]]
     /\ stack' = [th \in Thread |-> IF th \in D THEN [i \in Slot(th) |-> Nil] ELSE stack[th]]
     /\ entry' = [t \in Tab |-> IF t \in D THEN <<Nil, Nil>> ELSE entry[t]]
     /\ uservalue' = [u \in Udata |-> IF u \in D THEN Nil ELSE uservalue[u]]

\* sweeplist over the elements k + 1 .. n of list s, of which only the last can
\* be alive: the dead go, that one turns white; where the sweep goes on from, p
\* if it has not moved, or Nil at the end.
Swept(s, k, n) == {s[i] : i \in (k + 1)..n}
LastLives(s, k, n) == n > k /\ ~isdead(s[n])
Remaining(s, k, n) == SubSeq(s, 1, k) \o SubSeq(s, IF LastLives(s, k, n) THEN n ELSE n + 1, Len(s))
Position(s, k, n, p) == IF n = Len(s) THEN Nil ELSE IF LastLives(s, k, n) THEN s[n] ELSE p
SweepColours(s, k, n) ==
  LET T == Swept(s, k, n)
      D == {o \in T : isdead(o)}
  IN /\ marked' = [o \in Obj |-> IF o \in D THEN "free" ELSE IF o \in T THEN currentwhite ELSE marked[o]]
     /\ Free(D)

\* How far sweeptolive goes from position k: to the next live object.
ToLive(s, k) ==
  LET alive == {i \in (k + 1)..Len(s) : ~isdead(s[i])}
  IN IF alive = {} THEN Len(s) ELSE Min(alive)

\* After atomic, or first thing in a full collection: the white has not been
\* flipped then, and nothing is dead.
entersweep ==
  /\ gcstate = "entersweep"
  /\ gcstate' = "swpallgc"
  /\ SweepColours(allgc, 0, ToLive(allgc, 0))
  /\ allgc' = Remaining(allgc, 0, ToLive(allgc, 0))
  /\ sweepgc' = Position(allgc, 0, ToLive(allgc, 0), "head")
  /\ UNCHANGED <<finobj, tobefnz, tofinalize, currentwhite, grayVars, twups, convVars, callVars, idleVars>>

NextState == [swpallgc |-> "swpfinobj", swpfinobj |-> "swptobefnz", swptobefnz |-> "swpend"]

\* The list that the pointer sweepgc is in, by the object it is a field of.
InList(s, state) == IF sweepgc = "head" THEN gcstate = state ELSE sweepgc \in ToSet(s)
Index(s, o) == CHOOSE i \in 1..Len(s) : s[i] = o
From(s) == IF sweepgc = "head" THEN 0 ELSE Index(s, sweepgc)
Upto(s) == IF From(s) = Len(s) THEN Len(s) ELSE From(s) + 1

sweeplist(s, state) ==
  LET p == Position(s, From(s), Upto(s), sweepgc)
  IN /\ InList(s, state)
     /\ SweepColours(s, From(s), Upto(s))
     /\ gcstate' = IF p = Nil THEN NextState[gcstate] ELSE gcstate
     /\ sweepgc' = IF p # Nil THEN p ELSE IF gcstate = "swptobefnz" THEN Nil ELSE "head"

sweepstep ==
  /\ gcstate \in DOMAIN NextState /\ Runs
  /\ \/ /\ sweepgc = Nil
        /\ gcstate' = NextState[gcstate]
        /\ sweepgc' = IF gcstate = "swptobefnz" THEN Nil ELSE "head"
        /\ UNCHANGED <<allgc, finobj, tobefnz, marked, heapVars>>
     \/ /\ sweeplist(allgc, "swpallgc")
        /\ allgc' = Remaining(allgc, From(allgc), Upto(allgc))
        /\ UNCHANGED <<finobj, tobefnz>>
     \/ /\ sweeplist(finobj, "swpfinobj")
        /\ finobj' = Remaining(finobj, From(finobj), Upto(finobj))
        /\ UNCHANGED <<allgc, tobefnz>>
     \/ /\ sweeplist(tobefnz, "swptobefnz")
        /\ tobefnz' = Remaining(tobefnz, From(tobefnz), Upto(tobefnz))
        /\ UNCHANGED <<allgc, finobj>>
  /\ UNCHANGED <<tofinalize, currentwhite, grayVars, twups, convVars, callVars, idleVars>>

SweepEnd ==
  /\ gcstate = "swpend" /\ Runs
  /\ marked' = [marked EXCEPT ![Main] = currentwhite]
  /\ gcstate' = "callfin"
  /\ unswept' = {o \in Live \ {Main} : marked[o] # currentwhite}
  /\ UNCHANGED <<listVars, currentwhite, sweepgc, grayVars, twups, convVars, callVars, heapVars, mode, ops>>

-----------------------------------------------------------------------------
(* Finalizers and full collections. *)

\* The object is "normal" again.
Normal(o) == tofinalize \ {o}

\* luaC_step and the last state of the cycle call pending finalizers.
udata2finalize ==
  /\ tobefnz # <<>> /\ fin = Nil /\ gckind = "normal"
  /\ gcstate \notin Inside \cup {"pause"}
  /\ goal # "none" => gcstate = "callfin" /\ ~GoalReached
  /\ LET o == Head(tobefnz)
     IN /\ fin' = o
        /\ allgc' = <<o>> \o allgc
        /\ tofinalize' = Normal(o)
        /\ marked' = IF issweepphase THEN [marked EXCEPT ![o] = currentwhite] ELSE marked
  /\ tobefnz' = Tail(tobefnz)
  /\ UNCHANGED <<finobj, currentwhite, gcstate, sweepgc, grayVars, twups, convVars, gckind, goal, heapVars, idleVars>>

FinalizerReturns ==
  /\ fin # Nil /\ gckind = "normal"
  /\ fin' = Nil
  /\ UNCHANGED <<listVars, marked, currentwhite, gcstate, sweepgc, grayVars, twups, convVars, gckind, goal, heapVars, idleVars>>

\* Emergency mode or no more finalizers.
NoMoreFinalizers == tobefnz = <<>> \/ gckind = "emergency"

CycleEnds ==
  /\ gcstate = "callfin" /\ Runs
  /\ NoMoreFinalizers
  /\ gcstate' = "pause"
  /\ UNCHANGED <<listVars, marked, currentwhite, sweepgc, grayVars, twups, convVars, callVars, heapVars, idleVars>>

\* The program waits for the atomic phase, and for a full collection except
\* while that runs a finalizer.
Stopped == gcstate \in Inside \/ (goal # "none" /\ (fin = Nil \/ gckind = "emergency"))
Op == ~Stopped /\ ops < MaxOps /\ ops' = ops + 1

\* An emergency is a full collection from inside an allocation.
luaC_fullgc ==
  /\ Op /\ goal = "none"
  /\ \E kind \in {"normal", "emergency"} :
       /\ kind = "normal" => fin = Nil
       /\ gckind' = kind
  /\ goal' = "pause"
  /\ gcstate' = IF keepinvariant THEN "entersweep" ELSE gcstate
  /\ UNCHANGED <<listVars, marked, currentwhite, sweepgc, grayVars, twups, convVars, fin, heapVars, mode, unswept>>

luaC_runtilstate ==
  /\ GoalReached
  /\ goal' = [pause |-> "leave", leave |-> "callfin", callfin |-> "finish", finish |-> "none"][goal]
  /\ gckind' = IF goal = "finish" THEN "normal" ELSE gckind
  /\ UNCHANGED <<listVars, marked, currentwhite, gcstate, sweepgc, grayVars, twups, convVars, fin, heapVars, idleVars>>

-----------------------------------------------------------------------------
(* The program.  It holds the main thread and what is in its stack, and may *)
(* read what those refer to.                                               *)

\* What an operation on a freed object does is undefined, and left out, and so is
\* that on a dead one (checkliveness): NothingInUseFreed says when it can come to that.
Held == ({Main} \cup StackOf(Main)) \cap Live

Refs(o) ==
  (CASE o \in Thread -> StackOf(o)
     [] o \in Tab -> IF Val(o) = Nil THEN {} ELSE {Key(o), Val(o)}
     [] o \in Udata -> {uservalue[o]}
     [] o \in Lcl -> {UpValue(o)}
     [] o \in Str -> {}) \cap Obj

Values == (Held \ {Main}) \cup {Nil}
Readable == Held \cup {o \in UNION {Refs(x) : x \in Held} : o \in Live /\ ~isdead(o)}

\* A name stands for an object: it is given again when nothing has it any more.
Unused(o) ==
  /\ marked[o] = "free"
  /\ \A x \in Obj : o \notin Refs(x)
  /\ \A t \in Tab : Key(t) # o

\* A new object is put in the last slot of the main thread, and is the first of
\* allgc.
luaC_newobj(o) ==
  /\ Op
  /\ Unused(o)
  /\ marked' = [marked EXCEPT ![o] = currentwhite]
  /\ allgc' = <<o>> \o allgc
  /\ stack' = [stack EXCEPT ![Main][Slots] = o]
  /\ unswept' = unswept \ {o}
  /\ UNCHANGED <<finobj, tobefnz, tofinalize, currentwhite, gcstate, sweepgc, grayVars, convVars, callVars, entry, uservalue>>

NewTable(t) ==
  /\ luaC_newobj(t)
  /\ \E m \in Modes : mode' = [mode EXCEPT ![t] = m]
  /\ UNCHANGED <<twups, upval>>

NewOther(o) ==
  /\ luaC_newobj(o)
  /\ UNCHANGED <<mode, twups, upval>>

\* luaF_newLclosure and luaF_findupval: the new upvalue is the first slot of th,
\* which has none yet (a second closure would share it).
NewClosure(c, th) ==
  /\ luaC_newobj(c)
  /\ ~upisopen(c) /\ ~HasOpenUpvalues(th)
  /\ th \in Held \cap Thread
  /\ th = Main => Slots > 1
  /\ upval' = [upval EXCEPT ![c] = [open |-> th, v |-> Nil, touched |-> TRUE]]
  /\ twups' = twups \cup {th}
  /\ UNCHANGED mode

\* Mutant: a string found in the string table keeps its colour.
ReviveNot(s) == marked

\* A string found in the table may be dead, not collected yet.
Revive(s) == [marked EXCEPT ![s] = IF isdead(s) THEN currentwhite ELSE marked[s]]

\* The string is in the table already, another piece of code makes it again.
internshrstr(s) ==
  /\ Op
  /\ marked[s] # "free"
  /\ marked' = Revive(s)
  /\ stack' = [stack EXCEPT ![Main][Slots] = s]
  /\ UNCHANGED <<listVars, currentwhite, gcstate, sweepgc, grayVars, twups, convVars, callVars, entry, uservalue, upval, mode, unswept>>

\* Assignment to a local variable: no barrier, a thread is never black.
SetSlot(th, i, v) ==
  /\ Op
  /\ th \in Held \cap Thread
  /\ v \in (Readable \ {Main}) \cup {Nil} /\ stack[th][i] # v
  /\ stack' = [stack EXCEPT ![th][i] = v]
  /\ UNCHANGED <<listVars, marked, currentwhite, gcstate, sweepgc, grayVars, twups, convVars, callVars, entry, uservalue, upval, mode, unswept>>

NotHurt == UNCHANGED <<listVars, currentwhite, gcstate, sweepgc, weak, allweak, ephemeron, twups, convVars, callVars, mode, unswept>>

\* Mutant: only the value assigned is looked at.
barrierbackOnValue(t, k, v) ==
  /\ IF marked[t] = "black" /\ v \in Obj /\ iswhite(v)
     THEN /\ marked' = [marked EXCEPT ![t] = "gray"]
          /\ grayagain' = grayagain \cup {t}
     ELSE UNCHANGED <<marked, grayagain>>
  /\ UNCHANGED gray

\* luaC_barrierback_, for a new key and for the value.
barrierback(t, k, v) ==
  /\ IF marked[t] = "black" /\ \E x \in {k, v} \cap Obj : iswhite(x)
     THEN /\ marked' = [marked EXCEPT ![t] = "gray"]
          /\ grayagain' = grayagain \cup {t}
     ELSE UNCHANGED <<marked, grayagain>>
  /\ UNCHANGED gray

\* The entry is free, or it has this key; a key that is not new has no barrier.
SetTable(t, k, v) ==
  /\ Op
  /\ t \in Held /\ k \in Values \ {Nil} /\ v \in Values
  /\ Val(t) = Nil => v # Nil
  /\ Val(t) # Nil => k = Key(t) /\ v # Val(t)
  /\ entry' = [entry EXCEPT ![t] = <<k, v>>]
  /\ barrierback(t, IF k = Key(t) THEN Nil ELSE k, v)
  /\ NotHurt /\ UNCHANGED <<stack, uservalue, upval>>

\* luaC_barrier_: forward in marking, and in sweeping the owner is swept.
SetUservalue(u, v) ==
  /\ Op
  /\ u \in Held /\ v \in Values /\ uservalue[u] # v
  /\ uservalue' = [uservalue EXCEPT ![u] = v]
  /\ IF marked[u] = "black" /\ v \in Obj /\ iswhite(v)
     THEN IF keepinvariant THEN Mark({v})
          ELSE marked' = [marked EXCEPT ![u] = currentwhite] /\ UNCHANGED gray
     ELSE UNCHANGED <<marked, gray>>
  /\ NotHurt /\ UNCHANGED <<grayagain, stack, entry, upval>>

upvalbarrier(v) == IF keepinvariant THEN Mark({v}) ELSE UNCHANGED <<marked, gray>>

\* Through a closure: the slot of a thread, or a closed upvalue.
SetUpval(c, v) ==
  /\ Op
  /\ c \in Held /\ v \in Values /\ UpValue(c) # v
  /\ IF upisopen(c)
     THEN /\ stack' = [stack EXCEPT ![upval[c].open][1] = v]
          /\ UNCHANGED <<marked, gray, upval>>
     ELSE /\ upval' = [upval EXCEPT ![c].v = v]
          /\ upvalbarrier(v)
          /\ UNCHANGED stack
  /\ NotHurt /\ UNCHANGED <<grayagain, entry, uservalue>>

\* The function whose local variable it is returns.
luaF_close(th) ==
  LET open == {c \in Lcl : upval[c].open = th}
      kept == {c \in open : marked[c] # "free"}
  IN /\ Op
     /\ th \in Held /\ open # {}
     /\ upval' = [c \in Lcl |-> IF c \notin open THEN upval[c]
                                ELSE [open |-> Nil, v |-> IF c \in kept THEN UpValue(c) ELSE Nil, touched |-> FALSE]]
     /\ stack' = [stack EXCEPT ![th][1] = Nil]
     /\ IF kept = {} THEN UNCHANGED <<marked, gray>> ELSE upvalbarrier(stack[th][1])
     /\ NotHurt /\ UNCHANGED <<grayagain, entry, uservalue>>

\* setmetatable with __gc: o moves to finobj; the sweep must not stand on it.
luaC_checkfinalizer(o) ==
  LET k == From(allgc)
      n == ToLive(allgc, k)
      left == Remaining(allgc, k, n)
      D == {x \in Swept(allgc, k, n) : isdead(x)}
  IN /\ Op
     /\ o \in Held /\ o \notin tofinalize
     /\ tofinalize' = tofinalize \cup {o}
     /\ finobj' = <<o>> \o finobj
     /\ IF issweepphase /\ sweepgc = o
        THEN /\ marked' = [x \in Obj |-> IF x \in D THEN "free"
                                         ELSE IF x \in Swept(allgc, k, n) \cup {o} THEN currentwhite
                                         ELSE marked[x]]
             /\ allgc' = RemoveAt(left, k)
             /\ sweepgc' = Position(allgc, k, n, o)
             /\ Free(D)
        ELSE /\ marked' = IF issweepphase THEN [marked EXCEPT ![o] = currentwhite] ELSE marked
             /\ allgc' = RemoveAt(allgc, Index(allgc, o))
             /\ UNCHANGED <<sweepgc, heapVars>>
     /\ UNCHANGED <<tobefnz, currentwhite, gcstate, grayVars, twups, convVars, callVars, mode, unswept>>

-----------------------------------------------------------------------------
\* The program has built one of the heaps of Start before the first cycle.
Init ==
  /\ \E h \in Start :
       /\ allgc = h.allgc /\ finobj = h.finobj
       /\ marked = [o \in Obj |-> IF o \in {Main} \cup ToSet(h.allgc \o h.finobj) THEN "white0" ELSE "free"]
       /\ stack = h.stack /\ mode = h.mode /\ entry = h.entry /\ uservalue = h.uservalue
       /\ upval = h.upval
       /\ twups = {th \in Thread : \E c \in Lcl : h.upval[c].open = th}
       /\ tofinalize = ToSet(h.finobj)
  /\ tobefnz = <<>>
  /\ currentwhite = "white0" /\ gcstate = "pause" /\ sweepgc = Nil
  /\ gray = {} /\ grayagain = {} /\ weak = {} /\ allweak = {} /\ ephemeron = {}
  /\ todo = {} /\ changed = FALSE
  /\ gckind = "normal" /\ goal = "none" /\ fin = Nil
  /\ ops = 0 /\ unswept = {}

\* Steps of luaC_step and luaC_fullgc.
Collector ==
  \/ restartcollection \/ PropagateStep \/ AtomicBegins \/ propagateall
  \/ remarkupvals \/ TraverseAgain \/ ConvergeRound \/ \E t \in Tab : traverseephemeron(t)
  \/ ClearValues \/ separatetobefnz \/ MarkToBeFnz \/ FlipWhite
  \/ entersweep \/ sweepstep \/ SweepEnd \/ CycleEnds
  \/ udata2finalize \/ FinalizerReturns \/ luaC_runtilstate

Program ==
  \/ luaC_fullgc
  \/ \E t \in Tab : NewTable(t)
  \/ \E o \in Co \cup Udata \cup Str : NewOther(o)
  \/ \E c \in Lcl, th \in Thread : NewClosure(c, th)
  \/ \E s \in Str : internshrstr(s)
  \/ \E v \in Obj \cup {Nil} :
       \/ \E t \in Tab, k \in Obj : SetTable(t, k, v)
       \/ \E u \in Udata : SetUservalue(u, v)
       \/ \E c \in Lcl : SetUpval(c, v)
       \/ \E th \in Thread : \E i \in Slot(th) : SetSlot(th, i, v)
  \/ \E th \in Thread : luaF_close(th)
  \/ \E o \in Finalizable : luaC_checkfinalizer(o)

Next == Collector \/ Program

Spec == Init /\ [][Next]_vars

\* A program that goes on allocating pays the debt: the collector takes steps,
\* and finalizers return.
Fairness == WF_vars(Collector)
FairSpec == Spec /\ Fairness

-----------------------------------------------------------------------------
(* Properties. *)

\* What the entry of table t keeps alive when the objects of S are.
Kept(t, S) ==
  IF Val(t) = Nil THEN {}
  ELSE CASE mode[t] = "strong" -> {Key(t), Val(t)}
         [] mode[t] = "v" -> {Key(t)} \cup ({Val(t)} \cap Str)
         [] mode[t] = "k" -> IF Key(t) \in S \cup Str THEN {Key(t), Val(t)} ELSE {}
         [] mode[t] = "kv" -> {Key(t), Val(t)} \cap Str

\* What is kept alive from R on, without what only the objects of U refer to.
ReachBesides(R, U) ==
  LET reach[n \in Nat] ==
        IF n = 0 THEN R
        ELSE LET S == reach[n - 1]
             IN S \cup UNION {IF o \in Tab THEN Kept(o, S) ELSE Refs(o) : o \in S \ U}
  IN reach[Cardinality(Obj)]

ReachFrom(R) == ReachBesides(R, {})

TypeOK ==
  /\ marked \in [Obj -> White \cup {"gray", "black", "free"}]
  /\ allgc \in Seq(Obj \ {Main}) /\ finobj \in Seq(Finalizable) /\ tobefnz \in Seq(Finalizable)
  /\ tofinalize \subseteq Finalizable
  /\ currentwhite \in White
  /\ gcstate \in {"pause", "propagate", "atomic", "callfin"} \cup Inside \cup DOMAIN NextState \cup {"swpend"}
  /\ sweepgc \in Obj \cup {Nil, "head"}
  /\ gray \cup grayagain \cup weak \cup allweak \cup ephemeron \cup todo \subseteq Obj \ Leaf
  /\ twups \subseteq Thread /\ changed \in BOOLEAN
  /\ gckind \in {"normal", "emergency"} /\ goal \in {"none", "pause", "leave", "callfin", "finish"}
  /\ fin \in Finalizable \cup {Nil}
  /\ DOMAIN stack = Thread
  /\ \A th \in Thread : stack[th] \in [Slot(th) -> Obj \cup {Nil}]
  /\ mode \in [Tab -> {"strong", "k", "v", "kv"}]
  /\ entry \in [Tab -> (Obj \cup {Nil, Dead}) \X (Obj \cup {Nil})]
  /\ uservalue \in [Udata -> Obj \cup {Nil}]
  /\ upval \in [Lcl -> Upvalue]
  /\ ops \in 0..MaxOps /\ unswept \subseteq Obj \ {Main}

\* The lists have every object that is not free, but the main thread, once.
ListsOK ==
  /\ Live = {o \in Obj : marked[o] # "free"}
  /\ IsInjective(allgc) /\ IsInjective(finobj) /\ IsInjective(tobefnz)
  /\ ToSet(allgc) \cap tofinalize = {} /\ ToSet(finobj) \cap ToSet(tobefnz) = {}
  /\ tofinalize = ToSet(finobj) \cup ToSet(tobefnz)

\* What the program and the pending finalizers may use, and what is in the entries
\* of their weak tables.
InUse ==
  LET R == ReachBesides({Main} \cup ToSet(tobefnz), unswept)
  IN R \cup twups \cup UNION {Refs(t) : t \in (R \cap Tab) \ unswept}

\* No step frees what is in use, or a thread that remarkupvals is to come to.  Excepted
\* is what only unswept objects refer to: the next cycle finds those black, takes
\* them for marked (reallymarkobject) and frees what they refer to.
NothingInUseFreed == [][InUse \cap Live \subseteq Live']_vars

\* lgc.h: while the invariant is kept a black object never refers to a white one
\* (a closure's open upvalue is its thread's), and a gray one is in a gray list.
\* What the last sweep did not come to is excepted, against the comment there that
\* all objects are white again when the sweep ends: a finalizer called while sweepgc
\* is at its object takes the sweep along to allgc, and the rest of tobefnz stays
\* black.
TriColour ==
  keepinvariant =>
    \A o \in Live \ unswept :
      /\ marked[o] = "black" /\ ~(o \in Lcl /\ upisopen(o)) => \A r \in Refs(o) : ~iswhite(r)
      /\ marked[o] = "gray" => o \in gray \cup grayagain \cup allweak

\* An object that becomes one to be finalized is gone from the weak values of
\* every table the program has.
WeakValuesCleared ==
  [][\A o \in ToSet(tobefnz') \ ToSet(tobefnz), t \in ReachFrom({Main}) \cap Tab :
       mode[t] \in {"v", "kv"} => entry'[t][2] # o]_vars

\* An object with a finalizer is not freed before it has been called.
FinalizedFirst == [][\A o \in tofinalize : marked'[o] # "free"]_vars

\* What the program cannot reach is freed, or its finalizer gives it back.
Collected == \A o \in Udata \cup Lcl : (o \in Live /\ o \notin ReachFrom({Main})) ~> (o \notin Live \/ o \in ReachFrom({Main}))
=============================================================================
