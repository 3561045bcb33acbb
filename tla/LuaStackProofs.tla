--------------------------- MODULE LuaStackProofs ---------------------------
(***************************************************************************)
(* Proofs about LuaCall, for every number of coroutines and of frames and  *)
(* every LUAI_MAXCCALLS.                                                   *)
(*                                                                         *)
(* First, that the nesting of C calls is bounded.  The code does not count *)
(* the activations: each thread has a counter, saved by luaD_pcall and     *)
(* lua_resume, copied into a coroutine and put back after jumps that drop  *)
(* any part of the C stack.  The invariant says why the counter of the     *)
(* thread that runs is never less than what is on the stack.               *)
(*                                                                         *)
(* Then the C stack and what the threads keep of it: an inductive          *)
(* invariant, and what follows from it: open upvalues are those of         *)
(* functions that have not returned, C functions that wait can go on, and  *)
(* the handler in force is that of the innermost protected call.           *)
(*                                                                         *)
(* That invariant is in two layers.  The first, StackInv, is about places: *)
(* Stacked relates the C stack to the CallInfo lists and to the counts of  *)
(* what forbids yields, and Live says what a single thread promises.  The  *)
(* second, ContInv, is about promises: Keeps says of a thread who goes on  *)
(* with each of its callers, where it recovers and which handler is in     *)
(* force.  Both are stated of any stack h, threads f, running thread r and *)
(* throw x, so that the lemmas speak of pushes and cuts and not of         *)
(* actions; the second layer uses the first, never the other way round.    *)
(***************************************************************************)
EXTENDS LuaCall, FiniteSetTheorems, WellFoundedInduction, TLAPS

\* LUAI_MAXCCALLS and what error handling may use on top.
Limit == MaxCcalls + MaxCcalls \div 8

\* Activations that are not protected calls among the first n.
Nesting(h, n) == Cardinality({i \in 1..n : h[i].kind # "pcall"})

\* A finite sequence, of whatever records.
IsSeq(h) == \E S : h \in Seq(S)

\* Every thread has a count.
Shaped(f) == DOMAIN f = Thread /\ \A t \in Thread : "nCcalls" \in DOMAIN f[t] /\ f[t].nCcalls \in Nat

\* What an activation will restore is enough for the C stack that it restores it to: a
\* protected call for what is below it, a resume for itself too, since it then gives the
\* control back or runs on; and the thread that resumed has kept its own count.
Held(h, f) ==
  \A j \in DOMAIN h :
    /\ h[j].kind = "pcall" => /\ h[j].ncc \in Nat /\ h[j].ncc < Limit
                              /\ Nesting(h, j - 1) <= h[j].ncc
    /\ h[j].kind = "resume" => /\ h[j].ncc \in Nat /\ h[j].ncc < Limit
                               /\ Nesting(h, j) <= h[j].ncc
                               /\ h[j].from \in Thread /\ h[j].L \in Thread
                               /\ Nesting(h, j - 1) <= f[h[j].from].nCcalls

Base(s) ==
  /\ DOMAIN s = {"th", "host", "run", "thrown"}
  /\ Shaped(s.th) /\ IsSeq(s.host) /\ Held(s.host, s.th)

\* The thread that runs covers the C stack with its count, and a count beyond the limit
\* is that of a thread with an error on its way.
CountInv(s) ==
  /\ Base(s)
  /\ s.run = Nobody => s.thrown = "no"
  /\ s.run # Nobody =>
       /\ s.run \in Thread
       /\ Nesting(s.host, Len(s.host)) <= s.th[s.run].nCcalls
       /\ \A t \in Thread : s.th[t].nCcalls < Limit \/ (t = s.run /\ s.thrown # "no")

-----------------------------------------------------------------------------
(* The C stack as a sequence. *)

\* Activations are counted one by one, protected calls left out.
LEMMA DepthStep ==
  ASSUME NEW h, NEW n \in Nat
  PROVE  /\ Nesting(h, n) \in Nat
         /\ Nesting(h, 0) = 0
         /\ Nesting(h, n + 1) = IF h[n + 1].kind # "pcall" THEN Nesting(h, n) + 1 ELSE Nesting(h, n)
<1>. DEFINE S(k) == {i \in 1..k : h[i].kind # "pcall"}
<1>1. \A k \in Nat : IsFiniteSet(S(k)) /\ Cardinality(S(k)) \in Nat
  <2>. SUFFICES ASSUME NEW k \in Nat PROVE IsFiniteSet(S(k)) /\ Cardinality(S(k)) \in Nat
    OBVIOUS
  <2>1. IsFiniteSet(1..k) /\ S(k) \in SUBSET (1..k)
    BY FS_Interval
  <2>. QED
    BY <2>1, FS_Subset, FS_CardinalityType
<1>2. S(0) = {}
  OBVIOUS
<1>3. CASE h[n + 1].kind # "pcall"
  <2>1. S(n + 1) = S(n) \cup {n + 1} /\ n + 1 \notin S(n)
    BY <1>3
  <2>2. Cardinality(S(n + 1)) = Cardinality(S(n)) + 1
    BY <1>1, <2>1, FS_AddElement
  <2>. QED
    BY <1>1, <1>2, <1>3, <2>2, FS_EmptySet DEF Nesting
<1>4. CASE h[n + 1].kind = "pcall"
  <2>1. S(n + 1) = S(n)
    BY <1>4
  <2>. QED
    BY <1>1, <1>2, <1>4, <2>1, FS_EmptySet DEF Nesting
<1>. QED
  BY <1>3, <1>4

\* A longer part of the C stack has no less of them.
LEMMA DepthMono ==
  ASSUME NEW h, NEW m \in Nat, NEW n \in Nat, m <= n
  PROVE  Nesting(h, m) <= Nesting(h, n)
<1>. DEFINE S(k) == {i \in 1..k : h[i].kind # "pcall"}
<1>1. IsFiniteSet(1..n) /\ S(n) \in SUBSET (1..n) /\ S(m) \in SUBSET S(n)
  BY FS_Interval
<1>2. IsFiniteSet(S(n))
  BY <1>1, FS_Subset
<1>. QED
  BY <1>1, <1>2, FS_Subset DEF Nesting

\* Only the activations up to n matter.
LEMMA DepthSame ==
  ASSUME NEW h, NEW g, NEW n \in Nat, \A i \in 1..n : g[i] = h[i]
  PROVE  Nesting(g, n) = Nesting(h, n)
BY DEF Nesting

\* What SubSeq leaves of the C stack.
LEMMA SeqCut ==
  ASSUME NEW h, IsSeq(h), NEW m \in 0..Len(h)
  PROVE  LET g == SubSeq(h, 1, m)
         IN IsSeq(g) /\ Len(g) = m /\ DOMAIN g = 1..m /\ \A i \in 1..m : g[i] = h[i] /\ i \in DOMAIN h
<1>1. PICK S : h \in Seq(S)
  BY DEF IsSeq
<1>2. SubSeq(h, 1, m) \in Seq(S)
  BY <1>1
<1>3. IsSeq(SubSeq(h, 1, m))
  BY <1>2 DEF IsSeq
<1>. QED
  BY <1>1, <1>3

\* What Append adds to it.
LEMMA SeqPush ==
  ASSUME NEW h, IsSeq(h), NEW x
  PROVE  LET g == Append(h, x)
         IN /\ IsSeq(g) /\ Len(g) = Len(h) + 1 /\ DOMAIN g = 1..Len(h) + 1 /\ Len(h) \in Nat /\ DOMAIN h = 1..Len(h)
            /\ g[Len(h) + 1] = x /\ \A i \in 1..Len(h) : g[i] = h[i]
<1>1. PICK S : h \in Seq(S)
  BY DEF IsSeq
<1>2. h \in Seq(S \cup {x})
  BY <1>1
<1>3. Append(h, x) \in Seq(S \cup {x})
  BY <1>2
<1>4. IsSeq(Append(h, x))
  BY <1>3 DEF IsSeq
<1>. QED
  BY <1>2, <1>4

\* The facts about the length of the C stack that the steps use.
LEMMA SeqLen ==
  ASSUME NEW h, IsSeq(h)
  PROVE  Len(h) \in Nat /\ DOMAIN h = 1..Len(h) /\ (h = <<>> <=> Len(h) = 0)
BY DEF IsSeq

\* A count may rise, or fall as far as the nesting: no activation minds.
LEMMA HeldGrow ==
  ASSUME NEW h, IsSeq(h), NEW f, Shaped(f), Held(h, f), NEW g, Shaped(g),
         \A t \in Thread : f[t].nCcalls <= g[t].nCcalls \/ Nesting(h, Len(h)) <= g[t].nCcalls
  PROVE  Held(h, g)
<1>. SUFFICES ASSUME NEW j \in DOMAIN h, h[j].kind = "resume"
              PROVE  Nesting(h, j - 1) <= g[h[j].from].nCcalls
  BY DEF Held
<1>1. Len(h) \in Nat /\ j \in 1..Len(h)
  BY SeqLen
<1>2. Nesting(h, j - 1) \in Nat /\ Nesting(h, Len(h)) \in Nat /\ Nesting(h, j - 1) <= Nesting(h, Len(h))
  BY <1>1, DepthStep, DepthMono
<1>3. h[j].from \in Thread /\ Nesting(h, j - 1) <= f[h[j].from].nCcalls
  BY DEF Held
<1>. QED
  BY <1>2, <1>3 DEF Shaped

\* What activations hold does not depend on those above them.
LEMMA HeldCut ==
  ASSUME NEW h, IsSeq(h), NEW f, Held(h, f), NEW m \in 0..Len(h)
  PROVE  Held(SubSeq(h, 1, m), f)
<1>. DEFINE g == SubSeq(h, 1, m)
<1>0. Len(h) \in Nat
  BY SeqLen
<1>1. DOMAIN g = 1..m /\ \A i \in 1..m : g[i] = h[i] /\ i \in DOMAIN h
  BY SeqCut
<1>. HIDE DEF g
<1>2. \A j \in 1..m : Nesting(g, j) = Nesting(h, j) /\ Nesting(g, j - 1) = Nesting(h, j - 1)
  BY <1>0, <1>1, DepthSame
<1>3. Held(g, f)
  BY <1>1, <1>2 DEF Held
<1>. QED
  BY <1>3 DEF g

\* The nesting of what is left after a jump.
LEMMA DepthCut ==
  ASSUME NEW h, IsSeq(h), NEW m \in 0..Len(h)
  PROVE  Nesting(SubSeq(h, 1, m), m) = Nesting(h, m)
<1>1. \A i \in 1..m : SubSeq(h, 1, m)[i] = h[i]
  BY SeqCut
<1>2. m \in Nat
  BY SeqLen
<1>. QED
  BY <1>1, <1>2, DepthSame

\* A new activation on top, with a count that is large enough if it saves one.
LEMMA HeldPush ==
  ASSUME NEW h, IsSeq(h), NEW f, Held(h, f), NEW x,
         x.kind = "pcall" => x.ncc \in Nat /\ x.ncc < Limit /\ Nesting(h, Len(h)) <= x.ncc,
         x.kind = "resume" => /\ x.ncc \in Nat /\ x.ncc < Limit /\ Nesting(h, Len(h)) + 1 <= x.ncc
                              /\ x.from \in Thread /\ x.L \in Thread
                              /\ Nesting(h, Len(h)) <= f[x.from].nCcalls
  PROVE  /\ Held(Append(h, x), f)
         /\ Nesting(Append(h, x), Len(h) + 1) = IF x.kind # "pcall" THEN Nesting(h, Len(h)) + 1 ELSE Nesting(h, Len(h))
<1>. DEFINE g == Append(h, x)
<1>1. /\ DOMAIN g = 1..Len(h) + 1 /\ Len(h) \in Nat /\ DOMAIN h = 1..Len(h)
      /\ g[Len(h) + 1] = x /\ \A i \in 1..Len(h) : g[i] = h[i]
  BY SeqPush
<1>. HIDE DEF g
<1>2. \A j \in 0..Len(h) : Nesting(g, j) = Nesting(h, j)
  BY <1>1, DepthSame
<1>3. Nesting(g, Len(h) + 1) = IF x.kind # "pcall" THEN Nesting(h, Len(h)) + 1 ELSE Nesting(h, Len(h))
  <2>1. Nesting(g, Len(h) + 1) = IF g[Len(h) + 1].kind # "pcall" THEN Nesting(g, Len(h)) + 1 ELSE Nesting(g, Len(h))
    BY <1>1, DepthStep
  <2>2. Nesting(g, Len(h)) = Nesting(h, Len(h))
    BY <1>1, <1>2
  <2>. QED
    BY <1>1, <2>1, <2>2
<1>4. ASSUME NEW j \in 1..Len(h)
      PROVE  g[j] = h[j] /\ Nesting(g, j) = Nesting(h, j) /\ Nesting(g, j - 1) = Nesting(h, j - 1) /\ j \in DOMAIN h
  BY <1>1, <1>2
<1>5. Nesting(g, Len(h)) = Nesting(h, Len(h)) /\ (Len(h) + 1) - 1 = Len(h)
  BY <1>1, <1>2
<1>6. Held(g, f)
  <2>. SUFFICES ASSUME NEW j \in DOMAIN g
       PROVE  /\ g[j].kind = "pcall" => /\ g[j].ncc \in Nat /\ g[j].ncc < Limit
                              /\ Nesting(g, j - 1) <= g[j].ncc
              /\ g[j].kind = "resume" => /\ g[j].ncc \in Nat /\ g[j].ncc < Limit
                               /\ Nesting(g, j) <= g[j].ncc
                               /\ g[j].from \in Thread /\ g[j].L \in Thread
                               /\ Nesting(g, j - 1) <= f[g[j].from].nCcalls
    BY DEF Held
  <2>1. CASE j = Len(h) + 1
    BY <1>1, <1>3, <1>5, <2>1
  <2>2. CASE j \in 1..Len(h)
    BY <1>4, <2>2 DEF Held
  <2>. QED
    BY <1>1, <2>1, <2>2
<1>. QED
  BY <1>3, <1>6 DEF g

-----------------------------------------------------------------------------
(* What calls, ends of resumes and partial unwinding do. *)

\* luaD_call and luaD_callnoyield, whatever comes of them: one activation more and one
\* call more, and no error only below the limit.
LEMMA CallEffect ==
  ASSUME NEW s, DOMAIN s = {"th", "host", "run", "thrown"}, Shaped(s.th), s.run \in Thread,
         NEW kind, NEW ny, NEW lua
  PROVE  LET r == luaD_call(s, kind, ny, lua)
             n == s.th[s.run].nCcalls + 1
         IN /\ DOMAIN r = {"th", "host", "run", "thrown"} /\ Shaped(r.th)
            /\ r.host = Append(s.host, [kind |-> kind, L |-> s.run, at |-> Len(s.th[s.run].ci) + 1, ny |-> ny])
            /\ r.run = s.run
            /\ \A t \in Thread : r.th[t].nCcalls = IF t = s.run THEN n ELSE s.th[t].nCcalls
            /\ r.thrown = "no" => n < Limit
<1>. DEFINE t0 == s.th[s.run]
            n == t0.nCcalls + 1
            x == [kind |-> kind, L |-> s.run, at |-> Len(t0.ci) + 1, ny |-> ny]
            called == [s EXCEPT
        !.host = Append(@, x),
        !.th[s.run].nCcalls = n,
        !.th[s.run].nny = IF ny THEN @ + 1 ELSE @]
            framed == [called EXCEPT !.th[s.run].ci = Append(@, Frame(lua)), !.thrown = "no"]
            r == luaD_call(s, kind, ny, lua)
<1>1. n \in Nat
  BY DEF Shaped
<1>2. /\ DOMAIN called = {"th", "host", "run", "thrown"} /\ called.host = Append(s.host, x) /\ called.run = s.run
      /\ called.thrown = s.thrown
  BY Zenon
<1>3. DOMAIN called.th = Thread /\ \A t \in Thread : "nCcalls" \in DOMAIN called.th[t] /\ called.th[t].nCcalls = IF t = s.run THEN n ELSE s.th[t].nCcalls
  BY DEF Shaped
<1>6. r = IF n = MaxCcalls THEN [called EXCEPT !.thrown = "raise"]
          ELSE IF n >= MaxCcalls + MaxCcalls \div 8 THEN [called EXCEPT !.thrown = "errerr"]
          ELSE framed
  BY Zenon DEF luaD_call
<1>. HIDE DEF called
<1>4. /\ DOMAIN framed = {"th", "host", "run", "thrown"} /\ framed.host = called.host /\ framed.run = s.run
  BY <1>2, Zenon
<1>5. /\ DOMAIN framed.th = Thread
      /\ \A t \in Thread : "nCcalls" \in DOMAIN framed.th[t] /\ framed.th[t].nCcalls = called.th[t].nCcalls
  BY <1>2, <1>3
<1>. HIDE DEF framed, r
<1>7. \A v : [called EXCEPT !.thrown = v].host = called.host /\ [called EXCEPT !.thrown = v].run = called.run
             /\ [called EXCEPT !.thrown = v].th = called.th /\ [called EXCEPT !.thrown = v].thrown = v
             /\ DOMAIN [called EXCEPT !.thrown = v] = {"th", "host", "run", "thrown"}
  BY <1>2
<1>8. CASE n = MaxCcalls \/ n >= Limit
  <2>1. /\ DOMAIN r = {"th", "host", "run", "thrown"} /\ r.th = called.th /\ r.host = called.host /\ r.run = s.run
        /\ r.thrown # "no"
    BY <1>2, <1>6, <1>7, <1>8 DEF Limit
  <2>. QED
    BY <1>1, <1>2, <1>3, <2>1 DEF Shaped, r
<1>9. CASE ~(n = MaxCcalls \/ n >= Limit)
  <2>1. r = framed
    BY <1>6, <1>9 DEF Limit
  <2>2. n < Limit
    BY <1>1, <1>9, CallAssumption DEF Limit
  <2>. QED
    BY <1>1, <1>2, <1>3, <1>4, <1>5, <2>1, <2>2 DEF Shaped, r
<1>. QED
  BY <1>8, <1>9

\* Calls from C keep the counts.
LEMMA CallInv ==
  ASSUME NEW s, CountInv(s), s.run # Nobody,
         NEW kind \in {"call", "handler"}, NEW ny, NEW lua
  PROVE  CountInv(luaD_call(s, kind, ny, lua))
<1>. DEFINE r == luaD_call(s, kind, ny, lua)
            n == s.th[s.run].nCcalls + 1
            x == [kind |-> kind, L |-> s.run, at |-> Len(s.th[s.run].ci) + 1, ny |-> ny]
<1>0. Base(s) /\ s.run \in Thread
  BY DEF CountInv
<1>1. /\ DOMAIN r = {"th", "host", "run", "thrown"} /\ Shaped(r.th)
      /\ r.host = Append(s.host, x)
      /\ r.run = s.run
      /\ \A t \in Thread : r.th[t].nCcalls = IF t = s.run THEN n ELSE s.th[t].nCcalls
      /\ r.thrown = "no" => n < Limit
  BY <1>0, CallEffect DEF Base
<1>2. x.kind # "pcall" /\ x.kind # "resume"
  OBVIOUS
<1>. HIDE DEF r, x
<1>3. IsSeq(r.host) /\ Len(r.host) = Len(s.host) + 1
  BY <1>0, <1>1, SeqPush DEF Base
<1>4. \A t \in Thread : s.th[t].nCcalls \in Nat /\ r.th[t].nCcalls \in Nat /\ s.th[t].nCcalls <= r.th[t].nCcalls
  BY <1>0, <1>1 DEF Base, Shaped
<1>5. Held(s.host, r.th)
  BY <1>0, <1>1, <1>4, HeldGrow DEF Base
<1>6. Held(r.host, r.th) /\ Nesting(r.host, Len(r.host)) = Nesting(s.host, Len(s.host)) + 1
  BY <1>0, <1>1, <1>2, <1>3, <1>5, HeldPush DEF Base
<1>7. Nesting(s.host, Len(s.host)) \in Nat
  BY <1>0, SeqLen, DepthStep DEF Base
<1>8. Nesting(r.host, Len(r.host)) <= r.th[r.run].nCcalls
  BY <1>0, <1>1, <1>4, <1>6, <1>7 DEF CountInv
<1>9. \A t \in Thread : r.th[t].nCcalls < Limit \/ (t = r.run /\ r.thrown # "no")
  BY <1>0, <1>1 DEF CountInv
<1>. QED
  BY <1>0, <1>1, <1>3, <1>6, <1>8, <1>9 DEF CountInv, Base, r

\* The steps that call nothing and return from nothing.
LEMMA QuietInv ==
  ASSUME NEW s, CountInv(s), s.run # Nobody, NEW r,
         DOMAIN r = {"th", "host", "run", "thrown"}, Shaped(r.th),
         r.host = s.host, r.run = s.run, r.thrown # s.thrown => r.thrown # "no",
         \A t \in Thread : r.th[t].nCcalls = s.th[t].nCcalls
  PROVE  CountInv(r)
<1>1. Held(s.host, r.th)
  <2>1. \A t \in Thread : s.th[t].nCcalls \in Nat /\ s.th[t].nCcalls <= r.th[t].nCcalls
    BY DEF CountInv, Base, Shaped
  <2>. QED
    BY <2>1, HeldGrow DEF CountInv, Base
<1>. QED
  BY <1>1 DEF CountInv, Base

\* luaD_pcall saves the count of its thread, which is large enough.
LEMMA PcallInv ==
  ASSUME NEW s, CountInv(s), s.run # Nobody, s.thrown = "no", NEW of, NEW ef
  PROVE  CountInv(luaD_pcall(s, of, ef)) /\ luaD_pcall(s, of, ef).run = s.run /\ luaD_pcall(s, of, ef).thrown = "no"
<1>. DEFINE r == luaD_pcall(s, of, ef)
            t0 == s.th[s.run]
            x == [kind |-> "pcall", of |-> of, L |-> s.run, at |-> Len(t0.ci),
                  nny |-> t0.nny, ncc |-> t0.nCcalls, errfunc |-> t0.errfunc, ef |-> ef]
<1>0. Base(s) /\ s.run \in Thread
  BY DEF CountInv
<1>1. r = [s EXCEPT !.host = Append(@, x), !.th[s.run].errfunc = ef]
  BY Zenon DEF luaD_pcall
<1>2. x.kind = "pcall" /\ x.ncc = s.th[s.run].nCcalls
  OBVIOUS
<1>. HIDE DEF x
<1>3. /\ DOMAIN r = {"th", "host", "run", "thrown"} /\ r.host = Append(s.host, x) /\ r.run = s.run /\ r.thrown = s.thrown
  BY <1>0, <1>1 DEF Base
<1>4. Shaped(r.th) /\ \A t \in Thread : r.th[t].nCcalls = s.th[t].nCcalls
  BY <1>0, <1>1 DEF Base, Shaped
<1>. HIDE DEF r
<1>5. \A t \in Thread : s.th[t].nCcalls \in Nat /\ s.th[t].nCcalls <= r.th[t].nCcalls
  BY <1>0, <1>4 DEF Base, Shaped
<1>6. Held(s.host, r.th)
  BY <1>0, <1>4, <1>5, HeldGrow DEF Base
<1>7. x.ncc \in Nat /\ x.ncc < Limit /\ Nesting(s.host, Len(s.host)) <= x.ncc
  BY <1>0, <1>2, <1>5 DEF CountInv
<1>8. IsSeq(r.host) /\ Len(r.host) = Len(s.host) + 1
  BY <1>0, <1>3, SeqPush DEF Base
<1>9. Held(r.host, r.th) /\ Nesting(r.host, Len(r.host)) = Nesting(s.host, Len(s.host))
  BY <1>0, <1>2, <1>3, <1>6, <1>7, <1>8, HeldPush DEF Base
<1>. QED
  BY <1>0, <1>2, <1>3, <1>4, <1>7, <1>8, <1>9 DEF CountInv, Base, r

\* Max of a set of indices is the largest of them.
LEMMA MaxInSet ==
  ASSUME NEW n \in Nat, NEW S \in SUBSET (1..n), S # {}
  PROVE  Max(S) \in S /\ \A y \in S : y <= Max(S)
<1>. DEFINE T == {n - x : x \in S}
<1>1. T \subseteq Nat /\ T # {}
  <2>1. \A x \in S : n - x \in Nat
    OBVIOUS
  <2>. QED
    BY <2>1
<1>2. PICK m \in T : \A y \in T : ~(<<y, m>> \in OpToRel(<, Nat))
  BY <1>1, NatLessThanWellFounded, WFMin
<1>3. \A y \in T : ~(y < m)
  BY <1>1, <1>2 DEF OpToRel
<1>4. PICK x \in S : m = n - x
  BY <1>2
<1>5. \A y \in S : x >= y
  BY <1>3, <1>4
<1>. QED
  BY <1>4, <1>5 DEF Max

\* From the record that an action computes to the next state.
LEMMA BecomesInv ==
  ASSUME NEW r, CountInv(r), Becomes(r)
  PROVE  CountInv(State)'
<1>1. /\ State'.th = r.th /\ State'.host = r.host /\ State'.run = r.run /\ State'.thrown = r.thrown
      /\ DOMAIN State' = {"th", "host", "run", "thrown"}
  BY DEF Becomes, State
<1>. QED
  BY <1>1 DEF CountInv, Base

\* The end of a resume: the count that was kept is at least the depth of what is left.
LEMMA EndResumeInv ==
  ASSUME NEW s, Base(s), s.host # <<>>, Last(s.host).kind = "resume",
         \A t \in Thread : s.th[t].nCcalls < Limit \/ t = Last(s.host).L
  PROVE  CountInv(EndResume(s))
<1>. DEFINE h == s.host
            n == Len(h)
            f == Last(h)
            r == EndResume(s)
<1>1. n \in Nat /\ n > 0 /\ DOMAIN h = 1..n /\ n \in DOMAIN h /\ f = h[n] /\ n - 1 \in 0..n
  BY SeqLen DEF Base, Last
<1>2. /\ f.ncc \in Nat /\ f.ncc < Limit /\ Nesting(h, n) <= f.ncc
      /\ f.from \in Thread /\ f.L \in Thread /\ Nesting(h, n - 1) <= s.th[f.from].nCcalls
  BY <1>1 DEF Base, Held
<1>3. Nesting(h, n) = Nesting(h, n - 1) + 1 /\ Nesting(h, n - 1) \in Nat
  <2>1. n - 1 \in Nat /\ (n - 1) + 1 = n
    BY <1>1
  <2>2. Nesting(h, (n - 1) + 1) = IF h[(n - 1) + 1].kind # "pcall" THEN Nesting(h, n - 1) + 1 ELSE Nesting(h, n - 1)
    BY <2>1, DepthStep
  <2>. QED
    BY <1>1, <2>1, <2>2, DepthStep
<1>4. r = [s EXCEPT !.host = Pop(@), !.run = f.from, !.thrown = "no",
               !.th[f.L].nny = f.nny, !.th[f.L].nCcalls = f.ncc - 1]
  BY Zenon DEF EndResume
<1>. HIDE DEF f
<1>5. /\ DOMAIN r = {"th", "host", "run", "thrown"} /\ r.host = SubSeq(h, 1, n - 1) /\ r.run = f.from /\ r.thrown = "no"
  BY <1>4 DEF Base, Pop
<1>6. /\ DOMAIN r.th = Thread
      /\ \A t \in Thread : "nCcalls" \in DOMAIN r.th[t] /\ r.th[t].nCcalls = IF t = f.L THEN f.ncc - 1 ELSE s.th[t].nCcalls
  BY <1>2, <1>4 DEF Base, Shaped
<1>7. f.ncc - 1 \in Nat /\ f.ncc - 1 >= Nesting(h, n - 1)
  BY <1>2, <1>3
<1>. HIDE DEF r, h, n
<1>8. Shaped(r.th)
  BY <1>6, <1>7 DEF Base, Shaped
<1>9. IsSeq(r.host) /\ Held(r.host, s.th) /\ Len(r.host) = n - 1 /\ Nesting(r.host, n - 1) = Nesting(h, n - 1)
  <2>1. IsSeq(h) /\ Held(h, s.th) /\ n - 1 \in 0..Len(h)
    BY <1>1 DEF Base, h, n
  <2>. QED
    BY <2>1, <1>5, SeqCut, HeldCut, DepthCut
<1>10. \A t \in Thread : s.th[t].nCcalls <= r.th[t].nCcalls \/ Nesting(r.host, Len(r.host)) <= r.th[t].nCcalls
  <2>1. \A t \in Thread : s.th[t].nCcalls \in Nat
    BY DEF Base, Shaped
  <2>. QED
    BY <1>6, <1>7, <1>9, <2>1
<1>11. Held(r.host, r.th)
  BY <1>8, <1>9, <1>10, HeldGrow DEF Base
<1>12. Limit \in Nat
  BY CallAssumption DEF Limit
<1>13. Nesting(r.host, Len(r.host)) <= r.th[r.run].nCcalls
  <2>1. r.th[f.from].nCcalls = IF f.from = f.L THEN f.ncc - 1 ELSE s.th[f.from].nCcalls
    BY <1>2, <1>6
  <2>2. Nesting(h, n - 1) <= r.th[f.from].nCcalls
    BY <1>2, <1>7, <2>1
  <2>. QED
    BY <1>5, <1>9, <2>2
<1>14. \A t \in Thread : r.th[t].nCcalls < Limit
  BY <1>2, <1>6, <1>7, <1>12 DEF f, h
<1>. QED
  BY <1>2, <1>5, <1>8, <1>9, <1>11, <1>13, <1>14 DEF CountInv, Base, r

\* The end of lua_pcallk restores no count.
LEMMA EndYpcallSame ==
  ASSUME NEW t, "nCcalls" \in DOMAIN t
  PROVE  EndYpcall(t).nCcalls = t.nCcalls /\ DOMAIN EndYpcall(t) = DOMAIN t
BY DEF EndYpcall

\* Only a resume is below: the next CallInfo goes on, or the coroutine has ended.
LEMMA UnrollInv ==
  ASSUME NEW s, CountInv(s), s.run # Nobody, s.thrown = "no", s.host # <<>>, Last(s.host).kind = "resume"
  PROVE  CountInv(unroll(s))
<1>. DEFINE e == [s EXCEPT !.th[s.run] = EndYpcall(s.th[s.run])]
<1>1. unroll(s) = EndResume(s) \/ unroll(s) = s \/ unroll(s) = e
  BY Zenon DEF unroll
<1>2. CountInv(EndResume(s))
  BY EndResumeInv DEF CountInv
<1>3. CountInv(e)
  <2>1. Base(s) /\ s.run \in Thread
    BY DEF CountInv
  <2>2. DOMAIN e = {"th", "host", "run", "thrown"} /\ e.host = s.host /\ e.run = s.run /\ e.thrown = s.thrown
    BY <2>1 DEF Base
  <2>3. "nCcalls" \in DOMAIN s.th[s.run]
    BY <2>1 DEF Base, Shaped
  <2>4. EndYpcall(s.th[s.run]).nCcalls = s.th[s.run].nCcalls /\ "nCcalls" \in DOMAIN EndYpcall(s.th[s.run])
    BY <2>3, EndYpcallSame
  <2>5. Shaped(e.th) /\ \A t \in Thread : e.th[t].nCcalls = s.th[t].nCcalls
    BY <2>1, <2>4 DEF Base, Shaped
  <2>. HIDE DEF e
  <2>. QED
    BY <2>2, <2>5, QuietInv
<1>. QED
  BY <1>1, <1>2, <1>3

\* Steps that change the thread that runs, but not its count.
LEMMA SameCount ==
  ASSUME NEW s, CountInv(s), s.run # Nobody, NEW t, "nCcalls" \in DOMAIN t, t.nCcalls = s.th[s.run].nCcalls,
         NEW r, DOMAIN r = {"th", "host", "run", "thrown"}, r.th = [s.th EXCEPT ![s.run] = t],
         r.host = s.host, r.run = s.run, r.thrown # s.thrown => r.thrown # "no"
  PROVE  CountInv(r)
<1>1. Base(s) /\ s.run \in Thread
  BY DEF CountInv
<1>2. Shaped(r.th) /\ \A u \in Thread : r.th[u].nCcalls = s.th[u].nCcalls
  BY <1>1 DEF Base, Shaped
<1>. QED
  BY <1>2, QuietInv

-----------------------------------------------------------------------------
(* Operations of a running function. *)

\* The fields of State.
LEMMA StateIs ==
  /\ State.th = th /\ State.host = host /\ State.run = run /\ State.thrown = thrown
  /\ DOMAIN State = {"th", "host", "run", "thrown"}
BY DEF State

\* The thread that runs is one of the threads.
LEMMA RunHas ==
  ASSUME CountInv(State), run # Nobody
  PROVE  run \in Thread /\ "nCcalls" \in DOMAIN L /\ DOMAIN th = Thread
BY StateIs DEF CountInv, Base, Shaped, L

\* OP_CALL of a Lua function makes no call from C.
LEMMA OpCallInv ==
  ASSUME CountInv(State), NEW lua, OpCall(lua)
  PROVE  CountInv(State)'
<1>. DEFINE t == [L EXCEPT !.ci = Append(@, Frame(lua))]
            r == [State EXCEPT !.th[run].ci = Append(@, Frame(lua))]
<1>1. run # Nobody /\ Becomes(r)
  BY Zenon DEF OpCall, Running
<1>2. "nCcalls" \in DOMAIN t /\ t.nCcalls = L.nCcalls
  BY <1>1, RunHas
<1>3. /\ DOMAIN r = {"th", "host", "run", "thrown"} /\ r.host = host /\ r.run = run /\ r.thrown = thrown
      /\ r.th = [th EXCEPT ![run] = t]
  BY StateIs DEF L
<1>. HIDE DEF r, t
<1>4. CountInv(r)
  BY <1>1, <1>2, <1>3, StateIs, SameCount DEF L
<1>. QED
  BY <1>1, <1>4, BecomesInv

\* Neither does OP_TAILCALL.
LEMMA OpTailCallInv ==
  ASSUME CountInv(State), OpTailCall
  PROVE  CountInv(State)'
<1>. DEFINE t == luaF_close(L, Depth)
            r == [State EXCEPT !.th[run] = luaF_close(L, Depth)]
<1>1. run # Nobody /\ Becomes(r)
  BY Zenon DEF OpTailCall, Running
<1>2. "nCcalls" \in DOMAIN t /\ t.nCcalls = L.nCcalls
  BY <1>1, RunHas DEF luaF_close
<1>3. /\ DOMAIN r = {"th", "host", "run", "thrown"} /\ r.host = host /\ r.run = run /\ r.thrown = thrown
      /\ r.th = [th EXCEPT ![run] = t]
  BY StateIs
<1>. HIDE DEF r, t
<1>4. CountInv(r)
  BY <1>1, <1>2, <1>3, StateIs, SameCount DEF L
<1>. QED
  BY <1>1, <1>4, BecomesInv

\* Nor a closure.
LEMMA FindUpvalInv ==
  ASSUME CountInv(State), luaF_findupval
  PROVE  CountInv(State)'
<1>. DEFINE t == [L EXCEPT !.open = @ \cup {Depth}]
            r == [State EXCEPT !.th[run].open = @ \cup {Depth}]
<1>1. run # Nobody /\ Becomes(r)
  BY Zenon DEF luaF_findupval, Running
<1>2. "nCcalls" \in DOMAIN t /\ t.nCcalls = L.nCcalls
  BY <1>1, RunHas
<1>3. /\ DOMAIN r = {"th", "host", "run", "thrown"} /\ r.host = host /\ r.run = run /\ r.thrown = thrown
      /\ r.th = [th EXCEPT ![run] = t]
  BY StateIs DEF L
<1>. HIDE DEF r, t
<1>4. CountInv(r)
  BY <1>1, <1>2, <1>3, StateIs, SameCount DEF L
<1>. QED
  BY <1>1, <1>4, BecomesInv

\* An error, of any kind, changes no count.
LEMMA ThrowInv ==
  ASSUME CountInv(State), run # Nobody, NEW v, v # "no", Becomes([State EXCEPT !.thrown = v])
  PROVE  CountInv(State)'
<1>. DEFINE r == [State EXCEPT !.thrown = v]
<1>1. /\ DOMAIN r = {"th", "host", "run", "thrown"} /\ r.host = host /\ r.run = run /\ r.thrown = v /\ r.th = th
  BY StateIs
<1>2. CountInv(r)
  <2>. HIDE DEF r
  <2>1. Shaped(r.th)
    BY <1>1, StateIs DEF CountInv, Base
  <2>. QED
    BY <1>1, <2>1, StateIs, QuietInv
<1>. QED
  BY <1>2, BecomesInv

\* A yield, or its error, leaves the C stack to luaD_throw.
LEMMA YieldInv ==
  ASSUME CountInv(State), NEW k, lua_yieldk(k)
  PROVE  CountInv(State)'
<1>1. run # Nobody
  BY DEF lua_yieldk, Running
<1>2. CASE Becomes([State EXCEPT !.thrown = "raise"])
  BY <1>1, <1>2, ThrowInv
<1>3. CASE Becomes([State EXCEPT !.th[run].status = "yield", !.th[run].ci[Depth].k = k, !.thrown = "yield"])
  <2>. DEFINE r == [State EXCEPT !.th[run].status = "yield", !.th[run].ci[Depth].k = k, !.thrown = "yield"]
              m == [th EXCEPT ![run].status = "yield"]
  <2>1. DOMAIN r = {"th", "host", "run", "thrown"} /\ r.host = host /\ r.run = run /\ r.thrown = "yield"
    BY StateIs
  <2>2. r.th = [m EXCEPT ![run].ci[Depth].k = k]
    BY StateIs
  <2>3. DOMAIN m = Thread /\ \A t \in Thread : "nCcalls" \in DOMAIN m[t] /\ m[t].nCcalls = th[t].nCcalls
    BY <1>1, StateIs, RunHas DEF CountInv, Base, Shaped
  <2>. HIDE DEF m
  <2>4. DOMAIN r.th = Thread /\ \A t \in Thread : "nCcalls" \in DOMAIN r.th[t] /\ r.th[t].nCcalls = th[t].nCcalls
    BY <1>1, <2>2, <2>3, RunHas
  <2>5. Becomes(r)
    BY <1>3
  <2>. HIDE DEF r
  <2>6. Shaped(r.th)
    BY <2>4, StateIs DEF CountInv, Base, Shaped
  <2>7. CountInv(r)
    BY <1>1, <2>1, <2>4, <2>6, StateIs, QuietInv
  <2>. QED
    BY <2>5, <2>7, BecomesInv
<1>. QED
  BY <1>2, <1>3 DEF lua_yieldk

\* Metamethods.
LEMMA CallTMInv ==
  ASSUME CountInv(State), NEW lua, luaT_callTM(lua)
  PROVE  CountInv(State)'
<1>1. run # Nobody /\ Becomes(luaD_call(State, "call", ~MayYield(Top.lua), lua))
  BY Zenon DEF luaT_callTM, Running
<1>2. CountInv(luaD_call(State, "call", ~MayYield(Top.lua), lua))
  BY <1>1, StateIs, CallInv
<1>. QED
  BY <1>1, <1>2, BecomesInv

\* The reader of a chunk.
LEMMA ReaderInv ==
  ASSUME CountInv(State), NEW lua, generic_reader(lua)
  PROVE  CountInv(State)'
<1>1. run # Nobody /\ Becomes(luaD_call(State, "call", TRUE, lua))
  BY Zenon DEF generic_reader
<1>2. CountInv(luaD_call(State, "call", TRUE, lua))
  BY <1>1, StateIs, CallInv
<1>. QED
  BY <1>1, <1>2, BecomesInv

\* The message handler is one more call.
LEMMA ErrormsgInv ==
  ASSUME CountInv(State), NEW lua, luaG_errormsg(lua)
  PROVE  CountInv(State)'
<1>1. run # Nobody
  BY StateIs DEF CountInv, luaG_errormsg
<1>2. CASE Becomes(luaD_call(State, "handler", TRUE, lua))
  <2>1. CountInv(luaD_call(State, "handler", TRUE, lua))
    BY <1>1, StateIs, CallInv
  <2>. QED
    BY <1>2, <2>1, BecomesInv
<1>3. CASE Becomes([State EXCEPT !.thrown = "run"])
  BY <1>1, <1>3, ThrowInv
<1>. QED
  BY <1>2, <1>3 DEF luaG_errormsg

\* lua_callk: the continuation is set first.
LEMMA CallkInv ==
  ASSUME CountInv(State), NEW k, NEW lua, lua_callk(k, lua)
  PROVE  CountInv(State)'
<1>. DEFINE w == [State EXCEPT !.th[run].ci[Depth].k = TRUE]
            ny == ~(k /\ L.nny = 0)
<1>1. run # Nobody
  BY DEF lua_callk, Running
<1>2. CountInv(w) /\ w.run = run
  <2>1. /\ DOMAIN w = {"th", "host", "run", "thrown"} /\ w.host = host /\ w.run = run /\ w.thrown = thrown
        /\ w.th = [th EXCEPT ![run].ci[Depth].k = TRUE]
    BY StateIs
  <2>2. Shaped(w.th) /\ \A t \in Thread : w.th[t].nCcalls = th[t].nCcalls
    BY <1>1, <2>1, StateIs, RunHas DEF CountInv, Base, Shaped
  <2>. HIDE DEF w
  <2>3. /\ State.run # Nobody /\ w.host = State.host /\ w.run = State.run /\ w.thrown = State.thrown
        /\ \A t \in Thread : w.th[t].nCcalls = State.th[t].nCcalls
    BY <1>1, <2>1, <2>2, StateIs
  <2>4. CountInv(w)
    BY <2>1, <2>2, <2>3, QuietInv
  <2>. QED
    BY <2>1, <2>4
<1>. HIDE DEF w, ny
<1>3. Becomes(luaD_call(IF k /\ L.nny = 0 THEN w ELSE State, "call", ny, lua))
  BY Zenon DEF lua_callk, w, ny
<1>4. CASE k /\ L.nny = 0
  <2>1. Becomes(luaD_call(w, "call", ny, lua))
    BY <1>3, <1>4
  <2>2. CountInv(luaD_call(w, "call", ny, lua))
    BY <1>1, <1>2, CallInv
  <2>. QED
    BY <2>1, <2>2, BecomesInv
<1>5. CASE ~(k /\ L.nny = 0)
  <2>1. Becomes(luaD_call(State, "call", ny, lua))
    BY <1>3, <1>5
  <2>2. CountInv(luaD_call(State, "call", ny, lua))
    BY <1>1, StateIs, CallInv
  <2>. QED
    BY <2>1, <2>2, BecomesInv
<1>. QED
  BY <1>4, <1>5

\* lua_pcallk, yieldable or not.
LEMMA PcallkInv ==
  ASSUME CountInv(State), NEW k, NEW handler, NEW lua, lua_pcallk(k, handler, lua)
  PROVE  CountInv(State)'
<1>. DEFINE ef == IF handler THEN Depth ELSE 0
            t == Ypcall(L, ef)
            w == [State EXCEPT !.th[run] = Ypcall(L, ef)]
            p == luaD_pcall(State, "call", ef)
<1>1. run # Nobody /\ thrown = "no"
  BY DEF lua_pcallk, Running
<1>2. CountInv(w) /\ w.run = run
  <2>1. "nCcalls" \in DOMAIN t /\ t.nCcalls = L.nCcalls
    BY <1>1, RunHas DEF Ypcall
  <2>2. /\ DOMAIN w = {"th", "host", "run", "thrown"} /\ w.host = host /\ w.run = run /\ w.thrown = thrown
        /\ w.th = [th EXCEPT ![run] = t]
    BY StateIs
  <2>. HIDE DEF w, t
  <2>. QED
    BY <1>1, <2>1, <2>2, StateIs, SameCount DEF L
<1>3. CountInv(p) /\ p.run = run
  <2>. HIDE DEF ef
  <2>. QED
    BY <1>1, StateIs, PcallInv
<1>4. \/ Becomes(luaD_call(w, "call", FALSE, lua))
      \/ Becomes(luaD_call(p, "call", TRUE, lua))
  BY Zenon DEF lua_pcallk
<1>. HIDE DEF w, p
<1>5. CountInv(luaD_call(w, "call", FALSE, lua)) /\ CountInv(luaD_call(p, "call", TRUE, lua))
  BY <1>1, <1>2, <1>3, CallInv
<1>. QED
  BY <1>4, <1>5, BecomesInv

\* Finalizers: a protected call and the call.
LEMMA GCTMInv ==
  ASSUME CountInv(State), NEW lua, GCTM(lua)
  PROVE  CountInv(State)'
<1>. DEFINE p == luaD_pcall(State, "gc", 0)
<1>1. run # Nobody /\ thrown = "no" /\ Becomes(luaD_call(p, "call", TRUE, lua))
  BY Zenon DEF GCTM
<1>2. CountInv(p) /\ p.run = run
  BY <1>1, StateIs, PcallInv
<1>. HIDE DEF p
<1>3. CountInv(luaD_call(p, "call", TRUE, lua))
  BY <1>1, <1>2, CallInv
<1>. QED
  BY <1>1, <1>3, BecomesInv

\* lua_load up to the parser.
LEMMA LoadInv ==
  ASSUME CountInv(State), lua_load
  PROVE  CountInv(State)'
<1>. DEFINE p == luaD_pcall(State, "load", L.errfunc)
            r == [p EXCEPT !.th[run].nny = @ + 1]
<1>1. run # Nobody /\ thrown = "no" /\ Becomes(r)
  BY Zenon DEF lua_load, Running
<1>2. CountInv(p) /\ p.run = run /\ p.thrown = "no"
  BY <1>1, StateIs, PcallInv
<1>. HIDE DEF p
<1>3. DOMAIN r = {"th", "host", "run", "thrown"} /\ r.host = p.host /\ r.run = p.run /\ r.thrown = p.thrown
  BY <1>2 DEF CountInv, Base
<1>4. Shaped(r.th) /\ \A u \in Thread : r.th[u].nCcalls = p.th[u].nCcalls
  BY <1>1, <1>2 DEF CountInv, Base, Shaped
<1>. HIDE DEF r
<1>5. CountInv(r)
  BY <1>1, <1>2, <1>3, <1>4, QuietInv
<1>. QED
  BY <1>1, <1>5, BecomesInv

-----------------------------------------------------------------------------
(* Returns, throws and coroutines. *)

\* A part of the C stack is left, and the count of the thread that runs is set to one
\* that is at least the depth of what remains.
LEMMA LeaveInv ==
  ASSUME NEW s, CountInv(s), s.run # Nobody,
         NEW m \in 0..Len(s.host), NEW c \in Nat, c < Limit, Nesting(s.host, m) <= c,
         NEW r, DOMAIN r = {"th", "host", "run", "thrown"}, r.host = SubSeq(s.host, 1, m), r.run = s.run,
         DOMAIN r.th = Thread, \A t \in Thread : "nCcalls" \in DOMAIN r.th[t],
         \A t \in Thread : r.th[t].nCcalls = IF t = s.run THEN c ELSE s.th[t].nCcalls
  PROVE  CountInv(r)
<1>1. Base(s) /\ s.run \in Thread /\ \A t \in Thread : s.th[t].nCcalls \in Nat
  BY DEF CountInv, Base, Shaped
<1>2. Shaped(r.th)
  BY <1>1 DEF Shaped
<1>3. IsSeq(r.host) /\ Held(r.host, s.th) /\ Len(r.host) = m /\ Nesting(r.host, m) = Nesting(s.host, m)
  BY <1>1, SeqCut, HeldCut, DepthCut DEF Base
<1>4. \A t \in Thread : s.th[t].nCcalls <= r.th[t].nCcalls \/ Nesting(r.host, Len(r.host)) <= r.th[t].nCcalls
  BY <1>1, <1>3
<1>5. Held(r.host, r.th)
  BY <1>1, <1>2, <1>3, <1>4, HeldGrow DEF Base
<1>6. Nesting(r.host, Len(r.host)) <= r.th[r.run].nCcalls
  BY <1>1, <1>3
<1>7. \A t \in Thread : r.th[t].nCcalls < Limit
  BY <1>1 DEF CountInv
<1>. QED
  BY <1>1, <1>2, <1>3, <1>5, <1>6, <1>7 DEF CountInv, Base

\* The end of lua_load restores the count of its beginning.
LEMMA ParserEndsInv ==
  ASSUME CountInv(State), ParserEnds
  PROVE  CountInv(State)'
<1>. DEFINE f == Last(host)
            m == Len(host) - 1
            r == [State EXCEPT !.host = Pop(@),
                    !.th[run] = [@ EXCEPT !.errfunc = f.errfunc, !.nCcalls = f.ncc, !.nny = f.nny]]
<1>1. run # Nobody /\ InParser /\ Becomes(r)
  BY Zenon DEF ParserEnds
<1>2. IsSeq(host) /\ Held(host, th)
  BY StateIs DEF CountInv, Base
<1>3. m \in 0..Len(host) /\ m + 1 \in DOMAIN host /\ f = host[m + 1] /\ f.kind = "pcall"
  BY <1>1, <1>2, SeqLen DEF InParser, Last
<1>4. f.ncc \in Nat /\ f.ncc < Limit /\ Nesting(host, m) <= f.ncc
  <2>1. (m + 1) - 1 = m
    BY <1>2, SeqLen
  <2>. QED
    BY <1>2, <1>3, <2>1 DEF Held
<1>. HIDE DEF f
<1>5. DOMAIN r = {"th", "host", "run", "thrown"} /\ r.host = SubSeq(host, 1, m) /\ r.run = run
  BY StateIs DEF Pop
<1>6. DOMAIN r.th = Thread /\ \A t \in Thread : /\ "nCcalls" \in DOMAIN r.th[t]
                                                /\ r.th[t].nCcalls = IF t = run THEN f.ncc ELSE th[t].nCcalls
  BY <1>1, StateIs, RunHas DEF CountInv, Base, Shaped
<1>. HIDE DEF r, m
<1>7. CountInv(r)
  BY <1>1, <1>3, <1>4, <1>5, <1>6, StateIs, LeaveInv, SMTT(30)
<1>. QED
  BY <1>1, <1>7, BecomesInv

\* A caught throw: the handlers of the running thread that are on the C stack.
LEMMA CatcherIn ==
  ASSUME CountInv(State), Catchers # {}
  PROVE  LET j == Max(Catchers)
         IN j \in Catchers /\ j \in 1..Len(host) /\ j - 1 \in 0..Len(host) /\ Len(host) \in Nat
<1>1. Len(host) \in Nat /\ DOMAIN host = 1..Len(host)
  BY StateIs, SeqLen DEF CountInv, Base
<1>2. Catchers \in SUBSET (1..Len(host))
  BY <1>1 DEF Catchers
<1>. DEFINE j == Max(Catchers)
<1>3. j \in Catchers
  BY <1>1, <1>2, MaxInSet
<1>. HIDE DEF j
<1>4. j \in 1..Len(host)
  BY <1>2, <1>3
<1>5. j - 1 \in 0..Len(host)
  BY <1>1, <1>4
<1>. QED
  BY <1>1, <1>3, <1>4, <1>5 DEF j

\* luaD_pcall after a jump restores the count of its beginning.
LEMMA CaughtByPcallInv ==
  ASSUME CountInv(State), run # Nobody, NEW j \in 1..Len(host), host[j].kind = "pcall", CaughtByPcall(j)
  PROVE  CountInv(State)'
<1>. DEFINE f == host[j]
            t0 == [luaF_close(L, f.at + 1) EXCEPT
                     !.ci = SubSeq(@, 1, f.at), !.nny = f.nny, !.nCcalls = f.ncc, !.errfunc = f.errfunc]
            s == [State EXCEPT !.host = SubSeq(@, 1, j - 1), !.thrown = "no",
             !.th[run] = [luaF_close(L, f.at + 1) EXCEPT
                !.ci = SubSeq(@, 1, f.at), !.nny = f.nny, !.nCcalls = f.ncc, !.errfunc = f.errfunc]]
            g == [s EXCEPT !.thrown = "gcmm"]
<1>1. Len(host) \in Nat /\ DOMAIN host = 1..Len(host) /\ Held(host, th)
  BY StateIs, SeqLen DEF CountInv, Base
<1>2. f.ncc \in Nat /\ f.ncc < Limit /\ Nesting(host, j - 1) <= f.ncc /\ j - 1 \in 0..Len(host)
  BY <1>1 DEF Held
<1>3. "nCcalls" \in DOMAIN t0 /\ t0.nCcalls = f.ncc
  <2>1. "nCcalls" \in DOMAIN luaF_close(L, f.at + 1)
    BY RunHas DEF luaF_close
  <2>. QED
    BY <2>1
<1>4. /\ DOMAIN s = {"th", "host", "run", "thrown"} /\ s.host = SubSeq(host, 1, j - 1) /\ s.run = run
      /\ s.th = [th EXCEPT ![run] = t0]
  BY StateIs
<1>5. Becomes(s) \/ Becomes(g)
  BY Zenon DEF CaughtByPcall
<1>. HIDE DEF s, t0, f
<1>6. DOMAIN s.th = Thread /\ \A t \in Thread : /\ "nCcalls" \in DOMAIN s.th[t]
                                                /\ s.th[t].nCcalls = IF t = run THEN f.ncc ELSE th[t].nCcalls
  BY <1>3, <1>4, StateIs, RunHas DEF CountInv, Base, Shaped
<1>7. DOMAIN g = {"th", "host", "run", "thrown"} /\ g.host = s.host /\ g.run = run /\ g.th = s.th
  BY <1>4
<1>. HIDE DEF g
<1>8. ASSUME NEW r, DOMAIN r = {"th", "host", "run", "thrown"}, r.host = s.host, r.run = run, r.th = s.th
      PROVE  CountInv(r)
  <2>1. State.run # Nobody /\ j - 1 \in 0..Len(State.host) /\ Nesting(State.host, j - 1) <= f.ncc
    BY <1>2, StateIs
  <2>2. r.host = SubSeq(State.host, 1, j - 1) /\ r.run = State.run
    BY <1>4, <1>8, StateIs
  <2>3. DOMAIN r.th = Thread /\ \A t \in Thread : "nCcalls" \in DOMAIN r.th[t]
    BY <1>6, <1>8
  <2>4. \A t \in Thread : r.th[t].nCcalls = IF t = State.run THEN f.ncc ELSE State.th[t].nCcalls
    BY <1>6, <1>8, StateIs
  <2>. QED
    BY <1>2, <1>8, <2>1, <2>2, <2>3, <2>4, LeaveInv
<1>9. CountInv(s) /\ CountInv(g)
  BY <1>4, <1>7, <1>8
<1>. QED
  BY <1>5, <1>9, BecomesInv

\* lua_resume after a jump: the coroutine goes on at its recovery point with the count
\* it started with, or gives the control back.
LEMMA CaughtByResumeInv ==
  ASSUME CountInv(State), run # Nobody, NEW j \in 1..Len(host), host[j].kind = "resume", CaughtByResume(j)
  PROVE  CountInv(State)'
<1>. DEFINE f == host[j]
            s == [State EXCEPT !.host = SubSeq(@, 1, j), !.thrown = "no", !.th[run].nCcalls = f.ncc]
            q == [s EXCEPT !.th[run] = recover(@, Max(findpcall))]
            d == [s EXCEPT !.th[run] = MarkDead(@)]
<1>1. Len(host) \in Nat /\ DOMAIN host = 1..Len(host) /\ Held(host, th) /\ IsSeq(host)
  BY StateIs, SeqLen DEF CountInv, Base
<1>2. f.ncc \in Nat /\ f.ncc < Limit /\ Nesting(host, j) <= f.ncc /\ j \in 0..Len(host)
  BY <1>1 DEF Held
<1>3. Becomes(EndResume(s)) \/ Becomes(q) \/ Becomes(EndResume(d))
  BY Zenon DEF CaughtByResume
<1>4. /\ DOMAIN s = {"th", "host", "run", "thrown"} /\ s.host = SubSeq(host, 1, j) /\ s.run = run /\ s.thrown = "no"
      /\ s.th = [th EXCEPT ![run].nCcalls = f.ncc]
  BY StateIs
<1>. HIDE DEF s
<1>5. Last(s.host).kind = "resume" /\ s.host # <<>>
  <2>. DEFINE g == SubSeq(host, 1, j)
  <2>1. IsSeq(g) /\ Len(g) = j /\ g[j] = host[j]
    BY <1>1, <1>2, SeqCut
  <2>. HIDE DEF g
  <2>2. Last(g).kind = "resume" /\ g # <<>>
    BY <2>1, SeqLen DEF Last
  <2>. QED
    BY <1>4, <2>2 DEF g
<1>. HIDE DEF f
<1>6. DOMAIN s.th = Thread /\ \A t \in Thread : /\ "nCcalls" \in DOMAIN s.th[t]
                                                /\ s.th[t].nCcalls = IF t = run THEN f.ncc ELSE th[t].nCcalls
  BY <1>4, StateIs, RunHas DEF CountInv, Base, Shaped
<1>7. CountInv(s)
  <2>1. /\ State.run # Nobody /\ j \in 0..Len(State.host) /\ Nesting(State.host, j) <= f.ncc
        /\ DOMAIN s = {"th", "host", "run", "thrown"} /\ s.host = SubSeq(State.host, 1, j) /\ s.run = State.run
        /\ DOMAIN s.th = Thread /\ \A t \in Thread : "nCcalls" \in DOMAIN s.th[t]
        /\ f.ncc \in Nat /\ f.ncc < Limit
        /\ \A t \in Thread : s.th[t].nCcalls = IF t = State.run THEN f.ncc ELSE State.th[t].nCcalls
    BY <1>2, <1>4, <1>6, StateIs
  <2>. QED
    BY <2>1, LeaveInv
<1>8. /\ DOMAIN q = {"th", "host", "run", "thrown"} /\ q.host = s.host /\ q.run = s.run /\ q.thrown = s.thrown
      /\ q.th = [s.th EXCEPT ![s.run] = recover(s.th[run], Max(findpcall))]
  BY <1>4
<1>9. /\ DOMAIN d = {"th", "host", "run", "thrown"} /\ d.host = s.host /\ d.run = s.run /\ d.thrown = s.thrown
      /\ d.th = [s.th EXCEPT ![s.run] = MarkDead(s.th[run])]
  BY <1>4
<1>10. "nCcalls" \in DOMAIN s.th[run]
  BY <1>6, RunHas
<1>11. ASSUME NEW p
       PROVE  "nCcalls" \in DOMAIN recover(s.th[run], p) /\ recover(s.th[run], p).nCcalls = s.th[run].nCcalls
  <2>. DEFINE t == [luaF_close(s.th[run], p + 1) EXCEPT !.ci = SubSeq(@, 1, p), !.nny = 0]
  <2>1. "nCcalls" \in DOMAIN t /\ t.nCcalls = s.th[run].nCcalls
    BY <1>10 DEF luaF_close
  <2>. HIDE DEF t
  <2>2. "nCcalls" \in DOMAIN EndYpcall(t) /\ EndYpcall(t).nCcalls = s.th[run].nCcalls
    BY <2>1, EndYpcallSame
  <2>. QED
    BY <2>2 DEF recover, t
<1>12. "nCcalls" \in DOMAIN MarkDead(s.th[run]) /\ MarkDead(s.th[run]).nCcalls = s.th[run].nCcalls
  BY <1>10 DEF MarkDead
<1>. HIDE DEF q, d
<1>13. CountInv(q)
  <2>. DEFINE t == recover(s.th[run], Max(findpcall))
  <2>1. "nCcalls" \in DOMAIN t /\ t.nCcalls = s.th[s.run].nCcalls
    BY <1>4, <1>11
  <2>2. q.th = [s.th EXCEPT ![s.run] = t]
    BY <1>8
  <2>3. DOMAIN q = {"th", "host", "run", "thrown"} /\ q.host = s.host /\ q.run = s.run /\ q.thrown = s.thrown
    BY <1>8
  <2>. HIDE DEF t
  <2>. QED
    BY <1>4, <1>7, <2>1, <2>2, <2>3, SameCount
<1>14. CountInv(d)
  BY <1>4, <1>7, <1>9, <1>12, SameCount
<1>15. CountInv(EndResume(s))
  BY <1>4, <1>5, <1>7, EndResumeInv DEF CountInv
<1>16. CountInv(EndResume(d))
  BY <1>4, <1>5, <1>9, <1>14, EndResumeInv DEF CountInv
<1>. QED
  BY <1>3, <1>13, <1>15, <1>16, BecomesInv

\* A throw unwinds the C stack down to the catcher.
LEMMA ThrowStepInv ==
  ASSUME CountInv(State), luaD_throw
  PROVE  CountInv(State)'
<1>1. run # Nobody
  BY StateIs DEF CountInv, luaD_throw
<1>2. CASE Catchers = {}
  <2>. DEFINE r == [State EXCEPT !.run = Nobody, !.thrown = "no"]
  <2>1. DOMAIN r = {"th", "host", "run", "thrown"} /\ r.th = th /\ r.host = host /\ r.run = Nobody /\ r.thrown = "no"
    BY StateIs
  <2>2. Becomes(r)
    BY <1>2 DEF luaD_throw
  <2>. HIDE DEF r
  <2>3. CountInv(r)
    BY <2>1, StateIs DEF CountInv, Base
  <2>. QED
    BY <2>2, <2>3, BecomesInv
<1>3. CASE Catchers # {}
  <2>. DEFINE j == Max(Catchers)
  <2>1. j \in Catchers /\ j \in 1..Len(host)
    BY <1>3, CatcherIn
  <2>2. IF host[j].kind = "pcall" THEN CaughtByPcall(j) ELSE CaughtByResume(j)
    BY <1>3 DEF luaD_throw
  <2>. HIDE DEF j
  <2>3. host[j].kind \in {"pcall", "resume"}
    BY <2>1 DEF Catchers
  <2>4. CASE host[j].kind = "pcall"
    BY <1>1, <2>1, <2>2, <2>4, CaughtByPcallInv
  <2>5. CASE host[j].kind = "resume"
    BY <1>1, <2>1, <2>2, <2>5, CaughtByResumeInv
  <2>. QED
    BY <2>3, <2>4, <2>5
<1>. QED
  BY <1>2, <1>3

\* The activation of a call is left: its depth and the count go down together.
LEMMA CountedInv ==
  ASSUME NEW s, CountInv(s), s.run # Nobody, s.thrown = "no", s.host # <<>>,
         Last(s.host).kind \in {"call", "handler"},
         NEW r, DOMAIN r = {"th", "host", "run", "thrown"}, r.host = Pop(s.host), r.run = s.run,
         DOMAIN r.th = Thread, \A t \in Thread : "nCcalls" \in DOMAIN r.th[t],
         \A t \in Thread : r.th[t].nCcalls = IF t = s.run THEN s.th[s.run].nCcalls - 1 ELSE s.th[t].nCcalls
  PROVE  CountInv(r)
<1>. DEFINE h == s.host
            m == Len(h) - 1
            c == s.th[s.run].nCcalls - 1
<1>1. Base(s) /\ s.run \in Thread /\ Nesting(h, Len(h)) <= s.th[s.run].nCcalls
  BY DEF CountInv
<1>2. Len(h) \in Nat /\ m \in Nat /\ m + 1 = Len(h) /\ m \in 0..Len(h) /\ Last(h) = h[m + 1]
  BY <1>1, SeqLen DEF Base, Last
<1>3. Nesting(h, m) \in Nat /\ Nesting(h, m + 1) = Nesting(h, m) + 1
  BY <1>2, DepthStep
<1>4. s.th[s.run].nCcalls \in Nat /\ s.th[s.run].nCcalls < Limit
  BY <1>1 DEF CountInv, Base, Shaped
<1>5. Limit \in Nat
  BY CallAssumption DEF Limit
<1>. HIDE DEF m
<1>6. c \in Nat /\ c < Limit /\ Nesting(h, m) <= c
  BY <1>1, <1>2, <1>3, <1>4, <1>5
<1>7. r.host = SubSeq(h, 1, m)
  BY DEF Pop, m
<1>. HIDE DEF c
<1>8. \A t \in Thread : r.th[t].nCcalls = IF t = s.run THEN c ELSE s.th[t].nCcalls
  BY DEF c
<1>. QED
  BY <1>2, <1>6, <1>7, <1>8, LeaveInv

\* A return leaves the activation of its call, and of the protected call below it.
LEMMA ReturnInv ==
  ASSUME CountInv(State), Return
  PROVE  CountInv(State)'
<1>. DEFINE d == Depth
            t0 == [luaF_close(L, d) EXCEPT !.ci = Pop(@)]
            s == [State EXCEPT !.th[run] = [luaF_close(L, d) EXCEPT !.ci = Pop(@)]]
            h == Last(host)
            below == host[Len(host) - 1]
            counted == [s EXCEPT !.host = Pop(@), !.th[run].nCcalls = @ - 1, !.th[run].nny = IF h.ny THEN @ - 1 ELSE @]
            a == [counted EXCEPT !.thrown = "run"]
            b == [counted EXCEPT !.host = Pop(Pop(host)),
                            !.th[run].errfunc = below.errfunc, !.th[run].nCcalls = below.ncc]
            e == [counted EXCEPT !.th[run] = EndYpcall(@)]
            called == host # <<>> /\ h.kind \in {"call", "handler"}
            protected == Len(host) > 1 /\ below.kind = "pcall"
<1>1. run # Nobody /\ thrown = "no"
  BY DEF Return, Running
<1>2. \/ Becomes(s)
      \/ called /\ Becomes(a)
      \/ called /\ protected /\ Becomes(b)
      \/ called /\ Becomes(e)
      \/ host # <<>> /\ h.kind = "resume" /\ Becomes(unroll(s))
  BY Zenon DEF Return
<1>3. "nCcalls" \in DOMAIN t0 /\ t0.nCcalls = L.nCcalls
  <2>1. "nCcalls" \in DOMAIN luaF_close(L, d) /\ luaF_close(L, d).nCcalls = L.nCcalls
    BY <1>1, RunHas DEF luaF_close
  <2>. QED
    BY <2>1
<1>4. /\ DOMAIN s = {"th", "host", "run", "thrown"} /\ s.host = host /\ s.run = run /\ s.thrown = thrown
      /\ s.th = [th EXCEPT ![run] = t0]
  BY StateIs
<1>. HIDE DEF s, t0
<1>5. CountInv(s)
  BY <1>1, <1>3, <1>4, StateIs, SameCount DEF L
<1>6. IsSeq(host) /\ Held(host, th) /\ run \in Thread /\ Len(host) \in Nat /\ DOMAIN host = 1..Len(host)
  BY <1>1, StateIs, SeqLen DEF CountInv, Base
<1>7. DOMAIN s.th = Thread /\ \A t \in Thread : "nCcalls" \in DOMAIN s.th[t]
  BY <1>5 DEF CountInv, Base, Shaped
<1>. HIDE DEF h
<1>8. /\ DOMAIN counted = {"th", "host", "run", "thrown"} /\ counted.host = Pop(host) /\ counted.run = run
      /\ DOMAIN counted.th = Thread
      /\ \A t \in Thread : /\ "nCcalls" \in DOMAIN counted.th[t]
                           /\ counted.th[t].nCcalls = IF t = run THEN s.th[run].nCcalls - 1 ELSE s.th[t].nCcalls
  BY <1>4, <1>6, <1>7
<1>. HIDE DEF counted
<1>9. DOMAIN a = {"th", "host", "run", "thrown"} /\ a.host = counted.host /\ a.run = run /\ a.th = counted.th
  BY <1>8
<1>10. /\ DOMAIN e = {"th", "host", "run", "thrown"} /\ e.host = counted.host /\ e.run = run
       /\ e.th = [counted.th EXCEPT ![run] = EndYpcall(counted.th[run])]
  BY <1>8
<1>11. "nCcalls" \in DOMAIN EndYpcall(counted.th[run]) /\ EndYpcall(counted.th[run]).nCcalls = counted.th[run].nCcalls
  BY <1>6, <1>8, EndYpcallSame
<1>. HIDE DEF e
<1>12. /\ DOMAIN e.th = Thread
       /\ \A t \in Thread : "nCcalls" \in DOMAIN e.th[t] /\ e.th[t].nCcalls = counted.th[t].nCcalls
  BY <1>6, <1>8, <1>10, <1>11
<1>13. CASE Becomes(s)
  BY <1>5, <1>13, BecomesInv
<1>14. CASE called /\ Becomes(a)
  <2>. HIDE DEF a
  <2>1. /\ s.run # Nobody /\ s.thrown = "no" /\ s.host # <<>> /\ Last(s.host).kind \in {"call", "handler"}
        /\ a.host = Pop(s.host) /\ a.run = s.run
        /\ DOMAIN a.th = Thread
        /\ \A t \in Thread : /\ "nCcalls" \in DOMAIN a.th[t]
                             /\ a.th[t].nCcalls = IF t = s.run THEN s.th[s.run].nCcalls - 1 ELSE s.th[t].nCcalls
    BY <1>1, <1>4, <1>8, <1>9, <1>14 DEF h
  <2>2. CountInv(a)
    BY <1>5, <1>9, <2>1, CountedInv
  <2>. QED
    BY <1>14, <2>2, BecomesInv
<1>15. CASE called /\ Becomes(e)
  <2>1. /\ s.run # Nobody /\ s.thrown = "no" /\ s.host # <<>> /\ Last(s.host).kind \in {"call", "handler"}
        /\ e.host = Pop(s.host) /\ e.run = s.run
        /\ DOMAIN e.th = Thread
        /\ \A t \in Thread : /\ "nCcalls" \in DOMAIN e.th[t]
                             /\ e.th[t].nCcalls = IF t = s.run THEN s.th[s.run].nCcalls - 1 ELSE s.th[t].nCcalls
    BY <1>1, <1>4, <1>8, <1>10, <1>12, <1>15 DEF h
  <2>2. CountInv(e)
    BY <1>5, <1>10, <2>1, CountedInv
  <2>. QED
    BY <1>15, <2>2, BecomesInv
<1>16. CASE called /\ protected /\ Becomes(b)
  <2>. DEFINE m == Len(host) - 2
  <2>1. /\ m \in 0..Len(host) /\ Len(host) - 1 \in DOMAIN host /\ (Len(host) - 1) - 1 = m
    BY <1>6, <1>16
  <2>2. below.ncc \in Nat /\ below.ncc < Limit /\ Nesting(host, m) <= below.ncc
    BY <1>6, <1>16, <2>1 DEF Held
  <2>3. Pop(Pop(host)) = SubSeq(host, 1, m)
    <3>1. PICK S : host \in Seq(S)
      BY <1>6 DEF IsSeq
    <3>2. Len(host) > 1
      BY <1>16
    <3>3. Len(SubSeq(host, 1, Len(host) - 1)) = Len(host) - 1
      BY <1>6, <3>1, <3>2
    <3>4. SubSeq(SubSeq(host, 1, Len(host) - 1), 1, m) = SubSeq(host, 1, m)
      BY <1>6, <3>1, <3>2, <3>3
    <3>. QED
      BY <1>6, <3>3, <3>4 DEF Pop
  <2>4. /\ DOMAIN b = {"th", "host", "run", "thrown"} /\ b.host = Pop(Pop(host)) /\ b.run = run
    BY <1>8
  <2>5. /\ DOMAIN b.th = Thread
        /\ \A t \in Thread : /\ "nCcalls" \in DOMAIN b.th[t]
                             /\ b.th[t].nCcalls = IF t = run THEN below.ncc ELSE counted.th[t].nCcalls
    BY <1>6, <1>8
  <2>. HIDE DEF b, below, m
  <2>6. /\ s.run # Nobody /\ b.run = s.run /\ m \in 0..Len(s.host) /\ Nesting(s.host, m) <= below.ncc
        /\ b.host = SubSeq(s.host, 1, m)
        /\ \A t \in Thread : b.th[t].nCcalls = IF t = s.run THEN below.ncc ELSE s.th[t].nCcalls
    BY <1>1, <1>4, <1>8, <2>1, <2>2, <2>3, <2>4, <2>5
  <2>7. CountInv(b)
    BY <1>5, <2>2, <2>4, <2>5, <2>6, LeaveInv
  <2>. QED
    BY <1>16, <2>7, BecomesInv
<1>17. CASE host # <<>> /\ h.kind = "resume" /\ Becomes(unroll(s))
  <2>1. s.run # Nobody /\ s.thrown = "no" /\ s.host # <<>> /\ Last(s.host).kind = "resume"
    BY <1>1, <1>4, <1>17 DEF h
  <2>2. CountInv(unroll(s))
    BY <1>5, <2>1, UnrollInv
  <2>. QED
    BY <1>17, <2>2, BecomesInv
<1>. QED
  BY <1>2, <1>13, <1>14, <1>15, <1>16, <1>17

\* lua_resume starts a coroutine at the count of the thread that resumes it, and one more.
LEMMA ResumedInv ==
  ASSUME CountInv(State), run # Nobody, thrown = "no", NEW co \in Thread, StartCount(L) < MaxCcalls
  PROVE  LET r == Resumed(co)
         IN /\ CountInv(r) /\ r.run = co /\ r.thrown = "no" /\ r.host # <<>> /\ Last(r.host).kind = "resume"
<1>. DEFINE n == StartCount(L)
            x == [kind |-> "resume", L |-> co, from |-> run, nny |-> th[co].nny, ncc |-> n]
            r == Resumed(co)
<1>1. /\ IsSeq(host) /\ Held(host, th) /\ Shaped(th) /\ run \in Thread /\ Len(host) \in Nat
      /\ Nesting(host, Len(host)) <= th[run].nCcalls
      /\ \A t \in Thread : th[t].nCcalls \in Nat /\ th[t].nCcalls < Limit
  BY StateIs, SeqLen DEF CountInv, Base, Shaped
<1>2. n = th[run].nCcalls + 1 /\ n \in Nat /\ n < Limit
  BY <1>1, CallAssumption DEF StartCount, L, Limit
<1>3. r = [State EXCEPT !.host = Append(@, x), !.run = co,
             !.th[co] = [@ EXCEPT !.nCcalls = n, !.nny = 0, !.status = "ok", !.fn = FALSE]]
  BY Zenon DEF Resumed
<1>4. x.kind = "resume" /\ x.ncc = n /\ x.from = run /\ x.L = co
  OBVIOUS
<1>. HIDE DEF x, n
<1>5. DOMAIN r = {"th", "host", "run", "thrown"} /\ r.host = Append(host, x) /\ r.run = co /\ r.thrown = "no"
  BY <1>3, StateIs
<1>6. DOMAIN r.th = Thread /\ \A t \in Thread : /\ "nCcalls" \in DOMAIN r.th[t]
                                                /\ r.th[t].nCcalls = IF t = co THEN n ELSE th[t].nCcalls
  BY <1>1, <1>3, StateIs DEF Shaped
<1>. HIDE DEF r
<1>7. Shaped(r.th)
  BY <1>1, <1>2, <1>6 DEF Shaped
<1>8. Nesting(host, Len(host)) \in Nat
  BY <1>1, DepthStep
<1>9. Nesting(host, Len(host)) <= n /\ Nesting(host, Len(host)) + 1 <= n
  BY <1>1, <1>2, <1>8
<1>10. Held(host, r.th)
  <2>1. \A t \in Thread : th[t].nCcalls <= r.th[t].nCcalls \/ Nesting(host, Len(host)) <= r.th[t].nCcalls
    BY <1>1, <1>6, <1>9
  <2>. QED
    BY <1>1, <1>7, <2>1, HeldGrow
<1>11. Nesting(host, Len(host)) <= r.th[run].nCcalls
  BY <1>1, <1>6, <1>9
<1>12. Held(r.host, r.th) /\ Nesting(r.host, Len(host) + 1) = Nesting(host, Len(host)) + 1
  BY <1>1, <1>2, <1>4, <1>5, <1>9, <1>10, <1>11, HeldPush
<1>13. IsSeq(r.host) /\ Len(r.host) = Len(host) + 1 /\ r.host[Len(host) + 1] = x
  BY <1>1, <1>5, SeqPush
<1>14. Last(r.host).kind = "resume" /\ r.host # <<>>
  BY <1>1, <1>4, <1>13, SeqLen DEF Last
<1>15. Nesting(r.host, Len(r.host)) <= r.th[co].nCcalls
  BY <1>6, <1>9, <1>12, <1>13
<1>16. \A t \in Thread : r.th[t].nCcalls < Limit
  BY <1>1, <1>2, <1>6
<1>17. CountInv(r)
  BY <1>5, <1>7, <1>12, <1>13, <1>15, <1>16 DEF CountInv, Base
<1>. QED
  BY <1>5, <1>14, <1>17 DEF r

\* coroutine.resume, with its errors.
LEMMA AuxresumeInv ==
  ASSUME CountInv(State), NEW co \in Thread, NEW lua, auxresume(co, lua)
  PROVE  CountInv(State)'
<1>. DEFINE s == Resumed(co)
            n == StartCount(L)
            r == [State EXCEPT !.th[co].nCcalls = n - 1]
            new == [s EXCEPT !.th[co].ci = <<Frame(lua)>>]
            cut == [s EXCEPT !.th[co].ci = Pop(@)]
<1>1. run # Nobody /\ thrown = "no" /\ co # Nobody
  BY CallAssumption DEF auxresume, Running
<1>2. \/ Becomes(State)
      \/ Becomes(r)
      \/ n < MaxCcalls /\ (Becomes(new) \/ Becomes(s) \/ Becomes(unroll(cut)))
  <2>1. n \in Nat
    BY <1>1, StateIs, RunHas DEF CountInv, Base, Shaped, StartCount, L
  <2>2. \/ Becomes(State)
        \/ Becomes(r)
        \/ ~(n >= MaxCcalls) /\ (Becomes(new) \/ Becomes(s) \/ Becomes(unroll(cut)))
    BY Zenon DEF auxresume
  <2>3. ~(n >= MaxCcalls) => n < MaxCcalls
    BY <2>1, CallAssumption
  <2>. QED
    BY <2>2, <2>3
<1>3. CASE Becomes(r)
  <2>1. /\ IsSeq(host) /\ Held(host, th) /\ Shaped(th) /\ run \in Thread /\ Nesting(host, Len(host)) <= th[run].nCcalls
        /\ \A t \in Thread : th[t].nCcalls \in Nat /\ th[t].nCcalls < Limit
    BY <1>1, StateIs DEF CountInv, Base, Shaped
  <2>2. n - 1 = th[run].nCcalls
    BY <2>1 DEF StartCount, L
  <2>3. DOMAIN r = {"th", "host", "run", "thrown"} /\ r.host = host /\ r.run = run /\ r.thrown = "no"
    BY <1>1, StateIs
  <2>4. DOMAIN r.th = Thread /\ \A t \in Thread : /\ "nCcalls" \in DOMAIN r.th[t]
                                                  /\ r.th[t].nCcalls = IF t = co THEN th[run].nCcalls ELSE th[t].nCcalls
    BY <2>1, <2>2, StateIs DEF Shaped
  <2>. HIDE DEF r
  <2>5. Shaped(r.th)
    BY <2>1, <2>4 DEF Shaped
  <2>6. \A t \in Thread : th[t].nCcalls <= r.th[t].nCcalls \/ Nesting(host, Len(host)) <= r.th[t].nCcalls
    BY <2>1, <2>4
  <2>7. Held(host, r.th)
    BY <2>1, <2>5, <2>6, HeldGrow
  <2>8. CountInv(r)
    BY <2>1, <2>3, <2>4, <2>5, <2>7 DEF CountInv, Base
  <2>. QED
    BY <1>3, <2>8, BecomesInv
<1>4. CASE n < MaxCcalls /\ (Becomes(new) \/ Becomes(s) \/ Becomes(unroll(cut)))
  <2>1. CountInv(s) /\ s.run = co /\ s.thrown = "no" /\ s.host # <<>> /\ Last(s.host).kind = "resume"
    BY <1>1, <1>4, ResumedInv
  <2>. HIDE DEF s
  <2>2. DOMAIN s = {"th", "host", "run", "thrown"} /\ Shaped(s.th)
    BY <2>1 DEF CountInv, Base
  <2>3. ASSUME NEW q
        PROVE  CountInv([s EXCEPT !.th[co].ci = q])
    <3>. DEFINE w == [s EXCEPT !.th[co].ci = q]
    <3>1. DOMAIN w = {"th", "host", "run", "thrown"} /\ w.host = s.host /\ w.run = s.run /\ w.thrown = s.thrown
      BY <2>2
    <3>2. Shaped(w.th) /\ \A t \in Thread : w.th[t].nCcalls = s.th[t].nCcalls
      BY <2>2 DEF Shaped
    <3>. HIDE DEF w
    <3>3. CountInv(w)
      BY <1>1, <2>1, <3>1, <3>2, QuietInv
    <3>. QED
      BY <3>3 DEF w
  <2>4. CountInv(new)
    BY <2>3
  <2>5. CountInv(cut)
    <3>1. cut = [s EXCEPT !.th[co].ci = Pop(s.th[co].ci)]
      OBVIOUS
    <3>. QED
      BY <2>3, <3>1
  <2>6. cut.run = co /\ cut.thrown = "no" /\ cut.host # <<>> /\ Last(cut.host).kind = "resume"
    BY <2>1, <2>2
  <2>. HIDE DEF cut, new
  <2>7. CountInv(unroll(cut))
    BY <1>1, <2>5, <2>6, UnrollInv
  <2>. QED
    BY <1>4, <2>1, <2>4, <2>7, BecomesInv
<1>5. CASE Becomes(State)
  BY <1>5, BecomesInv
<1>. QED
  BY <1>2, <1>3, <1>4, <1>5

-----------------------------------------------------------------------------
(* The theorems. *)

\* The invariant holds when the program starts.
LEMMA CountInit ==
  ASSUME Init
  PROVE  CountInv(State)
<1>1. host = <<>> /\ run = Main /\ thrown = "no" /\ Main \in Thread /\ Nobody # Main
  BY CallAssumption DEF Init, Thread
<1>2. Shaped(th) /\ \A t \in Thread : th[t].nCcalls = 0
  BY DEF Init, Shaped, preinit_thread, luaB_cocreate
<1>3. IsSeq(host) /\ Len(host) = 0 /\ DOMAIN host = {}
  BY <1>1 DEF IsSeq
<1>4. Held(host, th)
  BY <1>3 DEF Held
<1>5. Nesting(host, Len(host)) = 0
  BY <1>3, DepthStep
<1>6. 0 < Limit
  BY CallAssumption DEF Limit
<1>. QED
  BY <1>1, <1>2, <1>3, <1>4, <1>5, <1>6, StateIs DEF CountInv, Base

\* Every step keeps it.
LEMMA CountStep ==
  CountInv(State) /\ [Next]_vars => CountInv(State)'
<1>. SUFFICES ASSUME CountInv(State), [Next]_vars PROVE CountInv(State)'
  OBVIOUS
<1>1. ASSUME NEW lua \in BOOLEAN, \/ OpCall(lua) \/ luaT_callTM(lua) \/ GCTM(lua) \/ generic_reader(lua)
                                  \/ luaG_errormsg(lua)
      PROVE  CountInv(State)'
  BY <1>1, OpCallInv, CallTMInv, GCTMInv, ReaderInv, ErrormsgInv
<1>2. ASSUME NEW lua \in BOOLEAN, NEW k \in BOOLEAN, lua_callk(k, lua) \/ \E handler \in BOOLEAN : lua_pcallk(k, handler, lua)
      PROVE  CountInv(State)'
  BY <1>2, CallkInv, PcallkInv
<1>3. ASSUME NEW lua \in BOOLEAN, NEW co \in Thread, auxresume(co, lua)
      PROVE  CountInv(State)'
  BY <1>3, AuxresumeInv
<1>4. CASE OpTailCall \/ luaF_findupval \/ lua_load \/ ParserEnds \/ Return \/ luaD_throw
  BY <1>4, OpTailCallInv, FindUpvalInv, LoadInv, ParserEndsInv, ReturnInv, ThrowStepInv
<1>5. CASE SyntaxError
  BY <1>5, ThrowInv DEF SyntaxError
<1>6. CASE lua_error
  BY <1>6, ThrowInv DEF lua_error, Running
<1>7. ASSUME NEW k \in BOOLEAN, lua_yieldk(k)
      PROVE  CountInv(State)'
  BY <1>7, YieldInv
<1>8. CASE UNCHANGED vars
  <2>1. State' = State
    BY <1>8 DEF State, vars
  <2>. QED
    BY <2>1 DEF CountInv, Base
<1>. QED
  BY <1>1, <1>2, <1>3, <1>4, <1>5, <1>6, <1>7, <1>8 DEF Next

\* On every thread, the counts of calls are below the limit and cover the C stack, and
\* every count that a protected call or a resume will restore does (the inductive
\* invariant; luaD_call, luaD_pcall, lua_resume).
THEOREM CallsAreCounted == Spec => []CountInv(State)
<1>. QED
  BY CountInit, CountStep, PTL DEF Spec

\* A count that covers the C stack bounds it.
LEMMA CountBounds == CountInv(State) => CStackBounded
<1>. SUFFICES ASSUME CountInv(State), run # Nobody, thrown = "no"
              PROVE  Cardinality({j \in DOMAIN host : host[j].kind # "pcall"}) < MaxCcalls + MaxCcalls \div 8
  BY DEF CStackBounded
<1>1. IsSeq(host) /\ run \in Thread /\ Nesting(host, Len(host)) <= th[run].nCcalls /\ th[run].nCcalls < Limit /\ th[run].nCcalls \in Nat
  BY StateIs DEF CountInv, Base, Shaped
<1>2. DOMAIN host = 1..Len(host) /\ Nesting(host, Len(host)) \in Nat
  BY <1>1, SeqLen, DepthStep
<1>3. Nesting(host, Len(host)) = Cardinality({j \in DOMAIN host : host[j].kind # "pcall"})
  BY <1>2 DEF Nesting
<1>4. Limit \in Nat
  BY CallAssumption DEF Limit
<1>. QED
  BY <1>1, <1>2, <1>3, <1>4 DEF Limit

\* The nesting of C calls never reaches LUAI_MAXCCALLS and an eighth, with any number
\* of coroutines that resume each other and whatever errors, yields and recoveries
\* happen (luaD_call, stackerror and lua_resume).
THEOREM CStackIsBounded == Spec => []CStackBounded
<1>. QED
  BY CallsAreCounted, CountBounds, PTL

-----------------------------------------------------------------------------
(* The stack and the promises. *)

\* The calls among the activations, and the CallInfo that an activation needs: the
\* caller's.
IsCall(a) == a.kind \in {"call", "handler"}
Low(a) == IF a.kind = "pcall" THEN a.at ELSE a.at - 1

\* The thread that runs after the first i activations.
Owner(h, i) == IF i = 0 THEN Main ELSE h[i].L

\* Activations that forbid yields.
NoYield(a) == (IsCall(a) /\ a.ny) \/ (a.kind = "pcall" /\ a.of = "load")
Nny(h, t, n) == Cardinality({i \in 1..n : h[i].L = t /\ NoYield(h[i])})
Base0(t) == IF t = Main THEN 1 ELSE 0

CallInfo == [lua : BOOLEAN, k : BOOLEAN, yp : BOOLEAN, ef : Nat, oldef : Nat]
lua_State ==
  [ci : Seq(CallInfo), status : {"ok", "yield", "error"}, nny : Int, nCcalls : Int, errfunc : Nat,
   open : SUBSET Nat, fn : BOOLEAN]

\* Every activation is of the thread that ran when it was made.
Linked(h) ==
  \A i \in DOMAIN h :
    /\ h[i].L \in Thread /\ h[i].kind \in {"call", "handler", "pcall", "resume"}
    /\ h[i].kind = "resume" => h[i].from = Owner(h, i - 1) /\ h[i].nny \in Int /\ h[i].ncc \in Int
    /\ h[i].kind # "resume" => h[i].L = Owner(h, i - 1) /\ h[i].at \in Nat /\ Low(h[i]) >= 1
    /\ h[i].kind = "pcall" => h[i].ncc \in Int /\ h[i].errfunc \in Nat /\ h[i].ef \in Nat

\* A protected call has saved the count of what forbids yields, and has made its call, or
\* is that of the parser.
Saved(h) ==
  \A i \in DOMAIN h : h[i].kind = "pcall" =>
    /\ h[i].nny = Base0(h[i].L) + Nny(h, h[i].L, i - 1)
    /\ i < Len(h) =>
         IF h[i].of = "load" THEN IsCall(h[i + 1]) \/ (h[i + 1].kind = "pcall" /\ h[i + 1].of # "load")
         ELSE h[i + 1].kind = "call" /\ h[i + 1].ny /\ h[i + 1].at = h[i].at + 1

\* A thread is resumed once.
Apart(h) ==
  \A j \in DOMAIN h : h[j].kind = "resume" =>
    \A i \in 0..(j - 1), k \in j..Len(h) : Owner(h, i) # Owner(h, k)

\* In each thread activations go up with the CallInfo.
Ordered(h) ==
  \A i \in DOMAIN h, k \in DOMAIN h :
    i < k /\ h[i].L = h[k].L /\ h[i].kind # "resume" /\ h[k].kind # "resume" =>
      Low(h[i]) <= Low(h[k]) /\ (IsCall(h[i]) /\ h[k].kind # "handler" => Low(h[i]) < Low(h[k]))

Fits(h, f) == \A i \in DOMAIN h : h[i].kind # "resume" => Low(h[i]) <= Len(f[h[i].L].ci)
Placed(h, f, r, x) ==
  \A i \in DOMAIN h : IsCall(h[i]) /\ (h[i].L # r \/ x = "no") => h[i].at <= Len(f[h[i].L].ci)

\* The threads that run or wait for a resume.
Owns(h, f, t, r, x) ==
  /\ ~f[t].fn /\ Len(f[t].ci) >= 1
  /\ f[t].nny = Base0(t) + Nny(h, t, Len(h))
  /\ f[t].status = "ok" \/ (x = "yield" /\ t = r /\ f[t].status = "yield")
Owners(h, f, r, x) == \A i \in 0..Len(h) : Owns(h, f, Owner(h, i), r, x)

\* A yield on its way meets no protected call before the resume.
Yields(h, f, r, x) ==
  x = "yield" => f[r].status = "yield" /\ \A i \in DOMAIN h : ~(h[i].kind = "pcall" /\ h[i].L = r)

Stacked(h, f, r, x) ==
  /\ IsSeq(h) /\ Linked(h) /\ Saved(h) /\ Apart(h) /\ Ordered(h)
  /\ Fits(h, f) /\ Placed(h, f, r, x) /\ Owners(h, f, r, x) /\ Yields(h, f, r, x)
  /\ r = Owner(h, Len(h))

\* Only the parser works right above a protected call.
Settled(h) == h # <<>> /\ Last(h).kind = "pcall" => Last(h).of = "load"

-----------------------------------------------------------------------------
(* The C stack. *)

\* What forbids yields is counted one by one.
LEMMA NnyStep ==
  ASSUME NEW h, NEW t, NEW n \in Nat
  PROVE  /\ Nny(h, t, n) \in Nat
         /\ Nny(h, t, 0) = 0
         /\ Nny(h, t, n + 1) = IF h[n + 1].L = t /\ NoYield(h[n + 1]) THEN Nny(h, t, n) + 1 ELSE Nny(h, t, n)
<1>. DEFINE P(i) == h[i].L = t /\ NoYield(h[i])
            S(k) == {i \in 1..k : P(i)}
<1>0. \A k : Nny(h, t, k) = Cardinality(S(k))
  BY DEF Nny
<1>. HIDE DEF P
<1>1. \A k \in Nat : IsFiniteSet(S(k)) /\ Cardinality(S(k)) \in Nat
  <2>. SUFFICES ASSUME NEW k \in Nat PROVE IsFiniteSet(S(k)) /\ Cardinality(S(k)) \in Nat
    OBVIOUS
  <2>1. IsFiniteSet(1..k) /\ S(k) \in SUBSET (1..k)
    BY FS_Interval
  <2>. QED
    BY <2>1, FS_Subset, FS_CardinalityType
<1>2. S(0) = {}
  OBVIOUS
<1>3. CASE P(n + 1)
  <2>1. S(n + 1) = S(n) \cup {n + 1} /\ n + 1 \notin S(n)
    BY <1>3
  <2>2. Cardinality(S(n + 1)) = Cardinality(S(n)) + 1
    BY <1>1, <2>1, FS_AddElement
  <2>. QED
    BY <1>0, <1>1, <1>2, <1>3, <2>2, FS_EmptySet DEF P
<1>4. CASE ~P(n + 1)
  <2>1. S(n + 1) = S(n)
    BY <1>4
  <2>. QED
    BY <1>0, <1>1, <1>2, <1>4, <2>1, FS_EmptySet DEF P
<1>. QED
  BY <1>3, <1>4

\* Only the activations up to n matter.
LEMMA NnySame ==
  ASSUME NEW h, NEW g, NEW t, NEW n \in Nat, \A i \in 1..n : g[i] = h[i]
  PROVE  Nny(g, t, n) = Nny(h, t, n)
<1>1. {i \in 1..n : g[i].L = t /\ NoYield(g[i])} = {i \in 1..n : h[i].L = t /\ NoYield(h[i])}
  OBVIOUS
<1>. QED
  BY <1>1 DEF Nny

\* Yields are allowed when nothing forbids them.
LEMMA NnyZero ==
  ASSUME NEW h, NEW t, NEW n \in Nat
  PROVE  Nny(h, t, n) = 0 <=> \A i \in 1..n : ~(h[i].L = t /\ NoYield(h[i]))
<1>. DEFINE P(i) == h[i].L = t /\ NoYield(h[i])
            S == {i \in 1..n : P(i)}
<1>0. Nny(h, t, n) = Cardinality(S)
  BY DEF Nny
<1>. HIDE DEF P
<1>1. IsFiniteSet(1..n) /\ S \in SUBSET (1..n)
  BY FS_Interval
<1>2. IsFiniteSet(S)
  BY <1>1, FS_Subset
<1>3. Cardinality(S) = 0 <=> S = {}
  BY <1>2, FS_EmptySet
<1>4. S = {} <=> \A i \in 1..n : ~P(i)
  OBVIOUS
<1>. QED
  BY <1>0, <1>3, <1>4 DEF P

\* A part of the C stack that is left after a jump or a return: what does not depend on
\* the threads.
LEMMA CutStack ==
  ASSUME NEW h, IsSeq(h), Linked(h), Saved(h), Apart(h), Ordered(h), NEW m \in 0..Len(h)
  PROVE  LET g == SubSeq(h, 1, m)
         IN /\ IsSeq(g) /\ Linked(g) /\ Saved(g) /\ Apart(g) /\ Ordered(g)
            /\ Len(g) = m /\ m \in Nat /\ DOMAIN g = 1..m /\ DOMAIN h = 1..Len(h) /\ Len(h) \in Nat
            /\ \A i \in 1..m : g[i] = h[i] /\ i \in DOMAIN h
            /\ \A i \in 0..m : Owner(g, i) = Owner(h, i)
            /\ \A t : \A i \in 0..m : Nny(g, t, i) = Nny(h, t, i)
<1>. DEFINE g == SubSeq(h, 1, m)
<1>1. /\ IsSeq(g) /\ Len(g) = m /\ DOMAIN g = 1..m /\ \A i \in 1..m : g[i] = h[i] /\ i \in DOMAIN h
  BY SeqCut
<1>2. Len(h) \in Nat /\ m \in Nat /\ DOMAIN h = 1..Len(h)
  BY SeqLen
<1>. HIDE DEF g
<1>3. \A i \in 0..m : Owner(g, i) = Owner(h, i)
  BY <1>1, <1>2 DEF Owner
<1>4. ASSUME NEW t, NEW i \in 0..m PROVE Nny(g, t, i) = Nny(h, t, i)
  <2>1. i \in Nat /\ \A j \in 1..i : g[j] = h[j]
    BY <1>1, <1>2
  <2>. QED
    BY <2>1, NnySame
<1>5. Linked(g)
  <2>1. \A i \in 1..m : Owner(g, i - 1) = Owner(h, i - 1)
    BY <1>2, <1>3
  <2>. QED
    BY <1>1, <2>1 DEF Linked
<1>6. Saved(g)
  <2>. SUFFICES ASSUME NEW i \in 1..m, g[i].kind = "pcall"
       PROVE  /\ g[i].nny = Base0(g[i].L) + Nny(g, g[i].L, i - 1)
              /\ i < m =>
                   IF g[i].of = "load" THEN IsCall(g[i + 1]) \/ (g[i + 1].kind = "pcall" /\ g[i + 1].of # "load")
                   ELSE g[i + 1].kind = "call" /\ g[i + 1].ny /\ g[i + 1].at = g[i].at + 1
    BY <1>1 DEF Saved
  <2>1. g[i] = h[i] /\ i \in DOMAIN h /\ Nny(g, h[i].L, i - 1) = Nny(h, h[i].L, i - 1)
    BY <1>1, <1>2, <1>4
  <2>2. i < m => g[i + 1] = h[i + 1] /\ i < Len(h)
    BY <1>1, <1>2
  <2>. QED
    BY <2>1, <2>2 DEF Saved
<1>7. Apart(g)
  <2>. SUFFICES ASSUME NEW j \in 1..m, g[j].kind = "resume", NEW i \in 0..(j - 1), NEW k \in j..m
       PROVE  Owner(g, i) # Owner(g, k)
    BY <1>1 DEF Apart
  <2>1. Owner(g, i) = Owner(h, i) /\ Owner(g, k) = Owner(h, k) /\ k \in j..Len(h) /\ g[j] = h[j] /\ j \in DOMAIN h
    BY <1>1, <1>2, <1>3
  <2>. QED
    BY <2>1 DEF Apart
<1>8. Ordered(g)
  BY <1>1 DEF Ordered
<1>. QED
  BY <1>1, <1>2, <1>3, <1>4, <1>5, <1>6, <1>7, <1>8 DEF g

\* Activations of other threads do not count.
LEMMA NnyFlat ==
  ASSUME NEW h, NEW t, NEW n \in Nat, NEW m \in 0..n, \A k \in m + 1..n : ~(h[k].L = t /\ NoYield(h[k]))
  PROVE  Nny(h, t, n) = Nny(h, t, m)
<1>1. {i \in 1..n : h[i].L = t /\ NoYield(h[i])} = {i \in 1..m : h[i].L = t /\ NoYield(h[i])}
  <2>1. \A i \in 1..n : h[i].L = t /\ NoYield(h[i]) => i \in 1..m
    OBVIOUS
  <2>. QED
    BY <2>1
<1>. QED
  BY <1>1 DEF Nny

\* The last of n + 1 activations counts or does not.
LEMMA NnyTop ==
  ASSUME NEW h, NEW t, NEW n \in Nat, NEW a, h[n + 1] = a
  PROVE  Nny(h, t, n + 1) = IF a.L = t /\ NoYield(a) THEN Nny(h, t, n) + 1 ELSE Nny(h, t, n)
BY NnyStep

\* One activation more: what does not depend on the threads.
LEMMA PushStack ==
  ASSUME NEW h, IsSeq(h), Linked(h), Saved(h), Apart(h), Ordered(h), NEW a,
         a.L \in Thread, a.kind \in {"call", "handler", "pcall", "resume"},
         a.kind = "resume" => /\ a.from = Owner(h, Len(h)) /\ a.nny \in Int /\ a.ncc \in Int
                              /\ \A i \in 0..Len(h) : Owner(h, i) # a.L,
         a.kind # "resume" => a.L = Owner(h, Len(h)) /\ a.at \in Nat /\ Low(a) >= 1,
         a.kind = "pcall" => /\ a.ncc \in Int /\ a.errfunc \in Nat /\ a.ef \in Nat
                             /\ a.nny = Base0(a.L) + Nny(h, a.L, Len(h)),
         \A i \in DOMAIN h : h[i].L = a.L /\ h[i].kind # "resume" /\ a.kind # "resume" =>
            Low(h[i]) <= Low(a) /\ (IsCall(h[i]) /\ a.kind # "handler" => Low(h[i]) < Low(a)),
         h # <<>> /\ Last(h).kind = "pcall" =>
            IF Last(h).of = "load" THEN IsCall(a) \/ (a.kind = "pcall" /\ a.of # "load")
            ELSE a.kind = "call" /\ a.ny /\ a.at = Last(h).at + 1
  PROVE  LET g == Append(h, a)
             n == Len(h)
         IN /\ IsSeq(g) /\ Linked(g) /\ Saved(g) /\ Apart(g) /\ Ordered(g)
            /\ n \in Nat /\ Len(g) = n + 1 /\ DOMAIN g = 1..n + 1 /\ DOMAIN h = 1..n /\ g[n + 1] = a
            /\ \A i \in 1..n : g[i] = h[i]
            /\ \A i \in 0..n : Owner(g, i) = Owner(h, i)
            /\ Owner(g, n + 1) = a.L
            /\ \A t : /\ Nny(h, t, n) \in Nat
                      /\ Nny(g, t, n + 1) = IF a.L = t /\ NoYield(a) THEN Nny(h, t, n) + 1 ELSE Nny(h, t, n)
<1>. DEFINE g == Append(h, a)
            n == Len(h)
<1>1. IsSeq(g) /\ Len(g) = n + 1 /\ DOMAIN g = 1..n + 1 /\ n \in Nat /\ DOMAIN h = 1..n /\ g[n + 1] = a
  BY SeqPush
<1>2. \A i \in 1..n : g[i] = h[i]
  BY SeqPush
<1>. HIDE DEF g
<1>3. \A i \in 0..n : Owner(g, i) = Owner(h, i)
  BY <1>1, <1>2 DEF Owner
<1>4. Owner(g, n + 1) = a.L
  BY <1>1 DEF Owner
<1>5. ASSUME NEW t, NEW i \in 0..n PROVE Nny(g, t, i) = Nny(h, t, i)
  <2>1. i \in Nat /\ \A j \in 1..i : g[j] = h[j]
    BY <1>1, <1>2
  <2>. QED
    BY <2>1, NnySame
<1>6. ASSUME NEW t
      PROVE  /\ Nny(h, t, n) \in Nat
             /\ Nny(g, t, n + 1) = IF a.L = t /\ NoYield(a) THEN Nny(h, t, n) + 1 ELSE Nny(h, t, n)
  <2>1. Nny(g, t, n) = Nny(h, t, n) /\ Nny(h, t, n) \in Nat
    BY <1>1, <1>5, NnyStep
  <2>. QED
    BY <1>1, <2>1, NnyTop
<1>7. Linked(g)
  <2>. SUFFICES ASSUME NEW i \in 1..n + 1
       PROVE  /\ g[i].L \in Thread /\ g[i].kind \in {"call", "handler", "pcall", "resume"}
              /\ g[i].kind = "resume" => g[i].from = Owner(g, i - 1) /\ g[i].nny \in Int /\ g[i].ncc \in Int
              /\ g[i].kind # "resume" => g[i].L = Owner(g, i - 1) /\ g[i].at \in Nat /\ Low(g[i]) >= 1
              /\ g[i].kind = "pcall" => g[i].ncc \in Int /\ g[i].errfunc \in Nat /\ g[i].ef \in Nat
    BY <1>1 DEF Linked
  <2>1. CASE i = n + 1
    <3>1. Owner(g, i - 1) = Owner(h, n) /\ g[i] = a
      BY <1>1, <1>3, <2>1
    <3>. QED
      BY <3>1
  <2>2. CASE i \in 1..n
    <3>1. Owner(g, i - 1) = Owner(h, i - 1) /\ g[i] = h[i] /\ i \in DOMAIN h
      BY <1>1, <1>2, <1>3, <2>2
    <3>. QED
      BY <3>1 DEF Linked
  <2>. QED
    BY <1>1, <2>1, <2>2
<1>8. Saved(g)
  <2>. SUFFICES ASSUME NEW i \in 1..n + 1, g[i].kind = "pcall"
       PROVE  /\ g[i].nny = Base0(g[i].L) + Nny(g, g[i].L, i - 1)
              /\ i < n + 1 =>
                   IF g[i].of = "load" THEN IsCall(g[i + 1]) \/ (g[i + 1].kind = "pcall" /\ g[i + 1].of # "load")
                   ELSE g[i + 1].kind = "call" /\ g[i + 1].ny /\ g[i + 1].at = g[i].at + 1
    BY <1>1 DEF Saved
  <2>1. CASE i = n + 1
    <3>1. g[i] = a /\ Nny(g, a.L, i - 1) = Nny(h, a.L, n) /\ ~(i < n + 1)
      BY <1>1, <1>5, <2>1
    <3>. QED
      BY <3>1
  <2>2. CASE i = n
    <3>1. g[i] = h[i] /\ i \in DOMAIN h /\ Nny(g, h[i].L, i - 1) = Nny(h, h[i].L, i - 1) /\ g[i + 1] = a /\ h # <<>> /\ Last(h) = h[i]
      BY <1>1, <1>2, <1>5, <2>2 DEF Last
    <3>. QED
      BY <3>1 DEF Saved
  <2>3. CASE i \in 1..(n - 1)
    <3>1. i \in 1..n /\ i + 1 \in 1..n /\ i - 1 \in 0..n
      BY <1>1, <2>3
    <3>2. g[i] = h[i] /\ i \in DOMAIN h /\ Nny(g, h[i].L, i - 1) = Nny(h, h[i].L, i - 1) /\ g[i + 1] = h[i + 1] /\ i < n
      BY <1>1, <1>2, <1>5, <2>3, <3>1
    <3>. QED
      BY <3>2 DEF Saved
  <2>4. i = n + 1 \/ i = n \/ i \in 1..(n - 1)
    BY <1>1
  <2>. QED
    BY <2>1, <2>2, <2>3, <2>4
<1>9. Apart(g)
  <2>. SUFFICES ASSUME NEW j \in 1..n + 1, g[j].kind = "resume", NEW i \in 0..(j - 1), NEW k \in j..n + 1
       PROVE  Owner(g, i) # Owner(g, k)
    BY <1>1 DEF Apart
  <2>0. i \in 0..n /\ Owner(g, i) = Owner(h, i)
    BY <1>1, <1>3
  <2>1. CASE j = n + 1
    <3>1. g[j] = a /\ k = n + 1
      BY <1>1, <2>1
    <3>. QED
      BY <1>4, <2>0, <3>1
  <2>2. CASE j \in 1..n /\ k \in 1..n
    <3>1. Owner(g, k) = Owner(h, k) /\ g[j] = h[j] /\ j \in DOMAIN h /\ k \in j..Len(h)
      BY <1>1, <1>2, <1>3, <2>2
    <3>. QED
      BY <2>0, <3>1 DEF Apart
  <2>3. CASE j \in 1..n /\ k = n + 1
    <3>1. g[j] = h[j] /\ j \in DOMAIN h /\ n \in j..Len(h) /\ n \in 0..n
      BY <1>1, <1>2, <2>3
    <3>2. Owner(h, i) # Owner(h, n)
      BY <3>1 DEF Apart
    <3>3. CASE a.kind = "resume"
      BY <1>4, <2>0, <2>3, <3>3
    <3>4. CASE a.kind # "resume"
      BY <1>4, <2>0, <2>3, <3>2, <3>4
    <3>. QED
      BY <3>3, <3>4
  <2>. QED
    BY <1>1, <2>1, <2>2, <2>3
<1>10. Ordered(g)
  <2>. SUFFICES ASSUME NEW i \in 1..n + 1, NEW k \in 1..n + 1, i < k, g[i].L = g[k].L,
                       g[i].kind # "resume", g[k].kind # "resume"
       PROVE  Low(g[i]) <= Low(g[k]) /\ (IsCall(g[i]) /\ g[k].kind # "handler" => Low(g[i]) < Low(g[k]))
    BY <1>1 DEF Ordered
  <2>1. i \in DOMAIN h /\ g[i] = h[i]
    BY <1>1, <1>2
  <2>2. CASE k = n + 1
    BY <1>1, <2>1, <2>2
  <2>3. CASE k \in 1..n
    BY <1>1, <1>2, <2>1, <2>3 DEF Ordered
  <2>. QED
    BY <1>1, <2>2, <2>3
<1>. QED
  BY <1>1, <1>2, <1>3, <1>4, <1>6, <1>7, <1>8, <1>9, <1>10 DEF g

\* Between two points where the same thread runs it has run all the time.
LEMMA OneRun ==
  ASSUME NEW h, IsSeq(h), Linked(h), Apart(h), NEW m \in 0..Len(h), NEW n \in m..Len(h), Owner(h, m) = Owner(h, n)
  PROVE  \A k \in m + 1..n : h[k].kind # "resume" /\ h[k].L = Owner(h, m)
<1>1. Len(h) \in Nat /\ DOMAIN h = 1..Len(h)
  BY SeqLen
<1>2. ASSUME NEW k \in m + 1..n PROVE h[k].kind # "resume" /\ k \in DOMAIN h
  <2>1. k \in DOMAIN h /\ m \in 0..(k - 1) /\ n \in k..Len(h)
    BY <1>1
  <2>. QED
    BY <2>1 DEF Apart
<1>3. SUFFICES ASSUME \E k \in m + 1..n : h[k].L # Owner(h, m) PROVE FALSE
  BY <1>2
<1>. DEFINE T == {k \in m + 1..n : h[k].L # Owner(h, m)}
<1>4. T \subseteq Nat /\ T # {}
  BY <1>1, <1>3
<1>5. PICK k \in T : \A j \in T : ~(<<j, k>> \in OpToRel(<, Nat))
  BY <1>4, NatLessThanWellFounded, WFMin
<1>6. \A j \in T : ~(j < k)
  BY <1>4, <1>5 DEF OpToRel
<1>7. h[k].L = Owner(h, k - 1) /\ k \in m + 1..n
  BY <1>2 DEF Linked
<1>8. CASE k = m + 1
  BY <1>1, <1>7, <1>8
<1>9. CASE k - 1 \in m + 1..n
  <2>1. k - 1 \in T
    BY <1>1, <1>7, <1>9 DEF Owner
  <2>. QED
    BY <1>1, <1>6, <2>1
<1>. QED
  BY <1>1, <1>7, <1>8, <1>9

\* What depends on the threads, after a step that leaves activations of the running
\* thread and nothing else.
LEMMA LeaveStack ==
  ASSUME NEW h, NEW f, NEW r, NEW x, NEW m \in 0..Len(h), NEW u, NEW y, NEW e,
         DOMAIN f = Thread, Stacked(h, f, r, x), r \in Thread, Owner(h, m) = r, ~u.fn, Len(u.ci) >= 1,
         u.nny = Base0(r) + Nny(h, r, m), u.status = "ok" \/ (y = "yield" /\ u.status = "yield"),
         y = "yield" => u.status = "yield" /\ \A i \in 1..m : ~(h[i].kind = "pcall" /\ h[i].L = r),
         \A i \in 1..m : h[i].kind # "resume" /\ h[i].L = r =>
            Low(h[i]) <= Len(u.ci) /\ (IsCall(h[i]) /\ y = "no" => h[i].at <= Len(u.ci)),
         e = [f EXCEPT ![r] = u]
  PROVE  Stacked(SubSeq(h, 1, m), e, r, y)
<1>. DEFINE g == SubSeq(h, 1, m)
<1>1. /\ IsSeq(g) /\ Linked(g) /\ Saved(g) /\ Apart(g) /\ Ordered(g)
      /\ Len(g) = m /\ m \in Nat /\ DOMAIN g = 1..m /\ DOMAIN h = 1..Len(h) /\ Len(h) \in Nat
  BY CutStack DEF Stacked
<1>2. /\ \A i \in 1..m : g[i] = h[i] /\ i \in DOMAIN h
      /\ \A i \in 0..m : Owner(g, i) = Owner(h, i)
      /\ \A t : \A i \in 0..m : Nny(g, t, i) = Nny(h, t, i)
  BY CutStack DEF Stacked
<1>3. \A t \in Thread : e[t] = IF t = r THEN u ELSE f[t]
  OBVIOUS
<1>. HIDE DEF g
<1>4. \A i \in 1..m : g[i].L \in Thread
  BY <1>1 DEF Linked
<1>5. Fits(g, e)
  BY <1>1, <1>2, <1>3, <1>4 DEF Fits, Stacked
<1>6. Placed(g, e, r, y)
  <2>. SUFFICES ASSUME NEW i \in 1..m, IsCall(g[i]), g[i].L # r \/ y = "no"
       PROVE  g[i].at <= Len(e[g[i].L].ci)
    BY <1>1 DEF Placed
  <2>1. g[i] = h[i] /\ i \in DOMAIN h /\ g[i].L \in Thread /\ h[i].kind # "resume"
    BY <1>2, <1>4 DEF IsCall
  <2>2. CASE h[i].L = r
    BY <1>3, <2>1, <2>2
  <2>3. CASE h[i].L # r
    BY <1>3, <2>1, <2>3 DEF Placed, Stacked
  <2>. QED
    BY <2>2, <2>3
<1>7. Owners(g, e, r, y)
  <2>. SUFFICES ASSUME NEW i \in 0..m PROVE Owns(g, e, Owner(g, i), r, y)
    BY <1>1 DEF Owners
  <2>. DEFINE t == Owner(h, i)
  <2>1. t = Owner(g, i) /\ i \in 0..Len(h)
    BY <1>1, <1>2
  <2>2. t \in Thread
    BY <1>1, <1>2, <2>1 DEF Owner, Thread, Linked
  <2>3. Nny(g, t, m) = Nny(h, t, m)
    BY <1>1, <1>2
  <2>4. CASE t = r
    BY <1>1, <1>3, <2>1, <2>3, <2>4 DEF Owns
  <2>5. CASE t # r
    <3>1. Owns(h, f, t, r, x)
      BY <2>1 DEF Owners, Stacked
    <3>2. Nny(h, t, Len(h)) = Nny(h, t, m)
      <4>1. \A k \in m + 1..Len(h) : h[k].L # t
        BY <1>1, <2>5, OneRun DEF Stacked
      <4>. QED
        BY <1>1, <4>1, NnyFlat
    <3>. QED
      BY <1>1, <1>3, <2>1, <2>2, <2>3, <2>5, <3>1, <3>2 DEF Owns
  <2>. QED
    BY <2>4, <2>5
<1>8. Yields(g, e, r, y)
  BY <1>1, <1>2, <1>3 DEF Yields
<1>. QED
  BY <1>1, <1>2, <1>5, <1>6, <1>7, <1>8 DEF Stacked, g

\* The threads of the activations are threads.
LEMMA OwnerIn ==
  ASSUME NEW h, IsSeq(h), Linked(h), NEW i \in 0..Len(h)
  PROVE  Owner(h, i) \in Thread
<1>1. DOMAIN h = 1..Len(h) /\ Len(h) \in Nat
  BY SeqLen
<1>. QED
  BY <1>1 DEF Owner, Thread, Linked

\* A thread that neither runs nor waits may change, and any thread in what is not looked
\* at here.
LEMMA OtherStack ==
  ASSUME NEW h, NEW f, NEW r, NEW x, NEW t \in Thread, NEW u, NEW e,
         DOMAIN f = Thread, Stacked(h, f, r, x),
         \/ \A i \in 0..Len(h) : Owner(h, i) # t
         \/ u.ci = f[t].ci /\ u.status = f[t].status /\ u.nny = f[t].nny /\ u.fn = f[t].fn,
         e = [f EXCEPT ![t] = u]
  PROVE  Stacked(h, e, r, x)
<1>1. \A o \in Thread : e[o] = IF o = t THEN u ELSE f[o]
  OBVIOUS
<1>2. DOMAIN h = 1..Len(h) /\ Len(h) \in Nat
  BY SeqLen DEF Stacked
<1>3. \A i \in 0..Len(h) : LET o == Owner(h, i)
        IN o \in Thread /\ e[o].ci = f[o].ci /\ e[o].status = f[o].status /\ e[o].nny = f[o].nny /\ e[o].fn = f[o].fn
  BY <1>1, OwnerIn DEF Stacked
<1>4. \A i \in DOMAIN h : e[h[i].L].ci = f[h[i].L].ci
  <2>1. \A i \in DOMAIN h : i \in 0..Len(h) /\ h[i].L = Owner(h, i)
    BY <1>2 DEF Owner
  <2>. QED
    BY <1>3, <2>1
<1>5. r = Owner(h, Len(h)) /\ Len(h) \in 0..Len(h)
  BY <1>2 DEF Stacked
<1>6. Fits(h, e) /\ Placed(h, e, r, x)
  BY <1>4 DEF Fits, Placed, Stacked
<1>7. Owners(h, e, r, x)
  BY <1>3 DEF Owners, Owns, Stacked
<1>8. Yields(h, e, r, x)
  BY <1>3, <1>5 DEF Yields, Stacked
<1>. QED
  BY <1>6, <1>7, <1>8 DEF Stacked

\* The end of a resume gives the control to the thread below, whatever becomes of the one
\* that ends or has yielded.
LEMMA EndResumeStack ==
  ASSUME NEW h, NEW f, NEW r, NEW x, NEW u, NEW e,
         DOMAIN f = Thread, Stacked(h, f, r, x), h # <<>>, Last(h).kind = "resume",
         e = [f EXCEPT ![r] = u]
  PROVE  /\ Stacked(Pop(h), e, Last(h).from, "no")
         /\ Last(h).L = r /\ r \in Thread /\ Last(h).from \in Thread
<1>. DEFINE n == Len(h)
            m == Len(h) - 1
            g == SubSeq(h, 1, m)
            o == Last(h).from
<1>1. n \in Nat /\ m \in Nat /\ m + 1 = n /\ m \in 0..n /\ n \in DOMAIN h /\ DOMAIN h = 1..n /\ Last(h) = h[n]
  BY SeqLen DEF Stacked, Last
<1>. HIDE DEF m
<1>2. /\ IsSeq(g) /\ Linked(g) /\ Saved(g) /\ Apart(g) /\ Ordered(g)
      /\ Len(g) = m /\ DOMAIN g = 1..m
  BY <1>1, CutStack DEF Stacked
<1>3. /\ \A i \in 1..m : g[i] = h[i] /\ i \in DOMAIN h
      /\ \A i \in 0..m : Owner(g, i) = Owner(h, i)
      /\ \A t : \A i \in 0..m : Nny(g, t, i) = Nny(h, t, i)
  BY <1>1, CutStack DEF Stacked
<1>. HIDE DEF g
<1>4. h[n].L = r /\ o = Owner(h, m) /\ Owner(h, n) = r
  BY <1>1 DEF Stacked, Linked, Owner
<1>5. r \in Thread /\ o \in Thread
  BY <1>1, <1>4, OwnerIn DEF Stacked
<1>6. \A t \in Thread : e[t] = IF t = r THEN u ELSE f[t]
  OBVIOUS
<1>. HIDE DEF o
<1>7. \A i \in 0..m : Owner(h, i) # r /\ Owner(h, i) \in Thread
  <2>. SUFFICES ASSUME NEW i \in 0..m PROVE Owner(h, i) # r /\ Owner(h, i) \in Thread
    OBVIOUS
  <2>1. i \in 0..(n - 1) /\ n \in n..Len(h) /\ i \in 0..Len(h)
    BY <1>1
  <2>2. Owner(h, i) # Owner(h, n)
    BY <1>1, <2>1 DEF Stacked, Apart
  <2>. QED
    BY <1>4, <2>1, <2>2, OwnerIn DEF Stacked
<1>8. \A i \in 1..m : g[i].L = Owner(h, i) /\ g[i].L # r /\ g[i].L \in Thread
  BY <1>1, <1>3, <1>7 DEF Owner
<1>9. Fits(g, e)
  BY <1>2, <1>3, <1>6, <1>8 DEF Fits, Stacked
<1>10. Placed(g, e, o, "no")
  BY <1>2, <1>3, <1>6, <1>8 DEF Placed, Stacked
<1>11. Owners(g, e, o, "no")
  <2>. SUFFICES ASSUME NEW i \in 0..m PROVE Owns(g, e, Owner(g, i), o, "no")
    BY <1>2 DEF Owners
  <2>. DEFINE t == Owner(h, i)
  <2>1. Owner(g, i) = t /\ t # r /\ t \in Thread /\ i \in 0..Len(h)
    BY <1>1, <1>3, <1>7
  <2>2. Owns(h, f, t, r, x)
    BY <2>1 DEF Owners, Stacked
  <2>3. Nny(h, t, n) = Nny(h, t, m)
    <3>1. \A k \in m + 1..n : ~(h[k].L = t /\ NoYield(h[k]))
      BY <1>1, <1>4, <2>1
    <3>. QED
      BY <1>1, <3>1, NnyFlat
  <2>4. Nny(g, t, m) = Nny(h, t, m)
    BY <1>1, <1>3
  <2>. HIDE DEF t
  <2>. QED
    BY <1>2, <1>6, <2>1, <2>2, <2>3, <2>4 DEF Owns
<1>12. Yields(g, e, o, "no")
  BY DEF Yields
<1>13. o = Owner(g, m)
  BY <1>1, <1>3, <1>4
<1>14. Stacked(g, e, o, "no")
  BY <1>2, <1>9, <1>10, <1>11, <1>12, <1>13 DEF Stacked
<1>15. g = Pop(h)
  BY DEF g, m, Pop
<1>. QED
  BY <1>1, <1>4, <1>5, <1>14, <1>15 DEF o

\* The list of CallInfo has a length.
LEMMA LenIs ==
  ASSUME NEW f \in [Thread -> lua_State], NEW t \in Thread
  PROVE  Len(f[t].ci) \in Nat /\ IsSeq(f[t].ci) /\ f[t].ci \in Seq(CallInfo)
<1>1. f[t] \in lua_State
  OBVIOUS
<1>2. f[t].ci \in Seq(CallInfo)
  BY <1>1 DEF lua_State
<1>. QED
  BY <1>2 DEF IsSeq

\* What the owner of the stack's top is, when no yield is on its way.
LEMMA TopOwner ==
  ASSUME NEW h, NEW f \in [Thread -> lua_State], NEW r, NEW x, Stacked(h, f, r, x)
  PROVE  /\ Len(h) \in Nat /\ DOMAIN h = 1..Len(h) /\ r = Owner(h, Len(h)) /\ r \in Thread
         /\ Owns(h, f, r, r, x)
         /\ Len(f[r].ci) \in Nat /\ Len(f[r].ci) >= 1
<1>1. Len(h) \in Nat /\ DOMAIN h = 1..Len(h) /\ r = Owner(h, Len(h)) /\ Len(h) \in 0..Len(h)
  BY SeqLen DEF Stacked
<1>2. r \in Thread
  BY <1>1, OwnerIn DEF Stacked
<1>3. Owns(h, f, r, r, x)
  BY <1>1 DEF Owners, Stacked
<1>4. Len(f[r].ci) \in Nat
  BY <1>2, LenIs
<1>. QED
  BY <1>1, <1>2, <1>3, <1>4 DEF Owns

\* luaD_call, with or without its CallInfo.
LEMMA PushCallStack ==
  ASSUME NEW h, NEW f \in [Thread -> lua_State], NEW r, NEW x, NEW a, NEW y, NEW u, NEW e,
         Stacked(h, f, r, x), x # "yield", a.kind \in {"call", "handler"}, a.kind = "call" => x = "no",
         a.L = r, a.at = Len(f[r].ci) + 1, a.ny \in BOOLEAN,
         h # <<>> /\ Last(h).kind = "pcall" /\ Last(h).of # "load" =>
           a.kind = "call" /\ a.ny /\ Last(h).at = Len(f[r].ci),
         y # "yield", ~u.fn, u.status = "ok", u.nny = IF a.ny THEN f[r].nny + 1 ELSE f[r].nny,
         Len(u.ci) = IF y = "no" THEN Len(f[r].ci) + 1 ELSE Len(f[r].ci), e = [f EXCEPT ![r] = u]
  PROVE  Stacked(Append(h, a), e, r, y) /\ Settled(Append(h, a))
<1>. DEFINE n == Len(h)
            g == Append(h, a)
            d == Len(f[r].ci)
<1>1. /\ n \in Nat /\ DOMAIN h = 1..n /\ r = Owner(h, n) /\ r \in Thread
      /\ Owns(h, f, r, r, x) /\ d \in Nat /\ d >= 1
  BY TopOwner
<1>2. IsCall(a) /\ Low(a) = d /\ a.kind # "pcall" /\ a.kind # "resume"
  BY <1>1 DEF IsCall, Low
<1>. HIDE DEF n, d
<1>3. ASSUME NEW i \in DOMAIN h, h[i].L = a.L, h[i].kind # "resume"
      PROVE  Low(h[i]) <= Low(a) /\ (IsCall(h[i]) /\ a.kind # "handler" => Low(h[i]) < Low(a))
  <2>1. Low(h[i]) <= d
    BY <1>3 DEF Stacked, Fits, d
  <2>2. CASE IsCall(h[i]) /\ a.kind # "handler"
    <3>1. h[i].at <= d
      BY <1>3, <2>2 DEF Stacked, Placed, d
    <3>2. h[i].at \in Nat /\ Low(h[i]) = h[i].at - 1
      BY <1>3, <2>2 DEF Stacked, Linked, Low, IsCall
    <3>. QED
      BY <1>1, <1>2, <3>1, <3>2
  <2>. QED
    BY <1>2, <2>1, <2>2
<1>4. h # <<>> /\ Last(h).kind = "pcall" =>
            IF Last(h).of = "load" THEN IsCall(a) \/ (a.kind = "pcall" /\ a.of # "load")
            ELSE a.kind = "call" /\ a.ny /\ a.at = Last(h).at + 1
  BY <1>2
<1>5. a.at \in Nat /\ Low(a) >= 1 /\ a.L \in Thread /\ a.kind \in {"call", "handler", "pcall", "resume"} /\ a.L = Owner(h, Len(h))
  BY <1>1, <1>2 DEF d, n
<1>6. /\ IsSeq(g) /\ Linked(g) /\ Saved(g) /\ Apart(g) /\ Ordered(g)
      /\ Len(g) = n + 1 /\ DOMAIN g = 1..n + 1 /\ g[n + 1] = a
  BY <1>2, <1>3, <1>4, <1>5, PushStack DEF Stacked, n
<1>7. /\ \A i \in 1..n : g[i] = h[i]
      /\ \A i \in 0..n : Owner(g, i) = Owner(h, i)
      /\ Owner(g, n + 1) = a.L
  BY <1>2, <1>3, <1>4, <1>5, PushStack DEF Stacked, n
<1>8. \A t : /\ Nny(h, t, n) \in Nat
             /\ Nny(g, t, n + 1) = IF a.L = t /\ NoYield(a) THEN Nny(h, t, n) + 1 ELSE Nny(h, t, n)
  BY <1>2, <1>3, <1>4, <1>5, PushStack DEF Stacked, n
<1>. HIDE DEF g
<1>9. \A t \in Thread : e[t] = IF t = r THEN u ELSE f[t]
  OBVIOUS
<1>10. NoYield(a) <=> a.ny
  BY <1>2 DEF NoYield
<1>11. \A t \in Thread : Len(f[t].ci) <= Len(e[t].ci)
  BY <1>1, <1>9, LenIs DEF d
<1>12. Fits(g, e)
  <2>. SUFFICES ASSUME NEW i \in 1..n + 1, g[i].kind # "resume"
       PROVE  Low(g[i]) <= Len(e[g[i].L].ci)
    BY <1>6 DEF Fits
  <2>1. CASE i = n + 1
    BY <1>1, <1>2, <1>6, <1>9, <2>1 DEF d
  <2>2. CASE i \in 1..n
    <3>1. g[i] = h[i] /\ i \in DOMAIN h /\ h[i].L \in Thread /\ Low(h[i]) \in Int
      BY <1>1, <1>7, <2>2 DEF Stacked, Linked, Low
    <3>2. Low(h[i]) <= Len(f[h[i].L].ci)
      BY <3>1 DEF Stacked, Fits
    <3>3. Len(f[h[i].L].ci) \in Nat /\ Len(e[h[i].L].ci) \in Nat
      BY <1>1, <1>9, <3>1, LenIs DEF d
    <3>. QED
      BY <1>11, <3>1, <3>2, <3>3
  <2>. QED
    BY <1>1, <2>1, <2>2
<1>13. Placed(g, e, r, y)
  <2>. SUFFICES ASSUME NEW i \in 1..n + 1, IsCall(g[i]), g[i].L # r \/ y = "no"
       PROVE  g[i].at <= Len(e[g[i].L].ci)
    BY <1>6 DEF Placed
  <2>1. CASE i = n + 1
    BY <1>1, <1>2, <1>6, <1>9, <2>1 DEF d
  <2>2. CASE i \in 1..n
    <3>1. g[i] = h[i] /\ i \in DOMAIN h /\ h[i].L \in Thread /\ Low(h[i]) = h[i].at - 1 /\ h[i].at \in Nat /\ h[i].kind # "resume"
      BY <1>1, <1>7, <2>2 DEF Stacked, Linked, Low, IsCall
    <3>2. CASE h[i].L = r
      <4>1. Low(h[i]) <= d
        BY <3>1, <3>2 DEF Stacked, Fits, d
      <4>2. Len(e[r].ci) = d + 1
        BY <1>1, <1>9, <3>1, <3>2 DEF d
      <4>. QED
        BY <1>1, <3>1, <3>2, <4>1, <4>2
    <3>3. CASE h[i].L # r
      <4>1. h[i].at <= Len(f[h[i].L].ci)
        BY <3>1, <3>3 DEF Stacked, Placed
      <4>. QED
        BY <1>9, <3>1, <3>3, <4>1
    <3>. QED
      BY <3>2, <3>3
  <2>. QED
    BY <1>1, <2>1, <2>2
<1>14. Owners(g, e, r, y)
  <2>. SUFFICES ASSUME NEW i \in 0..n PROVE Owns(g, e, Owner(h, i), r, y)
    <3>1. ASSUME NEW i \in 0..n + 1 PROVE \E k \in 0..n : Owner(g, i) = Owner(h, k)
      <4>1. CASE i \in 0..n
        BY <1>7, <4>1
      <4>2. CASE i = n + 1
        BY <1>1, <1>7, <4>2
      <4>. QED
        BY <1>1, <4>1, <4>2
    <3>. QED
      BY <1>6, <3>1 DEF Owners
  <2>. DEFINE t == Owner(h, i)
  <2>1. t \in Thread /\ Owns(h, f, t, r, x)
    BY OwnerIn DEF Owners, Stacked, n
  <2>. HIDE DEF t
  <2>2. CASE t = r
    <3>1. e[r] = u /\ f[r].nny = Base0(r) + Nny(h, r, n) /\ Base0(r) \in Nat
      BY <1>1, <1>9 DEF Owns, n, Base0
    <3>2. u.nny = Base0(r) + Nny(g, r, n + 1)
      <4>1. Nny(h, r, n) \in Nat
        BY <1>8
      <4>2. CASE a.ny
        <5>1. Nny(g, r, n + 1) = Nny(h, r, n) + 1
          BY <1>8, <1>10, <4>2
        <5>. QED
          BY <3>1, <4>1, <4>2, <5>1
      <4>3. CASE ~a.ny
        <5>1. Nny(g, r, n + 1) = Nny(h, r, n)
          BY <1>8, <1>10, <4>3
        <5>. QED
          BY <3>1, <4>1, <4>3, <5>1
      <4>. QED
        BY <4>2, <4>3
    <3>3. Len(u.ci) >= 1
      BY <1>1 DEF d
    <3>4. Owns(g, e, r, r, y)
      BY <1>6, <3>1, <3>2, <3>3 DEF Owns
    <3>. QED
      BY <2>2, <3>4 DEF t
  <2>3. CASE t # r
    <3>1. Nny(g, t, n + 1) = Nny(h, t, n) /\ e[t] = f[t]
      BY <1>8, <1>9, <2>1, <2>3
    <3>. QED
      BY <1>6, <2>1, <2>3, <3>1 DEF Owns, n, t
  <2>. QED
    BY <2>2, <2>3 DEF t
<1>15. Yields(g, e, r, y)
  BY DEF Yields
<1>16. r = Owner(g, Len(g)) /\ Last(g).kind # "pcall"
  BY <1>2, <1>6, <1>7 DEF Last
<1>. QED
  BY <1>6, <1>12, <1>13, <1>14, <1>15, <1>16 DEF Stacked, Settled, g

\* luaD_pcall before the call.
LEMMA PushPcallStack ==
  ASSUME NEW h, NEW f \in [Thread -> lua_State], NEW r, NEW a, NEW u, NEW e,
         Stacked(h, f, r, "no"), Settled(h), a.kind = "pcall", a.L = r, a.at = Len(f[r].ci),
         a.nny = f[r].nny, a.ncc \in Int, a.errfunc \in Nat, a.ef \in Nat,
         h # <<>> /\ Last(h).kind = "pcall" => a.of # "load", u.fn = f[r].fn, u.status = f[r].status,
         u.ci = f[r].ci, u.nny = IF a.of = "load" THEN f[r].nny + 1 ELSE f[r].nny,
         e = [f EXCEPT ![r] = u]
  PROVE  Stacked(Append(h, a), e, r, "no")
<1>. DEFINE n == Len(h)
            g == Append(h, a)
            d == Len(f[r].ci)
<1>1. /\ n \in Nat /\ DOMAIN h = 1..n /\ r = Owner(h, n) /\ r \in Thread
      /\ Owns(h, f, r, r, "no") /\ d \in Nat /\ d >= 1
  BY TopOwner
<1>2. Low(a) = d /\ ~IsCall(a) /\ a.kind # "handler" /\ a.kind # "resume"
  BY DEF IsCall, Low
<1>. HIDE DEF n, d
<1>3. ASSUME NEW i \in DOMAIN h, h[i].L = a.L, h[i].kind # "resume"
      PROVE  Low(h[i]) <= Low(a) /\ (IsCall(h[i]) /\ a.kind # "handler" => Low(h[i]) < Low(a))
  <2>1. Low(h[i]) <= d
    BY <1>3 DEF Stacked, Fits, d
  <2>2. CASE IsCall(h[i])
    <3>1. h[i].at <= d
      BY <1>3, <2>2 DEF Stacked, Placed, d
    <3>2. h[i].at \in Nat /\ Low(h[i]) = h[i].at - 1
      BY <1>3, <2>2 DEF Stacked, Linked, Low, IsCall
    <3>. QED
      BY <1>1, <1>2, <3>1, <3>2
  <2>. QED
    BY <1>2, <2>1, <2>2
<1>4. h # <<>> /\ Last(h).kind = "pcall" =>
            IF Last(h).of = "load" THEN IsCall(a) \/ (a.kind = "pcall" /\ a.of # "load")
            ELSE a.kind = "call" /\ a.ny /\ a.at = Last(h).at + 1
  BY <1>2 DEF Settled
<1>5. /\ a.at \in Nat /\ Low(a) >= 1 /\ a.L \in Thread /\ a.kind \in {"call", "handler", "pcall", "resume"} /\ a.L = Owner(h, Len(h))
      /\ a.nny = Base0(a.L) + Nny(h, a.L, Len(h))
  BY <1>1, <1>2 DEF d, n, Owns
<1>6. /\ IsSeq(g) /\ Linked(g) /\ Saved(g) /\ Apart(g) /\ Ordered(g)
      /\ Len(g) = n + 1 /\ DOMAIN g = 1..n + 1 /\ g[n + 1] = a
  BY <1>2, <1>3, <1>4, <1>5, PushStack DEF Stacked, n
<1>7. /\ \A i \in 1..n : g[i] = h[i]
      /\ \A i \in 0..n : Owner(g, i) = Owner(h, i)
      /\ Owner(g, n + 1) = a.L
  BY <1>2, <1>3, <1>4, <1>5, PushStack DEF Stacked, n
<1>8. \A t : /\ Nny(h, t, n) \in Nat
             /\ Nny(g, t, n + 1) = IF a.L = t /\ NoYield(a) THEN Nny(h, t, n) + 1 ELSE Nny(h, t, n)
  BY <1>2, <1>3, <1>4, <1>5, PushStack DEF Stacked, n
<1>. HIDE DEF g
<1>9. \A t \in Thread : e[t] = IF t = r THEN u ELSE f[t]
  OBVIOUS
<1>10. NoYield(a) <=> a.of = "load"
  BY <1>2 DEF NoYield
<1>11. \A t \in Thread : e[t].ci = f[t].ci /\ e[t].fn = f[t].fn /\ e[t].status = f[t].status
  BY <1>1, <1>9
<1>12. Fits(g, e) /\ Placed(g, e, r, "no")
  <2>. SUFFICES ASSUME NEW i \in 1..n + 1
       PROVE  /\ g[i].kind # "resume" => Low(g[i]) <= Len(e[g[i].L].ci)
              /\ IsCall(g[i]) => g[i].at <= Len(e[g[i].L].ci)
    BY <1>6 DEF Fits, Placed
  <2>1. CASE i = n + 1
    BY <1>1, <1>2, <1>6, <1>11, <2>1 DEF d
  <2>2. CASE i \in 1..n
    <3>1. g[i] = h[i] /\ i \in DOMAIN h /\ h[i].L \in Thread
      BY <1>1, <1>7, <2>2 DEF Stacked, Linked
    <3>. QED
      BY <1>11, <3>1 DEF Stacked, Fits, Placed
  <2>. QED
    BY <1>1, <2>1, <2>2
<1>14. Owners(g, e, r, "no")
  <2>. SUFFICES ASSUME NEW i \in 0..n PROVE Owns(g, e, Owner(h, i), r, "no")
    <3>1. ASSUME NEW i \in 0..n + 1 PROVE \E k \in 0..n : Owner(g, i) = Owner(h, k)
      <4>1. CASE i \in 0..n
        BY <1>7, <4>1
      <4>2. CASE i = n + 1
        BY <1>1, <1>7, <4>2
      <4>. QED
        BY <1>1, <4>1, <4>2
    <3>. QED
      BY <1>6, <3>1 DEF Owners
  <2>. DEFINE t == Owner(h, i)
  <2>1. t \in Thread /\ Owns(h, f, t, r, "no")
    BY OwnerIn DEF Owners, Stacked, n
  <2>. HIDE DEF t
  <2>2. e[t].nny = Base0(t) + Nny(g, t, n + 1)
    <3>1. f[t].nny = Base0(t) + Nny(h, t, n) /\ Base0(t) \in Nat /\ Nny(h, t, n) \in Nat
      BY <1>8, <2>1 DEF Owns, n, Base0
    <3>2. CASE t = r /\ a.of = "load"
      <4>1. Nny(g, t, n + 1) = Nny(h, t, n) + 1 /\ e[t].nny = f[t].nny + 1
        BY <1>1, <1>8, <1>9, <1>10, <3>2
      <4>. QED
        BY <3>1, <4>1
    <3>3. CASE ~(t = r /\ a.of = "load")
      <4>1. Nny(g, t, n + 1) = Nny(h, t, n)
        BY <1>8, <1>10, <3>3
      <4>2. e[t].nny = f[t].nny
        BY <1>9, <2>1, <3>3
      <4>. QED
        BY <3>1, <4>1, <4>2
    <3>. QED
      BY <3>2, <3>3
  <2>. QED
    BY <1>6, <1>11, <2>1, <2>2 DEF Owns, t
<1>15. Yields(g, e, r, "no")
  BY DEF Yields
<1>16. r = Owner(g, Len(g))
  BY <1>6, <1>7
<1>. QED
  BY <1>6, <1>12, <1>14, <1>15, <1>16 DEF Stacked, g

\* lua_resume.
LEMMA PushResumeStack ==
  ASSUME NEW h, NEW f \in [Thread -> lua_State], NEW r, NEW co \in Thread, NEW a, NEW u, NEW e,
         Stacked(h, f, r, "no"), h # <<>> => Last(h).kind # "pcall",
         \A i \in 0..Len(h) : Owner(h, i) # co, a.kind = "resume", a.L = co, a.from = r, a.nny \in Int,
         a.ncc \in Int, ~u.fn, u.status = "ok", u.nny = 0, Len(u.ci) >= 1, e = [f EXCEPT ![co] = u]
  PROVE  Stacked(Append(h, a), e, co, "no") /\ Settled(Append(h, a))
<1>. DEFINE n == Len(h)
            g == Append(h, a)
<1>1. n \in Nat /\ DOMAIN h = 1..n /\ r = Owner(h, n) /\ r \in Thread
  BY TopOwner
<1>2. ~IsCall(a) /\ a.kind # "pcall" /\ ~NoYield(a) /\ a.kind \in {"call", "handler", "pcall", "resume"}
  BY DEF IsCall, NoYield
<1>3. a.from = Owner(h, Len(h)) /\ \A i \in 0..Len(h) : Owner(h, i) # a.L
  BY <1>1
<1>. HIDE DEF n
<1>6. /\ IsSeq(g) /\ Linked(g) /\ Saved(g) /\ Apart(g) /\ Ordered(g)
      /\ Len(g) = n + 1 /\ DOMAIN g = 1..n + 1 /\ g[n + 1] = a
  BY <1>2, <1>3, PushStack DEF Stacked, n
<1>7. /\ \A i \in 1..n : g[i] = h[i]
      /\ \A i \in 0..n : Owner(g, i) = Owner(h, i)
      /\ Owner(g, n + 1) = a.L
  BY <1>2, <1>3, PushStack DEF Stacked, n
<1>8. \A t : Nny(g, t, n + 1) = Nny(h, t, n)
  BY <1>2, <1>3, PushStack DEF Stacked, n
<1>. HIDE DEF g
<1>9. \A t \in Thread : e[t] = IF t = co THEN u ELSE f[t]
  OBVIOUS
<1>10. \A i \in 1..n : g[i] = h[i] /\ i \in DOMAIN h /\ h[i].L \in Thread /\ h[i].L # co
  <2>. SUFFICES ASSUME NEW i \in 1..n PROVE g[i] = h[i] /\ i \in DOMAIN h /\ h[i].L \in Thread /\ h[i].L # co
    OBVIOUS
  <2>1. i \in 0..Len(h) /\ Owner(h, i) = h[i].L /\ i \in DOMAIN h /\ g[i] = h[i]
    BY <1>1, <1>7 DEF Owner, n
  <2>. QED
    BY <2>1 DEF Stacked, Linked
<1>11. Main = Owner(h, 0) /\ 0 \in 0..n
  BY <1>1 DEF Owner
<1>12. Fits(g, e) /\ Placed(g, e, co, "no")
  <2>. SUFFICES ASSUME NEW i \in 1..n + 1
       PROVE  /\ g[i].kind # "resume" => Low(g[i]) <= Len(e[g[i].L].ci)
              /\ IsCall(g[i]) => g[i].at <= Len(e[g[i].L].ci)
    BY <1>6 DEF Fits, Placed
  <2>1. CASE i = n + 1
    BY <1>2, <1>6, <2>1
  <2>2. CASE i \in 1..n
    <3>1. e[h[i].L] = f[h[i].L]
      BY <1>9, <1>10, <2>2
    <3>. QED
      BY <1>10, <2>2, <3>1 DEF Stacked, Fits, Placed
  <2>. QED
    BY <1>1, <2>1, <2>2
<1>13. Owns(g, e, co, co, "no")
  <2>1. Base0(co) = 0
    BY <1>3, <1>11 DEF Base0, n
  <2>2. \A i \in 1..n : ~(h[i].L = co /\ NoYield(h[i]))
    BY <1>10
  <2>3. Nny(h, co, n) = 0
    BY <1>1, <2>2, NnyZero
  <2>. QED
    BY <1>6, <1>8, <1>9, <2>1, <2>3 DEF Owns
<1>14. ASSUME NEW i \in 0..n PROVE Owns(g, e, Owner(h, i), co, "no")
  <2>. DEFINE t == Owner(h, i)
  <2>1. t \in Thread /\ Owns(h, f, t, r, "no") /\ t # co
    BY OwnerIn DEF Owners, Stacked, n
  <2>. HIDE DEF t
  <2>2. e[t] = f[t] /\ Nny(g, t, n + 1) = Nny(h, t, n)
    BY <1>8, <1>9, <2>1
  <2>. QED
    BY <1>6, <2>1, <2>2 DEF Owns, t, n
<1>15. Owners(g, e, co, "no")
  <2>. SUFFICES ASSUME NEW i \in 0..n + 1 PROVE Owns(g, e, Owner(g, i), co, "no")
    BY <1>6 DEF Owners
  <2>1. CASE i \in 0..n
    BY <1>7, <1>14, <2>1
  <2>2. CASE i = n + 1
    BY <1>7, <1>13, <2>2
  <2>. QED
    BY <1>1, <2>1, <2>2
<1>16. Yields(g, e, co, "no")
  BY DEF Yields
<1>17. co = Owner(g, Len(g)) /\ Last(g).kind # "pcall"
  BY <1>2, <1>6, <1>7 DEF Last
<1>. QED
  BY <1>6, <1>12, <1>15, <1>16, <1>17 DEF Stacked, Settled, g

-----------------------------------------------------------------------------
(* The threads. *)

\* Open upvalues are in frames of Lua functions that have not returned, and what yielded
\* was a C function.
Live(u) ==
  /\ \A n \in u.open : n \in DOMAIN u.ci /\ u.ci[n].lua
  /\ u.status = "yield" => u.ci # <<>> /\ ~Last(u.ci).lua

StackInv(s) ==
  /\ DOMAIN s = {"th", "host", "run", "thrown"}
  /\ s.th \in [Thread -> lua_State]
  /\ \A t \in Thread : Live(s.th[t])
  /\ s.run # Nobody => Stacked(s.host, s.th, s.run, s.thrown) /\ Settled(s.host)
  /\ s.run = Nobody => s.thrown = "no"

\* A new frame is a CallInfo.
LEMMA FrameIn ==
  ASSUME NEW lua \in BOOLEAN
  PROVE  Frame(lua) \in CallInfo /\ Frame(lua).lua = lua /\ ~Frame(lua).k /\ ~Frame(lua).yp
BY DEF Frame, CallInfo

\* A thread is what its fields are.
LEMMA ThreadIs ==
  ASSUME NEW v \in lua_State
  PROVE  /\ v.ci \in Seq(CallInfo) /\ v.status \in {"ok", "yield", "error"} /\ v.nny \in Int /\ v.nCcalls \in Int
         /\ v.errfunc \in Nat /\ v.open \in SUBSET Nat /\ v.fn \in BOOLEAN
         /\ DOMAIN v = {"ci", "status", "nny", "nCcalls", "errfunc", "open", "fn"}
         /\ Len(v.ci) \in Nat /\ DOMAIN v.ci = 1..Len(v.ci)
BY DEF lua_State

\* What luaD_call and luaD_callnoyield do to the thread.
Called(v, ny, lua, y) ==
  [v EXCEPT !.nCcalls = @ + 1, !.nny = IF ny THEN @ + 1 ELSE @, !.ci = IF y = "no" THEN Append(@, Frame(lua)) ELSE @]

\* It is a thread, and this is what it has.
LEMMA CalledIs ==
  ASSUME NEW v \in lua_State, NEW ny \in BOOLEAN, NEW lua \in BOOLEAN, NEW y
  PROVE  LET u == Called(v, ny, lua, y)
         IN /\ u \in lua_State
            /\ u.ci = IF y = "no" THEN Append(v.ci, Frame(lua)) ELSE v.ci
            /\ u.nny = IF ny THEN v.nny + 1 ELSE v.nny
            /\ u.status = v.status /\ u.open = v.open /\ u.fn = v.fn /\ u.errfunc = v.errfunc
<1>. DEFINE u == Called(v, ny, lua, y)
            q == IF y = "no" THEN Append(v.ci, Frame(lua)) ELSE v.ci
            c == IF ny THEN v.nny + 1 ELSE v.nny
<1>1. q \in Seq(CallInfo) /\ c \in Int /\ v.nCcalls + 1 \in Int
  BY ThreadIs, FrameIn
<1>2. u = [v EXCEPT !.nCcalls = v.nCcalls + 1, !.nny = c, !.ci = q]
  BY DEF Called
<1>. HIDE DEF q, c, u
<1>3. u \in lua_State
  BY <1>1, <1>2 DEF lua_State
<1>4. u.ci = q /\ u.nny = c /\ u.status = v.status /\ u.open = v.open /\ u.fn = v.fn /\ u.errfunc = v.errfunc
  BY <1>2, ThreadIs
<1>. QED
  BY <1>3, <1>4 DEF q, c, u

\* luaD_call, field by field: the frame is there unless stackerror raises an error.
LEMMA CallChanges ==
  ASSUME NEW s, DOMAIN s = {"th", "host", "run", "thrown"}, s.th \in [Thread -> lua_State], s.run \in Thread,
         NEW kind, NEW ny \in BOOLEAN, NEW lua \in BOOLEAN
  PROVE  LET r == luaD_call(s, kind, ny, lua)
         IN \E y \in {"no", "raise", "errerr"} :
              /\ DOMAIN r = {"th", "host", "run", "thrown"}
              /\ r.th = [s.th EXCEPT ![s.run] = Called(s.th[s.run], ny, lua, y)]
              /\ r.host = Append(s.host, [kind |-> kind, L |-> s.run, at |-> Len(s.th[s.run].ci) + 1, ny |-> ny])
              /\ r.run = s.run /\ r.thrown = y
<1>. DEFINE v == s.th[s.run]
            n == v.nCcalls + 1
            x == [kind |-> kind, L |-> s.run, at |-> Len(v.ci) + 1, ny |-> ny]
            called == [s EXCEPT
        !.host = Append(@, x),
        !.th[s.run].nCcalls = n,
        !.th[s.run].nny = IF ny THEN @ + 1 ELSE @]
            framed == [called EXCEPT !.th[s.run].ci = Append(@, Frame(lua)), !.thrown = "no"]
            r == luaD_call(s, kind, ny, lua)
            b == [v EXCEPT !.nCcalls = n, !.nny = IF ny THEN @ + 1 ELSE @]
<1>0. v \in lua_State /\ DOMAIN s.th = Thread
  OBVIOUS
<1>1. /\ DOMAIN called = {"th", "host", "run", "thrown"} /\ called.host = Append(s.host, x) /\ called.run = s.run
      /\ called.thrown = s.thrown
  BY Zenon
<1>2. called.th = [s.th EXCEPT ![s.run] = b]
  BY <1>0, ThreadIs
<1>3. r = IF n = MaxCcalls THEN [called EXCEPT !.thrown = "raise"]
          ELSE IF n >= MaxCcalls + MaxCcalls \div 8 THEN [called EXCEPT !.thrown = "errerr"]
          ELSE framed
  BY Zenon DEF luaD_call
<1>4. \A y : y # "no" => b = Called(v, ny, lua, y)
  BY <1>0, ThreadIs DEF Called
<1>5. [b EXCEPT !.ci = Append(@, Frame(lua))] = Called(v, ny, lua, "no")
  BY <1>0, ThreadIs DEF Called
<1>. HIDE DEF called, x
<1>6. /\ DOMAIN framed = {"th", "host", "run", "thrown"} /\ framed.host = called.host /\ framed.run = s.run /\ framed.thrown = "no"
      /\ framed.th = [called.th EXCEPT ![s.run] = [b EXCEPT !.ci = Append(@, Frame(lua))]]
  BY <1>0, <1>1, <1>2
<1>. HIDE DEF framed, r, b
<1>7. framed.th = [s.th EXCEPT ![s.run] = Called(v, ny, lua, "no")]
  BY <1>0, <1>2, <1>5, <1>6
<1>8. \A y : [called EXCEPT !.thrown = y].host = called.host /\ [called EXCEPT !.thrown = y].run = s.run
             /\ [called EXCEPT !.thrown = y].th = called.th /\ [called EXCEPT !.thrown = y].thrown = y
             /\ DOMAIN [called EXCEPT !.thrown = y] = {"th", "host", "run", "thrown"}
  BY <1>1
<1>9. r = framed \/ (\E y \in {"raise", "errerr"} : r = [called EXCEPT !.thrown = y])
  BY <1>3
<1>10. CASE r = framed
  BY <1>1, <1>6, <1>7, <1>10 DEF r, x
<1>11. ASSUME NEW y \in {"raise", "errerr"}, r = [called EXCEPT !.thrown = y]
       PROVE  /\ DOMAIN r = {"th", "host", "run", "thrown"}
              /\ r.th = [s.th EXCEPT ![s.run] = Called(v, ny, lua, y)]
              /\ r.host = Append(s.host, x) /\ r.run = s.run /\ r.thrown = y
  BY <1>1, <1>2, <1>4, <1>8, <1>11
<1>. QED
  BY <1>9, <1>10, <1>11 DEF r, x

\* From what a step computes to the invariant.
LEMMA StackMade ==
  ASSUME NEW s, NEW f \in [Thread -> lua_State], NEW o \in Thread, NEW u \in lua_State, NEW e,
         DOMAIN s = {"th", "host", "run", "thrown"}, \A t \in Thread : Live(f[t]), Live(u),
         e = [f EXCEPT ![o] = u], s.th = e, Stacked(s.host, e, s.run, s.thrown), Settled(s.host)
  PROVE  StackInv(s) /\ s.run \in Thread
<1>1. s.th \in [Thread -> lua_State] /\ \A t \in Thread : Live(s.th[t])
  OBVIOUS
<1>2. s.run \in Thread
  BY <1>1, TopOwner
<1>. QED
  BY <1>1, <1>2, CallAssumption DEF StackInv

\* One more CallInfo leaves those below alive.
LEMMA LiveMore ==
  ASSUME NEW v \in lua_State, NEW u,
         Live(v), v.status = "ok", u.open = v.open, u.status = "ok",
         \A i \in DOMAIN v.ci : i \in DOMAIN u.ci /\ u.ci[i].lua = v.ci[i].lua
  PROVE  Live(u)
BY DEF Live

\* Calls from C keep the invariant.
LEMMA CallStack ==
  ASSUME NEW s, NEW kind \in {"call", "handler"}, NEW ny \in BOOLEAN, NEW lua \in BOOLEAN,
         DOMAIN s = {"th", "host", "run", "thrown"}, s.th \in [Thread -> lua_State],
         \A t \in Thread : Live(s.th[t]), Stacked(s.host, s.th, s.run, s.thrown), s.thrown # "yield",
         kind = "call" => s.thrown = "no",
         s.host # <<>> /\ Last(s.host).kind = "pcall" /\ Last(s.host).of # "load" =>
           kind = "call" /\ ny /\ Last(s.host).at = Len(s.th[s.run].ci)
  PROVE  StackInv(luaD_call(s, kind, ny, lua))
<1>. DEFINE f == s.th
            r == s.run
            v == f[r]
            w == luaD_call(s, kind, ny, lua)
            a == [kind |-> kind, L |-> r, at |-> Len(v.ci) + 1, ny |-> ny]
<1>1. r \in Thread /\ Owns(s.host, f, r, r, s.thrown)
  BY TopOwner
<1>2. PICK y \in {"no", "raise", "errerr"} :
              /\ DOMAIN w = {"th", "host", "run", "thrown"}
              /\ w.th = [f EXCEPT ![r] = Called(v, ny, lua, y)]
              /\ w.host = Append(s.host, a)
              /\ w.run = r /\ w.thrown = y
  BY <1>1, CallChanges
<1>. DEFINE u == Called(v, ny, lua, y)
<1>3. /\ v \in lua_State /\ u \in lua_State
      /\ u.ci = IF y = "no" THEN Append(v.ci, Frame(lua)) ELSE v.ci
      /\ u.nny = IF ny THEN v.nny + 1 ELSE v.nny
      /\ u.status = v.status /\ u.open = v.open /\ u.fn = v.fn
  BY <1>1, CalledIs
<1>4. a.kind = kind /\ a.L = r /\ a.at = Len(v.ci) + 1 /\ a.ny = ny
  OBVIOUS
<1>. HIDE DEF u, a, w
<1>5. v.status = "ok" /\ ~v.fn
  BY <1>1 DEF Owns
<1>6. /\ Len(u.ci) = IF y = "no" THEN Len(v.ci) + 1 ELSE Len(v.ci)
      /\ \A i \in DOMAIN v.ci : i \in DOMAIN u.ci /\ u.ci[i].lua = v.ci[i].lua
  BY <1>1, <1>3, LenIs, SeqPush
<1>7. Live(u)
  BY <1>1, <1>3, <1>5, <1>6, LiveMore
<1>8. Stacked(w.host, w.th, w.run, w.thrown) /\ Settled(w.host)
  <2>1. /\ a.kind \in {"call", "handler"}
        /\ a.kind = "call" => s.thrown = "no"
        /\ a.L = r /\ a.at = Len(f[r].ci) + 1 /\ a.ny \in BOOLEAN
        /\ s.host # <<>> /\ Last(s.host).kind = "pcall" /\ Last(s.host).of # "load" =>
             a.kind = "call" /\ a.ny /\ Last(s.host).at = Len(f[r].ci)
    BY <1>4
  <2>2. /\ y # "yield" /\ ~u.fn /\ u.status = "ok" /\ u.nny = IF a.ny THEN f[r].nny + 1 ELSE f[r].nny
        /\ Len(u.ci) = IF y = "no" THEN Len(f[r].ci) + 1 ELSE Len(f[r].ci)
    BY <1>3, <1>4, <1>5, <1>6
  <2>. HIDE DEF f, r, v
  <2>3. f \in [Thread -> lua_State] /\ Stacked(s.host, f, r, s.thrown)
    BY DEF f, r
  <2>4. w.th = [f EXCEPT ![r] = u]
    BY <1>2 DEF u, v
  <2>5. Stacked(Append(s.host, a), w.th, r, y) /\ Settled(Append(s.host, a))
    BY <2>1, <2>2, <2>3, <2>4, PushCallStack, ZenonT(60)
  <2>. QED
    BY <1>2, <2>5
<1>9. w.th = [f EXCEPT ![r] = u]
  BY <1>2 DEF u
<1>10. StackInv(w)
  <2>. HIDE DEF f, r, v
  <2>1. f \in [Thread -> lua_State] /\ \A t \in Thread : Live(f[t])
    BY DEF f
  <2>2. DOMAIN w = {"th", "host", "run", "thrown"} /\ r \in Thread /\ u \in lua_State
    BY <1>1, <1>2, <1>3
  <2>. QED
    BY <1>7, <1>8, <1>9, <2>1, <2>2, StackMade
<1>. QED
  BY <1>10 DEF w

-----------------------------------------------------------------------------
(* Operations of a running function. *)

\* The invariant in terms of the variables.
LEMMA RunStack ==
  ASSUME StackInv(State), run # Nobody
  PROVE  /\ th \in [Thread -> lua_State] /\ \A t \in Thread : Live(th[t])
         /\ Stacked(host, th, run, thrown) /\ Settled(host)
         /\ run \in Thread /\ L \in lua_State /\ L = th[run] /\ Live(L)
         /\ Owns(host, th, run, run, thrown)
         /\ Depth \in Nat /\ Depth >= 1 /\ Depth = Len(L.ci) /\ Depth \in DOMAIN L.ci /\ DOMAIN L.ci = 1..Depth
         /\ Top = L.ci[Depth]
         /\ L.ci \in Seq(CallInfo)
         /\ Len(host) \in Nat /\ DOMAIN host = 1..Len(host) /\ run = Owner(host, Len(host))
<1>1. th \in [Thread -> lua_State] /\ (\A t \in Thread : Live(th[t])) /\ Stacked(host, th, run, thrown) /\ Settled(host)
  BY StateIs DEF StackInv
<1>2. /\ run \in Thread /\ Owns(host, th, run, run, thrown)
      /\ Len(th[run].ci) \in Nat /\ Len(th[run].ci) >= 1
      /\ Len(host) \in Nat /\ DOMAIN host = 1..Len(host) /\ run = Owner(host, Len(host))
  BY <1>1, TopOwner
<1>3. L \in lua_State /\ L = th[run] /\ Live(L)
  BY <1>1, <1>2 DEF L
<1>4. L.ci \in Seq(CallInfo)
  BY <1>3, ThreadIs
<1>5. Depth = Len(L.ci) /\ Top = L.ci[Depth]
  BY DEF Depth, Top, Last
<1>. QED
  BY <1>1, <1>2, <1>3, <1>4, <1>5

\* From the record that an action computes to the next state.
LEMMA BecomesStack ==
  ASSUME NEW r, StackInv(r), Becomes(r)
  PROVE  StackInv(State)'
<1>1. /\ State'.th = r.th /\ State'.host = r.host /\ State'.run = r.run /\ State'.thrown = r.thrown
      /\ DOMAIN State' = {"th", "host", "run", "thrown"}
  BY DEF Becomes, State
<1>. QED
  BY <1>1 DEF StackInv

\* All of a sequence.
LEMMA SeqAll ==
  ASSUME NEW h, IsSeq(h)
  PROVE  SubSeq(h, 1, Len(h)) = h
<1>1. PICK S : h \in Seq(S)
  BY DEF IsSeq
<1>. QED
  BY <1>1

\* A step that leaves the C stack as it is and no frame.
LEMMA KeepStack ==
  ASSUME NEW r, NEW u \in lua_State, NEW y,
         StackInv(State), run # Nobody, thrown # "yield", y # "yield", thrown = "no" \/ y # "no",
         DOMAIN r = {"th", "host", "run", "thrown"}, r.th = [th EXCEPT ![run] = u], r.host = host,
         r.run = run, r.thrown = y, Live(u), u.nny = L.nny, u.fn = L.fn, u.status = L.status,
         Len(L.ci) <= Len(u.ci)
  PROVE  StackInv(r)
<1>. DEFINE n == Len(host)
            e == [th EXCEPT ![run] = u]
<1>1. /\ th \in [Thread -> lua_State] /\ \A t \in Thread : Live(th[t])
      /\ Stacked(host, th, run, thrown) /\ Settled(host)
      /\ run \in Thread /\ L = th[run] /\ Owns(host, th, run, run, thrown)
      /\ Len(L.ci) \in Nat /\ n \in Nat /\ DOMAIN host = 1..n /\ run = Owner(host, n) /\ n \in 0..Len(host)
  BY RunStack
<1>2. Len(u.ci) \in Nat /\ u.nny = Base0(run) + Nny(host, run, n) /\ u.status = "ok" /\ ~u.fn /\ Len(u.ci) >= 1
  BY <1>1, ThreadIs DEF Owns
<1>3. ASSUME NEW i \in 1..n, host[i].kind # "resume", host[i].L = run
      PROVE  Low(host[i]) <= Len(u.ci) /\ (IsCall(host[i]) /\ y = "no" => host[i].at <= Len(u.ci))
  <2>1. host[i].at \in Nat /\ Low(host[i]) \in Int /\ Low(host[i]) <= Len(L.ci)
    BY <1>1, <1>3 DEF Stacked, Linked, Fits, Low
  <2>2. IsCall(host[i]) /\ y = "no" => host[i].at <= Len(L.ci)
    BY <1>1, <1>3 DEF Stacked, Placed
  <2>. QED
    BY <1>1, <1>2, <2>1, <2>2
<1>4. DOMAIN th = Thread
  BY <1>1
<1>. HIDE DEF e, n
<1>5. e = [th EXCEPT ![run] = u] /\ n \in 0..Len(host) /\ Owner(host, n) = run
  BY <1>1 DEF e
<1>6. Stacked(SubSeq(host, 1, n), e, run, y)
  BY <1>1, <1>2, <1>3, <1>4, <1>5, LeaveStack
<1>7. SubSeq(host, 1, n) = host
  BY <1>1, SeqAll DEF Stacked, n
<1>8. Stacked(r.host, e, r.run, r.thrown) /\ Settled(r.host) /\ r.th = e
  BY <1>1, <1>6, <1>7 DEF e
<1>. QED
  BY <1>1, <1>5, <1>8, StackMade

\* OP_CALL.
LEMMA OpCallStack ==
  ASSUME StackInv(State), NEW lua \in BOOLEAN, OpCall(lua)
  PROVE  StackInv(State)'
<1>. DEFINE u == [L EXCEPT !.ci = Append(@, Frame(lua))]
            r == [State EXCEPT !.th[run].ci = Append(@, Frame(lua))]
<1>1. run # Nobody /\ thrown = "no" /\ Becomes(r)
  BY Zenon DEF OpCall, Running
<1>2. L \in lua_State /\ Live(L) /\ Owns(host, th, run, run, thrown) /\ L = th[run]
  BY <1>1, RunStack
<1>3. /\ DOMAIN r = {"th", "host", "run", "thrown"} /\ r.host = host /\ r.run = run /\ r.thrown = thrown
      /\ r.th = [th EXCEPT ![run] = u]
  BY StateIs DEF L
<1>4. /\ u \in lua_State /\ u.ci = Append(L.ci, Frame(lua))
      /\ u.nny = L.nny /\ u.fn = L.fn /\ u.status = L.status /\ u.open = L.open
  <2>1. Append(L.ci, Frame(lua)) \in Seq(CallInfo)
    BY <1>2, ThreadIs, FrameIn
  <2>. QED
    BY <1>2, <2>1 DEF lua_State
<1>5. L.status = "ok"
  BY <1>1, <1>2 DEF Owns
<1>. HIDE DEF r, u
<1>6. /\ Len(L.ci) <= Len(u.ci)
      /\ \A i \in DOMAIN L.ci : i \in DOMAIN u.ci /\ u.ci[i].lua = L.ci[i].lua
  <2>1. IsSeq(L.ci)
    BY <1>2, ThreadIs DEF IsSeq
  <2>. QED
    BY <1>4, <2>1, SeqPush
<1>7. Live(u)
  BY <1>2, <1>4, <1>5, <1>6, LiveMore
<1>8. StackInv(r)
  BY <1>1, <1>3, <1>4, <1>6, <1>7, KeepStack
<1>. QED
  BY <1>1, <1>8, BecomesStack

\* luaF_close on a part of the stack.
LEMMA CloseIs ==
  ASSUME NEW v \in lua_State, NEW n
  PROVE  LET u == luaF_close(v, n)
         IN /\ u \in lua_State /\ u.ci = v.ci /\ u.nny = v.nny /\ u.fn = v.fn /\ u.status = v.status
            /\ u.errfunc = v.errfunc /\ u.open = {k \in v.open : k < n}
BY DEF luaF_close, lua_State

\* OP_TAILCALL.
LEMMA OpTailCallStack ==
  ASSUME StackInv(State), OpTailCall
  PROVE  StackInv(State)'
<1>. DEFINE u == luaF_close(L, Depth)
            r == [State EXCEPT !.th[run] = luaF_close(L, Depth)]
<1>1. run # Nobody /\ thrown = "no" /\ Becomes(r)
  BY Zenon DEF OpTailCall, Running
<1>2. L \in lua_State /\ Live(L)
  BY <1>1, RunStack
<1>3. /\ DOMAIN r = {"th", "host", "run", "thrown"} /\ r.host = host /\ r.run = run /\ r.thrown = thrown
      /\ r.th = [th EXCEPT ![run] = u]
  BY StateIs
<1>4. /\ u \in lua_State /\ u.ci = L.ci /\ u.nny = L.nny /\ u.fn = L.fn /\ u.status = L.status
      /\ u.open \subseteq L.open
  BY <1>2, CloseIs
<1>. HIDE DEF r, u
<1>5. Live(u) /\ Len(L.ci) <= Len(u.ci)
  BY <1>2, <1>4, ThreadIs DEF Live
<1>6. StackInv(r)
  BY <1>1, <1>3, <1>4, <1>5, KeepStack
<1>. QED
  BY <1>1, <1>6, BecomesStack

\* OP_CLOSURE opens an upvalue in the frame of the function that runs, a Lua function.
LEMMA FindUpvalStack ==
  ASSUME StackInv(State), luaF_findupval
  PROVE  StackInv(State)'
<1>. DEFINE u == [L EXCEPT !.open = @ \cup {Depth}]
            r == [State EXCEPT !.th[run].open = @ \cup {Depth}]
<1>1. run # Nobody /\ thrown = "no" /\ Becomes(r) /\ Top.lua
  BY Zenon DEF luaF_findupval, Running
<1>2. L \in lua_State /\ Live(L) /\ Depth \in Nat /\ Depth \in DOMAIN L.ci /\ L.ci[Depth].lua
  BY <1>1, RunStack
<1>3. /\ DOMAIN r = {"th", "host", "run", "thrown"} /\ r.host = host /\ r.run = run /\ r.thrown = thrown
      /\ r.th = [th EXCEPT ![run] = u]
  BY StateIs DEF L
<1>4. /\ u \in lua_State /\ u.ci = L.ci /\ u.nny = L.nny /\ u.fn = L.fn /\ u.status = L.status
      /\ u.open = L.open \cup {Depth}
  <2>1. L.open \cup {Depth} \in SUBSET Nat
    BY <1>2, ThreadIs
  <2>. QED
    BY <1>2, <2>1 DEF lua_State
<1>. HIDE DEF r, u
<1>5. Live(u) /\ Len(L.ci) <= Len(u.ci)
  BY <1>2, <1>4, ThreadIs DEF Live
<1>6. StackInv(r)
  BY <1>1, <1>3, <1>4, <1>5, KeepStack
<1>. QED
  BY <1>1, <1>6, BecomesStack

\* Errors leave everything to what catches them.
LEMMA ErrorStack ==
  ASSUME StackInv(State), run # Nobody, thrown # "yield", NEW v, v # "no", v # "yield",
         Becomes([State EXCEPT !.thrown = v])
  PROVE  StackInv(State)'
<1>. DEFINE r == [State EXCEPT !.thrown = v]
<1>1. L \in lua_State /\ Live(L) /\ th \in [Thread -> lua_State] /\ run \in Thread /\ L = th[run] /\ Len(L.ci) \in Nat
  BY RunStack
<1>2. /\ DOMAIN r = {"th", "host", "run", "thrown"} /\ r.host = host /\ r.run = run /\ r.thrown = v
      /\ r.th = [th EXCEPT ![run] = L]
  BY <1>1, StateIs
<1>. HIDE DEF r
<1>3. Len(L.ci) <= Len(L.ci)
  BY <1>1
<1>4. StackInv(r)
  BY <1>1, <1>2, <1>3, KeepStack
<1>. QED
  BY <1>4, BecomesStack DEF r

\* A call from C of the function that runs, or of its handler.
LEMMA PlainCallStack ==
  ASSUME StackInv(State), run # Nobody, thrown # "yield", NEW kind \in {"call", "handler"}, kind = "call" => thrown = "no",
         NEW ny \in BOOLEAN, NEW lua \in BOOLEAN, Becomes(luaD_call(State, kind, ny, lua))
  PROVE  StackInv(State)'
<1>1. /\ th \in [Thread -> lua_State] /\ \A t \in Thread : Live(th[t])
      /\ Stacked(host, th, run, thrown) /\ Settled(host)
  BY RunStack
<1>. DEFINE w == luaD_call(State, kind, ny, lua)
<1>2. StackInv(w)
  <2>1. State.host # <<>> /\ Last(State.host).kind = "pcall" /\ Last(State.host).of # "load" =>
           kind = "call" /\ ny /\ Last(State.host).at = Len(State.th[State.run].ci)
    BY <1>1, StateIs DEF Settled
  <2>2. /\ State.th \in [Thread -> lua_State] /\ \A t \in Thread : Live(State.th[t])
        /\ Stacked(State.host, State.th, State.run, State.thrown) /\ State.thrown # "yield"
        /\ kind = "call" => State.thrown = "no"
        /\ DOMAIN State = {"th", "host", "run", "thrown"}
    BY <1>1, StateIs
  <2>. QED
    BY <2>1, <2>2, CallStack
<1>. HIDE DEF w
<1>3. Becomes(w)
  BY DEF w
<1>. QED
  BY <1>2, <1>3, BecomesStack

\* Metamethods.
LEMMA CallTMStack ==
  ASSUME StackInv(State), NEW lua \in BOOLEAN, luaT_callTM(lua)
  PROVE  StackInv(State)'
<1>1. run # Nobody /\ thrown = "no" /\ Becomes(luaD_call(State, "call", ~MayYield(Top.lua), lua))
  BY Zenon DEF luaT_callTM, Running
<1>. QED
  BY <1>1, PlainCallStack

\* The reader of a chunk.
LEMMA ReaderStack ==
  ASSUME StackInv(State), NEW lua \in BOOLEAN, generic_reader(lua)
  PROVE  StackInv(State)'
<1>1. run # Nobody /\ thrown = "no" /\ Becomes(luaD_call(State, "call", TRUE, lua))
  BY Zenon DEF generic_reader
<1>. QED
  BY <1>1, PlainCallStack

\* The message handler.
LEMMA ErrormsgStack ==
  ASSUME StackInv(State), NEW lua \in BOOLEAN, luaG_errormsg(lua)
  PROVE  StackInv(State)'
<1>1. thrown = "raise" /\ run # Nobody
  BY StateIs DEF luaG_errormsg, StackInv
<1>2. CASE Becomes(luaD_call(State, "handler", TRUE, lua))
  BY <1>1, <1>2, PlainCallStack
<1>3. CASE Becomes([State EXCEPT !.thrown = "run"])
  BY <1>1, <1>3, ErrorStack
<1>. QED
  BY <1>2, <1>3 DEF luaG_errormsg

\* A CallInfo changes, but not from Lua to C, and what the thread keeps of handlers.
Changed(v, d, c, ef) == [v EXCEPT !.ci[d] = c, !.errfunc = ef]

\* The frames stay, and so do the upvalues.
LEMMA ChangedIs ==
  ASSUME NEW v \in lua_State, NEW d, NEW c \in CallInfo, NEW ef \in Nat, NEW u,
         d \in DOMAIN v.ci, c.lua = v.ci[d].lua, u = Changed(v, d, c, ef)
  PROVE  /\ u \in lua_State /\ Len(u.ci) = Len(v.ci)
         /\ u.nny = v.nny /\ u.fn = v.fn /\ u.status = v.status /\ u.open = v.open /\ u.errfunc = ef
         /\ Live(v) => Live(u)
<1>1. v.ci \in Seq(CallInfo) /\ DOMAIN v.ci = 1..Len(v.ci) /\ Len(v.ci) \in Nat
  BY ThreadIs
<1>. DEFINE q == [v.ci EXCEPT ![d] = c]
<1>2. u = [v EXCEPT !.ci = q, !.errfunc = ef]
  BY <1>1, ThreadIs DEF Changed
<1>3. /\ q \in Seq(CallInfo) /\ DOMAIN q = DOMAIN v.ci /\ Len(q) = Len(v.ci)
      /\ \A i \in DOMAIN v.ci : q[i].lua = v.ci[i].lua
  BY <1>1
<1>. HIDE DEF q
<1>4. /\ u \in lua_State /\ u.ci = q /\ u.nny = v.nny /\ u.fn = v.fn /\ u.status = v.status /\ u.open = v.open
      /\ u.errfunc = ef
  BY <1>2, <1>3 DEF lua_State
<1>5. ASSUME Live(v) PROVE Live(u)
  <2>1. v.ci # <<>> => u.ci # <<>> /\ Len(v.ci) \in DOMAIN v.ci
    BY <1>1, <1>3, <1>4
  <2>2. v.ci # <<>> => Last(u.ci).lua = Last(v.ci).lua
    BY <1>1, <1>3, <1>4, <2>1 DEF Last
  <2>. QED
    BY <1>3, <1>4, <1>5, <2>1, <2>2 DEF Live
<1>. QED
  BY <1>3, <1>4, <1>5

\* The same for the function that runs.
LEMMA TopChange ==
  ASSUME NEW c \in CallInfo, NEW ef \in Nat, NEW u, NEW r, StackInv(State), run # Nobody, thrown = "no",
         c.lua = Top.lua, u = Changed(L, Depth, c, ef),
         DOMAIN r = {"th", "host", "run", "thrown"}, r.th = [th EXCEPT ![run] = u], r.host = host, r.run = run,
         r.thrown = "no"
  PROVE  StackInv(r) /\ u \in lua_State /\ u.nny = L.nny
<1>1. /\ L \in lua_State /\ Live(L) /\ Depth \in DOMAIN L.ci /\ c.lua = L.ci[Depth].lua /\ Len(L.ci) \in Nat
  BY RunStack
<1>2. /\ u \in lua_State /\ Len(u.ci) = Len(L.ci) /\ u.nny = L.nny /\ u.fn = L.fn /\ u.status = L.status
      /\ Live(u)
  <2>. DEFINE v == L
  <2>1. v \in lua_State /\ Depth \in DOMAIN v.ci /\ c.lua = v.ci[Depth].lua /\ u = Changed(v, Depth, c, ef) /\ Live(v)
    BY <1>1
  <2>. HIDE DEF v
  <2>2. /\ u \in lua_State /\ Len(u.ci) = Len(v.ci) /\ u.nny = v.nny /\ u.fn = v.fn /\ u.status = v.status
        /\ Live(v) => Live(u)
    BY <2>1, ChangedIs
  <2>. QED
    BY <2>1, <2>2 DEF v
<1>3. Len(L.ci) <= Len(u.ci)
  BY <1>1, <1>2
<1>4. StackInv(r)
  BY <1>2, <1>3, KeepStack
<1>. QED
  BY <1>2, <1>4

\* A call from C after such a change.
LEMMA ChangedCallStack ==
  ASSUME NEW w, StackInv(w), w.run # Nobody, w.thrown = "no", NEW ny \in BOOLEAN, NEW lua \in BOOLEAN,
         Becomes(luaD_call(w, "call", ny, lua))
  PROVE  StackInv(State)'
<1>. DEFINE r == luaD_call(w, "call", ny, lua)
<1>1. StackInv(r)
  <2>1. w.host # <<>> /\ Last(w.host).kind = "pcall" /\ Last(w.host).of # "load" =>
          "call" = "call" /\ ny /\ Last(w.host).at = Len(w.th[w.run].ci)
    BY DEF StackInv, Settled
  <2>2. /\ w.th \in [Thread -> lua_State] /\ \A t \in Thread : Live(w.th[t])
        /\ Stacked(w.host, w.th, w.run, w.thrown) /\ w.thrown # "yield"
        /\ DOMAIN w = {"th", "host", "run", "thrown"}
    BY DEF StackInv
  <2>. QED
    BY <2>1, <2>2, CallStack
<1>. HIDE DEF r
<1>2. Becomes(r)
  BY DEF r
<1>. QED
  BY <1>1, <1>2, BecomesStack

\* lua_callk.
LEMMA CallkStack ==
  ASSUME StackInv(State), NEW k \in BOOLEAN, NEW lua \in BOOLEAN, lua_callk(k, lua)
  PROVE  StackInv(State)'
<1>. DEFINE w == [State EXCEPT !.th[run].ci[Depth].k = TRUE]
            c == [Top EXCEPT !.k = TRUE]
            u == Changed(L, Depth, c, L.errfunc)
            ny == ~(k /\ L.nny = 0)
<1>1. run # Nobody /\ thrown = "no"
  BY DEF lua_callk, Running
<1>2. /\ L \in lua_State /\ Depth \in DOMAIN L.ci /\ Top = L.ci[Depth] /\ L.ci \in Seq(CallInfo) /\ L = th[run]
      /\ th \in [Thread -> lua_State] /\ run \in Thread
  BY <1>1, RunStack
<1>3. Top \in CallInfo /\ c \in CallInfo /\ c.lua = Top.lua /\ L.errfunc \in Nat
  <2>1. Top \in CallInfo
    BY <1>2
  <2>. QED
    BY <1>2, <2>1, ThreadIs DEF CallInfo
<1>4. StackInv(w) /\ w.run = run /\ w.thrown = "no"
  <2>1. /\ DOMAIN w = {"th", "host", "run", "thrown"} /\ w.host = host /\ w.run = run /\ w.thrown = thrown
        /\ w.th = [th EXCEPT ![run].ci[Depth].k = TRUE]
    BY StateIs
  <2>2. u = [L EXCEPT !.ci[Depth].k = TRUE]
    BY <1>2, ThreadIs DEF Changed
  <2>3. w.th = [th EXCEPT ![run] = u]
    BY <1>2, <2>1, <2>2
  <2>. HIDE DEF w, u
  <2>4. u = Changed(L, Depth, c, L.errfunc)
    BY DEF u
  <2>. HIDE DEF c
  <2>5. StackInv(w)
    <3>1. /\ c.lua = Top.lua /\ DOMAIN w = {"th", "host", "run", "thrown"} /\ w.th = [th EXCEPT ![run] = u]
          /\ w.host = host /\ w.run = run /\ w.thrown = "no"
      BY <1>1, <1>3, <2>1, <2>3
    <3>. QED
      BY <1>1, <1>3, <2>4, <3>1, TopChange
  <2>. QED
    BY <1>1, <2>1, <2>5
<1>. HIDE DEF w, ny
<1>5. Becomes(luaD_call(IF k /\ L.nny = 0 THEN w ELSE State, "call", ny, lua))
  BY Zenon DEF lua_callk, w, ny
<1>6. ny \in BOOLEAN
  BY DEF ny
<1>7. CASE k /\ L.nny = 0
  <2>1. Becomes(luaD_call(w, "call", ny, lua))
    BY <1>5, <1>7
  <2>. QED
    BY <1>1, <1>4, <1>6, <2>1, ChangedCallStack
<1>8. CASE ~(k /\ L.nny = 0)
  <2>1. Becomes(luaD_call(State, "call", ny, lua))
    BY <1>5, <1>8
  <2>. QED
    BY <1>1, <1>6, <2>1, PlainCallStack
<1>. QED
  BY <1>7, <1>8

-----------------------------------------------------------------------------
(* Protected calls. *)

\* What luaD_pcall and the parser do to the thread.
Guarded(v, ef, n) == [v EXCEPT !.errfunc = ef, !.nny = n]

\* Nothing but the handler and the count of a load has changed.
LEMMA GuardedIs ==
  ASSUME NEW v \in lua_State, NEW ef \in Nat, NEW n \in Int
  PROVE  LET u == Guarded(v, ef, n)
         IN /\ u \in lua_State /\ u.ci = v.ci /\ u.nny = n /\ u.fn = v.fn /\ u.status = v.status /\ u.open = v.open
            /\ u.errfunc = ef
            /\ Live(v) => Live(u)
<1>. DEFINE u == Guarded(v, ef, n)
<1>1. /\ u \in lua_State /\ u.ci = v.ci /\ u.nny = n /\ u.fn = v.fn /\ u.status = v.status /\ u.open = v.open
      /\ u.errfunc = ef
  BY DEF Guarded, lua_State
<1>. HIDE DEF u
<1>2. Live(v) => Live(u)
  BY <1>1 DEF Live
<1>. QED
  BY <1>1, <1>2 DEF u

\* luaD_pcall up to the protected function.
LEMMA PcallIs ==
  ASSUME NEW of, NEW ef \in Nat, StackInv(State), run # Nobody
  PROVE  LET w == luaD_pcall(State, of, ef)
             a == [kind |-> "pcall", of |-> of, L |-> run, at |-> Depth, nny |-> L.nny, ncc |-> L.nCcalls,
                   errfunc |-> L.errfunc, ef |-> ef]
         IN /\ DOMAIN w = {"th", "host", "run", "thrown"} /\ w.th = [th EXCEPT ![run] = Guarded(L, ef, L.nny)]
            /\ w.host = Append(host, a) /\ w.run = run /\ w.thrown = thrown
<1>. DEFINE a == [kind |-> "pcall", of |-> of, L |-> run, at |-> Depth, nny |-> L.nny, ncc |-> L.nCcalls,
                   errfunc |-> L.errfunc, ef |-> ef]
            w == [State EXCEPT !.host = Append(@, a), !.th[run].errfunc = ef]
<1>1. luaD_pcall(State, of, ef) = w
  BY StateIs DEF luaD_pcall, Depth, L
<1>2. th \in [Thread -> lua_State] /\ run \in Thread /\ L \in lua_State /\ L = th[run]
  BY RunStack
<1>. HIDE DEF a
<1>3. /\ DOMAIN w = {"th", "host", "run", "thrown"} /\ w.host = Append(host, a) /\ w.run = run /\ w.thrown = thrown
      /\ w.th = [th EXCEPT ![run].errfunc = ef]
  BY StateIs
<1>4. [L EXCEPT !.errfunc = ef] = Guarded(L, ef, L.nny)
  BY <1>2 DEF Guarded, lua_State
<1>5. w.th = [th EXCEPT ![run] = Guarded(L, ef, L.nny)]
  BY <1>2, <1>3, <1>4
<1>. QED
  BY <1>1, <1>3, <1>5 DEF a

\* The stack of a protected call.
LEMMA GuardedStack ==
  ASSUME NEW of, NEW ef \in Nat, NEW n, NEW e, NEW a, StackInv(State), run # Nobody, thrown = "no",
         a.kind = "pcall", a.of = of, a.L = run, a.at = Depth, a.nny = L.nny, a.ncc = L.nCcalls,
         a.errfunc = L.errfunc, a.ef = ef,
         n = IF of = "load" THEN L.nny + 1 ELSE L.nny, of = "load" => ~InParser,
         e = [th EXCEPT ![run] = Guarded(L, ef, n)]
  PROVE  /\ Stacked(Append(host, a), e, run, "no") /\ Guarded(L, ef, n) \in lua_State /\ Live(Guarded(L, ef, n))
         /\ Last(Append(host, a)) = a
<1>1. /\ th \in [Thread -> lua_State] /\ L \in lua_State /\ L = th[run] /\ Live(L)
      /\ Stacked(host, th, run, "no") /\ Settled(host)
      /\ Len(host) \in Nat /\ DOMAIN host = 1..Len(host) /\ run = Owner(host, Len(host)) /\ Depth = Len(L.ci)
  BY RunStack
<1>2. n \in Int /\ L.nCcalls \in Int /\ L.errfunc \in Nat
  BY <1>1, ThreadIs
<1>. DEFINE u == Guarded(L, ef, n)
<1>3. /\ u \in lua_State /\ u.ci = L.ci /\ u.nny = n /\ u.fn = L.fn /\ u.status = L.status /\ Live(u)
  <2>1. ASSUME NEW v \in lua_State, NEW m \in Int, Live(v)
        PROVE  LET g == Guarded(v, ef, m)
               IN g \in lua_State /\ g.ci = v.ci /\ g.nny = m /\ g.fn = v.fn /\ g.status = v.status /\ Live(g)
    BY <2>1, GuardedIs
  <2>. QED
    BY <1>1, <1>2, <2>1, ZenonT(60)
<1>. HIDE DEF u
<1>5. host # <<>> /\ Last(host).kind = "pcall" => a.of # "load"
  <2>. SUFFICES ASSUME host # <<>>, Last(host).kind = "pcall", of = "load" PROVE FALSE
    OBVIOUS
  <2>1. Len(host) \in DOMAIN host /\ Last(host) = host[Len(host)] /\ Len(host) # 0
    BY <1>1, SeqLen DEF Stacked, Last
  <2>2. Last(host).L = run
    BY <1>1, <2>1 DEF Owner
  <2>. QED
    BY <2>2 DEF InParser
<1>6. e = [th EXCEPT ![run] = u]
  BY DEF u
<1>7. /\ a.L = run /\ a.at = Len(th[run].ci) /\ a.nny = th[run].nny /\ a.ncc \in Int /\ a.errfunc \in Nat
      /\ a.ef \in Nat /\ u.fn = th[run].fn /\ u.status = th[run].status /\ u.ci = th[run].ci
      /\ u.nny = IF a.of = "load" THEN th[run].nny + 1 ELSE th[run].nny
  BY <1>1, <1>2, <1>3
<1>8. Stacked(Append(host, a), e, run, "no")
  BY <1>1, <1>5, <1>6, <1>7, PushPcallStack, ZenonT(60)
<1>9. Last(Append(host, a)) = a
  BY <1>1, SeqPush DEF Stacked, Last
<1>. QED
  BY <1>3, <1>8, <1>9 DEF u

\* A protected function is called: pcall and finalizers.
LEMMA PcallCallStack ==
  ASSUME NEW of \in {"call", "gc"}, NEW ef \in Nat, NEW lua \in BOOLEAN, StackInv(State), run # Nobody, thrown = "no",
         Becomes(luaD_call(luaD_pcall(State, of, ef), "call", TRUE, lua))
  PROVE  StackInv(State)'
<1>. DEFINE w == luaD_pcall(State, of, ef)
            a == [kind |-> "pcall", of |-> of, L |-> run, at |-> Depth, nny |-> L.nny, ncc |-> L.nCcalls,
                   errfunc |-> L.errfunc, ef |-> ef]
            u == Guarded(L, ef, L.nny)
            r == luaD_call(w, "call", TRUE, lua)
<1>1. /\ DOMAIN w = {"th", "host", "run", "thrown"} /\ w.th = [th EXCEPT ![run] = u]
      /\ w.host = Append(host, a) /\ w.run = run /\ w.thrown = thrown
  BY PcallIs
<1>2. /\ th \in [Thread -> lua_State] /\ (\A t \in Thread : Live(th[t])) /\ run \in Thread /\ Depth = Len(L.ci)
      /\ L \in lua_State
  BY RunStack
<1>3. /\ a.kind = "pcall" /\ a.of = of /\ a.L = run /\ a.at = Depth /\ a.nny = L.nny /\ a.ncc = L.nCcalls
      /\ a.errfunc = L.errfunc /\ a.ef = ef
  OBVIOUS
<1>4. of # "load" /\ w.th = [th EXCEPT ![run] = Guarded(L, ef, L.nny)]
  BY <1>1
<1>. HIDE DEF a, u, w
<1>5. /\ Stacked(Append(host, a), w.th, run, "no") /\ u \in lua_State /\ Live(u)
      /\ Last(Append(host, a)) = a /\ a.kind = "pcall" /\ a.of = of /\ a.at = Depth
  <2>. DEFINE n == L.nny
  <2>1. w.th = [th EXCEPT ![run] = Guarded(L, ef, n)] /\ n = IF of = "load" THEN L.nny + 1 ELSE L.nny
    BY <1>4
  <2>. HIDE DEF n
  <2>2. /\ Stacked(Append(host, a), w.th, run, "no") /\ Guarded(L, ef, n) \in lua_State /\ Live(Guarded(L, ef, n))
        /\ Last(Append(host, a)) = a
    BY <1>3, <1>4, <2>1, GuardedStack
  <2>. QED
    BY <1>3, <2>2 DEF n, u
<1>6. u.ci = L.ci
  BY <1>2 DEF u, Guarded, lua_State
<1>7. /\ w.th \in [Thread -> lua_State] /\ \A t \in Thread : Live(w.th[t])
      /\ Stacked(w.host, w.th, w.run, w.thrown) /\ w.thrown # "yield" /\ w.thrown = "no"
  BY <1>1, <1>2, <1>5
<1>8. w.host # <<>> /\ Last(w.host).kind = "pcall" /\ Last(w.host).of # "load" =>
        "call" = "call" /\ TRUE /\ Last(w.host).at = Len(w.th[w.run].ci)
  BY <1>1, <1>2, <1>5, <1>6
<1>9. StackInv(r)
  BY <1>1, <1>7, <1>8, CallStack
<1>. HIDE DEF r
<1>10. Becomes(r)
  BY DEF r, w
<1>. QED
  BY <1>9, <1>10, BecomesStack

\* A finalizer.
LEMMA GCTMStack ==
  ASSUME NEW lua \in BOOLEAN, StackInv(State), GCTM(lua)
  PROVE  StackInv(State)'
<1>1. run # Nobody /\ thrown = "no" /\ Becomes(luaD_call(luaD_pcall(State, "gc", 0), "call", TRUE, lua))
  BY Zenon DEF GCTM
<1>. QED
  BY <1>1, PcallCallStack

\* pcall and xpcall.
LEMMA PcallkStack ==
  ASSUME NEW k \in BOOLEAN, NEW handler \in BOOLEAN, NEW lua \in BOOLEAN, StackInv(State), lua_pcallk(k, handler, lua)
  PROVE  StackInv(State)'
<1>. DEFINE ef == IF handler THEN Depth ELSE 0
            w == [State EXCEPT !.th[run] = Ypcall(L, ef)]
            c == [Top EXCEPT !.k = TRUE, !.yp = TRUE, !.ef = ef, !.oldef = L.errfunc]
            u == Changed(L, Depth, c, ef)
<1>1. run # Nobody /\ thrown = "no"
  BY DEF lua_pcallk, Running
<1>2. /\ L \in lua_State /\ Depth \in DOMAIN L.ci /\ Top = L.ci[Depth] /\ L.ci \in Seq(CallInfo) /\ L = th[run]
      /\ th \in [Thread -> lua_State] /\ run \in Thread /\ Depth \in Nat /\ Depth = Len(L.ci)
  BY <1>1, RunStack
<1>3. ef \in Nat
  BY <1>2
<1>4. CASE k /\ L.nny = 0
  <2>1. Top \in CallInfo /\ c \in CallInfo /\ c.lua = Top.lua
    <3>1. Top \in CallInfo
      BY <1>2
    <3>. QED
      BY <1>2, <1>3, <3>1, ThreadIs DEF CallInfo
  <2>2. /\ DOMAIN w = {"th", "host", "run", "thrown"} /\ w.host = host /\ w.run = run /\ w.thrown = "no"
        /\ w.th = [th EXCEPT ![run] = Ypcall(L, ef)]
    BY <1>1, StateIs
  <2>3. Ypcall(L, ef) = u
    BY <1>2, ThreadIs DEF Ypcall, Changed
  <2>. HIDE DEF ef
  <2>4. Becomes(luaD_call(w, "call", FALSE, lua))
    BY <1>4, Zenon DEF lua_pcallk, ef
  <2>. HIDE DEF w, c, u
  <2>5. u = Changed(L, Depth, c, ef) /\ w.th = [th EXCEPT ![run] = u]
    BY <2>2, <2>3 DEF u
  <2>6. StackInv(w)
    BY <1>1, <1>3, <2>1, <2>2, <2>5, TopChange
  <2>. QED
    BY <1>1, <2>2, <2>4, <2>6, ChangedCallStack
<1>5. CASE ~(k /\ L.nny = 0)
  <2>. HIDE DEF ef
  <2>1. Becomes(luaD_call(luaD_pcall(State, "call", ef), "call", TRUE, lua))
    BY <1>5, Zenon DEF lua_pcallk, ef
  <2>. QED
    BY <1>1, <1>3, <2>1, PcallCallStack
<1>. QED
  BY <1>4, <1>5

\* The parser starts.
LEMMA LoadStack ==
  ASSUME StackInv(State), lua_load
  PROVE  StackInv(State)'
<1>. DEFINE ef == L.errfunc
            n == L.nny + 1
            w == luaD_pcall(State, "load", ef)
            r == [w EXCEPT !.th[run].nny = @ + 1]
            a == [kind |-> "pcall", of |-> "load", L |-> run, at |-> Depth, nny |-> L.nny, ncc |-> L.nCcalls,
                   errfunc |-> L.errfunc, ef |-> ef]
            u == Guarded(L, ef, n)
<1>1. run # Nobody /\ thrown = "no" /\ ~InParser /\ Becomes(r)
  BY Zenon DEF lua_load, Running
<1>2. /\ th \in [Thread -> lua_State] /\ (\A t \in Thread : Live(th[t])) /\ run \in Thread /\ L \in lua_State
      /\ ef \in Nat /\ L = th[run]
  BY <1>1, RunStack, ThreadIs
<1>. HIDE DEF ef
<1>3. /\ DOMAIN w = {"th", "host", "run", "thrown"} /\ w.th = [th EXCEPT ![run] = Guarded(L, ef, L.nny)]
      /\ w.host = Append(host, a) /\ w.run = run /\ w.thrown = thrown
  BY <1>1, <1>2, PcallIs
<1>4. /\ a.kind = "pcall" /\ a.of = "load" /\ a.L = run /\ a.at = Depth /\ a.nny = L.nny /\ a.ncc = L.nCcalls
      /\ a.errfunc = L.errfunc /\ a.ef = ef
  OBVIOUS
<1>. HIDE DEF a, w
<1>5. /\ DOMAIN r = {"th", "host", "run", "thrown"} /\ r.host = w.host /\ r.run = run /\ r.thrown = "no"
      /\ r.th = [w.th EXCEPT ![run].nny = @ + 1]
  BY <1>1, <1>3
<1>6. [Guarded(L, ef, L.nny) EXCEPT !.nny = @ + 1] = u
  BY <1>2 DEF Guarded, lua_State
<1>. HIDE DEF u, n
<1>7. r.th = [th EXCEPT ![run] = u]
  BY <1>2, <1>3, <1>5, <1>6
<1>. HIDE DEF r
<1>8. n = L.nny + 1
  BY DEF n
<1>. DEFINE e == r.th
<1>9. e = [th EXCEPT ![run] = u]
  BY <1>7
<1>. HIDE DEF e
<1>10. Stacked(Append(host, a), e, run, "no") /\ u \in lua_State /\ Live(u) /\ Last(Append(host, a)) = a
  <2>. DEFINE of == "load"
  <2>1. /\ e = [th EXCEPT ![run] = Guarded(L, ef, n)] /\ n = IF of = "load" THEN L.nny + 1 ELSE L.nny
        /\ of = "load" => ~InParser
    BY <1>1, <1>8, <1>9 DEF u
  <2>2. a.of = of
    BY <1>4
  <2>. HIDE DEF of
  <2>3. /\ Stacked(Append(host, a), e, run, "no") /\ Guarded(L, ef, n) \in lua_State /\ Live(Guarded(L, ef, n))
        /\ Last(Append(host, a)) = a
    BY <1>1, <1>2, <1>4, <2>1, <2>2, GuardedStack
  <2>. QED
    BY <2>3 DEF u
<1>11. r.th = e /\ Stacked(r.host, e, r.run, r.thrown) /\ Settled(r.host)
  BY <1>3, <1>4, <1>5, <1>10 DEF Settled, e
<1>12. StackInv(r)
  BY <1>2, <1>5, <1>9, <1>10, <1>11, StackMade
<1>. QED
  BY <1>1, <1>12, BecomesStack DEF r

\* The end of a protected call, or a jump to it: no less than what it protects is left.
LEMMA LeavePcallStack ==
  ASSUME NEW j \in 1..Len(host), NEW u \in lua_State, NEW y, NEW r, StackInv(State), run # Nobody,
         host[j].kind = "pcall", host[j].L = run, y # "yield", Live(u), u.nny = host[j].nny, u.fn = L.fn,
         u.status = L.status, host[j].at <= Len(u.ci), DOMAIN r = {"th", "host", "run", "thrown"},
         r.th = [th EXCEPT ![run] = u], r.host = SubSeq(host, 1, j - 1), r.run = run, r.thrown = y
  PROVE  StackInv(r)
<1>. DEFINE m == j - 1
            e == [th EXCEPT ![run] = u]
            f == host[j]
<1>1. /\ th \in [Thread -> lua_State] /\ (\A t \in Thread : Live(th[t])) /\ Stacked(host, th, run, thrown)
      /\ run \in Thread /\ L = th[run] /\ Owns(host, th, run, run, thrown)
      /\ Len(host) \in Nat /\ DOMAIN host = 1..Len(host) /\ DOMAIN th = Thread
  BY RunStack
<1>2. m \in 0..Len(host) /\ m \in Nat /\ j \in DOMAIN host
  BY <1>1
<1>3. Owner(host, m) = run /\ f.at \in Nat /\ f.at >= 1 /\ f.nny = Base0(run) + Nny(host, run, m)
  BY <1>1, <1>2 DEF Stacked, Linked, Saved, Low
<1>4. thrown # "yield" /\ u.status = "ok" /\ ~u.fn
  BY <1>1, <1>2 DEF Stacked, Yields, Owns
<1>5. Len(u.ci) \in Nat /\ Len(u.ci) >= 1
  BY <1>3, ThreadIs
<1>6. ASSUME NEW i \in 1..m, host[i].kind # "resume", host[i].L = run
      PROVE  Low(host[i]) <= Len(u.ci) /\ (IsCall(host[i]) /\ y = "no" => host[i].at <= Len(u.ci))
  <2>1. i \in DOMAIN host /\ i < j /\ host[i].at \in Nat /\ Low(host[i]) \in Int /\ Low(f) = f.at
    BY <1>1, <1>2, <1>6 DEF Stacked, Linked, Low
  <2>2. Low(host[i]) <= f.at /\ (IsCall(host[i]) => Low(host[i]) < f.at)
    BY <1>1, <1>2, <1>6, <2>1 DEF Stacked, Ordered
  <2>3. IsCall(host[i]) => Low(host[i]) = host[i].at - 1
    BY DEF IsCall, Low
  <2>. QED
    BY <1>3, <1>5, <2>1, <2>2, <2>3
<1>7. Settled(SubSeq(host, 1, m))
  <2>. SUFFICES ASSUME SubSeq(host, 1, m) # <<>>, Last(SubSeq(host, 1, m)).kind = "pcall"
                PROVE  Last(SubSeq(host, 1, m)).of = "load"
    BY DEF Settled
  <2>1. IsSeq(host) /\ Len(SubSeq(host, 1, m)) = m /\ IsSeq(SubSeq(host, 1, m)) /\ \A i \in 1..m : SubSeq(host, 1, m)[i] = host[i]
    BY <1>1, <1>2, SeqCut DEF Stacked
  <2>2. m \in 1..m /\ m # 0
    BY <1>2, <2>1, SeqLen
  <2>3. Last(SubSeq(host, 1, m)) = host[m] /\ m \in DOMAIN host /\ m < Len(host) /\ m + 1 = j
    BY <1>1, <1>2, <2>1, <2>2 DEF Last
  <2>4. host[m].of # "load" => IsCall(host[j])
    BY <1>1, <2>3 DEF Stacked, Saved
  <2>. QED
    BY <2>3, <2>4 DEF IsCall
<1>. HIDE DEF e, m
<1>8. e = [th EXCEPT ![run] = u]
  BY DEF e
<1>9. u.nny = Base0(run) + Nny(host, run, m)
  BY <1>3
<1>10. Stacked(SubSeq(host, 1, m), e, run, y)
  BY <1>1, <1>2, <1>3, <1>4, <1>5, <1>6, <1>8, <1>9, LeaveStack
<1>11. r.th = e /\ Stacked(r.host, e, r.run, r.thrown) /\ Settled(r.host)
  BY <1>7, <1>8, <1>10 DEF m
<1>. QED
  BY <1>1, <1>8, <1>11, StackMade

\* The numbers that a protected call has saved.
LEMMA SavedIs ==
  ASSUME NEW j \in 1..Len(host), StackInv(State), run # Nobody, host[j].kind = "pcall", host[j].L = run
  PROVE  /\ host[j].nny \in Int /\ host[j].ncc \in Int /\ host[j].errfunc \in Nat /\ host[j].at \in Nat
         /\ host[j].at >= 1 /\ host[j].at <= Depth /\ thrown # "yield"
<1>1. /\ Stacked(host, th, run, thrown) /\ L = th[run] /\ run \in Thread /\ Depth = Len(L.ci)
      /\ Len(host) \in Nat /\ DOMAIN host = 1..Len(host)
  BY RunStack
<1>2. /\ host[j].ncc \in Int /\ host[j].errfunc \in Nat /\ host[j].at \in Nat /\ host[j].at >= 1
      /\ host[j].at <= Depth /\ thrown # "yield"
  BY <1>1 DEF Stacked, Linked, Low, Fits, Yields
<1>3. host[j].nny = Base0(run) + Nny(host, run, j - 1) /\ j - 1 \in Nat
  BY <1>1 DEF Stacked, Saved
<1>4. host[j].nny \in Int
  BY <1>3, NnyStep DEF Base0
<1>. QED
  BY <1>2, <1>4

\* What the end of luaD_pcall gives back to the thread.
Restored(v, n, ncc, ef) == [v EXCEPT !.errfunc = ef, !.nCcalls = ncc, !.nny = n]

\* The frames stay, and so do the upvalues.
LEMMA RestoredIs ==
  ASSUME NEW v \in lua_State, NEW n \in Int, NEW ncc \in Int, NEW ef \in Nat
  PROVE  LET u == Restored(v, n, ncc, ef)
         IN /\ u \in lua_State /\ u.ci = v.ci /\ u.nny = n /\ u.fn = v.fn /\ u.status = v.status /\ u.open = v.open
            /\ u.errfunc = ef
            /\ Live(v) => Live(u)
<1>. DEFINE u == Restored(v, n, ncc, ef)
<1>1. /\ u \in lua_State /\ u.ci = v.ci /\ u.nny = n /\ u.fn = v.fn /\ u.status = v.status /\ u.open = v.open
      /\ u.errfunc = ef
  BY DEF Restored, lua_State
<1>. HIDE DEF u
<1>2. Live(v) => Live(u)
  BY <1>1 DEF Live
<1>. QED
  BY <1>1, <1>2 DEF u

\* The parser ends without an error.
LEMMA ParserEndsStack ==
  ASSUME StackInv(State), ParserEnds
  PROVE  StackInv(State)'
<1>. DEFINE f == Last(host)
            j == Len(host)
            u == Restored(L, f.nny, f.ncc, f.errfunc)
            r == [State EXCEPT !.host = Pop(@),
                    !.th[run] = [@ EXCEPT !.errfunc = f.errfunc, !.nCcalls = f.ncc, !.nny = f.nny]]
<1>1. run # Nobody /\ thrown = "no" /\ InParser /\ Becomes(r)
  BY Zenon DEF ParserEnds
<1>2. /\ IsSeq(host) /\ j \in Nat /\ L \in lua_State /\ L = th[run] /\ Live(L) /\ run \in Thread /\ DOMAIN th = Thread
      /\ Depth = Len(L.ci)
  BY <1>1, RunStack DEF Stacked
<1>3. j \in 1..Len(host) /\ f = host[j] /\ host[j].kind = "pcall" /\ host[j].L = run
  BY <1>1, <1>2, SeqLen DEF InParser, Last
<1>. HIDE DEF f, j
<1>4. /\ f.nny \in Int /\ f.ncc \in Int /\ f.errfunc \in Nat /\ f.at <= Depth
  BY <1>1, <1>3, SavedIs
<1>5. /\ DOMAIN r = {"th", "host", "run", "thrown"} /\ r.host = SubSeq(host, 1, j - 1) /\ r.run = run
      /\ r.thrown = "no" /\ r.th = [th EXCEPT ![run] = u]
  BY <1>1, <1>2, StateIs DEF Pop, Restored, j
<1>6. u \in lua_State /\ u.ci = L.ci /\ u.nny = f.nny /\ u.fn = L.fn /\ u.status = L.status /\ Live(u)
  <2>1. ASSUME NEW v \in lua_State, NEW n \in Int, NEW ncc \in Int, NEW ef \in Nat, Live(v)
        PROVE  LET g == Restored(v, n, ncc, ef)
               IN g \in lua_State /\ g.ci = v.ci /\ g.nny = n /\ g.fn = v.fn /\ g.status = v.status /\ Live(g)
    BY <2>1, RestoredIs
  <2>. HIDE DEF r, u
  <2>2. LET g == Restored(L, f.nny, f.ncc, f.errfunc)
        IN g \in lua_State /\ g.ci = L.ci /\ g.nny = f.nny /\ g.fn = L.fn /\ g.status = L.status /\ Live(g)
    BY <1>2, <1>4, <2>1
  <2>. QED
    BY <2>2 DEF u
<1>. HIDE DEF r, u
<1>7. u.nny = host[j].nny /\ host[j].at <= Len(u.ci)
  BY <1>2, <1>3, <1>4, <1>6
<1>8. StackInv(r)
  BY <1>1, <1>3, <1>5, <1>6, <1>7, LeavePcallStack
<1>. QED
  BY <1>1, <1>8, BecomesStack DEF r

\* A part of the frames is left: those above are gone, and so are their upvalues.
LEMMA CutIs ==
  ASSUME NEW v \in lua_State, NEW p, Live(v), p \in 0..Len(v.ci), v.status # "yield"
  PROVE  LET u == [luaF_close(v, p + 1) EXCEPT !.ci = SubSeq(@, 1, p)]
         IN /\ u \in lua_State /\ Len(u.ci) = p /\ u.nny = v.nny /\ u.fn = v.fn /\ u.status = v.status
            /\ u.errfunc = v.errfunc /\ Live(u) /\ \A i \in 1..p : i \in DOMAIN u.ci /\ u.ci[i] = v.ci[i]
<1>. DEFINE w == luaF_close(v, p + 1)
            q == SubSeq(v.ci, 1, p)
            u == [w EXCEPT !.ci = SubSeq(@, 1, p)]
<1>1. /\ w \in lua_State /\ w.ci = v.ci /\ w.nny = v.nny /\ w.fn = v.fn /\ w.status = v.status
      /\ w.errfunc = v.errfunc /\ w.open = {k \in v.open : k < p + 1}
  BY CloseIs
<1>2. v.ci \in Seq(CallInfo) /\ Len(v.ci) \in Nat /\ DOMAIN v.ci = 1..Len(v.ci) /\ v.open \in SUBSET Nat
  BY ThreadIs
<1>3. q \in Seq(CallInfo) /\ Len(q) = p /\ DOMAIN q = 1..p /\ \A i \in 1..p : q[i] = v.ci[i]
  BY <1>2
<1>. HIDE DEF w, q
<1>4. u = [w EXCEPT !.ci = q]
  BY <1>1 DEF q
<1>5. /\ u \in lua_State /\ u.ci = q /\ u.nny = w.nny /\ u.fn = w.fn /\ u.status = w.status
      /\ u.errfunc = w.errfunc /\ u.open = w.open
  BY <1>1, <1>3, <1>4 DEF lua_State
<1>. HIDE DEF u
<1>6. Live(u)
  <2>1. \A n \in u.open : n \in v.open /\ n \in Nat /\ n < p + 1
    BY <1>1, <1>2, <1>5
  <2>2. \A n \in u.open : n \in 1..p /\ v.ci[n].lua
    BY <1>2, <2>1 DEF Live
  <2>. QED
    BY <1>1, <1>3, <1>5, <2>2 DEF Live
<1>. QED
  BY <1>1, <1>3, <1>5, <1>6 DEF u, w

-----------------------------------------------------------------------------
(* Throws and the ends of resumes. *)

\* luaD_pcall catches.
LEMMA CaughtByPcallStack ==
  ASSUME NEW j \in 1..Len(host), StackInv(State), run # Nobody, host[j].kind = "pcall", host[j].L = run, CaughtByPcall(j)
  PROVE  StackInv(State)'
<1>. DEFINE f == host[j]
            w == [luaF_close(L, f.at + 1) EXCEPT !.ci = SubSeq(@, 1, f.at)]
            u == Restored(w, f.nny, f.ncc, f.errfunc)
            s == [State EXCEPT !.host = SubSeq(@, 1, j - 1), !.thrown = "no",
             !.th[run] = [luaF_close(L, f.at + 1) EXCEPT
                !.ci = SubSeq(@, 1, f.at), !.nny = f.nny, !.nCcalls = f.ncc, !.errfunc = f.errfunc]]
            g == [s EXCEPT !.thrown = "gcmm"]
<1>1. /\ L \in lua_State /\ L = th[run] /\ Live(L) /\ run \in Thread /\ DOMAIN th = Thread
      /\ Depth = Len(L.ci) /\ Depth \in Nat /\ Owns(host, th, run, run, thrown)
  BY RunStack
<1>2. /\ f.nny \in Int /\ f.ncc \in Int /\ f.errfunc \in Nat /\ f.at \in Nat /\ f.at <= Depth /\ thrown # "yield"
  BY SavedIs
<1>3. Becomes(s) \/ Becomes(g)
  BY Zenon DEF CaughtByPcall
<1>4. [luaF_close(L, f.at + 1) EXCEPT
                !.ci = SubSeq(@, 1, f.at), !.nny = f.nny, !.nCcalls = f.ncc, !.errfunc = f.errfunc] = u
  BY <1>1, CloseIs DEF Restored, lua_State
<1>5. /\ DOMAIN s = {"th", "host", "run", "thrown"} /\ s.host = SubSeq(host, 1, j - 1) /\ s.run = run
      /\ s.thrown = "no" /\ s.th = [th EXCEPT ![run] = u]
  BY <1>4, StateIs
<1>. HIDE DEF s, u
<1>6. /\ DOMAIN g = {"th", "host", "run", "thrown"} /\ g.host = s.host /\ g.run = s.run
      /\ g.thrown = "gcmm" /\ g.th = s.th
  BY <1>5
<1>. HIDE DEF g
<1>7. w \in lua_State /\ Len(w.ci) = f.at /\ w.fn = L.fn /\ w.status = L.status /\ Live(w)
  <2>. DEFINE p == f.at
  <2>1. p \in 0..Len(L.ci) /\ L.status # "yield"
    BY <1>1, <1>2 DEF Owns
  <2>. HIDE DEF p
  <2>2. ASSUME NEW v \in lua_State, Live(v), p \in 0..Len(v.ci), v.status # "yield"
        PROVE  LET z == [luaF_close(v, p + 1) EXCEPT !.ci = SubSeq(@, 1, p)]
               IN z \in lua_State /\ Len(z.ci) = p /\ z.fn = v.fn /\ z.status = v.status /\ Live(z)
    BY <2>2, CutIs
  <2>3. LET z == [luaF_close(L, p + 1) EXCEPT !.ci = SubSeq(@, 1, p)]
        IN z \in lua_State /\ Len(z.ci) = p /\ z.fn = L.fn /\ z.status = L.status /\ Live(z)
    BY <1>1, <2>1, <2>2
  <2>. QED
    BY <2>3 DEF p
<1>. HIDE DEF w
<1>8. u \in lua_State /\ u.ci = w.ci /\ u.nny = f.nny /\ u.fn = L.fn /\ u.status = L.status /\ Live(u)
  <2>1. ASSUME NEW v \in lua_State, NEW n \in Int, NEW ncc \in Int, NEW ef \in Nat, Live(v)
        PROVE  LET z == Restored(v, n, ncc, ef)
               IN z \in lua_State /\ z.ci = v.ci /\ z.nny = n /\ z.fn = v.fn /\ z.status = v.status /\ Live(z)
    BY <2>1, RestoredIs
  <2>2. LET z == Restored(w, f.nny, f.ncc, f.errfunc)
        IN z \in lua_State /\ z.ci = w.ci /\ z.nny = f.nny /\ z.fn = w.fn /\ z.status = w.status /\ Live(z)
    BY <1>2, <1>7, <2>1
  <2>. QED
    BY <1>7, <2>2 DEF u
<1>9. u.nny = host[j].nny /\ host[j].at <= Len(u.ci)
  BY <1>2, <1>7, <1>8
<1>10. StackInv(s)
  BY <1>5, <1>8, <1>9, LeavePcallStack
<1>11. StackInv(g)
  BY <1>5, <1>6, <1>8, <1>9, LeavePcallStack
<1>. QED
  BY <1>3, <1>10, <1>11, BecomesStack

\* The end of a yieldable protected call, if it is one.
LEMMA EndYpcallIs ==
  ASSUME NEW v \in lua_State, v.ci # <<>>
  PROVE  LET u == EndYpcall(v)
         IN /\ u \in lua_State /\ Len(u.ci) = Len(v.ci)
            /\ u.nny = v.nny /\ u.fn = v.fn /\ u.status = v.status /\ u.open = v.open
            /\ Live(v) => Live(u)
<1>. DEFINE d == Len(v.ci)
            c == [Last(v.ci) EXCEPT !.yp = FALSE, !.ef = 0, !.oldef = 0]
            ef == Last(v.ci).oldef
            u == Changed(v, d, c, ef)
<1>1. v.ci \in Seq(CallInfo) /\ d \in DOMAIN v.ci /\ Last(v.ci) = v.ci[d]
  BY ThreadIs DEF Last
<1>2. c \in CallInfo /\ c.lua = v.ci[d].lua /\ ef \in Nat
  <2>1. v.ci[d] \in CallInfo
    BY <1>1
  <2>. QED
    BY <1>1, <2>1 DEF CallInfo
<1>3. EndYpcall(v) = u \/ EndYpcall(v) = v
  <2>1. u = [v EXCEPT !.ci[Len(v.ci)] = [@ EXCEPT !.yp = FALSE, !.ef = 0, !.oldef = 0], !.errfunc = Last(v.ci).oldef]
    BY <1>1, ThreadIs DEF Changed
  <2>. HIDE DEF u
  <2>. QED
    BY <2>1 DEF EndYpcall
<1>. HIDE DEF c, ef, d
<1>. HIDE DEF u
<1>4. /\ u \in lua_State /\ Len(u.ci) = Len(v.ci)
      /\ u.nny = v.nny /\ u.fn = v.fn /\ u.status = v.status /\ u.open = v.open
      /\ Live(v) => Live(u)
  <2>1. u = Changed(v, d, c, ef)
    BY DEF u
  <2>. QED
    BY <1>1, <1>2, <2>1, ChangedIs
<1>. QED
  BY <1>3, <1>4

\* The control goes back to the thread that resumed.
LEMMA EndResumeMade ==
  ASSUME NEW s, NEW f \in [Thread -> lua_State], NEW x, NEW v \in lua_State,
         DOMAIN s = {"th", "host", "run", "thrown"}, Stacked(s.host, f, s.run, x), s.th = [f EXCEPT ![s.run] = v],
         \A t \in Thread : Live(s.th[t]), s.host # <<>>, Last(s.host).kind = "resume"
  PROVE  StackInv(EndResume(s))
<1>. DEFINE h == s.host
            n == Len(h)
            a == Last(h)
            r == EndResume(s)
            u == [v EXCEPT !.nny = a.nny, !.nCcalls = a.ncc - 1]
            e == [f EXCEPT ![s.run] = u]
<1>1. n \in Nat /\ n > 0 /\ DOMAIN h = 1..n /\ n \in DOMAIN h /\ a = h[n] /\ IsSeq(h)
  BY SeqLen DEF Stacked, Last
<1>2. a.nny \in Int /\ a.ncc \in Int /\ s.run \in Thread /\ a.L = s.run
  BY <1>1, TopOwner DEF Stacked, Linked, Owner
<1>3. r = [s EXCEPT !.host = Pop(@), !.run = a.from, !.thrown = "no",
               !.th[a.L].nny = a.nny, !.th[a.L].nCcalls = a.ncc - 1]
  BY Zenon DEF EndResume
<1>. HIDE DEF a, h
<1>4. u \in lua_State /\ u.ci = v.ci /\ u.open = v.open /\ u.status = v.status
  <2>1. ASSUME NEW p \in Int, NEW q \in Int
        PROVE  LET z == [v EXCEPT !.nny = p, !.nCcalls = q]
               IN z \in lua_State /\ z.ci = v.ci /\ z.open = v.open /\ z.status = v.status
    BY DEF lua_State
  <2>2. a.ncc - 1 \in Int
    BY <1>2
  <2>. QED
    BY <1>2, <2>1, <2>2
<1>5. /\ DOMAIN r = {"th", "host", "run", "thrown"} /\ r.host = Pop(s.host) /\ r.run = a.from /\ r.thrown = "no"
      /\ r.th = e
  <2>1. r.th = [s.th EXCEPT ![s.run].nny = a.nny, ![s.run].nCcalls = a.ncc - 1]
    <3>1. r.th = [s.th EXCEPT ![a.L].nny = a.nny, ![a.L].nCcalls = a.ncc - 1]
      <4>. DEFINE b == [s EXCEPT !.host = Pop(@), !.run = a.from, !.thrown = "no"]
                  p == a.nny
                  q == a.ncc - 1
                  o == a.L
      <4>1. b.th = s.th /\ DOMAIN b = {"th", "host", "run", "thrown"}
        OBVIOUS
      <4>2. r = [b EXCEPT !.th[o].nny = p, !.th[o].nCcalls = q]
        BY <1>3
      <4>. HIDE DEF b, p, q, o, r
      <4>3. r.th = [b.th EXCEPT ![o].nny = p, ![o].nCcalls = q]
        BY <4>1, <4>2
      <4>. QED
        BY <4>1, <4>3 DEF p, q, o
    <3>. QED
      BY <1>2, <3>1
  <2>2. s.th[s.run] = v /\ DOMAIN s.th = Thread
    BY <1>2
  <2>3. r.th = [s.th EXCEPT ![s.run] = u]
    BY <1>2, <2>1, <2>2
  <2>4. r.th = e
    BY <2>3
  <2>5. DOMAIN r = {"th", "host", "run", "thrown"} /\ r.host = Pop(s.host) /\ r.run = a.from /\ r.thrown = "no"
    BY <1>3
  <2>. QED
    BY <2>4, <2>5
<1>. HIDE DEF r, u, e
<1>6. e = [f EXCEPT ![s.run] = u]
  BY DEF e
<1>7. Stacked(Pop(s.host), e, a.from, "no") /\ a.from \in Thread
  <2>. DEFINE q == s.host
              o == s.run
  <2>1. Stacked(q, f, o, x) /\ q # <<>> /\ Last(q).kind = "resume" /\ e = [f EXCEPT ![o] = u] /\ DOMAIN f = Thread
    BY <1>6
  <2>. HIDE DEF q, o
  <2>2. Stacked(Pop(q), e, Last(q).from, "no") /\ Last(q).from \in Thread
    BY <2>1, EndResumeStack
  <2>. QED
    BY <2>2 DEF q, a, h
<1>8. Live(v)
  BY <1>2
<1>9. Live(u) /\ e \in [Thread -> lua_State]
  BY <1>4, <1>6, <1>8 DEF Live
<1>10. \A t \in Thread : Live(e[t])
  BY <1>2, <1>6, <1>9
<1>11. Settled(Pop(s.host))
  <2>. DEFINE q == Pop(h)
  <2>. SUFFICES ASSUME q # <<>>, Last(q).kind = "pcall" PROVE Last(q).of = "load"
    BY DEF Settled, h
  <2>1. n - 1 \in 0..n
    BY <1>1
  <2>2. IsSeq(q) /\ Len(q) = n - 1 /\ \A i \in 1..(n - 1) : q[i] = h[i]
    BY <1>1, <2>1, SeqCut DEF Pop
  <2>3. n - 1 \in 1..(n - 1) /\ Last(q) = h[n - 1] /\ n - 1 \in DOMAIN h /\ n - 1 < n /\ (n - 1) + 1 = n
    BY <1>1, <2>2, SeqLen DEF Last
  <2>4. h[n].kind = "resume"
    BY <1>1 DEF a, h
  <2>5. Saved(h)
    BY DEF Stacked, h
  <2>. QED
    BY <2>3, <2>4, <2>5 DEF Saved, IsCall
<1>12. StackInv(r)
  BY <1>5, <1>7, <1>9, <1>10, <1>11, CallAssumption DEF StackInv
<1>. QED
  BY <1>12 DEF r

\* A jump to the resume of the thread that runs leaves nothing of that thread on the C stack.
LEMMA DropToResume ==
  ASSUME NEW j \in 1..Len(host), NEW u, NEW e, StackInv(State), run # Nobody, host[j].kind = "resume", host[j].L = run,
         ~u.fn, Len(u.ci) >= 1, u.nny = 0, u.status = "ok", e = [th EXCEPT ![run] = u]
  PROVE  LET g == SubSeq(host, 1, j)
         IN /\ Stacked(g, e, run, "no") /\ Settled(g) /\ g # <<>> /\ Last(g) = host[j]
            /\ host[j].nny \in Int /\ host[j].ncc \in Int
<1>1. /\ th \in [Thread -> lua_State] /\ Stacked(host, th, run, thrown) /\ run \in Thread /\ IsSeq(host)
      /\ Len(host) \in Nat /\ DOMAIN host = 1..Len(host) /\ DOMAIN th = Thread
  BY RunStack DEF Stacked
<1>2. j \in 0..Len(host) /\ j \in Nat /\ j \in DOMAIN host /\ Owner(host, j) = run
  BY <1>1 DEF Owner
<1>3. \A i \in 0..(j - 1) : Owner(host, i) # run
  BY <1>1, <1>2 DEF Stacked, Apart
<1>4. \A i \in 1..j : host[i].L = run => host[i].kind = "resume"
  <2>. SUFFICES ASSUME NEW i \in 1..j, host[i].L = run, i # j PROVE FALSE
    OBVIOUS
  <2>1. i \in 0..(j - 1) /\ Owner(host, i) = run
    BY <1>2 DEF Owner
  <2>. QED
    BY <1>3, <2>1
<1>5. Nny(host, run, j) = 0
  <2>1. \A i \in 1..j : ~(host[i].L = run /\ NoYield(host[i]))
    BY <1>4 DEF NoYield, IsCall
  <2>. QED
    BY <1>2, <2>1, NnyZero
<1>6. run # Main /\ Base0(run) = 0
  <2>1. 0 \in 0..(j - 1) /\ Owner(host, 0) = Main
    BY <1>2 DEF Owner
  <2>. QED
    BY <1>3, <2>1 DEF Base0
<1>7. u.nny = Base0(run) + Nny(host, run, j)
  BY <1>5, <1>6
<1>8. \A i \in 1..j : host[i].kind # "resume" /\ host[i].L = run =>
            Low(host[i]) <= Len(u.ci) /\ (IsCall(host[i]) /\ "no" = "no" => host[i].at <= Len(u.ci))
  BY <1>4
<1>. DEFINE g == SubSeq(host, 1, j)
            y == "no"
<1>9. Stacked(g, e, run, y)
  <2>1. /\ \A i \in 1..j : host[i].kind # "resume" /\ host[i].L = run =>
             Low(host[i]) <= Len(u.ci) /\ (IsCall(host[i]) /\ y = "no" => host[i].at <= Len(u.ci))
        /\ y # "yield"
    BY <1>8
  <2>. HIDE DEF y
  <2>2. /\ u.status = "ok" \/ (y = "yield" /\ u.status = "yield")
        /\ y = "yield" => u.status = "yield" /\ \A i \in 1..j : ~(host[i].kind = "pcall" /\ host[i].L = run)
    BY <2>1
  <2>. QED
    BY <1>1, <1>2, <1>7, <2>1, <2>2, LeaveStack
<1>10. Last(g) = host[j] /\ g # <<>>
  <2>1. IsSeq(g) /\ Len(g) = j /\ g[j] = host[j]
    BY <1>1, <1>2, SeqCut
  <2>. HIDE DEF g
  <2>. QED
    BY <1>2, <2>1, SeqLen DEF Last
<1>11. host[j].nny \in Int /\ host[j].ncc \in Int
  BY <1>1, <1>2 DEF Stacked, Linked
<1>12. Settled(g)
  BY <1>10 DEF Settled
<1>. QED
  BY <1>9, <1>10, <1>11, <1>12

\* A coroutine at its recovery point.
LEMMA RecoverIs ==
  ASSUME NEW v \in lua_State, NEW p, Live(v), p \in 1..Len(v.ci), v.status # "yield"
  PROVE  LET u == recover(v, p)
         IN /\ u \in lua_State /\ Len(u.ci) = p /\ u.nny = 0 /\ u.fn = v.fn /\ u.status = v.status
            /\ Live(u)
<1>. DEFINE w == [luaF_close(v, p + 1) EXCEPT !.ci = SubSeq(@, 1, p)]
            z == [w EXCEPT !.nny = 0]
<1>0. p \in Nat /\ p \in 0..Len(v.ci) /\ p > 0
  BY ThreadIs
<1>1. w \in lua_State /\ Len(w.ci) = p /\ w.fn = v.fn /\ w.status = v.status /\ Live(w)
  BY <1>0, CutIs
<1>2. recover(v, p) = EndYpcall(z)
  BY DEF recover
<1>. HIDE DEF w
<1>3. /\ z \in lua_State /\ z.ci = w.ci /\ z.nny = 0 /\ z.fn = w.fn /\ z.status = w.status /\ z.open = w.open
  <2>1. ASSUME NEW n \in Int
        PROVE  LET x == [w EXCEPT !.nny = n]
               IN x \in lua_State /\ x.ci = w.ci /\ x.nny = n /\ x.fn = w.fn /\ x.status = w.status /\ x.open = w.open
    BY <1>1 DEF lua_State
  <2>. QED
    BY <2>1
<1>. HIDE DEF z
<1>4. z.ci # <<>> /\ Live(z)
  BY <1>0, <1>1, <1>3 DEF Live
<1>5. LET u == EndYpcall(z)
      IN /\ u \in lua_State /\ Len(u.ci) = Len(z.ci) /\ u.nny = z.nny /\ u.fn = z.fn /\ u.status = z.status
         /\ Live(u)
  BY <1>3, <1>4, EndYpcallIs
<1>. QED
  BY <1>1, <1>2, <1>3, <1>5

\* lua_resume catches.
LEMMA CaughtByResumeStack ==
  ASSUME NEW j \in 1..Len(host), StackInv(State), run # Nobody, thrown # "no", host[j].kind = "resume", host[j].L = run,
         CaughtByResume(j)
  PROVE  StackInv(State)'
<1>. DEFINE f == host[j]
            g == SubSeq(host, 1, j)
            v == [L EXCEPT !.nCcalls = f.ncc]
            b == [L EXCEPT !.nny = 0, !.status = "ok"]
            s == [State EXCEPT !.host = SubSeq(@, 1, j), !.thrown = "no", !.th[run].nCcalls = f.ncc]
            q == [s EXCEPT !.th[run] = recover(@, Max(findpcall))]
            d == [s EXCEPT !.th[run] = MarkDead(@)]
<1>1. /\ th \in [Thread -> lua_State] /\ (\A t \in Thread : Live(th[t])) /\ L \in lua_State /\ L = th[run] /\ Live(L)
      /\ run \in Thread /\ Depth = Len(L.ci) /\ Depth \in Nat /\ Depth >= 1 /\ Owns(host, th, run, run, thrown)
      /\ DOMAIN L.ci = 1..Depth
  BY RunStack
<1>2. b.nny = 0 /\ b.status = "ok" /\ b.fn = L.fn /\ b.ci = L.ci /\ b \in lua_State
  <2>1. ASSUME NEW n \in Int, NEW o \in {"ok", "yield", "error"}
        PROVE  LET x == [L EXCEPT !.nny = n, !.status = o]
               IN x.nny = n /\ x.status = o /\ x.fn = L.fn /\ x.ci = L.ci /\ x \in lua_State
    BY <1>1 DEF lua_State
  <2>2. 0 \in Int /\ "ok" \in {"ok", "yield", "error"}
    OBVIOUS
  <2>. QED
    BY <2>1, <2>2, Zenon
<1>3. ~b.fn /\ Len(b.ci) >= 1
  BY <1>1, <1>2 DEF Owns
<1>. DEFINE e == [th EXCEPT ![run] = b]
<1>. HIDE DEF b
<1>4. e \in [Thread -> lua_State] /\ e = [th EXCEPT ![run] = b]
  BY <1>1, <1>2
<1>. HIDE DEF e
<1>5. /\ Stacked(g, e, run, "no") /\ Settled(g) /\ g # <<>> /\ Last(g) = host[j]
      /\ f.nny \in Int /\ f.ncc \in Int
  BY <1>2, <1>3, <1>4, DropToResume
<1>6. Becomes(IF thrown = "yield" THEN EndResume(s) ELSE IF findpcall # {} THEN q ELSE EndResume(d))
  BY Zenon DEF CaughtByResume
<1>. HIDE DEF f
<1>7. /\ DOMAIN s = {"th", "host", "run", "thrown"} /\ s.host = g /\ s.run = run /\ s.thrown = "no"
      /\ s.th = [th EXCEPT ![run] = v]
  BY <1>1, StateIs
<1>8. v \in lua_State /\ v.ci = L.ci /\ v.nny = L.nny /\ v.fn = L.fn /\ v.status = L.status /\ v.open = L.open
  <2>1. ASSUME NEW n \in Int
        PROVE  LET z == [L EXCEPT !.nCcalls = n]
               IN z \in lua_State /\ z.ci = L.ci /\ z.nny = L.nny /\ z.fn = L.fn /\ z.status = L.status /\ z.open = L.open
    BY <1>1 DEF lua_State
  <2>. QED
    BY <1>5, <2>1
<1>. HIDE DEF v, g, s
<1>9. Live(v)
  BY <1>1, <1>8 DEF Live
<1>10. /\ DOMAIN q = {"th", "host", "run", "thrown"} /\ q.host = g /\ q.run = run /\ q.thrown = "no"
       /\ q.th = [th EXCEPT ![run] = recover(v, Max(findpcall))]
  BY <1>1, <1>7
<1>11. /\ DOMAIN d = {"th", "host", "run", "thrown"} /\ d.host = g /\ d.run = run /\ d.thrown = "no"
       /\ d.th = [th EXCEPT ![run] = MarkDead(v)]
  BY <1>1, <1>7
<1>12. MarkDead(v) \in lua_State /\ Live(MarkDead(v))
  <2>1. MarkDead(v) \in lua_State /\ MarkDead(v).open = v.open /\ MarkDead(v).ci = v.ci /\ MarkDead(v).status = "error"
    BY <1>8 DEF MarkDead, lua_State
  <2>. QED
    BY <1>9, <2>1 DEF Live
<1>. HIDE DEF q, d
<1>13. ASSUME NEW w, NEW z \in lua_State, DOMAIN w = {"th", "host", "run", "thrown"}, w.host = g, w.run = run,
              w.th = [th EXCEPT ![run] = z], Live(z)
       PROVE  StackInv(EndResume(w))
  <2>1. w.th = [e EXCEPT ![w.run] = z] /\ \A t \in Thread : Live(w.th[t])
    BY <1>1, <1>4, <1>13
  <2>2. Stacked(w.host, e, w.run, "no") /\ w.host # <<>> /\ Last(w.host).kind = "resume"
    BY <1>5, <1>13
  <2>. QED
    BY <1>4, <1>13, <2>1, <2>2, EndResumeMade, ZenonT(60)
<1>14. CASE thrown = "yield"
  <2>1. StackInv(EndResume(s))
    BY <1>7, <1>8, <1>9, <1>13
  <2>. QED
    BY <1>6, <1>14, <2>1, BecomesStack
<1>15. CASE thrown # "yield" /\ findpcall = {}
  <2>1. StackInv(EndResume(d))
    BY <1>11, <1>12, <1>13
  <2>. QED
    BY <1>6, <1>15, <2>1, BecomesStack
<1>16. CASE thrown # "yield" /\ findpcall # {}
  <2>. DEFINE p == Max(findpcall)
              u == recover(v, p)
              o == [th EXCEPT ![run] = u]
  <2>1. findpcall \in SUBSET (1..Depth)
    BY <1>1 DEF findpcall
  <2>2. p \in 1..Len(v.ci)
    BY <1>1, <1>8, <1>16, <2>1, MaxInSet
  <2>. HIDE DEF p
  <2>3. v.status = "ok" /\ ~v.fn
    BY <1>1, <1>8, <1>16 DEF Owns
  <2>4. u \in lua_State /\ Len(u.ci) = p /\ u.nny = 0 /\ u.fn = v.fn /\ u.status = v.status /\ Live(u)
    BY <1>8, <1>9, <2>2, <2>3, RecoverIs
  <2>. HIDE DEF u
  <2>5. o = [th EXCEPT ![run] = u] /\ ~u.fn /\ Len(u.ci) >= 1 /\ u.status = "ok" /\ q.th = o
    BY <1>10, <2>2, <2>3, <2>4 DEF u, p
  <2>. HIDE DEF o
  <2>6. Stacked(g, o, run, "no") /\ Settled(g)
    BY <2>4, <2>5, DropToResume DEF g, f
  <2>7. StackInv(q)
    <3>1. Stacked(q.host, o, q.run, q.thrown) /\ Settled(q.host)
      BY <1>10, <2>6
    <3>. QED
      BY <1>1, <1>10, <2>4, <2>5, <3>1, StackMade
  <2>. QED
    BY <1>6, <1>16, <2>7, BecomesStack
<1>. QED
  BY <1>14, <1>15, <1>16

\* A throw unwinds the C stack down to what catches it.
LEMMA ThrowStack ==
  ASSUME StackInv(State), luaD_throw
  PROVE  StackInv(State)'
<1>1. run # Nobody /\ thrown # "no"
  BY StateIs DEF StackInv, luaD_throw
<1>2. CASE Catchers = {}
  <2>. DEFINE r == [State EXCEPT !.run = Nobody, !.thrown = "no"]
  <2>1. DOMAIN r = {"th", "host", "run", "thrown"} /\ r.th = th /\ r.host = host /\ r.run = Nobody /\ r.thrown = "no"
    BY StateIs
  <2>2. Becomes(r)
    BY <1>2 DEF luaD_throw
  <2>. HIDE DEF r
  <2>3. StackInv(r)
    BY <2>1, StateIs DEF StackInv
  <2>. QED
    BY <2>2, <2>3, BecomesStack
<1>3. CASE Catchers # {}
  <2>. DEFINE j == Max(Catchers)
  <2>1. Len(host) \in Nat /\ DOMAIN host = 1..Len(host)
    BY <1>1, RunStack
  <2>2. Catchers \in SUBSET (1..Len(host))
    BY <2>1 DEF Catchers
  <2>3. j \in Catchers /\ j \in 1..Len(host)
    BY <1>3, <2>1, <2>2, MaxInSet
  <2>4. IF host[j].kind = "pcall" THEN CaughtByPcall(j) ELSE CaughtByResume(j)
    BY <1>3 DEF luaD_throw
  <2>. HIDE DEF j
  <2>5. host[j].kind \in {"pcall", "resume"} /\ host[j].L = run
    BY <2>3 DEF Catchers
  <2>6. CASE host[j].kind = "pcall"
    BY <1>1, <2>3, <2>4, <2>5, <2>6, CaughtByPcallStack
  <2>7. CASE host[j].kind = "resume"
    BY <1>1, <2>3, <2>4, <2>5, <2>7, CaughtByResumeStack
  <2>. QED
    BY <2>5, <2>6, <2>7
<1>. QED
  BY <1>2, <1>3

\* NnyTop in two parts.
LEMMA NnyNext ==
  ASSUME NEW h, NEW t, NEW n \in Nat, NEW a, h[n + 1] = a, a.L = t
  PROVE  /\ Nny(h, t, n) \in Nat
         /\ NoYield(a) => Nny(h, t, n + 1) = Nny(h, t, n) + 1
         /\ ~NoYield(a) => Nny(h, t, n + 1) = Nny(h, t, n)
<1>1. Nny(h, t, n) \in Nat
  BY NnyStep
<1>2. Nny(h, t, n + 1) = IF a.L = t /\ NoYield(a) THEN Nny(h, t, n) + 1 ELSE Nny(h, t, n)
  BY NnyTop
<1>. QED
  BY <1>1, <1>2

\* A call counts if it forbids yields.
LEMMA CallCounts ==
  ASSUME NEW h, NEW t, NEW n \in Nat, n >= 1, h[n].L = t, IsCall(h[n])
  PROVE  /\ Nny(h, t, n - 1) \in Nat
         /\ Nny(h, t, n) = IF h[n].ny THEN Nny(h, t, n - 1) + 1 ELSE Nny(h, t, n - 1)
<1>. DEFINE m == n - 1
            a == h[n]
<1>1. m \in Nat /\ m + 1 = n /\ h[m + 1] = a /\ a.L = t
  OBVIOUS
<1>2. NoYield(a) <=> a.ny
  BY DEF NoYield, IsCall
<1>. HIDE DEF m, a
<1>3. /\ Nny(h, t, m) \in Nat
      /\ NoYield(a) => Nny(h, t, m + 1) = Nny(h, t, m) + 1
      /\ ~NoYield(a) => Nny(h, t, m + 1) = Nny(h, t, m)
  BY <1>1, NnyNext
<1>4. Nny(h, t, m) \in Nat /\ Nny(h, t, n) = IF a.ny THEN Nny(h, t, m) + 1 ELSE Nny(h, t, m)
  BY <1>1, <1>2, <1>3
<1>. QED
  BY <1>4 DEF m, a

-----------------------------------------------------------------------------
(* Returns. *)

\* A step that leaves activations and frames of the thread that runs.
LEMMA LeaveMade ==
  ASSUME NEW m \in 0..Len(host), NEW u \in lua_State, NEW y, NEW r, StackInv(State), run # Nobody,
         Owner(host, m) = run, ~u.fn, Len(u.ci) >= 1, u.nny = Base0(run) + Nny(host, run, m), u.status = "ok",
         y # "yield", Live(u),
         \A i \in 1..m : host[i].kind # "resume" /\ host[i].L = run =>
            Low(host[i]) <= Len(u.ci) /\ (IsCall(host[i]) /\ y = "no" => host[i].at <= Len(u.ci)),
         DOMAIN r = {"th", "host", "run", "thrown"}, r.th = [th EXCEPT ![run] = u], r.host = SubSeq(host, 1, m),
         r.run = run, r.thrown = y, Settled(r.host)
  PROVE  StackInv(r)
<1>. DEFINE e == [th EXCEPT ![run] = u]
<1>1. /\ th \in [Thread -> lua_State] /\ (\A t \in Thread : Live(th[t])) /\ Stacked(host, th, run, thrown)
      /\ run \in Thread /\ DOMAIN th = Thread
  BY RunStack
<1>2. e = [th EXCEPT ![run] = u]
  OBVIOUS
<1>. HIDE DEF e
<1>3. Stacked(SubSeq(host, 1, m), e, run, y)
  BY <1>1, <1>2, LeaveStack
<1>4. r.th = e /\ Stacked(r.host, e, r.run, r.thrown)
  BY <1>2, <1>3
<1>. QED
  BY <1>1, <1>2, <1>4, StackMade

\* When only the resume of the thread is below, nothing of it forbids yields.
LEMMA ResumeFlat ==
  ASSUME NEW j \in 1..Len(host), StackInv(State), run # Nobody, host[j].kind = "resume", host[j].L = run
  PROVE  Base0(run) + Nny(host, run, j) = 0
<1>1. Stacked(host, th, run, thrown) /\ run \in Thread /\ Len(host) \in Nat /\ DOMAIN host = 1..Len(host)
  BY RunStack
<1>2. j \in 0..Len(host) /\ j \in Nat /\ j \in DOMAIN host /\ Owner(host, j) = run
  BY <1>1 DEF Owner
<1>3. \A i \in 0..(j - 1) : Owner(host, i) # run
  BY <1>1, <1>2 DEF Stacked, Apart
<1>4. \A i \in 1..j : ~(host[i].L = run /\ NoYield(host[i]))
  <2>. SUFFICES ASSUME NEW i \in 1..j, host[i].L = run, i # j PROVE FALSE
    BY DEF NoYield, IsCall
  <2>1. i \in 0..(j - 1) /\ Owner(host, i) = run
    BY <1>2 DEF Owner
  <2>. QED
    BY <1>3, <2>1
<1>5. Nny(host, run, j) = 0
  BY <1>2, <1>4, NnyZero
<1>6. run # Main
  <2>1. 0 \in 0..(j - 1) /\ Owner(host, 0) = Main
    BY <1>2 DEF Owner
  <2>. QED
    BY <1>3, <2>1
<1>. QED
  BY <1>5, <1>6 DEF Base0

\* What is at the top of the C stack when a function goes on: nothing, a call, the handler
\* or the resume of that thread.
LEMMA TopIs ==
  ASSUME StackInv(State), Running, host # <<>>
  PROVE  LET n == Len(host)
             h == Last(host)
         IN /\ n \in Nat /\ n >= 1 /\ DOMAIN host = 1..n /\ n \in DOMAIN host /\ h = host[n] /\ h.L = run /\ n - 1 \in 0..n
            /\ h.kind \in {"call", "handler", "resume"}
            /\ h.kind # "resume" => /\ Owner(host, n - 1) = run /\ h.at \in Nat /\ h.at >= 2 /\ h.at <= Depth
                                    /\ Low(h) = h.at - 1
<1>. DEFINE n == Len(host)
            h == Last(host)
<1>1. run # Nobody /\ thrown = "no" /\ ~InParser
  BY DEF Running
<1>2. /\ Stacked(host, th, run, thrown) /\ L = th[run] /\ run \in Thread /\ Depth = Len(L.ci) /\ IsSeq(host)
      /\ n \in Nat /\ DOMAIN host = 1..n /\ run = Owner(host, n) /\ Depth \in Nat
  BY <1>1, RunStack DEF Stacked
<1>3. n >= 1 /\ n \in DOMAIN host /\ h = host[n] /\ n - 1 \in 0..n /\ n # 0
  BY <1>2, SeqLen DEF Last
<1>4. h.L = run
  BY <1>2, <1>3 DEF Owner
<1>5. h.kind \in {"call", "handler", "resume"}
  <2>1. h.kind # "pcall"
    BY <1>1, <1>4 DEF InParser
  <2>. QED
    BY <1>2, <1>3, <2>1 DEF Stacked, Linked
<1>6. ASSUME h.kind # "resume"
      PROVE  Owner(host, n - 1) = run /\ h.at \in Nat /\ h.at >= 2 /\ h.at <= Depth /\ Low(h) = h.at - 1
  <2>1. IsCall(h) /\ Low(h) = h.at - 1
    BY <1>5, <1>6 DEF IsCall, Low
  <2>2. h.at <= Depth
    BY <1>1, <1>2, <1>3, <1>4, <2>1 DEF Stacked, Placed
  <2>3. Owner(host, n - 1) = run /\ h.at \in Nat /\ Low(h) >= 1
    BY <1>2, <1>3, <1>4, <1>6 DEF Stacked, Linked
  <2>. QED
    BY <2>1, <2>2, <2>3
<1>. QED
  BY <1>2, <1>3, <1>4, <1>5, <1>6

\* The activations of the running thread are below the frame that returns.
LEMMA BelowTop ==
  ASSUME NEW i \in 1..Len(host), StackInv(State), Running, host # <<>>, Last(host).kind # "resume",
         host[i].kind # "resume", host[i].L = run
  PROVE  /\ host[i].at \in Nat /\ Low(host[i]) <= Last(host).at - 1
         /\ IsCall(host[i]) /\ i < Len(host) /\ Last(host).kind # "handler" => host[i].at < Last(host).at
         /\ IsCall(host[i]) => host[i].at <= Last(host).at
<1>. DEFINE n == Len(host)
            h == Last(host)
<1>1. /\ n \in Nat /\ n >= 1 /\ DOMAIN host = 1..n /\ n \in DOMAIN host /\ h = host[n] /\ h.L = run
      /\ h.kind \in {"call", "handler", "resume"}
      /\ h.at \in Nat /\ Low(h) = h.at - 1
  BY TopIs
<1>2. Stacked(host, th, run, thrown)
  BY RunStack DEF Running
<1>3. host[i].at \in Nat /\ i \in DOMAIN host /\ (IsCall(host[i]) => Low(host[i]) = host[i].at - 1) /\ Low(host[i]) \in Int
  BY <1>1, <1>2 DEF Stacked, Linked, IsCall, Low
<1>4. i < n => Low(host[i]) <= Low(h) /\ (IsCall(host[i]) /\ h.kind # "handler" => Low(host[i]) < Low(h))
  BY <1>1, <1>2, <1>3 DEF Stacked, Ordered
<1>5. i < n \/ host[i] = h
  BY <1>1
<1>. HIDE DEF n, h
<1>6. /\ Low(host[i]) <= h.at - 1 /\ (IsCall(host[i]) => host[i].at <= h.at)
      /\ IsCall(host[i]) /\ i < n /\ h.kind # "handler" => host[i].at < h.at
  BY <1>1, <1>3, <1>4, <1>5
<1>. QED
  BY <1>3, <1>6 DEF n, h

\* The thread whose top frame has been left.
LEMMA PoppedIs ==
  ASSUME NEW v \in lua_State, Live(v), v.status = "ok", Len(v.ci) >= 1
  PROVE  LET u == [luaF_close(v, Len(v.ci)) EXCEPT !.ci = Pop(@)]
         IN /\ u \in lua_State /\ Len(u.ci) = Len(v.ci) - 1 /\ u.nny = v.nny /\ u.fn = v.fn /\ u.status = "ok"
            /\ u.errfunc = v.errfunc /\ Live(u)
<1>. DEFINE p == Len(v.ci) - 1
            w == luaF_close(v, Len(v.ci))
<1>1. Len(v.ci) \in Nat
  BY ThreadIs
<1>2. p \in 0..Len(v.ci) /\ p + 1 = Len(v.ci)
  BY <1>1
<1>3. w = luaF_close(v, p + 1) /\ w.ci = v.ci
  BY <1>2, CloseIs
<1>4. LET z == [luaF_close(v, p + 1) EXCEPT !.ci = SubSeq(@, 1, p)]
      IN /\ z \in lua_State /\ Len(z.ci) = p /\ z.nny = v.nny /\ z.fn = v.fn /\ z.status = v.status
         /\ z.errfunc = v.errfunc /\ Live(z)
  BY <1>2, CutIs
<1>5. [w EXCEPT !.ci = Pop(@)] = [luaF_close(v, p + 1) EXCEPT !.ci = SubSeq(@, 1, p)]
  BY <1>3 DEF Pop
<1>. QED
  BY <1>4, <1>5

\* What a return from C to the caller does to the thread.
LEMMA CountedIs ==
  ASSUME NEW v \in lua_State, NEW n \in Int
  PROVE  LET u == [v EXCEPT !.nCcalls = @ - 1, !.nny = n]
         IN /\ u \in lua_State /\ u.ci = v.ci /\ u.nny = n /\ u.fn = v.fn /\ u.status = v.status
            /\ u.errfunc = v.errfunc /\ (Live(v) => Live(u))
<1>. DEFINE u == [v EXCEPT !.nCcalls = @ - 1, !.nny = n]
<1>1. /\ u \in lua_State /\ u.ci = v.ci /\ u.nny = n /\ u.fn = v.fn /\ u.status = v.status
      /\ u.errfunc = v.errfunc /\ u.open = v.open
  <2>1. ASSUME NEW c \in Int
        PROVE  LET x == [v EXCEPT !.nCcalls = c, !.nny = n]
               IN /\ x \in lua_State /\ x.ci = v.ci /\ x.nny = n /\ x.fn = v.fn /\ x.status = v.status
                  /\ x.errfunc = v.errfunc /\ x.open = v.open
    BY DEF lua_State
  <2>2. v.nCcalls - 1 \in Int
    BY ThreadIs
  <2>. QED
    BY <2>1, <2>2
<1>. HIDE DEF u
<1>2. Live(v) => Live(u)
  BY <1>1 DEF Live
<1>. QED
  BY <1>1, <1>2 DEF u

\* A return to a caller that has no activation of its own.
LEMMA PlainReturn ==
  ASSUME NEW v \in lua_State, NEW s, StackInv(State), Running, ~(run = Main /\ Depth = 1), Live(v),
         Len(v.ci) = Depth - 1, v.nny = L.nny, v.fn = L.fn, v.status = "ok",
         host # <<>> => Last(host).kind \in {"call", "handler"} /\ Last(host).at # Depth,
         DOMAIN s = {"th", "host", "run", "thrown"}, s.host = host, s.run = run, s.thrown = "no",
         s.th = [th EXCEPT ![run] = v]
  PROVE  StackInv(s)
<1>. DEFINE n == Len(host)
<1>1. /\ Stacked(host, th, run, thrown) /\ run \in Thread /\ L = th[run] /\ Owns(host, th, run, run, thrown)
      /\ Depth \in Nat /\ Depth >= 1 /\ n \in Nat /\ DOMAIN host = 1..n /\ run = Owner(host, n) /\ IsSeq(host)
      /\ Settled(host) /\ run # Nobody
  BY RunStack DEF Running, Stacked
<1>2. v.nny = Base0(run) + Nny(host, run, n) /\ ~v.fn /\ n \in 0..Len(host)
  BY <1>1 DEF Owns
<1>3. SubSeq(host, 1, n) = host
  BY <1>1, SeqAll
<1>4. Len(v.ci) >= 1 /\ \A i \in 1..n : host[i].kind # "resume" /\ host[i].L = run =>
            Low(host[i]) <= Len(v.ci) /\ (IsCall(host[i]) => host[i].at <= Len(v.ci))
  <2>1. CASE host = <<>>
    <3>1. n = 0 /\ run = Main
      BY <1>1, <2>1, SeqLen DEF Owner
    <3>. QED
      BY <1>1, <3>1
  <2>2. CASE host # <<>>
    <3>1. Last(host).at \in Nat /\ Last(host).at >= 2 /\ Last(host).at <= Depth - 1
      <4>1. Last(host).kind # "resume"
        BY <2>2
      <4>2. Last(host).at \in Nat /\ Last(host).at >= 2 /\ Last(host).at <= Depth
        BY <2>2, <4>1, TopIs
      <4>. QED
        BY <1>1, <2>2, <4>2
    <3>2. ASSUME NEW i \in 1..n, host[i].kind # "resume", host[i].L = run
          PROVE  Low(host[i]) <= Len(v.ci) /\ (IsCall(host[i]) => host[i].at <= Len(v.ci))
      <4>1. /\ host[i].at \in Nat /\ Low(host[i]) <= Last(host).at - 1
            /\ IsCall(host[i]) => host[i].at <= Last(host).at
        BY <2>2, <3>2, BelowTop
      <4>2. Low(host[i]) \in Int
        BY <4>1 DEF Low
      <4>. QED
        BY <1>1, <3>1, <4>1, <4>2
    <3>. QED
      BY <1>1, <3>1, <3>2
  <2>. QED
    BY <2>1, <2>2
<1>. DEFINE y == "no"
<1>5. /\ \A i \in 1..n : host[i].kind # "resume" /\ host[i].L = run =>
            Low(host[i]) <= Len(v.ci) /\ (IsCall(host[i]) /\ y = "no" => host[i].at <= Len(v.ci))
      /\ y # "yield" /\ s.thrown = y
  BY <1>4
<1>. HIDE DEF y, n
<1>6. s.host = SubSeq(host, 1, n) /\ Settled(s.host) /\ Owner(host, n) = run
  BY <1>1, <1>3
<1>. QED
  BY <1>1, <1>2, <1>4, <1>5, <1>6, LeaveMade

\* A return to C, from a call or a handler.
LEMMA CallReturn ==
  ASSUME NEW u \in lua_State, NEW y, NEW r, StackInv(State), Running, host # <<>>,
         Last(host).kind \in {"call", "handler"}, Last(host).at = Depth, Live(u), Len(u.ci) = Depth - 1,
         u.nny = (IF Last(host).ny THEN L.nny - 1 ELSE L.nny), u.fn = L.fn, u.status = "ok",
         y = (IF Last(host).kind = "handler" THEN "run" ELSE "no"),
         DOMAIN r = {"th", "host", "run", "thrown"}, r.host = Pop(host), r.run = run, r.thrown = y,
         r.th = [th EXCEPT ![run] = u],
         ~(/\ Len(host) > 1 /\ host[Len(host) - 1].kind = "pcall" /\ host[Len(host) - 1].L = run
           /\ host[Len(host) - 1].at = Depth - 1 /\ host[Len(host) - 1].of # "load" /\ Last(host).kind = "call")
  PROVE  StackInv(r)
<1>. DEFINE n == Len(host)
            h == Last(host)
            m == n - 1
<1>1. /\ Stacked(host, th, run, thrown) /\ run \in Thread /\ L = th[run] /\ Owns(host, th, run, run, thrown)
      /\ Depth \in Nat /\ run # Nobody /\ IsSeq(host)
  BY RunStack DEF Running, Stacked
<1>2. /\ n \in Nat /\ n >= 1 /\ DOMAIN host = 1..n /\ n \in DOMAIN host /\ h = host[n] /\ h.L = run /\ m \in 0..n
      /\ Owner(host, m) = run /\ h.at >= 2
  <2>1. Last(host).kind # "resume"
    BY Zenon
  <2>. QED
    BY <2>1, TopIs
<1>3. m \in Nat /\ m + 1 = n /\ m \in 0..Len(host)
  BY <1>2
<1>4. L.nny = Base0(run) + Nny(host, run, n) /\ ~L.fn
  BY <1>1, <1>2 DEF Owns
<1>5. Nny(host, run, m) \in Nat /\ Nny(host, run, n) = IF h.ny THEN Nny(host, run, m) + 1 ELSE Nny(host, run, m)
  <2>1. IsCall(host[n]) /\ host[n].L = run /\ n \in Nat /\ n >= 1 /\ h = host[n]
    BY <1>2 DEF IsCall
  <2>. HIDE DEF n, h
  <2>2. Nny(host, run, n - 1) \in Nat /\ Nny(host, run, n) = IF host[n].ny THEN Nny(host, run, n - 1) + 1 ELSE Nny(host, run, n - 1)
    BY <2>1, CallCounts
  <2>. QED
    BY <2>1, <2>2
<1>6. u.nny = Base0(run) + Nny(host, run, m)
  <2>1. Base0(run) \in Int
    BY DEF Base0
  <2>. QED
    BY <1>4, <1>5, <2>1
<1>7. Len(u.ci) >= 1 /\ ~u.fn
  BY <1>1, <1>2, <1>4
<1>8. ASSUME NEW i \in 1..m, host[i].kind # "resume", host[i].L = run
      PROVE  Low(host[i]) <= Len(u.ci) /\ (IsCall(host[i]) /\ y = "no" => host[i].at <= Len(u.ci))
  <2>0. i \in 1..Len(host) /\ i < Len(host) /\ Last(host).kind # "resume"
    <3>1. Last(host).kind # "resume"
      BY Zenon
    <3>. QED
      BY <1>2, <1>3, <3>1
  <2>1. /\ host[i].at \in Nat /\ Low(host[i]) <= Last(host).at - 1
        /\ IsCall(host[i]) /\ i < Len(host) /\ Last(host).kind # "handler" => host[i].at < Last(host).at
    BY <1>8, <2>0, BelowTop
  <2>2. y = "no" => Last(host).kind # "handler"
    OBVIOUS
  <2>. QED
    BY <1>1, <2>0, <2>1, <2>2
<1>9. Settled(SubSeq(host, 1, m))
  <2>. DEFINE q == SubSeq(host, 1, m)
  <2>. SUFFICES ASSUME q # <<>>, Last(q).kind = "pcall", Last(q).of # "load" PROVE FALSE
    BY DEF Settled
  <2>1. IsSeq(q) /\ Len(q) = m /\ \A i \in 1..m : q[i] = host[i]
    BY <1>1, <1>3, SeqCut
  <2>. HIDE DEF q
  <2>2. m \in 1..m /\ Last(q) = host[m] /\ m \in DOMAIN host /\ m < Len(host)
    BY <1>2, <1>3, <2>1, SeqLen DEF Last
  <2>3. host[m + 1].kind = "call" /\ host[m + 1].at = host[m].at + 1
    BY <1>1, <2>2 DEF Stacked, Saved
  <2>4. host[m].L = run
    BY <1>2, <2>2 DEF Owner
  <2>5. host[m].at \in Nat
    BY <1>1, <2>2 DEF Stacked, Linked
  <2>. QED
    BY <1>1, <1>2, <1>3, <2>2, <2>3, <2>4, <2>5
<1>10. y # "yield" /\ r.host = SubSeq(host, 1, m) /\ Settled(r.host)
  BY <1>9 DEF Pop
<1>. HIDE DEF m, n, h
<1>. QED
  BY <1>1, <1>2, <1>3, <1>6, <1>7, <1>8, <1>10, LeaveMade

\* A return to 'unroll', or the end of a coroutine.
LEMMA UnrollReturn ==
  ASSUME NEW v \in lua_State, NEW s, StackInv(State), Running, Live(v), v.nny = L.nny, v.fn = L.fn, v.status = "ok",
         host # <<>>, Last(host).kind = "resume",
         DOMAIN s = {"th", "host", "run", "thrown"}, s.host = host, s.run = run, s.thrown = "no",
         s.th = [th EXCEPT ![run] = v]
  PROVE  StackInv(unroll(s))
<1>. DEFINE n == Len(host)
            w == EndYpcall(v)
            x == [s EXCEPT !.th[s.run] = w]
<1>1. /\ Stacked(host, th, run, "no") /\ run \in Thread /\ L = th[run] /\ Owns(host, th, run, run, "no") /\ IsSeq(host)
      /\ run # Nobody /\ th \in [Thread -> lua_State] /\ \A t \in Thread : Live(th[t])
  BY RunStack DEF Running, Stacked
<1>2. n \in 1..Len(host) /\ host[n].kind = "resume" /\ host[n].L = run /\ n \in Nat
  BY TopIs
<1>3. Base0(run) + Nny(host, run, n) = 0
  BY <1>1, <1>2, ResumeFlat
<1>4. v.nny = 0 /\ ~v.fn
  BY <1>1, <1>3 DEF Owns
<1>5. SubSeq(host, 1, n) = host
  BY <1>1, SeqAll
<1>6. s.th[s.run] = v
  BY <1>1
<1>. HIDE DEF n, w
<1>7. /\ DOMAIN x = {"th", "host", "run", "thrown"} /\ x.host = host /\ x.run = run /\ x.thrown = "no"
      /\ x.th = [th EXCEPT ![run] = w]
  BY <1>1
<1>. HIDE DEF x
<1>8. unroll(s) = IF v.ci = <<>> THEN EndResume(s) ELSE IF Last(v.ci).lua THEN s ELSE x
  BY <1>6 DEF unroll, x, w
<1>9. ASSUME NEW u \in lua_State, NEW r, Live(u), u.nny = 0, ~u.fn, u.status = "ok", Len(u.ci) >= 1,
             DOMAIN r = {"th", "host", "run", "thrown"}, r.host = host, r.run = run, r.thrown = "no",
             r.th = [th EXCEPT ![run] = u]
      PROVE  StackInv(r)
  <2>. DEFINE e == r.th
  <2>1. e = [th EXCEPT ![run] = u]
    BY <1>9
  <2>. HIDE DEF e
  <2>2. Stacked(SubSeq(host, 1, n), e, run, "no") /\ Settled(SubSeq(host, 1, n))
    BY <1>1, <1>2, <1>9, <2>1, DropToResume
  <2>3. Stacked(r.host, e, r.run, r.thrown) /\ Settled(r.host) /\ r.th = e
    BY <1>5, <1>9, <2>2 DEF e
  <2>. QED
    BY <1>1, <1>9, <2>1, <2>3, StackMade
<1>10. CASE v.ci = <<>>
  <2>1. \A t \in Thread : Live(s.th[t])
    BY <1>1
  <2>2. Stacked(s.host, th, s.run, "no") /\ s.th = [th EXCEPT ![s.run] = v] /\ s.host # <<>> /\ Last(s.host).kind = "resume"
    BY <1>1
  <2>3. StackInv(EndResume(s))
    BY <1>1, <2>1, <2>2, EndResumeMade
  <2>. QED
    BY <1>8, <1>10, <2>3
<1>11. CASE v.ci # <<>>
  <2>1. Len(v.ci) >= 1 /\ Len(v.ci) \in Nat
    <3>1. v.ci \in Seq(CallInfo) /\ Len(v.ci) \in Nat
      BY ThreadIs
    <3>. QED
      BY <1>11, <3>1
  <2>2. w \in lua_State /\ Len(w.ci) = Len(v.ci) /\ w.nny = v.nny /\ w.fn = v.fn /\ w.status = v.status /\ Live(w)
    BY <1>11, EndYpcallIs DEF w
  <2>3. StackInv(s)
    BY <1>4, <1>9, <2>1
  <2>4. StackInv(x)
    BY <1>4, <1>7, <1>9, <2>1, <2>2
  <2>. QED
    BY <1>8, <1>11, <2>3, <2>4
<1>. QED
  BY <1>10, <1>11

\* Two activations are left.
LEMMA PopTwo ==
  ASSUME NEW h, IsSeq(h), Len(h) > 1
  PROVE  Pop(Pop(h)) = SubSeq(h, 1, (Len(h) - 1) - 1)
<1>1. PICK S : h \in Seq(S)
  BY DEF IsSeq
<1>2. Len(h) \in Nat /\ Len(SubSeq(h, 1, Len(h) - 1)) = Len(h) - 1
  BY <1>1
<1>3. SubSeq(SubSeq(h, 1, Len(h) - 1), 1, (Len(h) - 1) - 1) = SubSeq(h, 1, (Len(h) - 1) - 1)
  BY <1>1, <1>2
<1>. QED
  BY <1>2, <1>3 DEF Pop

\* luaD_poscall, OP_RETURN and what is below.
LEMMA ReturnStack ==
  ASSUME StackInv(State), Return
  PROVE  StackInv(State)'
<1>. DEFINE d == Depth
            v == [luaF_close(L, d) EXCEPT !.ci = Pop(@)]
            s == [State EXCEPT !.th[run] = [luaF_close(L, d) EXCEPT !.ci = Pop(@)]]
            h == Last(host)
            below == host[Len(host) - 1]
            counted == [s EXCEPT !.host = Pop(@), !.th[run].nCcalls = @ - 1, !.th[run].nny = IF h.ny THEN @ - 1 ELSE @]
            n == IF h.ny THEN L.nny - 1 ELSE L.nny
            c == [v EXCEPT !.nCcalls = @ - 1, !.nny = n]
            a == [counted EXCEPT !.thrown = "run"]
            b == [counted EXCEPT !.host = Pop(Pop(host)),
                            !.th[run].errfunc = below.errfunc, !.th[run].nCcalls = below.ncc]
            e == [counted EXCEPT !.th[run] = EndYpcall(@)]
            returns == host # <<>> /\ h.kind \in {"call", "handler"} /\ h.L = run /\ h.at = d
            protected == Len(host) > 1 /\ below.kind = "pcall" /\ below.L = run /\ below.at = d - 1 /\ below.of # "load"
<1>1. Running /\ run # Nobody /\ thrown = "no" /\ ~(run = Main /\ d = 1)
  BY DEF Return, Running
<1>2. \/ (host = <<>> \/ (~returns /\ h.kind # "resume")) /\ Becomes(s)
      \/ returns /\ h.kind = "handler" /\ Becomes(a)
      \/ returns /\ h.kind # "handler" /\ protected /\ Becomes(b)
      \/ returns /\ h.kind # "handler" /\ ~protected /\ Becomes(e)
      \/ host # <<>> /\ h.kind = "resume" /\ Becomes(unroll(s))
  BY Zenon DEF Return
<1>3. /\ Stacked(host, th, run, thrown) /\ run \in Thread /\ L = th[run] /\ Owns(host, th, run, run, thrown)
      /\ L \in lua_State /\ Live(L) /\ d \in Nat /\ d >= 1 /\ d = Len(L.ci) /\ th \in [Thread -> lua_State]
      /\ IsSeq(host) /\ Len(host) \in Nat /\ DOMAIN host = 1..Len(host) /\ L.nny \in Int /\ DOMAIN th = Thread
  BY <1>1, RunStack, ThreadIs DEF Stacked
<1>4. L.status = "ok"
  BY <1>1, <1>3 DEF Owns
<1>5. /\ v \in lua_State /\ Len(v.ci) = d - 1 /\ v.nny = L.nny /\ v.fn = L.fn /\ v.status = "ok" /\ Live(v)
  <2>1. ASSUME NEW z \in lua_State, Live(z), z.status = "ok", Len(z.ci) >= 1
        PROVE  LET u == [luaF_close(z, Len(z.ci)) EXCEPT !.ci = Pop(@)]
               IN u \in lua_State /\ Len(u.ci) = Len(z.ci) - 1 /\ u.nny = z.nny /\ u.fn = z.fn /\ u.status = "ok" /\ Live(u)
    BY <2>1, PoppedIs
  <2>2. LET u == [luaF_close(L, Len(L.ci)) EXCEPT !.ci = Pop(@)]
        IN u \in lua_State /\ Len(u.ci) = Len(L.ci) - 1 /\ u.nny = L.nny /\ u.fn = L.fn /\ u.status = "ok" /\ Live(u)
    BY <1>3, <1>4, <2>1
  <2>. QED
    BY <1>3, <2>2
<1>6. /\ DOMAIN s = {"th", "host", "run", "thrown"} /\ s.host = host /\ s.run = run /\ s.thrown = "no"
      /\ s.th = [th EXCEPT ![run] = v]
  BY <1>1, StateIs
<1>. HIDE DEF s, v, d
<1>7. n \in Int
  BY <1>3
<1>8. /\ DOMAIN counted = {"th", "host", "run", "thrown"} /\ counted.host = Pop(host) /\ counted.run = run
      /\ counted.thrown = "no" /\ counted.th = [th EXCEPT ![run] = c]
  <2>1. DOMAIN counted = {"th", "host", "run", "thrown"} /\ counted.host = Pop(host) /\ counted.run = run /\ counted.thrown = "no"
    BY <1>6
  <2>2. counted.th = [s.th EXCEPT ![run].nCcalls = @ - 1, ![run].nny = IF h.ny THEN @ - 1 ELSE @]
    BY <1>6, Zenon
  <2>3. counted.th = [s.th EXCEPT ![run] = [v EXCEPT !.nCcalls = @ - 1, !.nny = IF h.ny THEN v.nny - 1 ELSE v.nny]]
    BY <1>3, <1>5, <1>6, <2>2, ThreadIs
  <2>. QED
    BY <1>3, <1>5, <1>6, <2>1, <2>3, ZenonT(60)
<1>. HIDE DEF counted, n
<1>9. c \in lua_State /\ c.ci = v.ci /\ c.nny = n /\ c.fn = v.fn /\ c.status = v.status /\ Live(c)
  <2>1. ASSUME NEW z \in lua_State, NEW m \in Int, Live(z)
        PROVE  LET u == [z EXCEPT !.nCcalls = @ - 1, !.nny = m]
               IN u \in lua_State /\ u.ci = z.ci /\ u.nny = m /\ u.fn = z.fn /\ u.status = z.status /\ Live(u)
    BY <2>1, CountedIs
  <2>. QED
    BY <1>5, <1>7, <2>1
<1>. HIDE DEF c
<1>10. CASE (host = <<>> \/ (~returns /\ h.kind # "resume")) /\ Becomes(s)
  <2>1. host # <<>> => Last(host).kind \in {"call", "handler"} /\ Last(host).at # Depth
    <3>. SUFFICES ASSUME host # <<>> PROVE Last(host).kind \in {"call", "handler"} /\ Last(host).at # Depth
      OBVIOUS
    <3>1. h.L = run /\ h.kind \in {"call", "handler", "resume"}
      BY <1>1, TopIs
    <3>. QED
      BY <1>10, <3>1 DEF d
  <2>2. StackInv(s)
    BY <1>1, <1>5, <1>6, <2>1, PlainReturn DEF d
  <2>. QED
    BY <1>10, <2>2, BecomesStack
<1>11. CASE host # <<>> /\ h.kind = "resume" /\ Becomes(unroll(s))
  <2>1. StackInv(unroll(s))
    BY <1>1, <1>5, <1>6, <1>11, UnrollReturn
  <2>. QED
    BY <1>11, <2>1, BecomesStack
<1>12. CASE returns /\ h.kind = "handler" /\ Becomes(a)
  <2>. DEFINE y == "run"
  <2>1. /\ DOMAIN a = {"th", "host", "run", "thrown"} /\ a.host = Pop(host) /\ a.run = run /\ a.thrown = y
        /\ a.th = [th EXCEPT ![run] = c]
    BY <1>8
  <2>2. y = (IF Last(host).kind = "handler" THEN "run" ELSE "no")
    BY <1>12
  <2>. HIDE DEF a, y
  <2>3. /\ Live(c) /\ Len(c.ci) = Depth - 1 /\ c.nny = (IF Last(host).ny THEN L.nny - 1 ELSE L.nny) /\ c.fn = L.fn
        /\ c.status = "ok"
    BY <1>5, <1>9 DEF n, d
  <2>4. /\ host # <<>> /\ Last(host).kind \in {"call", "handler"} /\ Last(host).at = Depth /\ Last(host).kind # "call"
    BY <1>12 DEF d
  <2>5. StackInv(a)
    BY <1>1, <1>9, <2>1, <2>2, <2>3, <2>4, CallReturn
  <2>. QED
    BY <1>12, <2>5, BecomesStack
<1>13. CASE returns /\ h.kind # "handler" /\ protected /\ Becomes(b)
  <2>. DEFINE j == Len(host) - 1
              u == [c EXCEPT !.errfunc = below.errfunc, !.nCcalls = below.ncc]
  <2>1. j \in 1..Len(host) /\ host[j].kind = "pcall" /\ host[j].L = run /\ host[j].at = d - 1 /\ host[j].of # "load"
    BY <1>3, <1>13
  <2>2. b.host = SubSeq(host, 1, j - 1)
    BY <1>3, <1>8, <1>13, PopTwo
  <2>3. /\ DOMAIN b = {"th", "host", "run", "thrown"} /\ b.run = run /\ b.thrown = "no" /\ b.th = [th EXCEPT ![run] = u]
    BY <1>3, <1>8
  <2>4. below.errfunc \in Nat /\ below.ncc \in Int
    BY <1>1, <2>1, SavedIs
  <2>. HIDE DEF b, below
  <2>5. u \in lua_State /\ u.ci = c.ci /\ u.nny = c.nny /\ u.fn = c.fn /\ u.status = c.status /\ u.open = c.open
    <3>1. ASSUME NEW p \in Nat, NEW q \in Int
          PROVE  LET z == [c EXCEPT !.errfunc = p, !.nCcalls = q]
                 IN z \in lua_State /\ z.ci = c.ci /\ z.nny = c.nny /\ z.fn = c.fn /\ z.status = c.status /\ z.open = c.open
      BY <1>9 DEF lua_State
    <3>. QED
      BY <2>4, <3>1
  <2>. HIDE DEF u
  <2>6. Live(u)
    BY <1>9, <2>5 DEF Live
  <2>7. u.nny = host[j].nny
    <3>1. /\ j \in DOMAIN host /\ j < Len(host) /\ j + 1 = Len(host) /\ h = host[j + 1] /\ j - 1 \in Nat /\ j \in Nat
          /\ (j - 1) + 1 = j
      BY <1>3, <2>1 DEF Last
    <3>2. host[j].nny = Base0(run) + Nny(host, run, j - 1) /\ h.kind = "call" /\ h.ny
      BY <1>3, <2>1, <3>1 DEF Stacked, Saved
    <3>3. L.nny = Base0(run) + Nny(host, run, j + 1)
      BY <1>3, <3>1 DEF Owns
    <3>4. h.L = run /\ NoYield(h) /\ ~NoYield(host[j])
      BY <1>13, <2>1, <3>2 DEF NoYield, IsCall
    <3>5. Nny(host, run, j + 1) = Nny(host, run, j) + 1 /\ Nny(host, run, j) \in Nat
      <4>1. ASSUME NEW q, NEW t, NEW k \in Nat, NEW z, q[k + 1] = z, z.L = t, NoYield(z)
            PROVE  Nny(q, t, k + 1) = Nny(q, t, k) + 1 /\ Nny(q, t, k) \in Nat
        BY <4>1, NnyNext
      <4>. QED
        BY <3>1, <3>4, <4>1
    <3>6. Nny(host, run, j) = Nny(host, run, j - 1)
      <4>1. ASSUME NEW q, NEW t, NEW k \in Nat, NEW z, q[k + 1] = z, z.L = t, ~NoYield(z)
            PROVE  Nny(q, t, k + 1) = Nny(q, t, k)
        BY <4>1, NnyNext
      <4>2. host[(j - 1) + 1] = host[j]
        BY <3>1
      <4>3. Nny(host, run, (j - 1) + 1) = Nny(host, run, j - 1)
        BY <2>1, <3>1, <3>4, <4>1, <4>2
      <4>. QED
        BY <3>1, <4>3
    <3>7. u.nny = L.nny - 1
      BY <1>9, <2>5, <3>2 DEF n
    <3>8. Base0(run) \in Int
      BY DEF Base0
    <3>. QED
      BY <3>2, <3>3, <3>5, <3>6, <3>7, <3>8
  <2>8. host[j].at <= Len(u.ci) /\ u.fn = L.fn /\ u.status = L.status
    BY <1>3, <1>4, <1>5, <1>9, <2>1, <2>5
  <2>. HIDE DEF j
  <2>9. StackInv(b)
    BY <1>1, <2>1, <2>2, <2>3, <2>5, <2>6, <2>7, <2>8, LeavePcallStack
  <2>. QED
    BY <1>13, <2>9, BecomesStack
<1>14. CASE returns /\ h.kind # "handler" /\ ~protected /\ Becomes(e)
  <2>. DEFINE u == EndYpcall(c)
              y == "no"
  <2>1. /\ DOMAIN e = {"th", "host", "run", "thrown"} /\ e.host = Pop(host) /\ e.run = run /\ e.thrown = y
        /\ e.th = [th EXCEPT ![run] = u]
    BY <1>3, <1>8
  <2>2. y = (IF Last(host).kind = "handler" THEN "run" ELSE "no") /\ Last(host).at >= 2
    <3>1. host # <<>> /\ Last(host).kind # "resume"
      BY <1>14
    <3>. QED
      BY <1>1, <1>14, <3>1, TopIs
  <2>3. c.ci # <<>>
    <3>1. Len(c.ci) = d - 1 /\ d >= 2
      BY <1>5, <1>9, <1>14, <2>2 DEF d
    <3>2. c.ci \in Seq(CallInfo)
      BY <1>9, ThreadIs
    <3>. QED
      BY <1>3, <3>1, <3>2
  <2>4. u \in lua_State /\ Len(u.ci) = Len(c.ci) /\ u.nny = c.nny /\ u.fn = c.fn /\ u.status = c.status /\ Live(u)
    BY <1>9, <2>3, EndYpcallIs
  <2>. HIDE DEF e, u, y
  <2>5. /\ Len(u.ci) = Depth - 1 /\ u.nny = (IF Last(host).ny THEN L.nny - 1 ELSE L.nny) /\ u.fn = L.fn
        /\ u.status = "ok"
    BY <1>5, <1>9, <2>4 DEF n, d
  <2>6. /\ host # <<>> /\ Last(host).kind \in {"call", "handler"} /\ Last(host).at = Depth
        /\ ~(/\ Len(host) > 1 /\ host[Len(host) - 1].kind = "pcall" /\ host[Len(host) - 1].L = run
             /\ host[Len(host) - 1].at = Depth - 1 /\ host[Len(host) - 1].of # "load" /\ Last(host).kind = "call")
    BY <1>14 DEF d
  <2>7. StackInv(e)
    BY <1>1, <2>1, <2>2, <2>4, <2>5, <2>6, CallReturn
  <2>. QED
    BY <1>14, <2>7, BecomesStack
<1>. QED
  BY <1>2, <1>10, <1>11, <1>12, <1>13, <1>14

-----------------------------------------------------------------------------
(* Yields and resumes. *)

\* A C function yields.
LEMMA YieldIs ==
  ASSUME NEW v \in lua_State, NEW c \in CallInfo, Live(v), Len(v.ci) >= 1, ~Last(v.ci).lua, c.lua = Last(v.ci).lua
  PROVE  LET u == [v EXCEPT !.status = "yield", !.ci[Len(v.ci)] = c]
         IN /\ u \in lua_State /\ Len(u.ci) = Len(v.ci) /\ u.nny = v.nny /\ u.fn = v.fn /\ u.status = "yield"
            /\ Live(u)
<1>. DEFINE d == Len(v.ci)
            q == [v.ci EXCEPT ![d] = c]
            u == [v EXCEPT !.status = "yield", !.ci[Len(v.ci)] = c]
<1>1. v.ci \in Seq(CallInfo) /\ DOMAIN v.ci = 1..d /\ d \in Nat /\ d \in DOMAIN v.ci /\ Last(v.ci) = v.ci[d]
  BY ThreadIs DEF Last
<1>2. u = [v EXCEPT !.status = "yield", !.ci = q]
  BY <1>1, ThreadIs
<1>3. /\ q \in Seq(CallInfo) /\ DOMAIN q = DOMAIN v.ci /\ Len(q) = d
      /\ \A i \in DOMAIN v.ci : q[i].lua = v.ci[i].lua
  BY <1>1
<1>. HIDE DEF q, u
<1>4. "yield" \in {"ok", "yield", "error"}
  OBVIOUS
<1>5. /\ u \in lua_State /\ u.ci = q /\ u.nny = v.nny /\ u.fn = v.fn /\ u.status = "yield" /\ u.open = v.open
  BY <1>2, <1>3, <1>4 DEF lua_State
<1>6. u.ci # <<>> /\ Last(u.ci).lua = Last(v.ci).lua
  <2>1. Last(u.ci) = q[d] /\ u.ci # <<>>
    BY <1>1, <1>3, <1>5 DEF Last
  <2>. QED
    BY <1>1, <1>3, <2>1
<1>7. Live(u)
  <2>1. ASSUME NEW n \in u.open PROVE n \in DOMAIN u.ci /\ u.ci[n].lua
    <3>1. n \in v.open
      BY <1>5
    <3>2. n \in DOMAIN v.ci /\ v.ci[n].lua
      BY <3>1 DEF Live
    <3>. QED
      BY <1>3, <1>5, <3>2
  <2>. QED
    BY <1>6, <2>1 DEF Live
<1>. QED
  BY <1>3, <1>5, <1>7 DEF u

\* A thread that may yield is not Main and has no protected call below it on the C stack.
LEMMA NoPcallBelow ==
  ASSUME StackInv(State), Running, ~(L.nny > 0), NEW i \in 1..Len(host), host[i].L = run
  PROVE  host[i].kind # "pcall"
<1>. DEFINE n == Len(host)
<1>1. /\ Stacked(host, th, run, thrown) /\ Owns(host, th, run, run, thrown) /\ n \in Nat /\ DOMAIN host = 1..n
      /\ L = th[run] /\ run \in Thread /\ IsSeq(host) /\ run = Owner(host, n) /\ L.nny \in Int
  BY RunStack, ThreadIs DEF Running, Stacked
<1>2. \A k \in 1..n : ~(host[k].L = run /\ NoYield(host[k]))
  <2>1. L.nny = Base0(run) + Nny(host, run, n) /\ Nny(host, run, n) \in Nat /\ Base0(run) \in Nat
    BY <1>1, NnyStep DEF Owns, Base0
  <2>. HIDE DEF n
  <2>2. Nny(host, run, n) = 0
    BY <1>1, <2>1
  <2>. QED
    BY <1>1, <2>2, NnyZero
<1>. SUFFICES ASSUME host[i].kind = "pcall" PROVE FALSE
  OBVIOUS
<1>3. host[i].of # "load"
  BY <1>2 DEF NoYield
<1>4. CASE i < n
  <2>1. host[i + 1].kind = "call" /\ host[i + 1].ny /\ i + 1 \in 1..n /\ i + 1 \in DOMAIN host /\ i = (i + 1) - 1
    BY <1>1, <1>3, <1>4 DEF Stacked, Saved
  <2>2. host[i + 1].L = Owner(host, i)
    BY <1>1, <2>1 DEF Stacked, Linked
  <2>3. Owner(host, i) = run
    BY DEF Owner
  <2>. QED
    BY <1>2, <2>1, <2>2, <2>3 DEF NoYield, IsCall
<1>5. CASE i = n
  <2>1. host # <<>> /\ Last(host) = host[i]
    BY <1>1, <1>5, SeqLen DEF Last
  <2>. QED
    BY <2>1, TopIs
<1>6. i < n \/ i = n
  <2>1. n \in Nat /\ i \in 1..n
    BY <1>1
  <2>. HIDE DEF n
  <2>. QED
    BY <2>1
<1>. QED
  BY <1>4, <1>5, <1>6

\* lua_yieldk.
LEMMA YieldStack ==
  ASSUME StackInv(State), NEW k \in BOOLEAN, lua_yieldk(k)
  PROVE  StackInv(State)'
<1>. DEFINE r == [State EXCEPT !.th[run].status = "yield", !.th[run].ci[Depth].k = k, !.thrown = "yield"]
            c == [Top EXCEPT !.k = k]
            u == [L EXCEPT !.status = "yield", !.ci[Len(L.ci)] = c]
            y == "yield"
            n == Len(host)
<1>1. Running /\ run # Nobody /\ thrown = "no" /\ ~Top.lua
  BY DEF lua_yieldk, Running
<1>2. \/ Becomes([State EXCEPT !.thrown = "raise"])
      \/ ~(L.nny > 0) /\ Becomes(r)
  BY Zenon DEF lua_yieldk
<1>3. CASE Becomes([State EXCEPT !.thrown = "raise"])
  BY <1>1, <1>3, ErrorStack
<1>4. CASE ~(L.nny > 0) /\ Becomes(r)
  <2>1. /\ th \in [Thread -> lua_State] /\ (\A t \in Thread : Live(th[t])) /\ Stacked(host, th, run, thrown)
        /\ L \in lua_State /\ L = th[run] /\ Live(L) /\ run \in Thread /\ DOMAIN th = Thread /\ Settled(host)
        /\ Depth = Len(L.ci) /\ Depth \in Nat /\ Depth >= 1 /\ Depth \in DOMAIN L.ci /\ Top = L.ci[Depth]
        /\ L.ci \in Seq(CallInfo) /\ Owns(host, th, run, run, thrown)
        /\ n \in Nat /\ DOMAIN host = 1..n /\ run = Owner(host, n) /\ IsSeq(host)
    BY <1>1, RunStack DEF Stacked
  <2>2. c \in CallInfo /\ c.lua = Top.lua /\ Last(L.ci) = Top
    <3>1. Top \in CallInfo
      BY <2>1
    <3>. QED
      BY <2>1, <3>1 DEF CallInfo, Last
  <2>3. /\ DOMAIN r = {"th", "host", "run", "thrown"} /\ r.host = host /\ r.run = run /\ r.thrown = "yield"
        /\ r.th = [th EXCEPT ![run].status = "yield", ![run].ci[Depth].k = k]
    BY StateIs
  <2>4. r.th = [th EXCEPT ![run] = u]
    <3>1. u = [L EXCEPT !.status = "yield", !.ci[Depth].k = k]
      BY <2>1, ThreadIs
    <3>. HIDE DEF u, r
    <3>. QED
      BY <2>1, <2>3, <3>1
  <2>. HIDE DEF r, c
  <2>5. u \in lua_State /\ Len(u.ci) = Len(L.ci) /\ u.nny = L.nny /\ u.fn = L.fn /\ u.status = "yield" /\ Live(u)
    <3>1. ASSUME NEW v \in lua_State, Live(v), Len(v.ci) >= 1, ~Last(v.ci).lua, c.lua = Last(v.ci).lua
          PROVE  LET z == [v EXCEPT !.status = "yield", !.ci[Len(v.ci)] = c]
                 IN /\ z \in lua_State /\ Len(z.ci) = Len(v.ci) /\ z.nny = v.nny /\ z.fn = v.fn /\ z.status = "yield"
                    /\ Live(z)
      BY <1>1, <2>2, <3>1, YieldIs
    <3>2. Len(L.ci) >= 1 /\ ~Last(L.ci).lua /\ c.lua = Last(L.ci).lua
      BY <1>1, <2>1, <2>2
    <3>. QED
      BY <2>1, <3>1, <3>2
  <2>. HIDE DEF u, n
  <2>. DEFINE e == r.th
  <2>6. e = [th EXCEPT ![run] = u]
    BY <2>4
  <2>. HIDE DEF e
  <2>7. ASSUME NEW i \in 1..n, host[i].L = run
        PROVE  host[i].kind # "pcall" /\ (host[i].kind # "resume" => Low(host[i]) <= Len(u.ci))
    <3>1. host[i].kind # "pcall"
      BY <1>1, <1>4, <2>7, NoPcallBelow DEF n
    <3>2. host[i].kind # "resume" => Low(host[i]) <= Len(u.ci)
      BY <2>1, <2>5, <2>7 DEF Stacked, Fits
    <3>. QED
      BY <3>1, <3>2
  <2>8. /\ u.status = "ok" \/ (y = "yield" /\ u.status = "yield")
        /\ y = "yield" => u.status = "yield" /\ \A i \in 1..n : ~(host[i].kind = "pcall" /\ host[i].L = run)
        /\ \A i \in 1..n : host[i].kind # "resume" /\ host[i].L = run =>
              Low(host[i]) <= Len(u.ci) /\ (IsCall(host[i]) /\ y = "no" => host[i].at <= Len(u.ci))
        /\ r.thrown = y
    BY <2>3, <2>5, <2>7
  <2>. HIDE DEF y
  <2>9. /\ ~u.fn /\ Len(u.ci) >= 1 /\ u.nny = Base0(run) + Nny(host, run, n) /\ n \in 0..Len(host)
        /\ Owner(host, n) = run
    BY <2>1, <2>5 DEF Owns, n
  <2>10. Stacked(SubSeq(host, 1, n), e, run, y)
    BY <2>1, <2>6, <2>8, <2>9, LeaveStack
  <2>11. SubSeq(host, 1, n) = host
    BY <2>1, SeqAll DEF n
  <2>12. Stacked(r.host, e, r.run, r.thrown) /\ Settled(r.host) /\ r.th = e
    BY <2>1, <2>3, <2>8, <2>10, <2>11 DEF e
  <2>13. StackInv(r)
    BY <2>1, <2>3, <2>5, <2>6, <2>12, StackMade
  <2>. QED
    BY <1>4, <2>13, BecomesStack
<1>. QED
  BY <1>2, <1>3, <1>4

\* What lua_resume does to the thread that it resumes.
Awake(v, n) == [v EXCEPT !.nCcalls = n, !.nny = 0, !.status = "ok", !.fn = FALSE]

\* It runs, with no C call that forbids yields.
LEMMA AwakeIs ==
  ASSUME NEW v \in lua_State, NEW n \in Int, Live(v)
  PROVE  LET u == Awake(v, n)
         IN u \in lua_State /\ u.ci = v.ci /\ u.open = v.open /\ u.nny = 0 /\ u.status = "ok" /\ ~u.fn /\ Live(u)
<1>. DEFINE u == Awake(v, n)
<1>1. 0 \in Int /\ "ok" \in {"ok", "yield", "error"} /\ FALSE \in BOOLEAN
  OBVIOUS
<1>2. ASSUME NEW z \in Int, NEW o \in {"ok", "yield", "error"}, NEW b \in BOOLEAN
      PROVE  LET x == [v EXCEPT !.nCcalls = n, !.nny = z, !.status = o, !.fn = b]
             IN x \in lua_State /\ x.ci = v.ci /\ x.open = v.open /\ x.nny = z /\ x.status = o /\ x.fn = b
  BY DEF lua_State
<1>3. u \in lua_State /\ u.ci = v.ci /\ u.open = v.open /\ u.nny = 0 /\ u.status = "ok" /\ u.fn = FALSE
  BY <1>1, <1>2, Zenon DEF Awake
<1>. HIDE DEF u
<1>4. Live(u)
  BY <1>3 DEF Live
<1>. QED
  BY <1>3, <1>4 DEF u

\* A new coroutine gets its first CallInfo.
LEMMA FirstFrame ==
  ASSUME NEW v \in lua_State, NEW lua \in BOOLEAN, Live(v), v.ci = <<>>, v.status = "ok"
  PROVE  LET u == [v EXCEPT !.ci = <<Frame(lua)>>]
         IN u \in lua_State /\ Len(u.ci) = 1 /\ u.nny = v.nny /\ u.status = "ok" /\ u.fn = v.fn /\ Live(u)
<1>. DEFINE q == <<Frame(lua)>>
            u == [v EXCEPT !.ci = <<Frame(lua)>>]
<1>1. q \in Seq(CallInfo) /\ Len(q) = 1
  BY FrameIn
<1>2. u = [v EXCEPT !.ci = q]
  OBVIOUS
<1>. HIDE DEF q, u
<1>3. u \in lua_State /\ u.ci = q /\ u.nny = v.nny /\ u.status = "ok" /\ u.fn = v.fn /\ u.open = v.open
  BY <1>1, <1>2 DEF lua_State
<1>4. u.open = {}
  BY <1>3 DEF Live
<1>5. Live(u)
  BY <1>3, <1>4 DEF Live
<1>. QED
  BY <1>1, <1>3, <1>5 DEF u

\* A C function that yielded without a continuation is removed when its coroutine goes on.
LEMMA PoppedC ==
  ASSUME NEW v \in lua_State, Live(v), v.ci # <<>>, ~Last(v.ci).lua, v.status = "ok"
  PROVE  LET u == [v EXCEPT !.ci = Pop(@)]
         IN u \in lua_State /\ u.nny = v.nny /\ u.status = "ok" /\ u.fn = v.fn /\ Live(u)
<1>. DEFINE d == Len(v.ci)
            q == SubSeq(v.ci, 1, d - 1)
            u == [v EXCEPT !.ci = Pop(@)]
<1>1. v.ci \in Seq(CallInfo) /\ DOMAIN v.ci = 1..d /\ d \in Nat /\ d >= 1 /\ Last(v.ci) = v.ci[d]
  <2>1. v.ci \in Seq(CallInfo) /\ DOMAIN v.ci = 1..d /\ d \in Nat
    BY ThreadIs
  <2>. QED
    BY <2>1 DEF Last
<1>2. u = [v EXCEPT !.ci = q]
  BY DEF Pop
<1>3. q \in Seq(CallInfo) /\ DOMAIN q = 1..(d - 1) /\ \A i \in 1..(d - 1) : q[i] = v.ci[i]
  BY <1>1
<1>. HIDE DEF q, u
<1>4. u \in lua_State /\ u.ci = q /\ u.nny = v.nny /\ u.status = "ok" /\ u.fn = v.fn /\ u.open = v.open
  BY <1>2, <1>3 DEF lua_State
<1>5. ASSUME NEW n \in u.open PROVE n \in DOMAIN u.ci /\ u.ci[n].lua
  <2>1. n \in 1..d /\ v.ci[n].lua
    BY <1>1, <1>4 DEF Live
  <2>2. n # d
    BY <1>1, <2>1
  <2>3. n \in 1..(d - 1)
    <3>. HIDE DEF d
    <3>. QED
      BY <1>1, <2>1, <2>2
  <2>. QED
    BY <1>3, <1>4, <2>1, <2>3
<1>6. Live(u)
  BY <1>4, <1>5 DEF Live
<1>. QED
  BY <1>4, <1>6 DEF u

\* A coroutine that can be resumed has a new activation, and runs.
LEMMA ResumeMade ==
  ASSUME NEW co \in Thread, NEW n \in Int, NEW u \in lua_State, NEW r, NEW a, StackInv(State), Running,
         Resumable(th[co]), ~u.fn, u.status = "ok", u.nny = 0, Len(u.ci) >= 1, Live(u),
         a = [kind |-> "resume", L |-> co, from |-> run, nny |-> th[co].nny, ncc |-> n],
         DOMAIN r = {"th", "host", "run", "thrown"}, r.th = [th EXCEPT ![co] = u], r.host = Append(host, a),
         r.run = co, r.thrown = "no"
  PROVE  StackInv(r) /\ Stacked(r.host, r.th, co, "no")
<1>1. /\ th \in [Thread -> lua_State] /\ (\A t \in Thread : Live(th[t])) /\ Stacked(host, th, run, "no")
      /\ run \in Thread
  BY RunStack DEF Running
<1>2. \A i \in 0..Len(host) : Owner(host, i) # co
  <2>. SUFFICES ASSUME NEW i \in 0..Len(host), Owner(host, i) = co PROVE FALSE
    OBVIOUS
  <2>1. ~th[co].fn /\ Len(th[co].ci) >= 1 /\ th[co].status = "ok"
    BY <1>1 DEF Stacked, Owners, Owns
  <2>2. th[co].ci # <<>>
    BY <2>1
  <2>. QED
    BY <2>1, <2>2 DEF Resumable
<1>3. host # <<>> => Last(host).kind # "pcall"
  BY TopIs
<1>4. a.kind = "resume" /\ a.L = co /\ a.from = run /\ a.nny \in Int /\ a.ncc \in Int
  <2>1. th[co].nny \in Int
    BY <1>1, ThreadIs
  <2>. QED
    BY <2>1
<1>. DEFINE e == r.th
<1>5. e = [th EXCEPT ![co] = u]
  OBVIOUS
<1>. HIDE DEF e
<1>6. Stacked(Append(host, a), e, co, "no") /\ Settled(Append(host, a))
  BY <1>1, <1>2, <1>3, <1>4, <1>5, PushResumeStack
<1>7. Stacked(r.host, e, r.run, r.thrown) /\ Settled(r.host) /\ r.th = e
  BY <1>6 DEF e
<1>. QED
  BY <1>1, <1>5, <1>7, StackMade

\* The CallInfo that yielded is removed, and what was below it goes on or has ended.
LEMMA UnrollResume ==
  ASSUME NEW co \in Thread, NEW n \in Int, NEW v \in lua_State, NEW s, NEW a, StackInv(State), Running,
         Resumable(th[co]), ~v.fn, v.status = "ok", v.nny = 0, v.ci # <<>>, ~Last(v.ci).lua, Live(v),
         a = [kind |-> "resume", L |-> co, from |-> run, nny |-> th[co].nny, ncc |-> n],
         DOMAIN s = {"th", "host", "run", "thrown"}, s.th = [th EXCEPT ![co] = v], s.host = Append(host, a),
         s.run = co, s.thrown = "no"
  PROVE  StackInv(unroll([s EXCEPT !.th[co].ci = Pop(@)]))
<1>. DEFINE u == [v EXCEPT !.ci = Pop(@)]
            c == [s EXCEPT !.th[co].ci = Pop(@)]
            w == EndYpcall(u)
            x == [c EXCEPT !.th[c.run] = w]
            f == [th EXCEPT ![co] = v]
<1>1. th \in [Thread -> lua_State] /\ (\A t \in Thread : Live(th[t])) /\ DOMAIN th = Thread /\ IsSeq(host)
  BY RunStack DEF Running, Stacked
<1>2. u \in lua_State /\ u.nny = 0 /\ u.status = "ok" /\ ~u.fn /\ Live(u)
  <2>1. u \in lua_State /\ u.nny = v.nny /\ u.status = "ok" /\ u.fn = v.fn /\ Live(u)
    BY PoppedC
  <2>. HIDE DEF u
  <2>. QED
    BY <2>1
<1>3. /\ DOMAIN c = {"th", "host", "run", "thrown"} /\ c.host = Append(host, a) /\ c.run = co /\ c.thrown = "no"
      /\ c.th = [th EXCEPT ![co] = u]
  <2>1. c.th = [s.th EXCEPT ![co].ci = Pop(@)]
    OBVIOUS
  <2>2. [s.th EXCEPT ![co].ci = Pop(@)] = [th EXCEPT ![co] = u]
    BY <1>1
  <2>3. DOMAIN c = {"th", "host", "run", "thrown"} /\ c.host = Append(host, a) /\ c.run = co /\ c.thrown = "no"
    OBVIOUS
  <2>. QED
    BY <2>1, <2>2, <2>3
<1>4. f \in [Thread -> lua_State] /\ f[co] = v
  BY <1>1
<1>5. f = [th EXCEPT ![co] = v] /\ [f EXCEPT ![co] = u] = [th EXCEPT ![co] = u]
  BY <1>1
<1>6. Stacked(Append(host, a), f, co, "no")
  <2>1. Len(v.ci) >= 1
    <3>1. v.ci \in Seq(CallInfo)
      BY ThreadIs
    <3>. QED
      BY <3>1
  <2>2. Stacked(s.host, s.th, co, "no")
    BY <2>1, ResumeMade
  <2>. QED
    BY <2>2
<1>7. Append(host, a) # <<>> /\ Last(Append(host, a)).kind = "resume"
  <2>1. IsSeq(Append(host, a)) /\ Append(host, a)[Len(host) + 1] = a /\ Len(Append(host, a)) = Len(host) + 1 /\ Len(host) \in Nat
    BY <1>1, SeqPush, SeqLen
  <2>2. a.kind = "resume"
    OBVIOUS
  <2>. DEFINE g == Append(host, a)
  <2>3. IsSeq(g) /\ g[Len(host) + 1] = a /\ Len(g) = Len(host) + 1 /\ Len(host) \in Nat
    BY <2>1
  <2>. HIDE DEF g
  <2>4. g # <<>> /\ Last(g) = a
    BY <2>3, SeqLen DEF Last
  <2>. QED
    BY <2>2, <2>4 DEF g
<1>8. c.th[c.run] = u
  BY <1>1, <1>3
<1>. HIDE DEF c, u, w, f
<1>9. /\ DOMAIN x = {"th", "host", "run", "thrown"} /\ x.host = Append(host, a) /\ x.run = co /\ x.thrown = "no"
      /\ x.th = [th EXCEPT ![co] = w]
  <2>1. DOMAIN x = {"th", "host", "run", "thrown"} /\ x.host = c.host /\ x.run = c.run /\ x.thrown = c.thrown
    BY <1>3
  <2>2. x.th = [c.th EXCEPT ![c.run] = w]
    BY <1>3
  <2>3. [[th EXCEPT ![co] = u] EXCEPT ![co] = w] = [th EXCEPT ![co] = w]
    BY <1>1
  <2>. HIDE DEF x
  <2>. QED
    BY <1>3, <2>1, <2>2, <2>3
<1>. HIDE DEF x
<1>10. unroll(c) = IF u.ci = <<>> THEN EndResume(c) ELSE IF Last(u.ci).lua THEN c ELSE x
  BY <1>8 DEF unroll, x, w
<1>11. CASE u.ci = <<>>
  <2>1. Stacked(c.host, f, c.run, "no") /\ c.th = [f EXCEPT ![c.run] = u]
    BY <1>3, <1>5, <1>6
  <2>2. c.host # <<>> /\ Last(c.host).kind = "resume" /\ \A t \in Thread : Live(c.th[t])
    BY <1>1, <1>2, <1>3, <1>7
  <2>3. StackInv(EndResume(c))
    BY <1>2, <1>3, <1>4, <2>1, <2>2, EndResumeMade
  <2>. QED
    BY <1>10, <1>11, <2>3 DEF c
<1>12. CASE u.ci # <<>>
  <2>1. Len(u.ci) >= 1 /\ Len(u.ci) \in Nat
    <3>1. u.ci \in Seq(CallInfo) /\ Len(u.ci) \in Nat
      BY <1>2, ThreadIs
    <3>. QED
      BY <1>12, <3>1
  <2>2. w \in lua_State /\ Len(w.ci) = Len(u.ci) /\ w.nny = u.nny /\ w.fn = u.fn /\ w.status = u.status /\ Live(w)
    BY <1>2, <1>12, EndYpcallIs DEF w
  <2>3. StackInv(c)
    BY <1>2, <1>3, <2>1, ResumeMade
  <2>4. w.nny = 0 /\ ~w.fn /\ w.status = "ok" /\ Len(w.ci) >= 1
    BY <1>2, <2>1, <2>2
  <2>5. StackInv(x)
    BY <1>9, <2>2, <2>4, ResumeMade
  <2>. QED
    BY <1>10, <1>12, <2>3, <2>5 DEF c
<1>. QED
  BY <1>11, <1>12

\* A resume that fails leaves the C stack, and changes only a count.
LEMMA ResumeFails ==
  ASSUME NEW co \in Thread, NEW n \in Int, StackInv(State), Running
  PROVE  StackInv([State EXCEPT !.th[co].nCcalls = n])
<1>. DEFINE r == [State EXCEPT !.th[co].nCcalls = n]
            v == th[co]
            u == [v EXCEPT !.nCcalls = n]
<1>1. /\ th \in [Thread -> lua_State] /\ (\A t \in Thread : Live(th[t])) /\ Stacked(host, th, run, "no")
      /\ run \in Thread /\ Settled(host) /\ DOMAIN th = Thread
  BY RunStack DEF Running
<1>2. /\ DOMAIN r = {"th", "host", "run", "thrown"} /\ r.host = host /\ r.run = run /\ r.thrown = "no"
      /\ r.th = [th EXCEPT ![co] = u]
  BY <1>1, StateIs DEF Running
<1>3. v \in lua_State /\ Live(v)
  BY <1>1
<1>. DEFINE e == r.th
<1>4. e = [th EXCEPT ![co] = u] /\ v = th[co]
  BY <1>2
<1>. HIDE DEF r, v, e
<1>5. u \in lua_State /\ u.ci = v.ci /\ u.status = v.status /\ u.nny = v.nny /\ u.fn = v.fn /\ u.open = v.open
  BY <1>3 DEF lua_State
<1>. HIDE DEF u
<1>6. Live(u)
  BY <1>3, <1>5 DEF Live
<1>7. u.ci = th[co].ci /\ u.status = th[co].status /\ u.nny = th[co].nny /\ u.fn = th[co].fn
  BY <1>4, <1>5
<1>8. Stacked(host, e, run, "no")
  BY <1>1, <1>4, <1>7, OtherStack
<1>9. Stacked(r.host, e, r.run, r.thrown) /\ Settled(r.host) /\ r.th = e
  BY <1>1, <1>2, <1>8 DEF e
<1>10. StackInv(r)
  BY <1>1, <1>2, <1>4, <1>5, <1>6, <1>9, StackMade
<1>. QED
  BY <1>10 DEF r

\* coroutine.resume, with its errors.
LEMMA AuxresumeStack ==
  ASSUME StackInv(State), NEW co \in Thread, NEW lua \in BOOLEAN, auxresume(co, lua)
  PROVE  StackInv(State)'
<1>. DEFINE s == Resumed(co)
            n == StartCount(L)
            v == Awake(th[co], n)
            a == [kind |-> "resume", L |-> co, from |-> run, nny |-> th[co].nny, ncc |-> n]
            fails == [State EXCEPT !.th[co].nCcalls = n - 1]
            new == [s EXCEPT !.th[co].ci = <<Frame(lua)>>]
            cut == [s EXCEPT !.th[co].ci = Pop(@)]
<1>1. Running
  BY DEF auxresume
<1>2. \/ Becomes(State)
      \/ Becomes(fails)
      \/ Resumable(th[co]) /\ (\/ th[co].status = "ok" /\ Becomes(new)
                               \/ th[co].status # "ok" /\ Becomes(s)
                               \/ th[co].status # "ok" /\ Becomes(unroll(cut)))
  BY Zenon DEF auxresume
<1>3. /\ th \in [Thread -> lua_State] /\ (\A t \in Thread : Live(th[t])) /\ DOMAIN th = Thread
      /\ L \in lua_State /\ th[co] \in lua_State /\ Live(th[co]) /\ thrown = "no"
  BY <1>1, RunStack DEF Running
<1>4. n \in Int /\ n - 1 \in Int
  BY <1>3, ThreadIs DEF StartCount
<1>. HIDE DEF n, a
<1>5. CASE Becomes(fails)
  <2>1. StackInv(fails)
    BY <1>1, <1>4, ResumeFails
  <2>. HIDE DEF fails
  <2>. QED
    BY <1>5, <2>1, BecomesStack
<1>6. CASE Resumable(th[co]) /\ (\/ th[co].status = "ok" /\ Becomes(new)
                                 \/ th[co].status # "ok" /\ Becomes(s)
                                 \/ th[co].status # "ok" /\ Becomes(unroll(cut)))
  <2>1. /\ v \in lua_State /\ v.ci = th[co].ci /\ v.open = th[co].open /\ v.nny = 0 /\ v.status = "ok" /\ ~v.fn
        /\ Live(v)
    <3>1. ASSUME NEW t \in lua_State, Live(t)
          PROVE  LET u == Awake(t, n)
                 IN u \in lua_State /\ u.ci = t.ci /\ u.open = t.open /\ u.nny = 0 /\ u.status = "ok" /\ ~u.fn /\ Live(u)
      BY <1>4, <3>1, AwakeIs
    <3>. QED
      BY <1>3, <3>1
  <2>2. /\ DOMAIN s = {"th", "host", "run", "thrown"} /\ s.host = Append(host, a) /\ s.run = co /\ s.thrown = "no"
        /\ s.th = [th EXCEPT ![co] = v]
    <3>1. s = [State EXCEPT !.host = Append(@, a), !.run = co,
                 !.th[co] = [@ EXCEPT !.nCcalls = n, !.nny = 0, !.status = "ok", !.fn = FALSE]]
      BY Zenon DEF Resumed, n, a
    <3>2. v = [th[co] EXCEPT !.nCcalls = n, !.nny = 0, !.status = "ok", !.fn = FALSE]
      BY DEF Awake
    <3>. HIDE DEF v, s
    <3>3. s.th = [th EXCEPT ![co] = v]
      BY <1>3, <3>1, <3>2, StateIs
    <3>. QED
      BY <1>3, <3>1, <3>3, StateIs
  <2>3. a = [kind |-> "resume", L |-> co, from |-> run, nny |-> th[co].nny, ncc |-> n]
    BY DEF a
  <2>4. th[co].status # "ok" => v.ci # <<>> /\ ~Last(v.ci).lua
    BY <1>3, <1>6, <2>1 DEF Resumable, Live
  <2>. HIDE DEF s, v, a
  <2>5. CASE th[co].status = "ok" /\ Becomes(new)
    <3>. DEFINE u == [v EXCEPT !.ci = <<Frame(lua)>>]
    <3>1. v.ci = <<>>
      BY <1>6, <2>1, <2>5 DEF Resumable
    <3>2. u \in lua_State /\ Len(u.ci) = 1 /\ u.nny = v.nny /\ u.status = "ok" /\ u.fn = v.fn /\ Live(u)
      BY <2>1, <3>1, FirstFrame
    <3>3. /\ DOMAIN new = {"th", "host", "run", "thrown"} /\ new.host = s.host /\ new.run = s.run /\ new.thrown = s.thrown
          /\ new.th = [s.th EXCEPT ![co].ci = <<Frame(lua)>>]
      BY <2>2
    <3>4. [s.th EXCEPT ![co].ci = <<Frame(lua)>>] = [th EXCEPT ![co] = u]
      BY <1>3, <2>2
    <3>. HIDE DEF new, u
    <3>5. u.nny = 0 /\ ~u.fn /\ u.status = "ok" /\ Len(u.ci) >= 1 /\ new.th = [th EXCEPT ![co] = u]
      BY <2>1, <3>2, <3>3, <3>4
    <3>6. new.host = Append(host, a) /\ new.run = co /\ new.thrown = "no"
      BY <2>2, <3>3
    <3>7. StackInv(new)
      BY <1>1, <1>4, <1>6, <2>3, <3>2, <3>3, <3>5, <3>6, ResumeMade, ZenonT(60)
    <3>. QED
      BY <2>5, <3>7, BecomesStack
  <2>6. CASE th[co].status # "ok" /\ Becomes(s)
    <3>1. Len(v.ci) >= 1
      <4>1. v.ci \in Seq(CallInfo) /\ v.ci # <<>>
        BY <2>1, <2>4, <2>6, ThreadIs
      <4>. QED
        BY <4>1
    <3>2. StackInv(s)
      BY <1>1, <1>4, <1>6, <2>1, <2>2, <2>3, <3>1, ResumeMade
    <3>. QED
      BY <2>6, <3>2, BecomesStack
  <2>7. CASE th[co].status # "ok" /\ Becomes(unroll(cut))
    <3>1. Resumable(th[co]) /\ v.ci # <<>> /\ ~Last(v.ci).lua
      BY <1>6, <2>4, <2>7
    <3>2. StackInv(unroll([s EXCEPT !.th[co].ci = Pop(@)]))
      BY <1>1, <1>4, <2>1, <2>2, <2>3, <3>1, UnrollResume, SMTT(30)
    <3>3. StackInv(unroll(cut))
      BY <3>2
    <3>. HIDE DEF cut
    <3>. QED
      BY <2>7, <3>3, BecomesStack
  <2>. QED
    BY <1>6, <2>5, <2>6, <2>7
<1>7. CASE Becomes(State)
  BY <1>7, BecomesStack
<1>. QED
  BY <1>2, <1>5, <1>6, <1>7

-----------------------------------------------------------------------------
(* The theorems. *)

\* The invariant holds when the program starts.
LEMMA StackInit ==
  ASSUME Init
  PROVE  StackInv(State)
<1>1. /\ host = <<>> /\ run = Main /\ thrown = "no" /\ Main \in Thread /\ Nobody # Main
      /\ th = [t \in Thread |-> IF t = Main THEN [preinit_thread EXCEPT !.ci = <<Frame(FALSE)>>] ELSE luaB_cocreate]
  BY CallAssumption DEF Init, Thread
<1>2. preinit_thread \in lua_State /\ preinit_thread.open = {} /\ preinit_thread.status = "ok" /\ preinit_thread.nny = 1
      /\ preinit_thread.fn = FALSE /\ preinit_thread.ci = <<>>
  <2>1. "ok" \in {"ok", "yield", "error"} /\ FALSE \in BOOLEAN /\ <<>> \in Seq(CallInfo) /\ {} \in SUBSET Nat
        /\ 0 \in Int /\ 1 \in Int /\ 0 \in Nat
    OBVIOUS
  <2>2. ASSUME NEW q \in Seq(CallInfo), NEW o \in {"ok", "yield", "error"}, NEW i \in Int, NEW c \in Int, NEW e \in Nat,
               NEW p \in SUBSET Nat, NEW b \in BOOLEAN
        PROVE  LET x == [ci |-> q, status |-> o, nny |-> i, nCcalls |-> c, errfunc |-> e, open |-> p, fn |-> b]
               IN x \in lua_State /\ x.open = p /\ x.status = o /\ x.nny = i /\ x.fn = b /\ x.ci = q
    BY DEF lua_State
  <2>. QED
    BY <2>1, <2>2, ZenonT(60) DEF preinit_thread
<1>. DEFINE m == [preinit_thread EXCEPT !.ci = <<Frame(FALSE)>>]
            c == [preinit_thread EXCEPT !.fn = TRUE]
<1>3. m \in lua_State /\ Len(m.ci) = 1 /\ m.nny = 1 /\ m.status = "ok" /\ m.fn = FALSE /\ m.open = {}
  <2>. HIDE DEF c
  <2>1. ASSUME NEW x \in CallInfo PROVE <<x>> \in Seq(CallInfo) /\ Len(<<x>>) = 1
    OBVIOUS
  <2>2. Frame(FALSE) \in CallInfo
    BY FrameIn, FALSE \in BOOLEAN, Zenon
  <2>. DEFINE v == preinit_thread
              q == <<Frame(FALSE)>>
  <2>3. q \in Seq(CallInfo) /\ Len(q) = 1
    BY <2>1, <2>2, Zenon
  <2>4. m = [v EXCEPT !.ci = q]
    OBVIOUS
  <2>5. v \in lua_State /\ v.nny = 1 /\ v.status = "ok" /\ v.fn = FALSE /\ v.open = {}
    BY <1>2
  <2>. HIDE DEF v, q, m
  <2>6. m \in lua_State /\ m.ci = q /\ m.nny = v.nny /\ m.status = v.status /\ m.fn = v.fn /\ m.open = v.open
    BY <2>3, <2>4, <2>5 DEF lua_State
  <2>. QED
    BY <2>3, <2>5, <2>6
<1>4. c \in lua_State /\ c.status = "ok" /\ c.open = {}
  <2>. DEFINE v == preinit_thread
  <2>1. v \in lua_State /\ v.status = "ok" /\ v.open = {}
    BY <1>2
  <2>. HIDE DEF v
  <2>2. ASSUME NEW b \in BOOLEAN
        PROVE  LET x == [v EXCEPT !.fn = b] IN x \in lua_State /\ x.status = v.status /\ x.open = v.open
    BY <2>1 DEF lua_State
  <2>3. LET x == [v EXCEPT !.fn = TRUE] IN x \in lua_State /\ x.status = v.status /\ x.open = v.open
    BY <2>2, Zenon
  <2>. QED
    BY <2>1, <2>3 DEF v
<1>. HIDE DEF m, c
<1>5. th[Main] = m /\ th \in [Thread -> lua_State] /\ \A t \in Thread : th[t] = m \/ th[t] = c
  BY <1>1, <1>3, <1>4 DEF m, c, luaB_cocreate
<1>6. \A t \in Thread : Live(th[t])
  <2>1. Live(m) /\ Live(c)
    BY <1>3, <1>4 DEF Live
  <2>. QED
    BY <1>5, <2>1
<1>7. IsSeq(host) /\ Len(host) = 0 /\ DOMAIN host = {}
  BY <1>1 DEF IsSeq
<1>8. Linked(host) /\ Saved(host) /\ Apart(host) /\ Ordered(host) /\ Fits(host, th) /\ Placed(host, th, run, thrown)
  BY <1>7 DEF Linked, Saved, Apart, Ordered, Fits, Placed
<1>9. Owners(host, th, run, thrown)
  <2>1. Nny(host, Main, Len(host)) = 0
    BY <1>7, NnyStep
  <2>2. \A i \in 0..Len(host) : Owner(host, i) = Main
    BY <1>7 DEF Owner
  <2>3. Base0(Main) = 1
    BY DEF Base0
  <2>4. Owns(host, th, Main, run, thrown)
    <3>1. th[Main].nny = Base0(Main) + Nny(host, Main, Len(host)) /\ Len(th[Main].ci) >= 1
      BY <1>3, <1>5, <2>1, <2>3
    <3>2. ~th[Main].fn /\ th[Main].status = "ok"
      BY <1>3, <1>5
    <3>. QED
      BY <3>1, <3>2 DEF Owns
  <2>. QED
    BY <2>2, <2>4 DEF Owners
<1>10. Yields(host, th, run, thrown) /\ run = Owner(host, Len(host)) /\ Settled(host)
  BY <1>1, <1>7 DEF Yields, Owner, Settled
<1>. QED
  BY <1>1, <1>5, <1>6, <1>7, <1>8, <1>9, <1>10, StateIs DEF StackInv, Stacked

\* Every step keeps it.
LEMMA StackStep ==
  StackInv(State) /\ [Next]_vars => StackInv(State)'
<1>. SUFFICES ASSUME StackInv(State), [Next]_vars PROVE StackInv(State)'
  OBVIOUS
<1>1. ASSUME NEW lua \in BOOLEAN, \/ OpCall(lua) \/ luaT_callTM(lua) \/ GCTM(lua) \/ generic_reader(lua)
                                  \/ luaG_errormsg(lua)
      PROVE  StackInv(State)'
  BY <1>1, OpCallStack, CallTMStack, GCTMStack, ReaderStack, ErrormsgStack
<1>2. ASSUME NEW lua \in BOOLEAN, NEW k \in BOOLEAN,
             lua_callk(k, lua) \/ \E handler \in BOOLEAN : lua_pcallk(k, handler, lua)
      PROVE  StackInv(State)'
  BY <1>2, CallkStack, PcallkStack
<1>3. ASSUME NEW lua \in BOOLEAN, NEW co \in Thread, auxresume(co, lua)
      PROVE  StackInv(State)'
  BY <1>3, AuxresumeStack
<1>4. CASE OpTailCall \/ luaF_findupval \/ lua_load \/ ParserEnds \/ Return \/ luaD_throw
  BY <1>4, OpTailCallStack, FindUpvalStack, LoadStack, ParserEndsStack, ReturnStack, ThrowStack
<1>5. CASE SyntaxError
  BY <1>5, ErrorStack DEF SyntaxError
<1>6. CASE lua_error
  BY <1>6, ErrorStack DEF lua_error, Running
<1>7. ASSUME NEW k \in BOOLEAN, lua_yieldk(k)
      PROVE  StackInv(State)'
  BY <1>7, YieldStack
<1>8. CASE UNCHANGED vars
  <2>1. State' = State
    BY <1>8 DEF State, vars
  <2>. QED
    BY <2>1 DEF StackInv
<1>. QED
  BY <1>1, <1>2, <1>3, <1>4, <1>5, <1>6, <1>7, <1>8 DEF Next

\* The C stack and the threads agree: every activation is of the thread that ran when it
\* was made and is placed in its CallInfo, the count of what forbids yields is that of the
\* C stack, and a thread is resumed once (the inductive invariant; luaD_call, luaD_pcall,
\* lua_resume, lua_yieldk, luaD_throw).
THEOREM StackIsSound == Spec => []StackInv(State)
<1>. QED
  BY StackInit, StackStep, PTL DEF Spec

\* An open upvalue is that of a Lua function that has not returned, on every way out of
\* a function: return, error, recovery and the end of a coroutine (luaF_close).
THEOREM UpvaluesAreLive == Spec => []UpvaluesLive
<1>1. StackInv(State) => UpvaluesLive
  BY StateIs DEF StackInv, Live, UpvaluesLive
<1>. QED
  BY <1>1, StackIsSound, PTL

-----------------------------------------------------------------------------
(* Who goes on, and with which handler: the second layer of the invariant. *)

\* The activations of a thread.
Of(h, t) == {i \in DOMAIN h : h[i].L = t /\ h[i].kind # "resume"}
Pcalls(h, t) == {i \in DOMAIN h : h[i].L = t /\ h[i].kind = "pcall"}

\* A C function that waits has its activation, or a continuation: then no activation
\* of the coroutine is left below it.
GoesOn(h, t, ci) ==
  \A i \in DOMAIN ci : i < Len(ci) /\ ~ci[i].lua =>
    \/ \E j \in Of(h, t) : IsCall(h[j]) /\ h[j].at = i + 1
    \/ ci[i].k /\ t # Main /\ \A j \in Of(h, t) : Low(h[j]) >= i

\* A call that lets yields pass is one of a caller that can go on without it.
Yieldable(h, t, ci) ==
  \A j \in Of(h, t) : IsCall(h[j]) /\ ~h[j].ny =>
    Low(h[j]) \in DOMAIN ci /\ (ci[Low(h[j])].lua \/ ci[Low(h[j])].k)

\* e is the handler of the innermost yieldable protected call below level q, if there is one.
Below(ci, q, e) ==
  \/ e = 0 /\ \A o \in DOMAIN ci : o < q => ~ci[o].yp
  \/ \E p \in DOMAIN ci : /\ p < q /\ ci[p].yp /\ e = ci[p].ef
                          /\ \A o \in DOMAIN ci : o < q /\ ci[o].yp => o <= p

\* An error can be recovered from at a yieldable protected call: all below it go on
\* without their activations, and protected calls with one are above.
Recoverable(h, t, ci) ==
  \A p \in DOMAIN ci : ci[p].yp =>
    /\ ~ci[p].lua /\ \A i \in DOMAIN ci : i < p => ci[i].lua \/ ci[i].k
    /\ \A j \in Pcalls(h, t) : p < h[j].at
    /\ Below(ci, p, ci[p].oldef)

\* e is the handler of the innermost protected call, of those activations P and of the
\* yieldable ones, which are below them.
InForce(h, P, ci, e) ==
  \/ P = {} /\ Below(ci, Len(ci) + 1, e)
  \/ \E i \in P : e = h[i].ef /\ \A j \in P : j <= i

\* The protected calls of t with an activation that is below that of i.
Inner(h, t, i) == {j \in Pcalls(h, t) : j < i}

\* So is the handler of the thread, and that which each protected call will restore.
Handlers(h, t, ci, e) ==
  /\ InForce(h, Pcalls(h, t), ci, e)
  /\ \A i \in Pcalls(h, t) : InForce(h, Inner(h, t, i), ci, h[i].errfunc)

Keeps(h, t, ci, e) ==
  GoesOn(h, t, ci) /\ Yieldable(h, t, ci) /\ Recoverable(h, t, ci) /\ Handlers(h, t, ci, e)

\* The function that runs does not wait for a protected call.
TopNot(ci) == \A p \in DOMAIN ci : ci[p].yp => p < Len(ci)

\* What is known of the places of activations.
LEMMA ActsAre ==
  ASSUME NEW h, IsSeq(h), Linked(h), NEW t, NEW j \in Of(h, t)
  PROVE  /\ h[j].at \in Nat /\ Low(h[j]) \in Nat /\ Low(h[j]) >= 1
         /\ h[j].kind \in {"call", "handler", "pcall"}
         /\ h[j].kind = "pcall" => Low(h[j]) = h[j].at /\ ~IsCall(h[j])
         /\ h[j].kind # "pcall" => Low(h[j]) = h[j].at - 1 /\ IsCall(h[j])
BY DEF Linked, Of, Low, IsCall

\* Protected calls are activations of the thread.
LEMMA PcallsOf ==
  ASSUME NEW h, NEW t
  PROVE  Pcalls(h, t) = {i \in Of(h, t) : h[i].kind = "pcall"}
BY DEF Pcalls, Of

\* Only the activations of the thread matter.
LEMMA KeepsSame ==
  ASSUME NEW h, NEW g, NEW t, NEW ci, NEW e, Of(g, t) = Of(h, t), \A i \in Of(h, t) : g[i] = h[i],
         Keeps(h, t, ci, e)
  PROVE  Keeps(g, t, ci, e)
<1>1. Pcalls(g, t) = Pcalls(h, t) /\ \A i \in Pcalls(h, t) : g[i] = h[i]
  BY PcallsOf
<1>2. GoesOn(g, t, ci) /\ Yieldable(g, t, ci)
  BY DEF Keeps, GoesOn, Yieldable
<1>3. Recoverable(g, t, ci)
  BY <1>1 DEF Keeps, Recoverable
<1>4. Handlers(g, t, ci, e)
  BY <1>1 DEF Keeps, Handlers, Inner, InForce
<1>. QED
  BY <1>2, <1>3, <1>4 DEF Keeps

\* A call, with the activation at the level of the frame to come.
LEMMA KeepsCall ==
  ASSUME NEW h, NEW g, NEW t, NEW ci \in Seq(CallInfo), NEW e, NEW a, NEW n \in Nat,
         Keeps(h, t, ci, e), DOMAIN h = 1..n, DOMAIN g = 1..n + 1, \A i \in 1..n : g[i] = h[i], g[n + 1] = a,
         a.L = t, IsCall(a), a.at = Len(ci) + 1, ci # <<>>,
         ~a.ny => Last(ci).lua \/ Last(ci).k
  PROVE  Keeps(g, t, ci, e)
<1>1. Of(g, t) = Of(h, t) \cup {n + 1} /\ \A i \in Of(h, t) : i \in 1..n /\ g[i] = h[i]
  BY DEF Of, IsCall
<1>2. Pcalls(g, t) = Pcalls(h, t) /\ \A i \in Pcalls(h, t) : g[i] = h[i]
  BY DEF Pcalls, IsCall
<1>3. Len(ci) \in Nat /\ DOMAIN ci = 1..Len(ci) /\ Len(ci) >= 1 /\ Last(ci) = ci[Len(ci)]
  BY DEF Last
<1>4. Low(a) = Len(ci)
  <2>1. a.kind # "pcall"
    BY DEF IsCall
  <2>2. Low(a) = a.at - 1
    BY <2>1 DEF Low
  <2>. QED
    BY <1>3, <2>2
<1>5. GoesOn(g, t, ci)
  BY <1>1, <1>3, <1>4 DEF Keeps, GoesOn
<1>6. Yieldable(g, t, ci)
  BY <1>1, <1>3, <1>4 DEF Keeps, Yieldable
<1>7. Recoverable(g, t, ci)
  BY <1>2 DEF Keeps, Recoverable
<1>8. Handlers(g, t, ci, e)
  BY <1>2 DEF Keeps, Handlers, Inner, InForce
<1>. QED
  BY <1>5, <1>6, <1>7, <1>8 DEF Keeps

\* A sequence of CallInfo is a function on its positions.
LEMMA CiIs ==
  ASSUME NEW ci \in Seq(CallInfo)
  PROVE  /\ Len(ci) \in Nat /\ DOMAIN ci = 1..Len(ci) /\ \A i \in DOMAIN ci : ci[i] \in CallInfo
         /\ ci # <<>> => Len(ci) >= 1 /\ Last(ci) = ci[Len(ci)]
         /\ ci = <<>> => Len(ci) = 0
BY DEF Last

\* The handler of the yieldable protected calls below a level depends on these only.
LEMMA BelowMove ==
  ASSUME NEW ci, NEW d, NEW q, NEW r, NEW x,
         \A o : (o \in DOMAIN d /\ o < r /\ d[o].yp) <=> (o \in DOMAIN ci /\ o < q /\ ci[o].yp),
         \A o \in DOMAIN ci : o < q /\ ci[o].yp => d[o].ef = ci[o].ef,
         Below(ci, q, x)
  PROVE  Below(d, r, x)
BY DEF Below

\* The frame of a function that has been called, with or without activation.
LEMMA KeepsFrame ==
  ASSUME NEW h, NEW t, NEW ci \in Seq(CallInfo), NEW e, NEW c \in CallInfo, Keeps(h, t, ci, e), ~c.yp,
         ci # <<>> => \/ Last(ci).lua
                      \/ \E j \in Of(h, t) : IsCall(h[j]) /\ h[j].at = Len(ci) + 1
  PROVE  Keeps(h, t, Append(ci, c), e) /\ TopNot(Append(ci, c)) /\ Append(ci, c) \in Seq(CallInfo)
<1>. DEFINE d == Append(ci, c)
            n == Len(ci)
<1>1. /\ n \in Nat /\ DOMAIN ci = 1..n /\ Len(d) = n + 1 /\ DOMAIN d = 1..n + 1 /\ d[n + 1] = c
      /\ \A i \in 1..n : d[i] = ci[i]
      /\ d \in Seq(CallInfo)
  BY CiIs
<1>2. n >= 1 => Last(ci) = ci[n] /\ ci # <<>>
  BY CiIs
<1>. HIDE DEF d
<1>3. GoesOn(h, t, d)
  BY <1>1, <1>2 DEF Keeps, GoesOn
<1>4. Yieldable(h, t, d)
  BY <1>1 DEF Keeps, Yieldable
<1>5. \A q \in 0..n : \A x : Below(ci, q, x) => Below(d, q, x)
  BY <1>1 DEF Below
<1>6. \A x : Below(ci, n + 1, x) => Below(d, n + 2, x)
  BY <1>1 DEF Below
<1>7. Recoverable(h, t, d)
  <2>. SUFFICES ASSUME NEW p \in DOMAIN d, d[p].yp
       PROVE  /\ ~d[p].lua /\ \A i \in DOMAIN d : i < p => d[i].lua \/ d[i].k
              /\ \A j \in Pcalls(h, t) : p < h[j].at
              /\ Below(d, p, d[p].oldef)
    BY DEF Recoverable
  <2>1. p \in 1..n /\ d[p] = ci[p]
    BY <1>1
  <2>2. /\ ~ci[p].lua /\ \A i \in DOMAIN ci : i < p => ci[i].lua \/ ci[i].k
        /\ \A j \in Pcalls(h, t) : p < h[j].at
        /\ Below(ci, p, ci[p].oldef)
    BY <1>1, <2>1 DEF Keeps, Recoverable
  <2>3. Below(d, p, d[p].oldef)
    BY <1>5, <2>1, <2>2
  <2>. QED
    BY <1>1, <2>1, <2>2, <2>3
<1>8. Handlers(h, t, d, e)
  <2>1. \A P, x : InForce(h, P, ci, x) => InForce(h, P, d, x)
    BY <1>1, <1>6 DEF InForce
  <2>. QED
    BY <2>1 DEF Keeps, Handlers, Inner
<1>9. TopNot(d)
  BY <1>1 DEF TopNot
<1>. QED
  BY <1>1, <1>3, <1>4, <1>7, <1>8, <1>9 DEF Keeps, d

\* A protected call with an activation: its handler is in force, the one before is saved.
LEMMA KeepsPcall ==
  ASSUME NEW h, NEW g, NEW t, NEW ci \in Seq(CallInfo), NEW e, NEW a, NEW n \in Nat,
         Keeps(h, t, ci, e), DOMAIN h = 1..n, DOMAIN g = 1..n + 1, \A i \in 1..n : g[i] = h[i], g[n + 1] = a,
         a.L = t, a.kind = "pcall", a.at = Len(ci), a.errfunc = e, TopNot(ci)
  PROVE  Keeps(g, t, ci, a.ef)
<1>1. Of(g, t) = Of(h, t) \cup {n + 1} /\ \A i \in Of(h, t) : i \in 1..n /\ g[i] = h[i]
  BY DEF Of
<1>2. Pcalls(g, t) = Pcalls(h, t) \cup {n + 1} /\ \A i \in Pcalls(h, t) : i \in 1..n /\ g[i] = h[i]
  BY DEF Pcalls
<1>3. Len(ci) \in Nat /\ DOMAIN ci = 1..Len(ci)
  BY CiIs
<1>4. Low(a) = Len(ci) /\ ~IsCall(a)
  BY DEF Low, IsCall
<1>5. GoesOn(g, t, ci)
  BY <1>1, <1>3, <1>4 DEF Keeps, GoesOn
<1>6. Yieldable(g, t, ci)
  BY <1>1, <1>3, <1>4 DEF Keeps, Yieldable
<1>7. Recoverable(g, t, ci)
  BY <1>2, <1>3 DEF Keeps, Recoverable, TopNot
<1>8. Handlers(g, t, ci, a.ef)
  <2>1. \A P \in SUBSET Pcalls(h, t) : \A x : InForce(h, P, ci, x) => InForce(g, P, ci, x)
    BY <1>2 DEF InForce
  <2>2. InForce(g, Pcalls(g, t), ci, a.ef)
    <3>1. n + 1 \in Pcalls(g, t) /\ g[n + 1].ef = a.ef /\ \A j \in Pcalls(g, t) : j <= n + 1
      BY <1>2
    <3>. QED
      BY <3>1 DEF InForce
  <2>3. ASSUME NEW i \in Pcalls(g, t) PROVE InForce(g, {j \in Pcalls(g, t) : j < i}, ci, g[i].errfunc)
    <3>1. CASE i = n + 1
      <4>1. {j \in Pcalls(g, t) : j < i} = Pcalls(h, t)
        <5>1. \A j : j \in Pcalls(g, t) /\ j < n + 1 <=> j \in Pcalls(h, t)
          BY <1>2
        <5>. QED
          BY <3>1, <5>1
      <4>2. InForce(h, Pcalls(h, t), ci, e)
        BY DEF Keeps, Handlers, Inner
      <4>. QED
        BY <2>1, <3>1, <4>1, <4>2
    <3>2. CASE i # n + 1
      <4>1. i \in Pcalls(h, t) /\ g[i] = h[i] /\ {j \in Pcalls(g, t) : j < i} = {j \in Pcalls(h, t) : j < i}
        BY <1>2, <3>2
      <4>2. InForce(h, {j \in Pcalls(h, t) : j < i}, ci, h[i].errfunc)
        BY <4>1 DEF Keeps, Handlers, Inner
      <4>3. {j \in Pcalls(h, t) : j < i} \in SUBSET Pcalls(h, t)
        OBVIOUS
      <4>. QED
        BY <2>1, <4>1, <4>2, <4>3
    <3>. QED
      BY <3>1, <3>2
  <2>. QED
    BY <2>2, <2>3 DEF Handlers, Inner
<1>. QED
  BY <1>5, <1>6, <1>7, <1>8 DEF Keeps

\* A continuation is set or forgotten by the function that runs.
LEMMA KeepsTop ==
  ASSUME NEW h, NEW t, NEW ci \in Seq(CallInfo), NEW e, NEW c \in CallInfo, NEW d, Keeps(h, t, ci, e), ci # <<>>,
         IsSeq(h), Linked(h), \A j \in Of(h, t) : IsCall(h[j]) => h[j].at <= Len(ci),
         TopNot(ci), ~c.yp, d = [ci EXCEPT ![Len(ci)] = c]
  PROVE  Keeps(h, t, d, e) /\ TopNot(d)
<1>. DEFINE n == Len(ci)
<1>1. /\ n \in Nat /\ n >= 1 /\ DOMAIN ci = 1..n /\ Len(d) = n /\ DOMAIN d = 1..n /\ d[n] = c
      /\ \A i \in 1..n : i < n => d[i] = ci[i]
  BY CiIs
<1>2. ~ci[n].yp
  BY <1>1 DEF TopNot
<1>3. \A i \in 1..n : d[i].yp <=> ci[i].yp
  BY <1>1, <1>2
<1>. HIDE DEF n
<1>4. GoesOn(h, t, d)
  BY <1>1 DEF Keeps, GoesOn, n
<1>5. Yieldable(h, t, d)
  <2>. SUFFICES ASSUME NEW j \in Of(h, t), IsCall(h[j]), ~h[j].ny
       PROVE  Low(h[j]) \in 1..n /\ (d[Low(h[j])].lua \/ d[Low(h[j])].k)
    BY <1>1 DEF Yieldable
  <2>1. Low(h[j]) < n /\ Low(h[j]) \in Nat
    BY ActsAre, <1>1 DEF n
  <2>2. Low(h[j]) \in 1..n /\ (ci[Low(h[j])].lua \/ ci[Low(h[j])].k)
    BY <1>1 DEF Keeps, Yieldable
  <2>. QED
    BY <1>1, <2>1, <2>2
<1>6. \A q \in 0..n + 1 : \A x : Below(ci, q, x) => Below(d, q, x)
  BY <1>1, <1>2, <1>3 DEF Below
<1>7. Recoverable(h, t, d)
  <2>. SUFFICES ASSUME NEW p \in 1..n, d[p].yp
       PROVE  /\ ~d[p].lua /\ \A i \in 1..n : i < p => d[i].lua \/ d[i].k
              /\ \A j \in Pcalls(h, t) : p < h[j].at
              /\ Below(d, p, d[p].oldef)
    BY <1>1 DEF Recoverable
  <2>1. p < n /\ d[p] = ci[p] /\ ci[p].yp
    BY <1>1, <1>2, <1>3
  <2>2. /\ ~ci[p].lua /\ \A i \in 1..n : i < p => ci[i].lua \/ ci[i].k
        /\ \A j \in Pcalls(h, t) : p < h[j].at
        /\ Below(ci, p, ci[p].oldef)
    BY <1>1, <2>1 DEF Keeps, Recoverable
  <2>3. Below(d, p, d[p].oldef)
    <3>1. p \in 0..n + 1
      BY <1>1
    <3>. QED
      BY <1>6, <2>1, <2>2, <3>1
  <2>. QED
    BY <1>1, <2>1, <2>2, <2>3
<1>8. Handlers(h, t, d, e)
  <2>1. \A P, x : InForce(h, P, ci, x) => InForce(h, P, d, x)
    <3>1. Len(ci) + 1 = n + 1 /\ Len(d) + 1 = n + 1 /\ n + 1 \in 0..n + 1
      BY <1>1 DEF n
    <3>2. \A x : Below(ci, Len(ci) + 1, x) => Below(d, Len(d) + 1, x)
      BY <1>6, <3>1
    <3>. QED
      BY <3>2 DEF InForce
  <2>. QED
    BY <2>1 DEF Keeps, Handlers, Inner
<1>9. TopNot(d)
  BY <1>1, <1>2, <1>3 DEF TopNot
<1>. QED
  BY <1>4, <1>5, <1>7, <1>8, <1>9 DEF Keeps

\* Where nothing forbids yields, every function that waits can go on without its activation.
LEMMA AllGoOn ==
  ASSUME NEW h, IsSeq(h), Linked(h), NEW t, NEW ci \in Seq(CallInfo), NEW e, Keeps(h, t, ci, e),
         \A j \in Of(h, t) : IsCall(h[j]) => ~h[j].ny
  PROVE  \A i \in DOMAIN ci : i < Len(ci) => ci[i].lua \/ ci[i].k
<1>. SUFFICES ASSUME NEW i \in DOMAIN ci, i < Len(ci), ~ci[i].lua PROVE ci[i].k
  OBVIOUS
<1>1. CASE \E j \in Of(h, t) : IsCall(h[j]) /\ h[j].at = i + 1
  <2>1. PICK j \in Of(h, t) : IsCall(h[j]) /\ h[j].at = i + 1
    BY <1>1
  <2>2. i \in Nat
    BY CiIs
  <2>3. h[j].kind # "pcall"
    BY <2>1 DEF IsCall
  <2>4. Low(h[j]) = i
    BY <2>1, <2>2, <2>3 DEF Low
  <2>. QED
    BY <2>1, <2>4 DEF Keeps, Yieldable
<1>. QED
  BY <1>1 DEF Keeps, GoesOn

\* A yieldable protected call of the function that runs.
LEMMA KeepsYpcall ==
  ASSUME NEW h, NEW t, NEW ci \in Seq(CallInfo), NEW e, NEW c \in CallInfo, NEW d, Keeps(h, t, ci, e), ci # <<>>,
         IsSeq(h), Linked(h), \A j \in Of(h, t) : IsCall(h[j]) /\ ~h[j].ny /\ h[j].at <= Len(ci),
         TopNot(ci), ~c.lua, c.k, c.yp, c.oldef = e, c.lua = Last(ci).lua, d = [ci EXCEPT ![Len(ci)] = c]
  PROVE  Keeps(h, t, d, c.ef)
<1>. DEFINE n == Len(ci)
<1>1. /\ n \in Nat /\ n >= 1 /\ DOMAIN ci = 1..n /\ Len(d) = n /\ DOMAIN d = 1..n /\ d[n] = c
      /\ \A i \in 1..n : i < n => d[i] = ci[i]
  BY CiIs
<1>2. ~ci[n].yp
  BY <1>1 DEF TopNot
<1>3. Pcalls(h, t) = {}
  BY PcallsOf DEF IsCall
<1>4. \A i \in 1..n : i < n => ci[i].lua \/ ci[i].k
  BY <1>1, AllGoOn
<1>5. GoesOn(h, t, d)
  BY <1>1 DEF Keeps, GoesOn
<1>. HIDE DEF n
<1>6. Yieldable(h, t, d)
  <2>. SUFFICES ASSUME NEW j \in Of(h, t), IsCall(h[j]), ~h[j].ny
       PROVE  Low(h[j]) \in 1..n /\ (d[Low(h[j])].lua \/ d[Low(h[j])].k)
    BY <1>1 DEF Yieldable
  <2>1. Low(h[j]) < n /\ Low(h[j]) \in Nat
    BY ActsAre, <1>1 DEF n
  <2>2. Low(h[j]) \in 1..n /\ (ci[Low(h[j])].lua \/ ci[Low(h[j])].k)
    BY <1>1 DEF Keeps, Yieldable
  <2>. QED
    BY <1>1, <2>1, <2>2
<1>7. Below(ci, n, e)
  <2>1. Below(ci, n + 1, e)
    BY <1>3 DEF Keeps, Handlers, Inner, InForce, n
  <2>2. \A o : (o \in DOMAIN ci /\ o < n /\ ci[o].yp) <=> (o \in DOMAIN ci /\ o < n + 1 /\ ci[o].yp)
    BY <1>1, <1>2
  <2>. QED
    BY <2>1, <2>2, BelowMove
<1>8. \A q \in 0..n : \A x : Below(ci, q, x) => Below(d, q, x)
  BY <1>1 DEF Below
<1>9. Recoverable(h, t, d)
  <2>. SUFFICES ASSUME NEW p \in 1..n, d[p].yp
       PROVE  /\ ~d[p].lua /\ \A i \in 1..n : i < p => d[i].lua \/ d[i].k
              /\ Below(d, p, d[p].oldef)
    BY <1>1, <1>3 DEF Recoverable
  <2>1. CASE p = n
    <3>1. Below(d, n, e)
      <4>1. n \in 0..n
        BY <1>1
      <4>. QED
        BY <1>7, <1>8, <4>1
    <3>2. d[n].oldef = e /\ ~d[n].lua
      BY <1>1
    <3>. QED
      BY <1>1, <1>4, <2>1, <3>1, <3>2
  <2>2. CASE p # n
    <3>1. p < n /\ d[p] = ci[p] /\ p \in 0..n
      BY <1>1, <2>2
    <3>2. ~ci[p].lua /\ Below(ci, p, ci[p].oldef)
      BY <1>1, <3>1 DEF Keeps, Recoverable
    <3>3. Below(d, p, d[p].oldef)
      BY <1>8, <3>1, <3>2
    <3>. QED
      BY <1>1, <1>4, <3>1, <3>2, <3>3
  <2>. QED
    BY <2>1, <2>2
<1>10. Below(d, n + 1, c.ef)
  BY <1>1 DEF Below
<1>11. Handlers(h, t, d, c.ef)
  BY <1>1, <1>3, <1>10 DEF Handlers, Inner, InForce
<1>. QED
  BY <1>5, <1>6, <1>9, <1>11 DEF Keeps

\* The first m frames, when no yieldable protected call and no activation is above them.
LEMMA KeepsFirst ==
  ASSUME NEW h, NEW t, NEW ci \in Seq(CallInfo), NEW e, Keeps(h, t, ci, e), NEW m \in 0..Len(ci), NEW d,
         d = SubSeq(ci, 1, m), IsSeq(h), Linked(h), \A j \in Of(h, t) : IsCall(h[j]) => Low(h[j]) <= m,
         \A p \in DOMAIN ci : ci[p].yp => p <= m
  PROVE  Keeps(h, t, d, e)
<1>. DEFINE n == Len(ci)
<1>1. /\ n \in Nat /\ m \in 0..n /\ DOMAIN ci = 1..n /\ Len(d) = m /\ DOMAIN d = 1..m
      /\ \A i \in 1..m : d[i] = ci[i]
  BY CiIs
<1>. HIDE DEF n
<1>2. GoesOn(h, t, d)
  BY <1>1 DEF Keeps, GoesOn, n
<1>3. Yieldable(h, t, d)
  <2>. SUFFICES ASSUME NEW j \in Of(h, t), IsCall(h[j]), ~h[j].ny
       PROVE  Low(h[j]) \in 1..m /\ (d[Low(h[j])].lua \/ d[Low(h[j])].k)
    BY <1>1 DEF Yieldable
  <2>1. Low(h[j]) <= m
    OBVIOUS
  <2>2. Low(h[j]) \in 1..n /\ (ci[Low(h[j])].lua \/ ci[Low(h[j])].k)
    BY <1>1 DEF Keeps, Yieldable
  <2>3. Low(h[j]) \in 1..m
    BY <1>1, <2>1, <2>2
  <2>. QED
    BY <1>1, <2>2, <2>3
<1>4. \A q \in 0..m : \A x : Below(ci, q, x) => Below(d, q, x)
  <2>. SUFFICES ASSUME NEW q \in 0..m, NEW x, Below(ci, q, x) PROVE Below(d, q, x)
    OBVIOUS
  <2>1. /\ \A o : (o \in DOMAIN d /\ o < q /\ d[o].yp) <=> (o \in DOMAIN ci /\ o < q /\ ci[o].yp)
        /\ \A o \in DOMAIN ci : o < q /\ ci[o].yp => d[o].ef = ci[o].ef
    BY <1>1
  <2>. QED
    BY <2>1, BelowMove
<1>5. \A x : Below(ci, n + 1, x) => Below(d, m + 1, x)
  BY <1>1 DEF Below
<1>6. Recoverable(h, t, d)
  <2>. SUFFICES ASSUME NEW p \in 1..m, d[p].yp
       PROVE  /\ ~d[p].lua /\ \A i \in 1..m : i < p => d[i].lua \/ d[i].k
              /\ \A j \in Pcalls(h, t) : p < h[j].at
              /\ Below(d, p, d[p].oldef)
    BY <1>1 DEF Recoverable
  <2>1. p \in 1..n /\ d[p] = ci[p] /\ p \in 0..m
    BY <1>1
  <2>2. /\ ~ci[p].lua /\ \A i \in 1..n : i < p => ci[i].lua \/ ci[i].k
        /\ \A j \in Pcalls(h, t) : p < h[j].at
        /\ Below(ci, p, ci[p].oldef)
    BY <1>1, <2>1 DEF Keeps, Recoverable
  <2>3. Below(d, p, d[p].oldef)
    BY <1>4, <2>1, <2>2
  <2>. QED
    BY <1>1, <2>1, <2>2, <2>3
<1>7. Handlers(h, t, d, e)
  <2>1. \A P, x : InForce(h, P, ci, x) => InForce(h, P, d, x)
    BY <1>1, <1>5 DEF InForce, n
  <2>. QED
    BY <2>1 DEF Keeps, Handlers, Inner
<1>. QED
  BY <1>2, <1>3, <1>6, <1>7 DEF Keeps

\* The activation of a call whose frame is gone.
LEMMA KeepsDrop ==
  ASSUME NEW h, NEW g, NEW t, NEW ci \in Seq(CallInfo), NEW e, NEW n \in Nat \ {0},
         Keeps(h, t, ci, e), DOMAIN h = 1..n, DOMAIN g = 1..n - 1, \A i \in 1..n - 1 : g[i] = h[i],
         IsCall(h[n]), h[n].at \in Nat, h[n].at > Len(ci)
  PROVE  Keeps(g, t, ci, e)
<1>1. Of(g, t) = Of(h, t) \ {n} /\ \A i \in Of(g, t) : g[i] = h[i]
  BY DEF Of
<1>2. Pcalls(g, t) = Pcalls(h, t) /\ \A i \in Pcalls(h, t) : g[i] = h[i]
  BY DEF Pcalls, IsCall
<1>3. Len(ci) \in Nat /\ DOMAIN ci = 1..Len(ci)
  BY CiIs
<1>4. GoesOn(g, t, ci)
  <2>. SUFFICES ASSUME NEW i \in DOMAIN ci, i < Len(ci), ~ci[i].lua
       PROVE  \/ \E j \in Of(g, t) : IsCall(g[j]) /\ g[j].at = i + 1
              \/ ci[i].k /\ t # Main /\ \A j \in Of(g, t) : Low(g[j]) >= i
    BY DEF GoesOn
  <2>1. h[n].at # i + 1
    BY <1>3
  <2>2. \/ \E j \in Of(h, t) : IsCall(h[j]) /\ h[j].at = i + 1
        \/ ci[i].k /\ t # Main /\ \A j \in Of(h, t) : Low(h[j]) >= i
    BY DEF Keeps, GoesOn
  <2>3. CASE \E j \in Of(h, t) : IsCall(h[j]) /\ h[j].at = i + 1
    BY <1>1, <2>1, <2>3
  <2>4. CASE ci[i].k /\ t # Main /\ \A j \in Of(h, t) : Low(h[j]) >= i
    BY <1>1, <2>4
  <2>. QED
    BY <2>2, <2>3, <2>4
<1>5. Yieldable(g, t, ci)
  BY <1>1 DEF Keeps, Yieldable
<1>6. Recoverable(g, t, ci)
  BY <1>2 DEF Keeps, Recoverable
<1>7. Handlers(g, t, ci, e)
  BY <1>2 DEF Keeps, Handlers, Inner, InForce
<1>. QED
  BY <1>4, <1>5, <1>6, <1>7 DEF Keeps

\* The end of lua_pcallk with a continuation, at the top again.
LEMMA KeepsEnd ==
  ASSUME NEW h, NEW t, NEW ci \in Seq(CallInfo), NEW e, NEW d, NEW n, Keeps(h, t, ci, e), n = Len(ci), ci # <<>>,
         IsSeq(h), Linked(h), \A j \in Of(h, t) : Low(h[j]) <= n,
         Len(d) = n, DOMAIN d = 1..n, \A i \in 1..n : i < n => d[i] = ci[i],
         ci[n].yp, ~d[n].yp, d[n].lua = ci[n].lua, d[n].k = ci[n].k
  PROVE  Keeps(h, t, d, ci[n].oldef) /\ TopNot(d)
<1>1. n \in Nat /\ n >= 1 /\ DOMAIN ci = 1..n
  BY CiIs
<1>2. Pcalls(h, t) = {}
  <2>. SUFFICES ASSUME NEW j \in Pcalls(h, t) PROVE FALSE
    OBVIOUS
  <2>1. n < h[j].at
    BY <1>1 DEF Keeps, Recoverable
  <2>2. j \in Of(h, t) /\ h[j].kind = "pcall"
    BY PcallsOf
  <2>3. Low(h[j]) = h[j].at /\ Low(h[j]) <= n /\ h[j].at \in Nat
    BY <2>2, ActsAre
  <2>. QED
    BY <1>1, <2>1, <2>3
<1>3. Below(ci, n, ci[n].oldef)
  BY <1>1 DEF Keeps, Recoverable
<1>4. \A i \in 1..n : d[i].lua = ci[i].lua /\ d[i].k = ci[i].k
  BY <1>1
<1>5. GoesOn(h, t, d)
  BY <1>1, <1>4 DEF Keeps, GoesOn
<1>6. Yieldable(h, t, d)
  BY <1>1, <1>4 DEF Keeps, Yieldable
<1>7. ASSUME NEW q \in 0..n, NEW y, Below(ci, q, y) PROVE Below(d, q, y)
  <2>1. \A o : (o \in DOMAIN d /\ o < q /\ d[o].yp) <=> (o \in DOMAIN ci /\ o < q /\ ci[o].yp)
    BY <1>1
  <2>2. \A o \in DOMAIN ci : o < q /\ ci[o].yp => d[o].ef = ci[o].ef
    BY <1>1
  <2>. QED
    BY <1>7, <2>1, <2>2, BelowMove
<1>8. Recoverable(h, t, d)
  <2>. SUFFICES ASSUME NEW p \in 1..n, d[p].yp
       PROVE  /\ ~d[p].lua /\ \A i \in 1..n : i < p => d[i].lua \/ d[i].k
              /\ Below(d, p, d[p].oldef)
    BY <1>2 DEF Recoverable
  <2>1. p < n /\ d[p] = ci[p] /\ p \in 0..n
    BY <1>1
  <2>2. /\ ~ci[p].lua /\ \A i \in 1..n : i < p => ci[i].lua \/ ci[i].k
        /\ Below(ci, p, ci[p].oldef)
    BY <1>1, <2>1 DEF Keeps, Recoverable
  <2>3. Below(d, p, d[p].oldef)
    BY <1>7, <2>1, <2>2
  <2>. QED
    BY <1>4, <2>1, <2>2, <2>3
<1>9. Below(d, n + 1, ci[n].oldef)
  <2>1. \A o : (o \in DOMAIN d /\ o < n + 1 /\ d[o].yp) <=> (o \in DOMAIN ci /\ o < n /\ ci[o].yp)
    BY <1>1
  <2>2. \A o \in DOMAIN ci : o < n /\ ci[o].yp => d[o].ef = ci[o].ef
    BY <1>1
  <2>. QED
    BY <1>3, <2>1, <2>2, BelowMove
<1>10. Handlers(h, t, d, ci[n].oldef)
  BY <1>2, <1>9 DEF Handlers, InForce
<1>11. TopNot(d)
  BY <1>1 DEF TopNot
<1>. QED
  BY <1>5, <1>6, <1>8, <1>10, <1>11 DEF Keeps

\* g has the activations of t that are below that of the protected call j of h.
CutAt(h, g, t, j) ==
  /\ Pcalls(g, t) = Inner(h, t, j) /\ j \in Pcalls(h, t) /\ j \in Of(h, t)
  /\ \A i \in Pcalls(g, t) : i \in Pcalls(h, t) /\ g[i] = h[i] /\ Inner(g, t, i) = Inner(h, t, i)
  /\ \A i : i \in Of(g, t) <=> i \in Of(h, t) /\ i < j
  /\ \A i \in Of(g, t) : g[i] = h[i]

\* So it is when the C stack is cut below a protected call.
LEMMA CutPcalls ==
  ASSUME NEW h, NEW g, NEW t, NEW n \in Nat, NEW j \in 1..n, DOMAIN h = 1..n, DOMAIN g = 1..j - 1,
         \A i \in 1..j - 1 : g[i] = h[i], h[j].kind = "pcall", h[j].L = t
  PROVE  CutAt(h, g, t, j)
<1>1. j \in Pcalls(h, t) /\ j \in Of(h, t)
  BY DEF Pcalls, Of
<1>2. \A i : i \in Pcalls(g, t) <=> i \in Pcalls(h, t) /\ i < j
  BY DEF Pcalls
<1>3. \A i \in Pcalls(g, t) : g[i] = h[i] /\ i \in 1..j - 1
  BY DEF Pcalls
<1>4. \A i \in Pcalls(h, t) : i \in 1..n
  BY DEF Pcalls
<1>5. Pcalls(g, t) = Inner(h, t, j)
  BY <1>2 DEF Inner
<1>6. ASSUME NEW i \in Pcalls(g, t) PROVE Inner(g, t, i) = Inner(h, t, i)
  <2>1. \A k \in 1..n : k < i => k < j
    BY <1>3, <1>6
  <2>2. \A k : k \in Pcalls(g, t) /\ k < i <=> k \in Pcalls(h, t) /\ k < i
    BY <1>2, <1>4, <2>1
  <2>. QED
    BY <2>2 DEF Inner
<1>7. \A i : i \in Of(g, t) <=> i \in Of(h, t) /\ i < j
  BY DEF Of
<1>8. \A i \in Of(g, t) : g[i] = h[i]
  BY DEF Of
<1>. QED
  BY <1>1, <1>2, <1>3, <1>5, <1>6, <1>7, <1>8 DEF CutAt

\* The handlers that are left then: the one which was saved is in force.
LEMMA CutHandlers ==
  ASSUME NEW h, NEW g, NEW t, NEW ci, NEW e, NEW j \in Pcalls(h, t), Pcalls(g, t) = Inner(h, t, j),
         \A i \in Pcalls(g, t) : i \in Pcalls(h, t) /\ g[i] = h[i] /\ Inner(g, t, i) = Inner(h, t, i),
         Handlers(h, t, ci, e)
  PROVE  Handlers(g, t, ci, h[j].errfunc)
<1>1. ASSUME NEW P \in SUBSET Pcalls(g, t), NEW x, InForce(h, P, ci, x) PROVE InForce(g, P, ci, x)
  BY <1>1 DEF InForce
<1>2. InForce(h, Pcalls(g, t), ci, h[j].errfunc)
  BY DEF Handlers
<1>3. ASSUME NEW i \in Pcalls(g, t) PROVE InForce(g, Inner(g, t, i), ci, g[i].errfunc)
  <2>1. InForce(h, Inner(h, t, i), ci, h[i].errfunc)
    BY <1>3 DEF Handlers
  <2>2. Inner(g, t, i) \in SUBSET Pcalls(g, t)
    BY DEF Inner
  <2>. QED
    BY <1>1, <1>3, <2>1, <2>2
<1>4. InForce(g, Pcalls(g, t), ci, h[j].errfunc)
  BY <1>1, <1>2
<1>. QED
  BY <1>3, <1>4 DEF Handlers

\* The same handlers are there when the frames above m, which protect nothing, are gone.
LEMMA HandlersFirst ==
  ASSUME NEW g, NEW t, NEW ci, NEW d, NEW e, Handlers(g, t, ci, e),
         \A x : Below(ci, Len(ci) + 1, x) => Below(d, Len(d) + 1, x)
  PROVE  Handlers(g, t, d, e)
<1>1. \A P, x : InForce(g, P, ci, x) => InForce(g, P, d, x)
  BY DEF InForce
<1>. QED
  BY <1>1 DEF Handlers

\* An error, or a return, to a protected call: what luaD_pcall restores.
LEMMA KeepsCut ==
  ASSUME NEW h, NEW g, NEW t, NEW ci \in Seq(CallInfo), NEW e, NEW n \in Nat, NEW j \in 1..n, NEW d, NEW m,
         Keeps(h, t, ci, e), IsSeq(h), Linked(h), Ordered(h), DOMAIN h = 1..n, CutAt(h, g, t, j),
         h[j].kind = "pcall", h[j].L = t, m = h[j].at, m <= Len(ci),
         Len(d) = m, DOMAIN d = 1..m, \A i \in 1..m : d[i] = ci[i]
  PROVE  Keeps(g, t, d, h[j].errfunc) /\ TopNot(d)
<1>1. Len(ci) \in Nat /\ DOMAIN ci = 1..Len(ci)
  BY CiIs
<1>2. /\ Pcalls(g, t) = Inner(h, t, j) /\ j \in Pcalls(h, t) /\ j \in Of(h, t)
      /\ \A i \in Pcalls(g, t) : i \in Pcalls(h, t) /\ g[i] = h[i] /\ Inner(g, t, i) = Inner(h, t, i)
      /\ \A i : i \in Of(g, t) <=> i \in Of(h, t) /\ i < j
      /\ \A i \in Of(g, t) : g[i] = h[i]
  BY DEF CutAt
<1>3. m \in Nat /\ Low(h[j]) = m /\ m >= 1 /\ m \in 0..Len(ci) /\ \A i \in 1..m : i \in DOMAIN ci
  BY <1>1, <1>2, ActsAre
<1>4. \A i \in Of(h, t) : i \in 1..n /\ h[i].L = t /\ h[i].kind # "resume"
  BY DEF Of
<1>5. \A i \in Of(h, t) : IF i < j THEN Low(h[i]) <= m ELSE i = j \/ Low(h[i]) >= m
  <2>. SUFFICES ASSUME NEW i \in Of(h, t)
       PROVE  (i < j => Low(h[i]) <= Low(h[j])) /\ (j < i => Low(h[j]) <= Low(h[i]))
    BY <1>3, <1>4
  <2>1. i \in DOMAIN h /\ j \in DOMAIN h /\ h[i].L = h[j].L /\ h[i].kind # "resume" /\ h[j].kind # "resume"
    BY <1>4
  <2>. QED
    BY <2>1 DEF Ordered
<1>6. \A p \in DOMAIN ci : ci[p].yp => p < m
  BY <1>2 DEF Keeps, Recoverable
<1>8. GoesOn(g, t, d)
  <2>. SUFFICES ASSUME NEW i \in 1..m, i < m, ~d[i].lua
       PROVE  \/ \E k \in Of(g, t) : IsCall(g[k]) /\ g[k].at = i + 1
              \/ d[i].k /\ t # Main /\ \A k \in Of(g, t) : Low(g[k]) >= i
    BY DEF GoesOn
  <2>1. i \in DOMAIN ci /\ i < Len(ci) /\ ~ci[i].lua /\ d[i] = ci[i]
    BY <1>1, <1>3
  <2>2. CASE \E k \in Of(h, t) : IsCall(h[k]) /\ h[k].at = i + 1
    <3>1. PICK k \in Of(h, t) : IsCall(h[k]) /\ h[k].at = i + 1
      BY <2>2
    <3>2. h[k].kind # "pcall"
      BY <3>1 DEF IsCall
    <3>3. Low(h[k]) = i /\ k # j
      BY <1>3, <3>1, <3>2, ActsAre
    <3>4. k \in 1..n /\ k < j
      BY <1>3, <1>4, <1>5, <3>1, <3>3
    <3>5. k \in Of(g, t) /\ g[k] = h[k]
      BY <1>2, <3>1, <3>4
    <3>. QED
      BY <3>1, <3>5
  <2>3. CASE ci[i].k /\ t # Main /\ \A k \in Of(h, t) : Low(h[k]) >= i
    BY <1>2, <2>1, <2>3
  <2>. QED
    BY <2>1, <2>2, <2>3 DEF Keeps, GoesOn
<1>9. Yieldable(g, t, d)
  <2>. SUFFICES ASSUME NEW i \in Of(g, t), IsCall(g[i]), ~g[i].ny
       PROVE  Low(g[i]) \in 1..m /\ (d[Low(g[i])].lua \/ d[Low(g[i])].k)
    BY DEF Yieldable
  <2>1. i \in Of(h, t) /\ i < j /\ g[i] = h[i]
    BY <1>2
  <2>2. Low(h[i]) \in DOMAIN ci /\ (ci[Low(h[i])].lua \/ ci[Low(h[i])].k)
    BY <2>1 DEF Keeps, Yieldable
  <2>3. Low(h[i]) \in 1..m
    BY <1>1, <1>3, <1>5, <2>1, <2>2
  <2>. QED
    BY <2>1, <2>2, <2>3
<1>10. ASSUME NEW q \in 0..m, NEW x, Below(ci, q, x) PROVE Below(d, q, x)
  <2>1. \A o : (o \in DOMAIN d /\ o < q /\ d[o].yp) <=> (o \in DOMAIN ci /\ o < q /\ ci[o].yp)
    BY <1>1, <1>3
  <2>2. \A o \in DOMAIN ci : o < q /\ ci[o].yp => d[o].ef = ci[o].ef
    BY <1>1, <1>3
  <2>. QED
    BY <1>10, <2>1, <2>2, BelowMove
<1>11. ASSUME NEW x, Below(ci, Len(ci) + 1, x) PROVE Below(d, m + 1, x)
  <2>1. \A o : (o \in DOMAIN d /\ o < m + 1 /\ d[o].yp) <=> (o \in DOMAIN ci /\ o < Len(ci) + 1 /\ ci[o].yp)
    BY <1>1, <1>3, <1>6
  <2>2. \A o \in DOMAIN ci : o < Len(ci) + 1 /\ ci[o].yp => d[o].ef = ci[o].ef
    BY <1>1, <1>3, <1>6
  <2>. QED
    BY <1>11, <2>1, <2>2, BelowMove
<1>12. Recoverable(g, t, d)
  <2>. SUFFICES ASSUME NEW p \in 1..m, d[p].yp
       PROVE  /\ ~d[p].lua /\ \A i \in 1..m : i < p => d[i].lua \/ d[i].k
              /\ \A k \in Pcalls(g, t) : p < g[k].at
              /\ Below(d, p, d[p].oldef)
    BY DEF Recoverable
  <2>1. p \in DOMAIN ci /\ d[p] = ci[p] /\ p \in 0..m
    BY <1>3
  <2>2. /\ ~ci[p].lua /\ \A i \in DOMAIN ci : i < p => ci[i].lua \/ ci[i].k
        /\ \A k \in Pcalls(h, t) : p < h[k].at
        /\ Below(ci, p, ci[p].oldef)
    BY <2>1 DEF Keeps, Recoverable
  <2>3. Below(d, p, d[p].oldef)
    BY <1>10, <2>1, <2>2
  <2>4. \A k \in Pcalls(g, t) : p < g[k].at
    BY <1>2, <2>2
  <2>5. \A i \in 1..m : i < p => d[i].lua \/ d[i].k
    BY <1>3, <2>2
  <2>. QED
    BY <2>1, <2>2, <2>3, <2>4, <2>5
<1>13. Handlers(g, t, d, h[j].errfunc)
  <2>1. Handlers(g, t, ci, h[j].errfunc)
    BY <1>2, CutHandlers DEF Keeps
  <2>2. \A x : Below(ci, Len(ci) + 1, x) => Below(d, Len(d) + 1, x)
    BY <1>11
  <2>. QED
    BY <2>1, <2>2, HandlersFirst
<1>14. TopNot(d)
  BY <1>3, <1>6 DEF TopNot
<1>. QED
  BY <1>8, <1>9, <1>12, <1>13, <1>14 DEF Keeps

\* The parser ends: its protected call is gone, and no frame.
LEMMA KeepsUnprotect ==
  ASSUME NEW h, NEW g, NEW t, NEW ci \in Seq(CallInfo), NEW e, NEW j, CutAt(h, g, t, j),
         Keeps(h, t, ci, e), h[j].kind = "pcall", \A i \in Of(h, t) : i < j \/ i = j
  PROVE  Keeps(g, t, ci, h[j].errfunc)
<1>1. /\ Pcalls(g, t) = Inner(h, t, j) /\ j \in Pcalls(h, t) /\ j \in Of(h, t)
      /\ \A i \in Pcalls(g, t) : i \in Pcalls(h, t) /\ g[i] = h[i] /\ Inner(g, t, i) = Inner(h, t, i)
      /\ \A i : i \in Of(g, t) <=> i \in Of(h, t) /\ i < j
      /\ \A i \in Of(g, t) : g[i] = h[i]
  BY DEF CutAt
<1>2. \A i \in Of(h, t) : IsCall(h[i]) => i \in Of(g, t) /\ g[i] = h[i]
  BY <1>1 DEF IsCall
<1>3. GoesOn(g, t, ci)
  <2>. SUFFICES ASSUME NEW i \in DOMAIN ci, i < Len(ci), ~ci[i].lua
       PROVE  \/ \E k \in Of(g, t) : IsCall(g[k]) /\ g[k].at = i + 1
              \/ ci[i].k /\ t # Main /\ \A k \in Of(g, t) : Low(g[k]) >= i
    BY DEF GoesOn
  <2>1. \/ \E k \in Of(h, t) : IsCall(h[k]) /\ h[k].at = i + 1
        \/ ci[i].k /\ t # Main /\ \A k \in Of(h, t) : Low(h[k]) >= i
    BY DEF Keeps, GoesOn
  <2>2. CASE \E k \in Of(h, t) : IsCall(h[k]) /\ h[k].at = i + 1
    <3>1. PICK k \in Of(h, t) : IsCall(h[k]) /\ h[k].at = i + 1
      BY <2>2
    <3>. QED
      BY <1>2, <3>1
  <2>3. CASE ci[i].k /\ t # Main /\ \A k \in Of(h, t) : Low(h[k]) >= i
    BY <1>1, <2>3
  <2>. QED
    BY <2>1, <2>2, <2>3
<1>4. Yieldable(g, t, ci)
  <2>. SUFFICES ASSUME NEW k \in Of(g, t), IsCall(g[k]), ~g[k].ny
       PROVE  Low(g[k]) \in DOMAIN ci /\ (ci[Low(g[k])].lua \/ ci[Low(g[k])].k)
    BY DEF Yieldable
  <2>. QED
    BY <1>1 DEF Keeps, Yieldable
<1>5. Recoverable(g, t, ci)
  <2>. SUFFICES ASSUME NEW p \in DOMAIN ci, ci[p].yp
       PROVE  /\ ~ci[p].lua /\ \A i \in DOMAIN ci : i < p => ci[i].lua \/ ci[i].k
              /\ \A k \in Pcalls(g, t) : p < g[k].at
              /\ Below(ci, p, ci[p].oldef)
    BY DEF Recoverable
  <2>1. /\ ~ci[p].lua /\ \A i \in DOMAIN ci : i < p => ci[i].lua \/ ci[i].k
        /\ \A k \in Pcalls(h, t) : p < h[k].at
        /\ Below(ci, p, ci[p].oldef)
    BY DEF Keeps, Recoverable
  <2>. QED
    BY <1>1, <2>1
<1>6. Handlers(g, t, ci, h[j].errfunc)
  BY <1>1, CutHandlers DEF Keeps
<1>. QED
  BY <1>3, <1>4, <1>5, <1>6 DEF Keeps

\* A yield drops what is left of the coroutine on the C stack: calls that let yields pass.
LEMMA KeepsYield ==
  ASSUME NEW h, NEW g, NEW t, NEW ci \in Seq(CallInfo), NEW e, Keeps(h, t, ci, e), IsSeq(h), Linked(h),
         Of(g, t) = {}, \A j \in Of(h, t) : IsCall(h[j]) /\ ~h[j].ny, t # Main
  PROVE  Keeps(g, t, ci, e)
<1>1. Pcalls(h, t) = {} /\ Pcalls(g, t) = {}
  BY PcallsOf DEF IsCall
<1>2. \A i \in DOMAIN ci : i < Len(ci) => ci[i].lua \/ ci[i].k
  BY AllGoOn
<1>3. GoesOn(g, t, ci) /\ Yieldable(g, t, ci)
  BY <1>2 DEF GoesOn, Yieldable
<1>4. Recoverable(g, t, ci)
  BY <1>1 DEF Keeps, Recoverable
<1>5. Handlers(g, t, ci, e)
  BY <1>1 DEF Keeps, Handlers, InForce
<1>. QED
  BY <1>3, <1>4, <1>5 DEF Keeps

\* The frames of ci up to a yieldable protected call.
UpTo(d, ci, p) == d = SubSeq(ci, 1, p) /\ ci[p].yp

\* They are what recovery leaves, and its handler is in force.
Recovers(g, t, d, ci, p) ==
  /\ Keeps(g, t, d, ci[p].ef) /\ Len(d) = p /\ DOMAIN d = 1..p /\ d \in Seq(CallInfo) /\ d # <<>>
  /\ \A i \in 1..p : d[i] = ci[i]

\* The innermost yieldable protected call is where a coroutine recovers.
LEMMA KeepsRecover ==
  ASSUME NEW h, NEW g, NEW t, NEW ci \in Seq(CallInfo), NEW e, NEW p \in DOMAIN ci, NEW d,
         Keeps(h, t, ci, e), UpTo(d, ci, p), Of(g, t) = {}, t # Main
  PROVE  Recovers(g, t, d, ci, p)
<1>0. d = SubSeq(ci, 1, p) /\ ci[p].yp
  BY DEF UpTo
<1>1. Len(ci) \in Nat /\ DOMAIN ci = 1..Len(ci) /\ p \in Nat /\ p >= 1
  BY CiIs
<1>2. /\ Len(d) = p /\ DOMAIN d = 1..p /\ d \in Seq(CallInfo) /\ d # <<>>
      /\ \A i \in 1..p : d[i] = ci[i] /\ i \in DOMAIN ci
  BY <1>0, <1>1
<1>3. Pcalls(g, t) = {}
  BY PcallsOf
<1>4. ~ci[p].lua /\ \A i \in DOMAIN ci : i < p => ci[i].lua \/ ci[i].k
  BY <1>0 DEF Keeps, Recoverable
<1>5. GoesOn(g, t, d) /\ Yieldable(g, t, d)
  BY <1>1, <1>2, <1>4 DEF GoesOn, Yieldable
<1>6. ASSUME NEW q \in 1..p, NEW y, Below(ci, q, y) PROVE Below(d, q, y)
  <2>1. \A o : (o \in DOMAIN d /\ o < q /\ d[o].yp) <=> (o \in DOMAIN ci /\ o < q /\ ci[o].yp)
    BY <1>1, <1>2
  <2>2. \A o \in DOMAIN ci : o < q /\ ci[o].yp => d[o].ef = ci[o].ef
    BY <1>1, <1>2
  <2>. QED
    BY <1>6, <2>1, <2>2, BelowMove
<1>7. Recoverable(g, t, d)
  <2>. SUFFICES ASSUME NEW q \in 1..p, d[q].yp
       PROVE  /\ ~d[q].lua /\ \A i \in 1..p : i < q => d[i].lua \/ d[i].k
              /\ Below(d, q, d[q].oldef)
    BY <1>2, <1>3 DEF Recoverable
  <2>1. q \in DOMAIN ci /\ d[q] = ci[q] /\ ci[q].yp
    BY <1>2
  <2>2. ~ci[q].lua /\ (\A i \in DOMAIN ci : i < q => ci[i].lua \/ ci[i].k) /\ Below(ci, q, ci[q].oldef)
    BY <2>1 DEF Keeps, Recoverable
  <2>3. Below(d, q, d[q].oldef)
    BY <1>6, <2>1, <2>2
  <2>4. \A i \in 1..p : i < q => d[i].lua \/ d[i].k
    BY <1>2, <2>2
  <2>. QED
    BY <2>1, <2>2, <2>3, <2>4
<1>8. Below(d, p + 1, ci[p].ef)
  BY <1>0, <1>1, <1>2 DEF Below
<1>9. Handlers(g, t, d, ci[p].ef)
  BY <1>2, <1>3, <1>8 DEF Handlers, InForce
<1>. QED
  BY <1>2, <1>5, <1>7, <1>9 DEF Keeps, Recovers

\* The end of lua_pcallk: there is nothing more to do if the call is not protected.
LEMMA KeepsEndYpcall ==
  ASSUME NEW h, NEW t, NEW v \in lua_State, Keeps(h, t, v.ci, v.errfunc), v.ci # <<>>,
         IsSeq(h), Linked(h), \A j \in Of(h, t) : Low(h[j]) <= Len(v.ci)
  PROVE  LET u == EndYpcall(v) IN Keeps(h, t, u.ci, u.errfunc) /\ TopNot(u.ci)
<1>. DEFINE ci == v.ci
            n == Len(ci)
            d == [ci EXCEPT ![n] = [@ EXCEPT !.yp = FALSE, !.ef = 0, !.oldef = 0]]
            u == EndYpcall(v)
<1>1. ci \in Seq(CallInfo) /\ n \in Nat /\ DOMAIN ci = 1..n /\ n >= 1 /\ Last(ci) = ci[n] /\ n \in 1..n
  <2>1. ci \in Seq(CallInfo)
    BY ThreadIs
  <2>2. n \in Nat /\ DOMAIN ci = 1..n /\ n >= 1 /\ Last(ci) = ci[n]
    BY <2>1, CiIs
  <2>. QED
    BY <2>1, <2>2
<1>2. CASE ~ci[n].yp
  <2>1. u = v
    BY <1>1, <1>2, Zenon DEF EndYpcall
  <2>2. TopNot(ci)
    <3>1. \A p \in 1..n : p # n => p < n
      BY <1>1
    <3>. QED
      BY <1>1, <1>2, <3>1, Zenon DEF TopNot
  <2>. QED
    BY <2>1, <2>2
<1>3. CASE ci[n].yp
  <2>1. u.ci = d /\ u.errfunc = ci[n].oldef
    <3>1. u = [v EXCEPT !.ci[n] = [@ EXCEPT !.yp = FALSE, !.ef = 0, !.oldef = 0], !.errfunc = ci[n].oldef]
      BY <1>1, <1>3, Zenon DEF EndYpcall
    <3>2. DOMAIN v = {"ci", "status", "nny", "nCcalls", "errfunc", "open", "fn"}
      BY ThreadIs
    <3>. HIDE DEF u
    <3>. QED
      BY <3>1, <3>2
  <2>2. /\ Len(d) = n /\ DOMAIN d = 1..n /\ \A i \in 1..n : i < n => d[i] = ci[i]
        /\ ~d[n].yp /\ d[n].lua = ci[n].lua /\ d[n].k = ci[n].k
    <3>1. ci[n] \in CallInfo
      BY <1>1
    <3>. DEFINE c == [ci[n] EXCEPT !.yp = FALSE, !.ef = 0, !.oldef = 0]
    <3>2. ~c.yp /\ c.lua = ci[n].lua /\ c.k = ci[n].k
      BY <3>1 DEF CallInfo
    <3>3. d = [ci EXCEPT ![n] = c]
      OBVIOUS
    <3>. HIDE DEF c, d
    <3>4. Len(d) = n /\ DOMAIN d = 1..n /\ d[n] = c /\ \A i \in 1..n : i < n => d[i] = ci[i]
      BY <1>1, <3>3
    <3>. QED
      BY <3>2, <3>4
  <2>. HIDE DEF d, u
  <2>3. n = Len(ci) /\ Keeps(h, t, ci, v.errfunc) /\ ci # <<>> /\ \A j \in Of(h, t) : Low(h[j]) <= n
    OBVIOUS
  <2>. HIDE DEF n, ci
  <2>4. Keeps(h, t, d, ci[n].oldef) /\ TopNot(d)
    BY <1>1, <1>3, <2>2, <2>3, KeepsEnd
  <2>. QED
    BY <2>1, <2>4 DEF u
<1>. QED
  BY <1>2, <1>3

-----------------------------------------------------------------------------
(* The layer as an invariant, and the steps that leave the C stack. *)

\* The second layer, of a stack h, threads f, running thread r and throw x.  A function that
\* yields still runs when the yield is on its way.
Cont(h, f, r, x) ==
  /\ \A t \in Thread : f[t].status # "error" => Keeps(h, t, f[t].ci, f[t].errfunc)
  /\ r # Nobody => \A t \in Thread : f[t].status # "error" /\ (t # r \/ x \in {"no", "yield"}) => TopNot(f[t].ci)
  /\ x = "yield" => f[r].nny = 0

ContInv == Cont(host, th, run, thrown)

\* The step from h and f to g and e is one of thread o.
StepOf(h, f, g, e, o) ==
  \A t \in Thread \ {o} : e[t] = f[t] /\ Of(g, t) = Of(h, t) /\ \A i \in Of(h, t) : g[i] = h[i]

\* A step of one thread.
LEMMA ContMade ==
  ASSUME NEW h, NEW f, NEW r, NEW x, Cont(h, f, r, x), NEW g, NEW e, NEW q, NEW y, NEW o,
         r # Nobody, r = o \/ x = "no",
         StepOf(h, f, g, e, o),
         e[o].status # "error" => Keeps(g, o, e[o].ci, e[o].errfunc),
         e[o].status # "error" /\ (o # q \/ y \in {"no", "yield"}) => TopNot(e[o].ci),
         y = "yield" => e[q].nny = 0
  PROVE  Cont(g, e, q, y)
<1>1. ASSUME NEW t \in Thread, t # o, e[t].status # "error"
      PROVE  Keeps(g, t, e[t].ci, e[t].errfunc) /\ TopNot(e[t].ci)
  <2>1. e[t] = f[t] /\ Of(g, t) = Of(h, t) /\ \A i \in Of(h, t) : g[i] = h[i]
    BY <1>1 DEF StepOf
  <2>2. Keeps(h, t, e[t].ci, e[t].errfunc)
    BY <1>1, <2>1 DEF Cont
  <2>3. Keeps(g, t, e[t].ci, e[t].errfunc)
    BY <2>1, <2>2, KeepsSame
  <2>4. t # r \/ x = "no"
    BY <1>1
  <2>5. TopNot(e[t].ci)
    BY <1>1, <2>1, <2>4 DEF Cont
  <2>. QED
    BY <2>3, <2>5
<1>. QED
  BY <1>1, Zenon DEF Cont

\* From the record that an action computes to the next state.
LEMMA BecomesCont ==
  ASSUME NEW r, Cont(r.host, r.th, r.run, r.thrown), Becomes(r)
  PROVE  ContInv'
BY Zenon DEF Becomes, ContInv

\* What the running thread keeps.
LEMMA RunKeeps ==
  ASSUME StackInv(State), ContInv, run # Nobody
  PROVE  /\ L.status # "error" /\ Keeps(host, run, L.ci, L.errfunc) /\ L.ci # <<>> /\ L.ci \in Seq(CallInfo)
         /\ L = th[run] /\ run \in Thread /\ Depth = Len(L.ci) /\ Depth \in Nat /\ Depth >= 1 /\ DOMAIN L.ci = 1..Depth
         /\ Depth \in 1..Depth /\ Last(L.ci) = L.ci[Depth] /\ Top = L.ci[Depth]
         /\ thrown = "no" => TopNot(L.ci) /\ ~Top.yp
         /\ IsSeq(host) /\ Linked(host) /\ Ordered(host) /\ Len(host) \in Nat /\ DOMAIN host = 1..Len(host)
         /\ \A i \in Of(host, run) : /\ i \in 1..Len(host) /\ Low(host[i]) <= Depth
                                     /\ IsCall(host[i]) /\ thrown = "no" => host[i].at <= Depth
<1>1. /\ Stacked(host, th, run, thrown) /\ run \in Thread /\ L = th[run] /\ Owns(host, th, run, run, thrown)
      /\ Depth \in Nat /\ Depth >= 1 /\ Depth = Len(L.ci) /\ DOMAIN L.ci = 1..Depth /\ Top = L.ci[Depth]
      /\ L.ci \in Seq(CallInfo) /\ Len(host) \in Nat /\ DOMAIN host = 1..Len(host)
  BY RunStack
<1>2. L.ci # <<>> /\ Last(L.ci) = L.ci[Depth] /\ Depth \in 1..Depth
  BY <1>1 DEF Last
<1>3. L.status # "error"
  BY <1>1 DEF Owns
<1>4. Keeps(host, run, L.ci, L.errfunc)
  BY <1>1, <1>3 DEF ContInv, Cont
<1>5. ASSUME thrown = "no" PROVE TopNot(L.ci) /\ ~Top.yp
  <2>1. TopNot(L.ci)
    BY <1>1, <1>3, <1>5 DEF ContInv, Cont
  <2>2. ~L.ci[Depth].yp
    BY <1>1, <1>2, <2>1 DEF TopNot
  <2>. QED
    BY <1>1, <2>1, <2>2
<1>6. ASSUME NEW i \in Of(host, run)
      PROVE  i \in 1..Len(host) /\ Low(host[i]) <= Depth /\ (IsCall(host[i]) /\ thrown = "no" => host[i].at <= Depth)
  <2>1. i \in DOMAIN host /\ host[i].L = run /\ host[i].kind # "resume"
    BY <1>6 DEF Of
  <2>2. Low(host[i]) <= Depth
    BY <1>1, <2>1 DEF Stacked, Fits
  <2>3. IsCall(host[i]) /\ thrown = "no" => host[i].at <= Depth
    BY <1>1, <2>1 DEF Stacked, Placed
  <2>. QED
    BY <1>1, <2>1, <2>2, <2>3
<1>. QED
  BY <1>1, <1>2, <1>3, <1>4, <1>5, <1>6 DEF Stacked

\* The running thread becomes u.
Turns(u) == th'[run] = u /\ \A t \in Thread \ {run} : th'[t] = th[t]

\* An EXCEPT of the running thread turns it.
LEMMA TurnsInto ==
  ASSUME NEW u, StackInv(State), run # Nobody, th' = [th EXCEPT ![run] = u]
  PROVE  Turns(u)
<1>1. th \in [Thread -> lua_State] /\ run \in Thread
  BY RunStack
<1>. QED
  BY <1>1 DEF Turns

\* Steps that leave the C stack, and change the running thread to u.
LEMMA ContSame ==
  ASSUME NEW u, Turns(u), StackInv(State), ContInv, run # Nobody, u.status = L.status, host' = host, run' = run,
         Keeps(host, run, u.ci, u.errfunc), thrown' \in {"no", "yield"} => TopNot(u.ci), thrown' = "yield" => u.nny = 0
  PROVE  ContInv'
<1>1. th \in [Thread -> lua_State] /\ run \in Thread
  BY RunStack
<1>. DEFINE e == th'
            g == host'
            q == run'
            y == thrown'
<1>3. StepOf(host, th, g, e, run) /\ e[run] = u /\ q = run /\ g = host
  BY DEF StepOf, Turns
<1>4. Cont(host, th, run, thrown)
  BY DEF ContInv
<1>5. y \in {"no", "yield"} => TopNot(u.ci)
  OBVIOUS
<1>6. y = "yield" => u.nny = 0
  OBVIOUS
<1>. HIDE DEF e, g, q, y
<1>7. /\ e[run].status # "error" => Keeps(g, run, e[run].ci, e[run].errfunc)
      /\ e[run].status # "error" /\ (run # q \/ y \in {"no", "yield"}) => TopNot(e[run].ci)
      /\ y = "yield" => e[q].nny = 0
  BY <1>3, <1>5, <1>6
<1>8. Cont(g, e, q, y)
  BY <1>3, <1>4, <1>7, ContMade
<1>. QED
  BY <1>8 DEF ContInv, e, g, q, y

\* Errors start, or go on to the next stage.
LEMMA ThrowCont ==
  ASSUME NEW y, StackInv(State), ContInv, run # Nobody, y \notin {"no", "yield"}, Becomes([State EXCEPT !.thrown = y])
  PROVE  ContInv'
<1>1. host' = host /\ run' = run /\ thrown' = y /\ th' = th
  BY StateIs DEF Becomes
<1>2. th \in [Thread -> lua_State] /\ run \in Thread /\ L = th[run] /\ Keeps(host, run, L.ci, L.errfunc)
  BY RunStack, RunKeeps
<1>3. Turns(L)
  BY <1>1, <1>2 DEF Turns
<1>. QED
  BY <1>1, <1>2, <1>3, ContSame

\* OP_CALL.
LEMMA OpCallCont ==
  ASSUME StackInv(State), ContInv, NEW lua \in BOOLEAN, OpCall(lua)
  PROVE  ContInv'
<1>. DEFINE q == Append(L.ci, Frame(lua))
            u == [L EXCEPT !.ci = Append(@, Frame(lua))]
            r == [State EXCEPT !.th[run].ci = Append(@, Frame(lua))]
<1>1. run # Nobody /\ thrown = "no" /\ Top.lua /\ Becomes(r)
  BY Zenon DEF OpCall, Running
<1>2. /\ L \in lua_State /\ L = th[run] /\ Keeps(host, run, L.ci, L.errfunc) /\ L.ci \in Seq(CallInfo) /\ L.ci # <<>>
      /\ Last(L.ci).lua
  BY <1>1, RunStack, RunKeeps
<1>3. host' = host /\ run' = run /\ thrown' = "no" /\ th' = [th EXCEPT ![run] = u]
  BY <1>1, StateIs DEF Becomes, L
<1>4. Frame(lua) \in CallInfo /\ ~Frame(lua).yp
  BY FrameIn
<1>5. Keeps(host, run, q, L.errfunc) /\ TopNot(q)
  BY <1>2, <1>4, KeepsFrame
<1>6. u.ci = q /\ u.errfunc = L.errfunc /\ u.status = L.status
  BY <1>2, ThreadIs
<1>. HIDE DEF u, q, r
<1>7. Turns(u)
  BY <1>1, <1>3, TurnsInto
<1>. QED
  BY <1>1, <1>3, <1>5, <1>6, <1>7, ContSame

\* Steps that change neither the frames nor the handler.
LEMMA ContAsIs ==
  ASSUME NEW u, StackInv(State), ContInv, run # Nobody, thrown = "no", u.status = L.status, u.ci = L.ci,
         u.errfunc = L.errfunc, host' = host, run' = run, thrown' = "no", th' = [th EXCEPT ![run] = u]
  PROVE  ContInv'
<1>1. Keeps(host, run, L.ci, L.errfunc) /\ TopNot(L.ci)
  BY RunKeeps
<1>2. Turns(u)
  BY TurnsInto
<1>. QED
  BY <1>1, <1>2, ContSame

\* OP_TAILCALL.
LEMMA OpTailCallCont ==
  ASSUME StackInv(State), ContInv, OpTailCall
  PROVE  ContInv'
<1>. DEFINE u == luaF_close(L, Depth)
            r == [State EXCEPT !.th[run] = luaF_close(L, Depth)]
<1>1. run # Nobody /\ thrown = "no" /\ Becomes(r)
  BY Zenon DEF OpTailCall, Running
<1>2. L \in lua_State
  BY <1>1, RunStack
<1>3. host' = host /\ run' = run /\ thrown' = "no" /\ th' = [th EXCEPT ![run] = u]
  BY <1>1, StateIs DEF Becomes
<1>4. u.ci = L.ci /\ u.errfunc = L.errfunc /\ u.status = L.status
  BY <1>2, CloseIs
<1>. HIDE DEF u
<1>. QED
  BY <1>1, <1>3, <1>4, ContAsIs

\* OP_CLOSURE.
LEMMA FindUpvalCont ==
  ASSUME StackInv(State), ContInv, luaF_findupval
  PROVE  ContInv'
<1>. DEFINE u == [L EXCEPT !.open = @ \cup {Depth}]
            r == [State EXCEPT !.th[run].open = @ \cup {Depth}]
<1>1. run # Nobody /\ thrown = "no" /\ Becomes(r)
  BY Zenon DEF luaF_findupval, Running
<1>2. L \in lua_State /\ L = th[run]
  BY <1>1, RunStack
<1>3. host' = host /\ run' = run /\ thrown' = "no" /\ th' = [th EXCEPT ![run] = u]
  BY <1>1, StateIs DEF Becomes, L
<1>4. u.ci = L.ci /\ u.errfunc = L.errfunc /\ u.status = L.status
  BY <1>2, ThreadIs
<1>. HIDE DEF u
<1>. QED
  BY <1>1, <1>3, <1>4, ContAsIs

\* An activation of the running thread is none of another.
LEMMA OtherOf ==
  ASSUME NEW h, NEW g, NEW a, NEW n \in Nat, DOMAIN h = 1..n, DOMAIN g = 1..n + 1, \A i \in 1..n : g[i] = h[i],
         g[n + 1] = a, NEW t, a.L # t \/ a.kind = "resume"
  PROVE  Of(g, t) = Of(h, t) /\ \A i \in Of(h, t) : g[i] = h[i]
<1>1. \A i : i \in Of(g, t) <=> i \in Of(h, t)
  BY DEF Of
<1>. QED
  BY <1>1 DEF Of

\* What is there before a call from C: the running function may wait for a protected call.
Calling(s) ==
  /\ DOMAIN s = {"th", "host", "run", "thrown"} /\ s.th \in [Thread -> lua_State] /\ s.run \in Thread
  /\ \E n \in Nat : DOMAIN s.host = 1..n /\ Len(s.host) = n
  /\ IsSeq(s.host)
  /\ \A t \in Thread : s.th[t].status # "error" => Keeps(s.host, t, s.th[t].ci, s.th[t].errfunc)
  /\ \A t \in Thread : s.th[t].status # "error" /\ t # s.run => TopNot(s.th[t].ci)
  /\ s.th[s.run].status # "error" /\ s.th[s.run].ci # <<>>

\* luaD_call: the activation and the frame, or the error of stackerror.
LEMMA CallCont ==
  ASSUME NEW s, NEW kind \in {"call", "handler"}, NEW ny \in BOOLEAN, NEW lua \in BOOLEAN, Calling(s),
         ny \/ Last(s.th[s.run].ci).lua \/ Last(s.th[s.run].ci).k
  PROVE  LET r == luaD_call(s, kind, ny, lua) IN Cont(r.host, r.th, r.run, r.thrown)
<1>. DEFINE r == luaD_call(s, kind, ny, lua)
            o == s.run
            v == s.th[o]
            a == [kind |-> kind, L |-> o, at |-> Len(v.ci) + 1, ny |-> ny]
            g == Append(s.host, a)
<1>1. PICK y \in {"no", "raise", "errerr"} :
              /\ r.th = [s.th EXCEPT ![o] = Called(v, ny, lua, y)]
              /\ r.host = g
              /\ r.run = o /\ r.thrown = y
  <2>1. s.th \in [Thread -> lua_State] /\ s.run \in Thread /\ DOMAIN s = {"th", "host", "run", "thrown"}
    BY DEF Calling
  <2>2. \E y \in {"no", "raise", "errerr"} :
              /\ DOMAIN r = {"th", "host", "run", "thrown"}
              /\ r.th = [s.th EXCEPT ![s.run] = Called(s.th[s.run], ny, lua, y)]
              /\ r.host = Append(s.host, [kind |-> kind, L |-> s.run, at |-> Len(s.th[s.run].ci) + 1, ny |-> ny])
              /\ r.run = s.run /\ r.thrown = y
    BY <2>1, CallChanges
  <2>. QED
    BY <2>2
<1>. DEFINE u == Called(v, ny, lua, y)
            f == s.th
            h == s.host
            n == Len(h)
            d == Append(v.ci, Frame(lua))
<1>2. /\ f \in [Thread -> lua_State] /\ o \in Thread /\ n \in Nat /\ DOMAIN h = 1..n /\ IsSeq(h)
      /\ v \in lua_State /\ v = f[o] /\ v.ci # <<>>
  BY DEF Calling
<1>3. /\ a.kind = kind /\ a.L = o /\ a.at = Len(v.ci) + 1 /\ a.ny = ny /\ IsCall(a) /\ a.kind # "resume"
      /\ a.kind \in {"call", "handler"}
  BY Zenon DEF IsCall
<1>4. u.ci = (IF y = "no" THEN d ELSE v.ci) /\ u.errfunc = v.errfunc /\ u.status = v.status
  <2>1. ASSUME NEW w \in lua_State
        PROVE  LET z == Called(w, ny, lua, y)
               IN z.ci = (IF y = "no" THEN Append(w.ci, Frame(lua)) ELSE w.ci) /\ z.errfunc = w.errfunc /\ z.status = w.status
    BY CalledIs
  <2>. QED
    BY <1>2, <2>1
<1>5. v.ci \in Seq(CallInfo) /\ Frame(lua) \in CallInfo /\ ~Frame(lua).yp
  BY <1>2, ThreadIs, FrameIn
<1>6. Keeps(h, o, v.ci, v.errfunc) /\ (~ny => Last(v.ci).lua \/ Last(v.ci).k)
  BY <1>2 DEF Calling
<1>. HIDE DEF a, u, r
<1>7. DOMAIN g = 1..n + 1 /\ g[n + 1] = a /\ \A i \in 1..n : g[i] = h[i]
  BY <1>2, SeqPush
<1>. HIDE DEF n, h, f, v, g, o
<1>8. Keeps(g, o, v.ci, v.errfunc)
  BY <1>2, <1>3, <1>5, <1>6, <1>7, KeepsCall
<1>9. Keeps(g, o, d, v.errfunc) /\ TopNot(d)
  <2>1. n + 1 \in Of(g, o) /\ g[n + 1] = a
    BY <1>2, <1>3, <1>7 DEF Of
  <2>2. \E j \in Of(g, o) : IsCall(g[j]) /\ g[j].at = Len(v.ci) + 1
    BY <1>3, <2>1
  <2>. QED
    BY <1>5, <1>8, <2>2, KeepsFrame
<1>. HIDE DEF d
<1>10. ASSUME NEW t \in Thread, t # o
       PROVE  r.th[t] = f[t] /\ Of(g, t) = Of(h, t) /\ \A i \in Of(h, t) : g[i] = h[i]
  <2>1. r.th[t] = f[t]
    BY <1>1, <1>2, <1>10 DEF f
  <2>2. a.L # t \/ a.kind = "resume"
    BY <1>3, <1>10
  <2>3. Of(g, t) = Of(h, t) /\ \A i \in Of(h, t) : g[i] = h[i]
    BY <1>2, <1>7, <2>2, OtherOf
  <2>. QED
    BY <2>1, <2>3
<1>11. r.th[o] = u
  BY <1>1, <1>2 DEF u, f, v
<1>12. ASSUME NEW t \in Thread, r.th[t].status # "error"
       PROVE  Keeps(g, t, r.th[t].ci, r.th[t].errfunc) /\ (t # o \/ y = "no" => TopNot(r.th[t].ci))
  <2>1. CASE t = o
    BY <1>4, <1>8, <1>9, <1>11, <2>1
  <2>2. CASE t # o
    <3>1. Keeps(h, t, f[t].ci, f[t].errfunc) /\ TopNot(f[t].ci)
      BY <1>10, <1>12, <2>2 DEF Calling, h, f, o
    <3>2. Of(g, t) = Of(h, t) /\ (\A i \in Of(h, t) : g[i] = h[i]) /\ r.th[t] = f[t]
      BY <1>10, <2>2
    <3>3. Keeps(g, t, f[t].ci, f[t].errfunc)
      BY <3>1, <3>2, KeepsSame
    <3>. QED
      BY <3>1, <3>2, <3>3
  <2>. QED
    BY <2>1, <2>2
<1>13. y # "yield" /\ r.host = g /\ r.run = o /\ r.thrown = y
  BY <1>1
<1>14. Cont(g, r.th, o, y)
  BY <1>12, <1>13, Zenon DEF Cont
<1>. QED
  BY <1>13, <1>14 DEF r

-----------------------------------------------------------------------------
(* Calls. *)

\* The running thread has become u and the C stack g.
LEMMA CallingMade ==
  ASSUME NEW s, NEW u \in lua_State, NEW g, StackInv(State), ContInv, run # Nobody, thrown # "yield",
         DOMAIN s = {"th", "host", "run", "thrown"}, s.th = [th EXCEPT ![run] = u], s.host = g, s.run = run,
         IsSeq(g), Len(g) \in Nat, DOMAIN g = 1..Len(g), StepOf(host, th, g, s.th, run),
         u.status # "error", u.ci # <<>>, Keeps(g, run, u.ci, u.errfunc)
  PROVE  Calling(s)
<1>1. th \in [Thread -> lua_State] /\ run \in Thread
  BY RunStack
<1>2. s.th \in [Thread -> lua_State] /\ s.th[run] = u
  BY <1>1
<1>3. ASSUME NEW t \in Thread, t # run, s.th[t].status # "error"
      PROVE  Keeps(g, t, s.th[t].ci, s.th[t].errfunc) /\ TopNot(s.th[t].ci)
  <2>1. s.th[t] = th[t] /\ Of(g, t) = Of(host, t) /\ \A i \in Of(host, t) : g[i] = host[i]
    BY <1>3 DEF StepOf
  <2>2. Keeps(host, t, th[t].ci, th[t].errfunc) /\ TopNot(th[t].ci)
    BY <1>3, <2>1 DEF ContInv, Cont
  <2>3. Keeps(g, t, th[t].ci, th[t].errfunc)
    BY <2>1, <2>2, KeepsSame
  <2>. QED
    BY <2>1, <2>2, <2>3
<1>4. \A t \in Thread : s.th[t].status # "error" => Keeps(g, t, s.th[t].ci, s.th[t].errfunc)
  BY <1>2, <1>3
<1>5. \A t \in Thread : s.th[t].status # "error" /\ t # s.run => TopNot(s.th[t].ci)
  BY <1>3
<1>. QED
  BY <1>1, <1>2, <1>4, <1>5, Zenon DEF Calling

\* The state itself.
LEMMA CallingState ==
  ASSUME StackInv(State), ContInv, run # Nobody, thrown # "yield"
  PROVE  Calling(State)
<1>1. /\ th \in [Thread -> lua_State] /\ run \in Thread /\ L \in lua_State /\ L = th[run]
      /\ Len(host) \in Nat /\ DOMAIN host = 1..Len(host)
  BY RunStack
<1>2. L.status # "error" /\ L.ci # <<>> /\ Keeps(host, run, L.ci, L.errfunc) /\ IsSeq(host)
  BY RunKeeps
<1>3. /\ DOMAIN State = {"th", "host", "run", "thrown"} /\ State.th = [th EXCEPT ![run] = L] /\ State.host = host
      /\ State.run = run /\ State.th = th
  BY <1>1, StateIs
<1>4. StepOf(host, th, host, State.th, run)
  BY <1>3 DEF StepOf
<1>. QED
  BY <1>1, <1>2, <1>3, <1>4, CallingMade

\* Calls from the state s.
LEMMA CallContAfter ==
  ASSUME NEW s, NEW kind \in {"call", "handler"}, NEW ny \in BOOLEAN, NEW lua \in BOOLEAN, Calling(s),
         ny \/ Last(s.th[s.run].ci).lua \/ Last(s.th[s.run].ci).k, Becomes(luaD_call(s, kind, ny, lua))
  PROVE  ContInv'
<1>. DEFINE r == luaD_call(s, kind, ny, lua)
<1>1. Cont(r.host, r.th, r.run, r.thrown)
  BY CallCont
<1>2. Becomes(r)
  OBVIOUS
<1>. HIDE DEF r
<1>. QED
  BY <1>1, <1>2, BecomesCont

\* A call from a Lua function, or one that forbids yields.
LEMMA PlainCallCont ==
  ASSUME StackInv(State), ContInv, run # Nobody, thrown # "yield", NEW kind \in {"call", "handler"},
         NEW ny \in BOOLEAN, NEW lua \in BOOLEAN, ny \/ Top.lua, Becomes(luaD_call(State, kind, ny, lua))
  PROVE  ContInv'
<1>1. Calling(State)
  BY CallingState
<1>2. State.th[State.run] = L /\ Last(L.ci) = Top
  BY RunKeeps, StateIs DEF L
<1>. QED
  BY <1>1, <1>2, CallContAfter

\* Metamethods.
LEMMA CallTMCont ==
  ASSUME StackInv(State), ContInv, NEW lua \in BOOLEAN, luaT_callTM(lua)
  PROVE  ContInv'
<1>1. run # Nobody /\ thrown = "no" /\ Becomes(luaD_call(State, "call", ~MayYield(Top.lua), lua))
  BY Zenon DEF luaT_callTM, Running
<1>. DEFINE ny == ~MayYield(Top.lua)
<1>2. ny \in BOOLEAN /\ (ny \/ Top.lua) /\ Becomes(luaD_call(State, "call", ny, lua))
  BY <1>1, Zenon DEF MayYield
<1>. HIDE DEF ny
<1>. QED
  BY <1>1, <1>2, PlainCallCont

\* The reader of a chunk.
LEMMA ReaderCont ==
  ASSUME StackInv(State), ContInv, NEW lua \in BOOLEAN, generic_reader(lua)
  PROVE  ContInv'
<1>1. run # Nobody /\ thrown = "no" /\ Becomes(luaD_call(State, "call", TRUE, lua))
  BY Zenon DEF generic_reader
<1>. QED
  BY <1>1, PlainCallCont

\* The message handler.
LEMMA ErrormsgCont ==
  ASSUME StackInv(State), ContInv, NEW lua \in BOOLEAN, luaG_errormsg(lua)
  PROVE  ContInv'
<1>1. thrown = "raise" /\ run # Nobody
  BY StateIs DEF luaG_errormsg, StackInv
<1>2. CASE Becomes(luaD_call(State, "handler", TRUE, lua))
  BY <1>1, <1>2, PlainCallCont
<1>3. CASE Becomes([State EXCEPT !.thrown = "run"])
  BY <1>1, <1>3, ThrowCont
<1>. QED
  BY <1>2, <1>3 DEF luaG_errormsg

\* Errors.
LEMMA SyntaxErrorCont ==
  ASSUME StackInv(State), ContInv, SyntaxError
  PROVE  ContInv'
<1>1. run # Nobody /\ Becomes([State EXCEPT !.thrown = "syntax"])
  BY Zenon DEF SyntaxError
<1>. QED
  BY <1>1, ThrowCont

\* lua_error.
LEMMA LuaErrorCont ==
  ASSUME StackInv(State), ContInv, lua_error
  PROVE  ContInv'
<1>1. run # Nobody /\ Becomes([State EXCEPT !.thrown = "raise"])
  BY Zenon DEF lua_error, Running
<1>. QED
  BY <1>1, ThrowCont

\* What a change of the function that runs does to the frames.
LEMMA ChangedFrames ==
  ASSUME NEW v \in lua_State, NEW d, NEW c \in CallInfo, NEW ef \in Nat, d \in DOMAIN v.ci, c.lua = v.ci[d].lua
  PROVE  LET u == Changed(v, d, c, ef)
         IN /\ u \in lua_State /\ u.ci = [v.ci EXCEPT ![d] = c] /\ u.errfunc = ef /\ u.status = v.status
            /\ u.nny = v.nny
<1>. DEFINE u == Changed(v, d, c, ef)
<1>1. u \in lua_State /\ u.errfunc = ef /\ u.status = v.status /\ u.nny = v.nny
  <2>1. u = Changed(v, d, c, ef)
    OBVIOUS
  <2>. HIDE DEF u
  <2>. QED
    BY <2>1, ChangedIs
<1>2. u.ci = [v.ci EXCEPT ![d] = c]
  BY ThreadIs DEF Changed
<1>. QED
  BY <1>1, <1>2

\* So much for the running function: ef and c may be any that keep the promises.
Turned(w, u) ==
  DOMAIN w = {"th", "host", "run", "thrown"} /\ w.th = [th EXCEPT ![run] = u] /\ w.host = host /\ w.run = run

\* A call after frames of the running thread have changed.
LEMMA ChangedCalling ==
  ASSUME NEW c \in CallInfo, NEW ef \in Nat, NEW w, NEW u, StackInv(State), ContInv, run # Nobody, thrown = "no",
         c.lua = Top.lua, u = Changed(L, Depth, c, ef), Keeps(host, run, u.ci, ef),
         Turned(w, u)
  PROVE  Calling(w) /\ w.th[w.run] = u /\ Last(u.ci) = c
<1>1. /\ th \in [Thread -> lua_State] /\ run \in Thread /\ L \in lua_State /\ L = th[run]
      /\ Len(host) \in Nat /\ DOMAIN host = 1..Len(host) /\ Depth \in DOMAIN L.ci
  BY RunStack
<1>2. /\ L.status # "error" /\ L.ci # <<>> /\ IsSeq(host) /\ Top = L.ci[Depth] /\ L.ci \in Seq(CallInfo)
      /\ Depth = Len(L.ci) /\ Depth \in Nat /\ Depth >= 1
  BY RunKeeps
<1>3. u \in lua_State /\ u.ci = [L.ci EXCEPT ![Depth] = c] /\ u.errfunc = ef /\ u.status = L.status
  <2>1. ASSUME NEW v \in lua_State, Depth \in DOMAIN v.ci, c.lua = v.ci[Depth].lua
        PROVE  LET z == Changed(v, Depth, c, ef)
               IN z \in lua_State /\ z.ci = [v.ci EXCEPT ![Depth] = c] /\ z.errfunc = ef /\ z.status = v.status
    BY <2>1, ChangedFrames
  <2>2. c.lua = L.ci[Depth].lua
    BY <1>2
  <2>3. LET z == Changed(L, Depth, c, ef)
        IN z \in lua_State /\ z.ci = [L.ci EXCEPT ![Depth] = c] /\ z.errfunc = ef /\ z.status = L.status
    BY <1>1, <2>1, <2>2
  <2>. QED
    BY <2>3
<1>4. u.ci # <<>> /\ Last(u.ci) = c
  BY <1>1, <1>2, <1>3 DEF Last
<1>5. DOMAIN w = {"th", "host", "run", "thrown"} /\ w.th = [th EXCEPT ![run] = u] /\ w.host = host /\ w.run = run
  BY DEF Turned
<1>6. StepOf(host, th, host, w.th, run) /\ w.th[run] = u
  BY <1>1, <1>5 DEF StepOf
<1>7. Keeps(host, run, u.ci, u.errfunc) /\ u.status # "error"
  BY <1>2, <1>3
<1>8. Calling(w)
  BY <1>1, <1>2, <1>3, <1>4, <1>5, <1>6, <1>7, CallingMade
<1>. QED
  BY <1>4, <1>5, <1>6, <1>8

\* The function that runs changes its continuation.
LEMMA RunTop ==
  ASSUME NEW c \in CallInfo, NEW d, StackInv(State), ContInv, run # Nobody, thrown = "no", ~c.yp,
         d = [L.ci EXCEPT ![Depth] = c]
  PROVE  Keeps(host, run, d, L.errfunc) /\ TopNot(d)
<1>. DEFINE ci == L.ci
            e == L.errfunc
<1>1. /\ Keeps(host, run, ci, e) /\ ci # <<>> /\ IsSeq(host) /\ Linked(host) /\ TopNot(ci)
      /\ Depth = Len(ci) /\ \A j \in Of(host, run) : IsCall(host[j]) => host[j].at <= Len(ci)
      /\ ci \in Seq(CallInfo)
  BY RunKeeps
<1>2. d = [ci EXCEPT ![Len(ci)] = c]
  BY <1>1
<1>. HIDE DEF ci, e
<1>3. Keeps(host, run, d, e) /\ TopNot(d)
  BY <1>1, <1>2, KeepsTop
<1>. QED
  BY <1>3 DEF ci, e

\* lua_callk.
LEMMA CallkCont ==
  ASSUME StackInv(State), ContInv, NEW k \in BOOLEAN, NEW lua \in BOOLEAN, lua_callk(k, lua)
  PROVE  ContInv'
<1>. DEFINE w == [State EXCEPT !.th[run].ci[Depth].k = TRUE]
            c == [Top EXCEPT !.k = TRUE]
            u == Changed(L, Depth, c, L.errfunc)
            d == [L.ci EXCEPT ![Depth] = c]
            ny == ~(k /\ L.nny = 0)
<1>1. run # Nobody /\ thrown = "no"
  BY DEF lua_callk, Running
<1>2. /\ L \in lua_State /\ Depth \in DOMAIN L.ci /\ Top = L.ci[Depth] /\ L.ci \in Seq(CallInfo) /\ L = th[run]
      /\ th \in [Thread -> lua_State] /\ run \in Thread
  BY <1>1, RunStack
<1>3. Top \in CallInfo /\ c \in CallInfo /\ c.lua = Top.lua /\ L.errfunc \in Nat /\ c.k /\ c.yp = Top.yp
  <2>1. Top \in CallInfo
    BY <1>2
  <2>. QED
    BY <1>2, <2>1, ThreadIs DEF CallInfo
<1>4. Calling(w) /\ Last(w.th[w.run].ci) = c
  <2>1. /\ DOMAIN w = {"th", "host", "run", "thrown"} /\ w.host = host /\ w.run = run /\ w.thrown = thrown
        /\ w.th = [th EXCEPT ![run].ci[Depth].k = TRUE]
    BY StateIs
  <2>2. u = [L EXCEPT !.ci[Depth].k = TRUE]
    BY <1>2, ThreadIs DEF Changed
  <2>3. w.th = [th EXCEPT ![run] = u]
    BY <1>2, <2>1, <2>2
  <2>. HIDE DEF w, u
  <2>4. u = Changed(L, Depth, c, L.errfunc)
    BY DEF u
  <2>5. d = [L.ci EXCEPT ![Depth] = c]
    OBVIOUS
  <2>. HIDE DEF c, d
  <2>6. Keeps(host, run, d, L.errfunc)
    <3>1. ~c.yp
      BY <1>1, <1>3, RunKeeps
    <3>. QED
      BY <1>1, <1>3, <2>5, <3>1, RunTop
  <2>. DEFINE ef == L.errfunc
  <2>7. /\ Turned(w, u) /\ c.lua = Top.lua /\ c \in CallInfo /\ ef \in Nat
        /\ Keeps(host, run, d, ef) /\ u = Changed(L, Depth, c, ef)
    BY <1>3, <2>1, <2>3, <2>4, <2>6 DEF Turned
  <2>. HIDE DEF ef
  <2>8. u.ci = d
    <3>1. ASSUME NEW v \in lua_State, Depth \in DOMAIN v.ci, c.lua = v.ci[Depth].lua
          PROVE  Changed(v, Depth, c, ef).ci = [v.ci EXCEPT ![Depth] = c]
      BY <2>7, <3>1, ChangedFrames
    <3>2. c.lua = L.ci[Depth].lua
      BY <1>2, <2>7
    <3>3. Changed(L, Depth, c, ef).ci = [L.ci EXCEPT ![Depth] = c]
      BY <1>2, <3>1, <3>2
    <3>. QED
      BY <2>5, <2>7, <3>3
  <2>. QED
    BY <1>1, <2>7, <2>8, ChangedCalling
<1>. HIDE DEF w, ny, c, d, u
<1>5. Becomes(luaD_call(IF k /\ L.nny = 0 THEN w ELSE State, "call", ny, lua))
  BY Zenon DEF lua_callk, w, ny
<1>6. ny \in BOOLEAN
  BY DEF ny
<1>7. CASE k /\ L.nny = 0
  <2>1. Becomes(luaD_call(w, "call", ny, lua))
    BY <1>5, <1>7
  <2>2. Last(w.th[w.run].ci).k
    BY <1>3, <1>4
  <2>. QED
    BY <1>4, <1>6, <2>1, <2>2, CallContAfter
<1>8. CASE ~(k /\ L.nny = 0)
  <2>1. Becomes(luaD_call(State, "call", ny, lua)) /\ ny
    BY <1>5, <1>8 DEF ny
  <2>. QED
    BY <1>1, <1>6, <2>1, PlainCallCont
<1>. QED
  BY <1>7, <1>8

\* Where yields are allowed, all activations of the thread let them pass.
LEMMA AllYield ==
  ASSUME StackInv(State), Running, ~(L.nny > 0)
  PROVE  /\ \A j \in Of(host, run) : IsCall(host[j]) /\ ~host[j].ny
         /\ run # Main /\ L.nny = 0
<1>1. /\ run # Nobody /\ thrown = "no"
  BY DEF Running
<1>2. /\ Len(host) \in Nat /\ DOMAIN host = 1..Len(host) /\ Owns(host, th, run, run, thrown) /\ L = th[run]
      /\ Linked(host)
  BY <1>1, RunStack DEF Stacked
<1>3. L.nny = Base0(run) + Nny(host, run, Len(host)) /\ Nny(host, run, Len(host)) \in Nat
  BY <1>2, NnyStep DEF Owns
<1>4. run # Main /\ Nny(host, run, Len(host)) = 0 /\ L.nny = 0
  BY <1>3 DEF Base0
<1>5. \A i \in 1..Len(host) : ~(host[i].L = run /\ NoYield(host[i]))
  BY <1>2, <1>4, NnyZero
<1>6. ASSUME NEW j \in Of(host, run)
      PROVE  IsCall(host[j]) /\ ~host[j].ny
  <2>1. j \in 1..Len(host) /\ host[j].L = run /\ host[j].kind # "resume"
    BY <1>2 DEF Of
  <2>2. host[j].kind # "pcall"
    BY <2>1, NoPcallBelow
  <2>3. IsCall(host[j])
    BY <1>2, <2>1, <2>2 DEF Linked, IsCall
  <2>. QED
    BY <1>5, <2>1, <2>3 DEF NoYield
<1>. QED
  BY <1>4, <1>6

\* A yield, or the error that there can be none.
LEMMA YieldCont ==
  ASSUME StackInv(State), ContInv, NEW k \in BOOLEAN, lua_yieldk(k)
  PROVE  ContInv'
<1>. DEFINE c == [Top EXCEPT !.k = k]
            d == [L.ci EXCEPT ![Depth] = c]
<1>1. Running /\ run # Nobody /\ thrown = "no" /\ ~Top.lua
  BY DEF lua_yieldk, Running
<1>2. CASE L.nny > 0
  <2>1. Becomes([State EXCEPT !.thrown = "raise"])
    BY <1>2, Zenon DEF lua_yieldk
  <2>. QED
    BY <1>1, <2>1, ThrowCont
<1>3. CASE ~(L.nny > 0)
  <2>1. /\ L \in lua_State /\ Depth \in DOMAIN L.ci /\ Top = L.ci[Depth] /\ L.ci \in Seq(CallInfo) /\ L = th[run]
        /\ th \in [Thread -> lua_State] /\ run \in Thread
    BY <1>1, RunStack
  <2>2. c \in CallInfo /\ c.lua = Top.lua /\ c.yp = Top.yp
    <3>1. Top \in CallInfo
      BY <2>1
    <3>. QED
      BY <3>1 DEF CallInfo
  <2>. DEFINE u == [L EXCEPT !.status = "yield", !.ci = d]
              r == [State EXCEPT !.th[run].status = "yield", !.th[run].ci[Depth].k = k, !.thrown = "yield"]
  <2>3. Becomes(r)
    BY <1>3, Zenon DEF lua_yieldk
  <2>4. r.host = host /\ r.run = run /\ r.thrown = "yield" /\ r.th = [th EXCEPT ![run] = u]
    <3>1. /\ r.host = host /\ r.run = run /\ r.thrown = "yield"
          /\ r.th = [th EXCEPT ![run].status = "yield", ![run].ci[Depth].k = k]
      BY StateIs
    <3>2. u = [L EXCEPT !.status = "yield", !.ci[Depth].k = k]
      BY <2>1, ThreadIs
    <3>. HIDE DEF u, r
    <3>. QED
      BY <2>1, <3>1, <3>2
  <2>5. u.ci = d /\ u.errfunc = L.errfunc /\ u.status = "yield" /\ u.nny = L.nny
    BY <2>1, ThreadIs
  <2>6. host' = host /\ run' = run /\ thrown' = "yield" /\ th' = [th EXCEPT ![run] = u]
    BY <2>3, <2>4 DEF Becomes
  <2>7. /\ d = [L.ci EXCEPT ![Depth] = c]
    OBVIOUS
  <2>. HIDE DEF c, d, u, r
  <2>8. Keeps(host, run, d, L.errfunc) /\ TopNot(d)
    <3>1. ~c.yp
      BY <1>1, <2>2, RunKeeps
    <3>. QED
      BY <1>1, <2>2, <2>7, <3>1, RunTop
  <2>9. u.nny = 0
    BY <1>1, <1>3, <2>5, AllYield
  <2>10. Turns(u)
    BY <1>1, <2>6, TurnsInto
  <2>11. StepOf(host, th, host', th', run) /\ th'[run] = u
    BY <2>6, <2>10 DEF Turns, StepOf
  <2>. DEFINE e == th'
  <2>12. /\ StepOf(host, th, host, e, run) /\ e[run] = u
    BY <2>6, <2>11
  <2>. HIDE DEF e
  <2>13. /\ e[run].status # "error" => Keeps(host, run, e[run].ci, e[run].errfunc)
         /\ TopNot(e[run].ci) /\ e[run].nny = 0
    BY <2>5, <2>8, <2>9, <2>12
  <2>14. Cont(host, e, run, "yield")
    <3>1. Cont(host, th, run, thrown)
      BY DEF ContInv
    <3>. QED
      BY <1>1, <2>12, <2>13, <3>1, ContMade
  <2>. QED
    BY <2>6, <2>14 DEF ContInv, e
<1>. QED
  BY <1>2, <1>3

\* The function that runs starts a protected call that lets yields pass.
LEMMA RunYpcall ==
  ASSUME NEW c \in CallInfo, NEW d, StackInv(State), ContInv, Running, ~(L.nny > 0), ~c.lua, c.k, c.yp,
         c.lua = Top.lua, c.oldef = L.errfunc, d = [L.ci EXCEPT ![Depth] = c]
  PROVE  Keeps(host, run, d, c.ef)
<1>. DEFINE ci == L.ci
            e == L.errfunc
<1>1. run # Nobody /\ thrown = "no"
  BY DEF Running
<1>2. /\ Keeps(host, run, ci, e) /\ ci # <<>> /\ IsSeq(host) /\ Linked(host) /\ TopNot(ci)
      /\ Depth = Len(ci) /\ (\A j \in Of(host, run) : IsCall(host[j]) => host[j].at <= Len(ci))
      /\ ci \in Seq(CallInfo) /\ Last(ci) = Top
  BY <1>1, RunKeeps
<1>3. \A j \in Of(host, run) : IsCall(host[j]) /\ ~host[j].ny
  BY AllYield
<1>4. d = [ci EXCEPT ![Len(ci)] = c] /\ c.oldef = e /\ c.lua = Last(ci).lua
  BY <1>2
<1>5. \A j \in Of(host, run) : IsCall(host[j]) /\ ~host[j].ny /\ host[j].at <= Len(ci)
  BY <1>2, <1>3
<1>. HIDE DEF ci, e
<1>. QED
  BY <1>2, <1>4, <1>5, KeepsYpcall

\* The activation a is pushed.
Pushed(h, g, a) ==
  /\ Len(h) \in Nat /\ DOMAIN h = 1..Len(h) /\ IsSeq(g) /\ Len(g) = Len(h) + 1 /\ DOMAIN g = 1..Len(h) + 1
  /\ g[Len(h) + 1] = a /\ \A i \in 1..Len(h) : g[i] = h[i]

\* Append pushes.
LEMMA PushedIs ==
  ASSUME NEW h, IsSeq(h), NEW a
  PROVE  Pushed(h, Append(h, a), a)
BY SeqPush, SeqLen DEF Pushed

\* The other threads keep theirs.
LEMMA OthersOf ==
  ASSUME NEW h, NEW g, NEW a, Pushed(h, g, a), NEW t, a.L # t \/ a.kind = "resume"
  PROVE  Of(g, t) = Of(h, t) /\ \A i \in Of(h, t) : g[i] = h[i]
<1>. DEFINE n == Len(h)
<1>1. n \in Nat /\ DOMAIN h = 1..n /\ DOMAIN g = 1..n + 1 /\ g[n + 1] = a /\ \A i \in 1..n : g[i] = h[i]
  BY DEF Pushed
<1>. HIDE DEF n
<1>. QED
  BY <1>1, OtherOf

\* The thread that makes a protected call keeps its promises, and the handler is the new one.
LEMMA PushedPcall ==
  ASSUME NEW h, NEW g, NEW a, NEW t, NEW ci \in Seq(CallInfo), NEW e, Pushed(h, g, a),
         Keeps(h, t, ci, e), a.L = t, a.kind = "pcall", a.at = Len(ci), a.errfunc = e, TopNot(ci)
  PROVE  Keeps(g, t, ci, a.ef)
<1>. DEFINE n == Len(h)
<1>1. n \in Nat /\ DOMAIN h = 1..n /\ DOMAIN g = 1..n + 1 /\ g[n + 1] = a /\ \A i \in 1..n : g[i] = h[i]
  BY DEF Pushed
<1>. HIDE DEF n
<1>. QED
  BY <1>1, KeepsPcall

\* A protected call with an activation.
LEMMA GuardedKeeps ==
  ASSUME NEW a, NEW g, NEW e, StackInv(State), ContInv, run # Nobody, thrown = "no",
         a.kind = "pcall", a.L = run, a.at = Depth, a.errfunc = L.errfunc, Pushed(host, g, a),
         \A t \in Thread \ {run} : e[t] = th[t]
  PROVE  /\ Keeps(g, run, L.ci, a.ef) /\ StepOf(host, th, g, e, run)
         /\ IsSeq(g) /\ Len(g) \in Nat /\ DOMAIN g = 1..Len(g)
<1>. DEFINE ci == L.ci
            ef == L.errfunc
<1>1. Keeps(host, run, ci, ef) /\ TopNot(ci) /\ Depth = Len(ci) /\ ci \in Seq(CallInfo)
  BY RunKeeps
<1>2. a.at = Len(ci) /\ a.errfunc = ef
  BY <1>1
<1>. HIDE DEF ci, ef
<1>3. Keeps(g, run, ci, a.ef)
  BY <1>1, <1>2, PushedPcall
<1>4. ASSUME NEW t \in Thread \ {run}
      PROVE  Of(g, t) = Of(host, t) /\ \A i \in Of(host, t) : g[i] = host[i]
  <2>1. a.L # t
    BY <1>4
  <2>. QED
    BY <2>1, OthersOf
<1>5. StepOf(host, th, g, e, run)
  BY <1>4 DEF StepOf
<1>6. IsSeq(g) /\ Len(g) \in Nat /\ DOMAIN g = 1..Len(g)
  BY DEF Pushed
<1>. QED
  BY <1>3, <1>5, <1>6 DEF ci

\* The protected function is called.
LEMMA PcallCallCont ==
  ASSUME NEW of \in {"call", "gc"}, NEW ef \in Nat, NEW lua \in BOOLEAN, StackInv(State), ContInv, run # Nobody,
         thrown = "no", Becomes(luaD_call(luaD_pcall(State, of, ef), "call", TRUE, lua))
  PROVE  ContInv'
<1>. DEFINE w == luaD_pcall(State, of, ef)
            a == [kind |-> "pcall", of |-> of, L |-> run, at |-> Depth, nny |-> L.nny, ncc |-> L.nCcalls,
                   errfunc |-> L.errfunc, ef |-> ef]
            u == Guarded(L, ef, L.nny)
            g == Append(host, a)
<1>1. /\ DOMAIN w = {"th", "host", "run", "thrown"} /\ w.th = [th EXCEPT ![run] = u]
      /\ w.host = g /\ w.run = run /\ w.thrown = thrown
  BY PcallIs
<1>2. /\ th \in [Thread -> lua_State] /\ run \in Thread /\ L \in lua_State /\ L.status # "error" /\ L.ci # <<>> /\ IsSeq(host)
  BY RunStack, RunKeeps
<1>3. /\ a.kind = "pcall" /\ a.L = run /\ a.at = Depth /\ a.errfunc = L.errfunc /\ a.ef = ef
  OBVIOUS
<1>4. u \in lua_State /\ u.ci = L.ci /\ u.errfunc = ef /\ u.status = L.status
  <2>1. ASSUME NEW v \in lua_State
        PROVE  LET z == Guarded(v, ef, v.nny)
               IN z \in lua_State /\ z.ci = v.ci /\ z.errfunc = ef /\ z.status = v.status
    BY DEF Guarded, lua_State
  <2>. QED
    BY <1>2, <2>1
<1>. HIDE DEF a, u, w
<1>5. \A t \in Thread \ {run} : w.th[t] = th[t]
  BY <1>1, <1>2
<1>. DEFINE e == w.th
<1>6. Pushed(host, g, a) /\ \A t \in Thread \ {run} : e[t] = th[t]
  BY <1>2, <1>5, PushedIs
<1>. HIDE DEF g, e
<1>7. /\ Keeps(g, run, L.ci, a.ef) /\ StepOf(host, th, g, e, run)
      /\ IsSeq(g) /\ Len(g) \in Nat /\ DOMAIN g = 1..Len(g)
  BY <1>3, <1>6, GuardedKeeps
<1>8. Keeps(g, run, u.ci, u.errfunc) /\ u.ci # <<>> /\ u.status # "error" /\ StepOf(host, th, g, w.th, run)
  BY <1>2, <1>3, <1>4, <1>7 DEF e
<1>9. Calling(w)
  BY <1>1, <1>4, <1>7, <1>8, CallingMade
<1>10. Becomes(luaD_call(w, "call", TRUE, lua))
  BY DEF w
<1>. QED
  BY <1>9, <1>10, CallContAfter

\* A finalizer.
LEMMA GCTMCont ==
  ASSUME StackInv(State), ContInv, NEW lua \in BOOLEAN, GCTM(lua)
  PROVE  ContInv'
<1>1. run # Nobody /\ thrown = "no" /\ Becomes(luaD_call(luaD_pcall(State, "gc", 0), "call", TRUE, lua))
  BY Zenon DEF GCTM
<1>. QED
  BY <1>1, PcallCallCont

\* pcall and xpcall.
LEMMA PcallkCont ==
  ASSUME NEW k \in BOOLEAN, NEW handler \in BOOLEAN, NEW lua \in BOOLEAN, StackInv(State), ContInv,
         lua_pcallk(k, handler, lua)
  PROVE  ContInv'
<1>. DEFINE ef == IF handler THEN Depth ELSE 0
            w == [State EXCEPT !.th[run] = Ypcall(L, ef)]
            c == [Top EXCEPT !.k = TRUE, !.yp = TRUE, !.ef = ef, !.oldef = L.errfunc]
            u == Changed(L, Depth, c, ef)
            d == [L.ci EXCEPT ![Depth] = c]
<1>1. run # Nobody /\ thrown = "no" /\ Running /\ ~Top.lua
  BY DEF lua_pcallk, Running
<1>2. /\ L \in lua_State /\ Depth \in DOMAIN L.ci /\ Top = L.ci[Depth] /\ L.ci \in Seq(CallInfo) /\ L = th[run]
      /\ th \in [Thread -> lua_State] /\ run \in Thread /\ Depth \in Nat /\ Depth = Len(L.ci)
  BY <1>1, RunStack
<1>3. ef \in Nat
  BY <1>2
<1>4. CASE k /\ L.nny = 0
  <2>1. /\ Top \in CallInfo /\ c \in CallInfo /\ c.lua = Top.lua /\ c.k /\ c.yp /\ c.ef = ef
        /\ c.oldef = L.errfunc
    <3>1. Top \in CallInfo
      BY <1>2
    <3>. QED
      BY <1>2, <1>3, <3>1, ThreadIs DEF CallInfo
  <2>2. /\ DOMAIN w = {"th", "host", "run", "thrown"} /\ w.host = host /\ w.run = run /\ w.thrown = "no"
        /\ w.th = [th EXCEPT ![run] = Ypcall(L, ef)]
    BY <1>1, StateIs
  <2>3. Ypcall(L, ef) = u
    BY <1>2, ThreadIs DEF Ypcall, Changed
  <2>. HIDE DEF ef
  <2>4. Becomes(luaD_call(w, "call", FALSE, lua))
    BY <1>4, Zenon DEF lua_pcallk, ef
  <2>5. d = [L.ci EXCEPT ![Depth] = c] /\ u = Changed(L, Depth, c, ef)
    OBVIOUS
  <2>. HIDE DEF w, c, u, d
  <2>6. Keeps(host, run, d, ef)
    <3>1. ~(L.nny > 0) /\ ~c.lua
      BY <1>1, <1>4, <2>1
    <3>2. Keeps(host, run, d, c.ef)
      BY <1>1, <2>1, <2>5, <3>1, RunYpcall
    <3>. QED
      BY <2>1, <3>2
  <2>7. u.ci = d
    <3>1. ASSUME NEW v \in lua_State, Depth \in DOMAIN v.ci, c.lua = v.ci[Depth].lua
          PROVE  Changed(v, Depth, c, ef).ci = [v.ci EXCEPT ![Depth] = c]
      BY <1>3, <2>1, <3>1, ChangedFrames DEF ef
    <3>2. c.lua = L.ci[Depth].lua
      BY <1>2, <2>1
    <3>3. Changed(L, Depth, c, ef).ci = [L.ci EXCEPT ![Depth] = c]
      BY <1>2, <3>1, <3>2
    <3>. QED
      BY <2>5, <3>3
  <2>8. Calling(w) /\ Last(w.th[w.run].ci) = c
    <3>1. /\ Keeps(host, run, u.ci, ef) /\ ef \in Nat /\ Turned(w, u)
          /\ c.lua = Top.lua /\ c \in CallInfo /\ u = Changed(L, Depth, c, ef)
      BY <1>3, <2>1, <2>2, <2>3, <2>5, <2>6, <2>7 DEF ef, Turned
    <3>2. Calling(w) /\ w.th[w.run] = u /\ Last(u.ci) = c
      BY <1>1, <3>1, ChangedCalling
    <3>. QED
      BY <3>2
  <2>9. Last(w.th[w.run].ci).k
    BY <2>1, <2>8
  <2>. QED
    BY <2>4, <2>8, <2>9, CallContAfter
<1>5. CASE ~(k /\ L.nny = 0)
  <2>. HIDE DEF ef
  <2>1. Becomes(luaD_call(luaD_pcall(State, "call", ef), "call", TRUE, lua))
    BY <1>5, Zenon DEF lua_pcallk, ef
  <2>. QED
    BY <1>1, <1>3, <2>1, PcallCallCont
<1>. QED
  BY <1>4, <1>5

\* The parser starts.
LEMMA LoadCont ==
  ASSUME StackInv(State), ContInv, lua_load
  PROVE  ContInv'
<1>. DEFINE ef == L.errfunc
            n == L.nny + 1
            w == luaD_pcall(State, "load", ef)
            r == [w EXCEPT !.th[run].nny = @ + 1]
            a == [kind |-> "pcall", of |-> "load", L |-> run, at |-> Depth, nny |-> L.nny, ncc |-> L.nCcalls,
                   errfunc |-> L.errfunc, ef |-> ef]
            u == Guarded(L, ef, n)
            g == Append(host, a)
<1>1. run # Nobody /\ thrown = "no" /\ ~InParser /\ Becomes(r)
  BY Zenon DEF lua_load, Running
<1>2. /\ th \in [Thread -> lua_State] /\ run \in Thread /\ L \in lua_State /\ ef \in Nat /\ L = th[run] /\ n \in Int
      /\ L.status # "error" /\ L.ci # <<>> /\ TopNot(L.ci) /\ IsSeq(host)
  BY <1>1, RunStack, ThreadIs, RunKeeps
<1>. HIDE DEF ef
<1>3. /\ DOMAIN w = {"th", "host", "run", "thrown"} /\ w.th = [th EXCEPT ![run] = Guarded(L, ef, L.nny)]
      /\ w.host = Append(host, a) /\ w.run = run /\ w.thrown = thrown
  BY <1>1, <1>2, PcallIs
<1>4. /\ a.kind = "pcall" /\ a.L = run /\ a.at = Depth /\ a.errfunc = L.errfunc /\ a.ef = ef
  OBVIOUS
<1>. HIDE DEF a, w
<1>5. /\ r.host = g /\ r.run = run /\ r.thrown = "no" /\ r.th = [w.th EXCEPT ![run].nny = @ + 1]
  BY <1>1, <1>3
<1>6. [Guarded(L, ef, L.nny) EXCEPT !.nny = @ + 1] = u
  BY <1>2 DEF Guarded, lua_State
<1>7. u.ci = L.ci /\ u.errfunc = ef /\ u.status = L.status
  <2>1. ASSUME NEW v \in lua_State, NEW m \in Int
        PROVE  LET z == Guarded(v, ef, m)
               IN z.ci = v.ci /\ z.errfunc = ef /\ z.status = v.status
    BY DEF Guarded, lua_State
  <2>. QED
    BY <1>2, <2>1
<1>. HIDE DEF u, n
<1>8. r.th = [th EXCEPT ![run] = u]
  BY <1>2, <1>3, <1>5, <1>6
<1>. HIDE DEF r
<1>. DEFINE e == r.th
<1>9. e[run] = u /\ (\A t \in Thread \ {run} : e[t] = th[t]) /\ Pushed(host, g, a)
  BY <1>2, <1>8, PushedIs
<1>. HIDE DEF e, g
<1>10. Keeps(g, run, L.ci, a.ef) /\ StepOf(host, th, g, e, run)
  BY <1>1, <1>4, <1>9, GuardedKeeps
<1>11. Keeps(g, run, e[run].ci, e[run].errfunc) /\ TopNot(e[run].ci)
  BY <1>2, <1>4, <1>7, <1>9, <1>10
<1>12. Cont(g, e, run, "no")
  <2>1. Cont(host, th, run, thrown)
    BY DEF ContInv
  <2>. QED
    BY <1>1, <1>10, <1>11, <2>1, ContMade
<1>13. Cont(r.host, r.th, r.run, r.thrown)
  BY <1>5, <1>12 DEF e
<1>. QED
  BY <1>1, <1>13, BecomesCont DEF r

\* The parser ends without an error.
LEMMA ParserEndsCont ==
  ASSUME StackInv(State), ContInv, ParserEnds
  PROVE  ContInv'
<1>. DEFINE f == Last(host)
            j == Len(host)
            u == Restored(L, f.nny, f.ncc, f.errfunc)
            r == [State EXCEPT !.host = Pop(@),
                    !.th[run] = [@ EXCEPT !.errfunc = f.errfunc, !.nCcalls = f.ncc, !.nny = f.nny]]
            g == Pop(host)
            ci == L.ci
            ef == L.errfunc
<1>1. run # Nobody /\ thrown = "no" /\ InParser /\ Becomes(r)
  BY Zenon DEF ParserEnds
<1>2. /\ IsSeq(host) /\ j \in Nat /\ L \in lua_State /\ L = th[run] /\ run \in Thread /\ DOMAIN th = Thread
      /\ DOMAIN host = 1..j /\ Keeps(host, run, ci, ef) /\ TopNot(ci) /\ ci \in Seq(CallInfo)
  BY <1>1, RunStack, RunKeeps
<1>3. j \in 1..Len(host) /\ f = host[j] /\ host[j].kind = "pcall" /\ host[j].L = run
  BY <1>1, <1>2, SeqLen DEF InParser, Last
<1>. HIDE DEF f, j
<1>4. /\ f.nny \in Int /\ f.ncc \in Int /\ f.errfunc \in Nat
  BY <1>1, <1>3, SavedIs
<1>5. /\ r.host = SubSeq(host, 1, j - 1) /\ r.run = run
      /\ r.thrown = "no" /\ r.th = [th EXCEPT ![run] = u]
  BY <1>1, <1>2, StateIs DEF Pop, Restored, j
<1>6. u.ci = L.ci /\ u.errfunc = f.errfunc /\ u.status = L.status
  <2>1. ASSUME NEW v \in lua_State, NEW n \in Int, NEW ncc \in Int, NEW e \in Nat
        PROVE  LET z == Restored(v, n, ncc, e)
               IN z.ci = v.ci /\ z.errfunc = e /\ z.status = v.status
    BY RestoredIs
  <2>. HIDE DEF r, u
  <2>2. LET z == Restored(L, f.nny, f.ncc, f.errfunc)
        IN z.ci = L.ci /\ z.errfunc = f.errfunc /\ z.status = L.status
    BY <1>2, <1>4, <2>1
  <2>. QED
    BY <2>2 DEF u
<1>7. g = SubSeq(host, 1, j - 1) /\ DOMAIN g = 1..j - 1 /\ \A i \in 1..j - 1 : g[i] = host[i]
  <2>1. j - 1 \in 0..Len(host)
    BY <1>2, <1>3
  <2>. QED
    BY <1>2, <2>1, SeqCut DEF Pop, j
<1>. DEFINE e == r.th
<1>8. e[run] = u /\ (\A t \in Thread \ {run} : e[t] = th[t]) /\ r.host = g
  BY <1>2, <1>5, <1>7
<1>. HIDE DEF r, u, g, ci, ef, e
<1>9. CutAt(host, g, run, j)
  <2>1. j \in 1..j
    BY <1>2, <1>3
  <2>. QED
    BY <1>2, <1>3, <1>7, <2>1, CutPcalls
<1>10. Keeps(g, run, ci, host[j].errfunc)
  <2>1. \A i \in Of(host, run) : i < j \/ i = j
    BY <1>2 DEF Of
  <2>. QED
    BY <1>2, <1>3, <1>9, <2>1, KeepsUnprotect
<1>11. StepOf(host, th, g, e, run)
  <2>1. ASSUME NEW t \in Thread \ {run}
        PROVE  Of(g, t) = Of(host, t) /\ \A i \in Of(host, t) : g[i] = host[i]
    <3>1. \A i : i \in Of(g, t) <=> i \in Of(host, t)
      BY <1>2, <1>3, <1>7 DEF Of
    <3>2. \A i \in Of(g, t) : i \in 1..j - 1
      BY <1>7 DEF Of
    <3>. QED
      BY <1>7, <3>1, <3>2
  <2>. QED
    BY <1>8, <2>1 DEF StepOf
<1>12. Keeps(g, run, e[run].ci, e[run].errfunc) /\ TopNot(e[run].ci)
  BY <1>2, <1>3, <1>6, <1>8, <1>10 DEF ci
<1>13. Cont(g, e, run, "no")
  <2>1. Cont(host, th, run, thrown)
    BY DEF ContInv
  <2>. QED
    BY <1>1, <1>11, <1>12, <2>1, ContMade
<1>14. Cont(r.host, r.th, r.run, r.thrown)
  BY <1>5, <1>8, <1>13 DEF e
<1>. QED
  BY <1>1, <1>14, BecomesCont DEF r

-----------------------------------------------------------------------------
(* Returns and resumes that end. *)

\* What is left of the C stack when it is cut.
CutTo(h, g, m) ==
  /\ Len(h) \in Nat /\ DOMAIN h = 1..Len(h) /\ m \in 0..Len(h) /\ m \in Nat
  /\ IsSeq(g) /\ Len(g) = m /\ DOMAIN g = 1..m /\ \A i \in 1..m : g[i] = h[i]

\* SubSeq cuts.
LEMMA CutToIs ==
  ASSUME NEW h, IsSeq(h), NEW m \in 0..Len(h)
  PROVE  CutTo(h, SubSeq(h, 1, m), m)
BY SeqCut, SeqLen DEF CutTo

\* So does Pop, at the last activation.
LEMMA PopTo ==
  ASSUME NEW h, IsSeq(h), h # <<>>
  PROVE  CutTo(h, Pop(h), Len(h) - 1) /\ Len(h) \in DOMAIN h /\ Last(h) = h[Len(h)]
<1>1. Len(h) \in Nat /\ Len(h) # 0 /\ DOMAIN h = 1..Len(h)
  BY SeqLen
<1>2. Len(h) - 1 \in 0..Len(h)
  BY <1>1
<1>3. CutTo(h, SubSeq(h, 1, Len(h) - 1), Len(h) - 1)
  BY <1>2, CutToIs
<1>. QED
  BY <1>1, <1>3 DEF Pop, Last

\* The activations of a thread are the same in both.
OfSame(h, g, t) == Of(g, t) = Of(h, t) /\ \A i \in Of(h, t) : g[i] = h[i]

\* Nothing of t is cut.
LEMMA CutOthers ==
  ASSUME NEW h, NEW g, NEW m, NEW t, CutTo(h, g, m), \A k \in m + 1..Len(h) : h[k].L # t \/ h[k].kind = "resume"
  PROVE  OfSame(h, g, t)
<1>1. \A i : i \in Of(g, t) <=> i \in Of(h, t)
  <2>1. ASSUME NEW i, i \in Of(g, t) PROVE i \in Of(h, t)
    BY <2>1 DEF Of, CutTo
  <2>2. ASSUME NEW i, i \in Of(h, t) PROVE i \in Of(g, t)
    <3>1. i \in 1..Len(h) /\ h[i].L = t /\ h[i].kind # "resume" /\ m \in Nat /\ Len(h) \in Nat
      BY <2>2 DEF Of, CutTo
    <3>2. i \notin m + 1..Len(h)
      BY <3>1
    <3>3. i \in 1..m
      BY <3>1, <3>2
    <3>. QED
      BY <3>1, <3>3 DEF Of, CutTo
  <2>. QED
    BY <2>1, <2>2
<1>2. \A i \in Of(g, t) : g[i] = h[i]
  BY DEF Of, CutTo
<1>. QED
  BY <1>1, <1>2 DEF OfSame

\* Only the activations of the thread matter, with OfSame.
LEMMA KeepsOf ==
  ASSUME NEW h, NEW g, NEW t, NEW ci, NEW e, OfSame(h, g, t), Keeps(h, t, ci, e)
  PROVE  Keeps(g, t, ci, e)
BY KeepsSame DEF OfSame

\* Above a resume the thread has no activation.
LEMMA NoneAbove ==
  ASSUME StackInv(State), run # Nobody, NEW j \in 1..Len(host), host[j].kind = "resume", host[j].L = run
  PROVE  \A i \in 1..j : ~(host[i].L = run /\ host[i].kind # "resume")
<1>1. /\ IsSeq(host) /\ Linked(host) /\ Apart(host) /\ Len(host) \in Nat /\ DOMAIN host = 1..Len(host)
  BY RunStack DEF Stacked
<1>2. ASSUME NEW i \in 1..j, host[i].L = run, host[i].kind # "resume"
      PROVE  FALSE
  <2>1. i # j /\ i \in 0..(j - 1) /\ j \in j..Len(host) /\ j \in DOMAIN host /\ i \in Nat /\ i > 0
    BY <1>1, <1>2
  <2>2. Owner(host, i) # Owner(host, j)
    BY <1>1, <2>1 DEF Apart
  <2>3. Owner(host, i) = run /\ Owner(host, j) = run
    BY <1>2, <2>1 DEF Owner
  <2>. QED
    BY <2>2, <2>3
<1>. QED
  BY <1>2

\* What a function that returns leaves.
LEMMA ReturnKeeps ==
  ASSUME StackInv(State), ContInv, Running, NEW q, q = SubSeq(L.ci, 1, Depth - 1)
  PROVE  /\ Keeps(host, run, q, L.errfunc) /\ q \in Seq(CallInfo) /\ Len(q) = Depth - 1 /\ DOMAIN q = 1..Depth - 1
         /\ \A i \in 1..Depth - 1 : q[i] = L.ci[i]
<1>. DEFINE ci == L.ci
            e == L.errfunc
            m == Depth - 1
<1>1. run # Nobody /\ thrown = "no"
  BY DEF Running
<1>2. /\ Keeps(host, run, ci, e) /\ ci \in Seq(CallInfo) /\ Depth = Len(ci) /\ Depth \in Nat /\ Depth >= 1
      /\ DOMAIN ci = 1..Depth /\ IsSeq(host) /\ Linked(host) /\ TopNot(ci)
      /\ \A i \in Of(host, run) : IsCall(host[i]) => host[i].at <= Depth
  BY <1>1, RunKeeps
<1>3. m \in 0..Len(ci) /\ q = SubSeq(ci, 1, m)
  BY <1>2
<1>4. \A p \in DOMAIN ci : ci[p].yp => p <= m
  BY <1>2 DEF TopNot
<1>5. \A i \in Of(host, run) : IsCall(host[i]) => Low(host[i]) <= m
  <2>1. ASSUME NEW i \in Of(host, run), IsCall(host[i]) PROVE Low(host[i]) <= m
    <3>1. host[i].at \in Nat /\ Low(host[i]) = host[i].at - 1
      BY <1>2, <2>1, ActsAre DEF IsCall
    <3>. QED
      BY <1>2, <2>1, <3>1
  <2>. QED
    BY <2>1
<1>6. q \in Seq(CallInfo) /\ Len(q) = m /\ DOMAIN q = 1..m /\ \A i \in 1..m : q[i] = ci[i]
  BY <1>2, <1>3
<1>. HIDE DEF ci, e, m
<1>7. Keeps(host, run, q, e)
  BY <1>2, <1>3, <1>4, <1>5, KeepsFirst
<1>. QED
  BY <1>6, <1>7 DEF ci, e, m

\* A return without an activation is not to a protected call.
LEMMA PlainTopNot ==
  ASSUME StackInv(State), ContInv, Running, NEW q, q = SubSeq(L.ci, 1, Depth - 1),
         host # <<>> => Last(host).kind \in {"call", "handler"} /\ Last(host).at # Depth
  PROVE  TopNot(q)
<1>1. run # Nobody /\ thrown = "no"
  BY DEF Running
<1>2. /\ Keeps(host, run, L.ci, L.errfunc) /\ Depth = Len(L.ci) /\ Depth \in Nat /\ Depth >= 1
      /\ DOMAIN L.ci = 1..Depth /\ IsSeq(host) /\ Linked(host) /\ Len(host) \in Nat /\ DOMAIN host = 1..Len(host)
      /\ \A i \in Of(host, run) : IsCall(host[i]) => host[i].at <= Depth
  BY <1>1, RunKeeps
<1>3. Len(q) = Depth - 1 /\ DOMAIN q = 1..Depth - 1 /\ \A i \in 1..Depth - 1 : q[i] = L.ci[i]
  BY ReturnKeeps
<1>. DEFINE p == Depth - 1
<1>4. ASSUME p \in 1..p, L.ci[p].yp PROVE FALSE
  <2>1. p \in DOMAIN L.ci /\ p < Len(L.ci) /\ p + 1 = Depth /\ p \in Nat
    BY <1>2, <1>4
  <2>2. ~L.ci[p].lua
    BY <1>2, <1>4, <2>1 DEF Keeps, Recoverable
  <2>3. \/ \E j \in Of(host, run) : IsCall(host[j]) /\ host[j].at = p + 1
        \/ run # Main /\ \A j \in Of(host, run) : Low(host[j]) >= p
    BY <1>2, <2>1, <2>2 DEF Keeps, GoesOn
  <2>4. CASE host = <<>>
    <3>1. Len(host) = 0 /\ run = Owner(host, Len(host))
      BY <1>1, <1>2, <2>4, SeqLen, RunStack
    <3>2. run = Main
      BY <3>1 DEF Owner
    <3>3. Of(host, run) = {}
      BY <1>2, <3>1 DEF Of
    <3>. QED
      BY <2>3, <3>2, <3>3
  <2>5. CASE host # <<>>
    <3>. DEFINE n == Len(host)
    <3>1. /\ n \in DOMAIN host /\ Last(host) = host[n] /\ host[n].L = run /\ host[n].kind \in {"call", "handler"}
          /\ host[n].at \in Nat /\ Low(host[n]) = host[n].at - 1 /\ host[n].at <= Depth /\ host[n].at # Depth
      BY <2>5, TopIs
    <3>2. n \in Of(host, run)
      BY <3>1 DEF Of
    <3>3. ~(Low(host[n]) >= p)
      BY <1>2, <3>1
    <3>4. PICK j \in Of(host, run) : IsCall(host[j]) /\ host[j].at = p + 1
      BY <2>3, <3>2, <3>3
    <3>5. j \in 1..Len(host) /\ host[j].L = run /\ host[j].kind # "resume"
      BY <1>2, <3>4 DEF Of
    <3>6. host[j].at <= Last(host).at
      BY <2>5, <3>1, <3>4, <3>5, BelowTop
    <3>. QED
      BY <1>2, <2>1, <3>1, <3>4, <3>6
  <2>. QED
    BY <2>4, <2>5
<1>5. ASSUME NEW i \in DOMAIN q, q[i].yp PROVE i < Len(q)
  <2>1. i \in 1..Depth - 1 /\ L.ci[i].yp
    BY <1>3, <1>5
  <2>2. i # p
    BY <1>4, <2>1
  <2>. QED
    BY <1>2, <1>3, <2>1, <2>2
<1>. QED
  BY <1>5 DEF TopNot

\* Every thread that is not dead keeps its promises.
AllKeep(h, f) == \A t \in Thread : f[t].status # "error" => Keeps(h, t, f[t].ci, f[t].errfunc) /\ TopNot(f[t].ci)

\* It is the second layer where nothing is thrown.
LEMMA AllKeepCont ==
  ASSUME NEW h, NEW f, NEW r, AllKeep(h, f)
  PROVE  Cont(h, f, r, "no")
BY DEF AllKeep, Cont

\* A state before the end of a resume.
Resuming(s) ==
  /\ DOMAIN s = {"th", "host", "run", "thrown"} /\ s.th \in [Thread -> lua_State]
  /\ IsSeq(s.host) /\ s.host # <<>> /\ Last(s.host).kind = "resume"

\* lua_resume ends: only counts change.
LEMMA EndResumeCont ==
  ASSUME NEW s, Resuming(s), AllKeep(s.host, s.th)
  PROVE  LET r == EndResume(s) IN Cont(r.host, r.th, r.run, r.thrown)
<1>. DEFINE r == EndResume(s)
            f == s.th
            h == s.host
            g == Pop(h)
            a == Last(h)
            e == [f EXCEPT ![a.L].nny = a.nny, ![a.L].nCcalls = a.ncc - 1]
<1>1. r.host = g /\ r.th = e /\ r.thrown = "no"
  <2>1. DOMAIN s = {"th", "host", "run", "thrown"}
    BY DEF Resuming
  <2>2. r = [s EXCEPT !.host = Pop(@), !.run = a.from, !.thrown = "no", !.th[a.L].nny = a.nny, !.th[a.L].nCcalls = a.ncc - 1]
    BY Zenon DEF EndResume
  <2>. HIDE DEF r, a
  <2>. QED
    BY <2>1, <2>2
<1>2. f \in [Thread -> lua_State] /\ IsSeq(h) /\ h # <<>> /\ a.kind = "resume"
  BY DEF Resuming
<1>. HIDE DEF r, a
<1>3. ASSUME NEW t \in Thread
      PROVE  e[t].ci = f[t].ci /\ e[t].errfunc = f[t].errfunc /\ e[t].status = f[t].status
  BY <1>2 DEF lua_State
<1>4. CutTo(h, g, Len(h) - 1) /\ Len(h) \in DOMAIN h /\ a = h[Len(h)] /\ Len(h) \in Nat
  BY <1>2, PopTo, SeqLen DEF a
<1>. HIDE DEF e, g, h, f
<1>5. ASSUME NEW t \in Thread, e[t].status # "error"
      PROVE  Keeps(g, t, e[t].ci, e[t].errfunc) /\ TopNot(e[t].ci)
  <2>1. Keeps(h, t, f[t].ci, f[t].errfunc) /\ TopNot(f[t].ci)
    BY <1>3, <1>5 DEF AllKeep, f, h
  <2>2. OfSame(h, g, t)
    <3>1. ASSUME NEW k \in (Len(h) - 1) + 1..Len(h) PROVE h[k].L # t \/ h[k].kind = "resume"
      <4>1. k = Len(h)
        BY <1>4
      <4>. QED
        BY <1>2, <1>4, <4>1
    <3>. QED
      BY <1>4, <3>1, CutOthers
  <2>3. Keeps(g, t, f[t].ci, f[t].errfunc)
    BY <2>1, <2>2, KeepsOf
  <2>. QED
    BY <1>3, <2>1, <2>3
<1>6. AllKeep(g, e)
  BY <1>5 DEF AllKeep
<1>7. Cont(r.host, r.th, r.run, r.thrown)
  BY <1>1, <1>6, AllKeepCont
<1>. QED
  BY <1>7 DEF r

\* A state in which unroll goes on: the thread has no activation.
Unrolls(s) ==
  /\ Resuming(s) /\ s.run \in Thread /\ s.thrown = "no" /\ Of(s.host, s.run) = {} /\ s.th[s.run].status # "error"
  /\ \A t \in Thread : s.th[t].status # "error" => Keeps(s.host, t, s.th[t].ci, s.th[t].errfunc)
  /\ \A t \in Thread : s.th[t].status # "error" /\ t # s.run => TopNot(s.th[t].ci)

\* No Lua function waits for a protected call.
LEMMA LuaTopNot ==
  ASSUME NEW h, NEW t, NEW ci \in Seq(CallInfo), NEW e, Keeps(h, t, ci, e), ci = <<>> \/ Last(ci).lua
  PROVE  TopNot(ci)
<1>1. Len(ci) \in Nat /\ DOMAIN ci = 1..Len(ci) /\ Last(ci) = ci[Len(ci)]
  BY DEF Last
<1>2. ASSUME NEW p \in DOMAIN ci, ci[p].yp PROVE p < Len(ci)
  <2>1. ~ci[p].lua
    BY <1>2 DEF Keeps, Recoverable
  <2>2. p # Len(ci)
    BY <1>1, <2>1
  <2>. QED
    BY <1>1, <2>2
<1>. QED
  BY <1>2 DEF TopNot

\* finishCcall, without an activation.
LEMMA FinishKeeps ==
  ASSUME NEW h, NEW t, NEW v \in lua_State, Keeps(h, t, v.ci, v.errfunc), v.ci # <<>>, Of(h, t) = {}
  PROVE  LET u == EndYpcall(v) IN Keeps(h, t, u.ci, u.errfunc) /\ TopNot(u.ci)
<1>. DEFINE u == EndYpcall(v)
            z == << >>
<1>1. IsSeq(z) /\ Linked(z) /\ Of(z, t) = {}
  BY DEF IsSeq, Linked, Of
<1>. HIDE DEF z
<1>2. Keeps(z, t, v.ci, v.errfunc)
  BY <1>1, KeepsSame
<1>3. Keeps(z, t, u.ci, u.errfunc) /\ TopNot(u.ci)
  BY <1>1, <1>2, KeepsEndYpcall
<1>. HIDE DEF u
<1>4. Keeps(h, t, u.ci, u.errfunc)
  BY <1>1, <1>3, KeepsSame
<1>. QED
  BY <1>3, <1>4 DEF u

\* unroll.
LEMMA UnrollCont ==
  ASSUME NEW s, Unrolls(s)
  PROVE  LET r == unroll(s) IN Cont(r.host, r.th, r.run, r.thrown)
<1>. DEFINE r == unroll(s)
            f == s.th
            h == s.host
            o == s.run
            v == f[o]
            e == [s EXCEPT !.th[s.run] = EndYpcall(v)]
<1>1. /\ f \in [Thread -> lua_State] /\ o \in Thread /\ v \in lua_State /\ Resuming(s) /\ Of(h, o) = {} /\ v.status # "error"
      /\ DOMAIN s = {"th", "host", "run", "thrown"} /\ s.thrown = "no"
  BY DEF Unrolls, Resuming
<1>2. Keeps(h, o, v.ci, v.errfunc) /\ v.ci \in Seq(CallInfo)
  BY <1>1, ThreadIs DEF Unrolls
<1>3. ASSUME NEW t \in Thread, t # o, f[t].status # "error"
      PROVE  Keeps(h, t, f[t].ci, f[t].errfunc) /\ TopNot(f[t].ci)
  BY <1>3 DEF Unrolls
<1>4. r = (IF v.ci = <<>> THEN EndResume(s) ELSE IF Last(v.ci).lua THEN s ELSE e)
  BY Zenon DEF unroll
<1>5. CASE v.ci = <<>> \/ Last(v.ci).lua
  <2>1. TopNot(v.ci)
    BY <1>2, <1>5, LuaTopNot
  <2>2. AllKeep(h, f)
    <3>1. ASSUME NEW t \in Thread, f[t].status # "error" PROVE Keeps(h, t, f[t].ci, f[t].errfunc) /\ TopNot(f[t].ci)
      <4>1. CASE t = o
        BY <1>2, <2>1, <4>1
      <4>2. CASE t # o
        BY <1>3, <3>1, <4>2
      <4>. QED
        BY <4>1, <4>2
    <3>. QED
      BY <3>1 DEF AllKeep
  <2>3. CASE v.ci = <<>>
    <3>1. r = EndResume(s)
      BY <1>4, <2>3
    <3>. HIDE DEF r
    <3>2. Cont(r.host, r.th, r.run, r.thrown)
      BY <1>1, <2>2, <3>1, EndResumeCont
    <3>. QED
      BY <3>2 DEF r
  <2>4. CASE v.ci # <<>>
    <3>1. r = s
      BY <1>4, <1>5, <2>4
    <3>. HIDE DEF r
    <3>2. Cont(s.host, s.th, s.run, "no")
      BY <2>2, AllKeepCont
    <3>3. Cont(r.host, r.th, r.run, r.thrown)
      BY <1>1, <3>1, <3>2
    <3>. QED
      BY <3>3 DEF r
  <2>. QED
    BY <2>3, <2>4
<1>6. CASE v.ci # <<>> /\ ~Last(v.ci).lua
  <2>. DEFINE u == EndYpcall(v)
  <2>1. r = e
    BY <1>4, <1>6
  <2>2. Keeps(h, o, u.ci, u.errfunc) /\ TopNot(u.ci)
    <3>1. ASSUME NEW w \in lua_State, Keeps(h, o, w.ci, w.errfunc), w.ci # <<>>
          PROVE  LET z == EndYpcall(w) IN Keeps(h, o, z.ci, z.errfunc) /\ TopNot(z.ci)
      BY <1>1, <3>1, FinishKeeps
    <3>. QED
      BY <1>1, <1>2, <1>6, <3>1
  <2>. HIDE DEF u
  <2>3. e.host = h /\ e.thrown = "no" /\ e.th = [f EXCEPT ![o] = u]
    BY <1>1 DEF u
  <2>. HIDE DEF e, r
  <2>4. ASSUME NEW t \in Thread, e.th[t].status # "error"
        PROVE  Keeps(h, t, e.th[t].ci, e.th[t].errfunc) /\ TopNot(e.th[t].ci)
    <3>1. CASE t = o
      <4>1. e.th[t] = u
        BY <1>1, <2>3, <3>1
      <4>. QED
        BY <2>2, <3>1, <4>1
    <3>2. CASE t # o
      <4>1. e.th[t] = f[t]
        BY <1>1, <2>3, <3>2
      <4>. QED
        BY <1>3, <2>4, <3>2, <4>1
    <3>. QED
      BY <3>1, <3>2
  <2>5. AllKeep(h, e.th)
    BY <2>4 DEF AllKeep
  <2>6. Cont(h, e.th, e.run, "no")
    BY <2>5, AllKeepCont
  <2>7. Cont(r.host, r.th, r.run, r.thrown)
    BY <2>1, <2>3, <2>6
  <2>. QED
    BY <2>7 DEF r
<1>. QED
  BY <1>5, <1>6

\* The running thread becomes u and the throw y.
TurnedTo(r, u, g, y) == r.th = [th EXCEPT ![run] = u] /\ r.host = g /\ r.run = run /\ r.thrown = y

\* Activations of the running thread end.
LEMMA LeaveCont ==
  ASSUME NEW r, NEW u, NEW g, NEW m, NEW y, StackInv(State), ContInv, run # Nobody, CutTo(host, g, m),
         \A k \in m + 1..Len(host) : host[k].L = run \/ host[k].kind = "resume", TurnedTo(r, u, g, y), y # "yield",
         u.status # "error" => Keeps(g, run, u.ci, u.errfunc) /\ (y = "no" => TopNot(u.ci))
  PROVE  Cont(r.host, r.th, r.run, r.thrown)
<1>1. th \in [Thread -> lua_State] /\ run \in Thread
  BY RunStack
<1>2. Cont(host, th, run, thrown)
  BY DEF ContInv
<1>. DEFINE e == r.th
<1>3. r.host = g /\ r.run = run /\ r.thrown = y /\ e[run] = u /\ \A t \in Thread \ {run} : e[t] = th[t]
  BY <1>1 DEF TurnedTo
<1>. HIDE DEF e
<1>4. StepOf(host, th, g, e, run)
  <2>1. ASSUME NEW t \in Thread \ {run}
        PROVE  Of(g, t) = Of(host, t) /\ \A i \in Of(host, t) : g[i] = host[i]
    <3>1. \A k \in m + 1..Len(host) : host[k].L # t \/ host[k].kind = "resume"
      BY <2>1
    <3>2. OfSame(host, g, t)
      BY <3>1, CutOthers
    <3>. QED
      BY <3>2 DEF OfSame
  <2>. QED
    BY <1>3, <2>1 DEF StepOf
<1>5. /\ e[run].status # "error" => Keeps(g, run, e[run].ci, e[run].errfunc)
      /\ e[run].status # "error" /\ (run # run \/ y \in {"no", "yield"}) => TopNot(e[run].ci)
      /\ y = "yield" => e[run].nny = 0
  BY <1>3
<1>6. Cont(g, e, run, y)
  BY <1>2, <1>4, <1>5, ContMade
<1>. QED
  BY <1>3, <1>6 DEF e

\* What the end of a call from C leaves of the C stack.
LEMMA CallEnds ==
  ASSUME StackInv(State), ContInv, Running, host # <<>>, Last(host).kind \in {"call", "handler"}, Last(host).at = Depth,
         NEW q, q = SubSeq(L.ci, 1, Depth - 1), NEW g, NEW n, g = Pop(host), n = Len(host)
  PROVE  /\ CutTo(host, g, n - 1) /\ n \in Nat \ {0} /\ \A k \in (n - 1) + 1..n : host[k].L = run
         /\ Keeps(g, run, q, L.errfunc) /\ \A j \in Of(g, run) : Low(g[j]) <= Depth - 1
<1>1. run # Nobody /\ thrown = "no"
  BY DEF Running
<1>2. /\ IsSeq(host) /\ Linked(host) /\ n \in Nat /\ DOMAIN host = 1..n /\ Depth \in Nat /\ Depth >= 1
  BY <1>1, RunKeeps
<1>3. CutTo(host, g, n - 1) /\ n \in DOMAIN host /\ Last(host) = host[n]
  BY <1>2, PopTo
<1>4. n \in Nat \ {0} /\ DOMAIN g = 1..n - 1 /\ \A i \in 1..n - 1 : g[i] = host[i]
  BY <1>2, <1>3 DEF CutTo
<1>5. host[n].L = run
  BY <1>3, TopIs
<1>. DEFINE e == L.errfunc
<1>6. Keeps(host, run, q, e) /\ q \in Seq(CallInfo) /\ Len(q) = Depth - 1
  BY ReturnKeeps
<1>7. IsCall(host[n]) /\ host[n].at \in Nat /\ host[n].at > Len(q)
  BY <1>2, <1>3, <1>6 DEF IsCall
<1>. HIDE DEF e
<1>8. Keeps(g, run, q, e)
  BY <1>2, <1>4, <1>6, <1>7, KeepsDrop
<1>9. ASSUME NEW j \in Of(g, run) PROVE Low(g[j]) <= Depth - 1
  <2>1. j \in 1..n - 1 /\ g[j] = host[j] /\ host[j].L = run /\ host[j].kind # "resume"
    BY <1>4, <1>9 DEF Of
  <2>2. j \in 1..Len(host)
    BY <1>2, <2>1
  <2>3. Low(host[j]) <= Last(host).at - 1
    BY <2>1, <2>2, BelowTop
  <2>. QED
    BY <2>1, <2>3
<1>10. \A k \in (n - 1) + 1..n : host[k].L = run
  BY <1>2, <1>5
<1>. QED
  BY <1>3, <1>4, <1>8, <1>9, <1>10 DEF e

\* Return.
LEMMA ReturnCont ==
  ASSUME StackInv(State), ContInv, Return
  PROVE  ContInv'
<1>. DEFINE d == Depth
            v == [luaF_close(L, d) EXCEPT !.ci = Pop(@)]
            s == [State EXCEPT !.th[run] = [luaF_close(L, d) EXCEPT !.ci = Pop(@)]]
            h == Last(host)
            below == host[Len(host) - 1]
            counted == [s EXCEPT !.host = Pop(@), !.th[run].nCcalls = @ - 1, !.th[run].nny = IF h.ny THEN @ - 1 ELSE @]
            n == IF h.ny THEN L.nny - 1 ELSE L.nny
            c == [v EXCEPT !.nCcalls = @ - 1, !.nny = n]
            a == [counted EXCEPT !.thrown = "run"]
            b == [counted EXCEPT !.host = Pop(Pop(host)),
                            !.th[run].errfunc = below.errfunc, !.th[run].nCcalls = below.ncc]
            e == [counted EXCEPT !.th[run] = EndYpcall(@)]
            returns == host # <<>> /\ h.kind \in {"call", "handler"} /\ h.L = run /\ h.at = d
            protected == Len(host) > 1 /\ below.kind = "pcall" /\ below.L = run /\ below.at = d - 1 /\ below.of # "load"
            q == SubSeq(L.ci, 1, d - 1)
            g == Pop(host)
            k == Len(host)
            ef == L.errfunc
<1>1. Running /\ run # Nobody /\ thrown = "no"
  BY DEF Return, Running
<1>2. \/ (host = <<>> \/ (~returns /\ h.kind # "resume")) /\ Becomes(s)
      \/ returns /\ h.kind = "handler" /\ Becomes(a)
      \/ returns /\ h.kind # "handler" /\ protected /\ Becomes(b)
      \/ returns /\ h.kind # "handler" /\ ~protected /\ Becomes(e)
      \/ host # <<>> /\ h.kind = "resume" /\ Becomes(unroll(s))
  BY ZenonT(60) DEF Return
<1>3. /\ Stacked(host, th, run, thrown) /\ run \in Thread /\ L = th[run] /\ Owns(host, th, run, run, thrown)
      /\ L \in lua_State /\ Live(L) /\ d \in Nat /\ d >= 1 /\ d = Len(L.ci) /\ th \in [Thread -> lua_State]
      /\ IsSeq(host) /\ Len(host) \in Nat /\ DOMAIN host = 1..Len(host) /\ L.nny \in Int /\ DOMAIN th = Thread
      /\ Linked(host) /\ Ordered(host)
  BY <1>1, RunStack, ThreadIs DEF Stacked
<1>4. L.status = "ok"
  BY <1>1, <1>3 DEF Owns
<1>5. v \in lua_State /\ v.ci = q /\ v.errfunc = ef /\ v.status = "ok" /\ v.nny = L.nny
  <2>1. ASSUME NEW z \in lua_State, Live(z), z.status = "ok", Len(z.ci) >= 1
        PROVE  LET u == [luaF_close(z, Len(z.ci)) EXCEPT !.ci = Pop(@)]
               IN u \in lua_State /\ u.nny = z.nny /\ u.status = "ok" /\ u.errfunc = z.errfunc
    BY <2>1, PoppedIs
  <2>2. LET u == [luaF_close(L, Len(L.ci)) EXCEPT !.ci = Pop(@)]
        IN u \in lua_State /\ u.nny = L.nny /\ u.status = "ok" /\ u.errfunc = L.errfunc
    BY <1>3, <1>4, <2>1
  <2>3. v.ci = q
    <3>1. ASSUME NEW z \in lua_State, NEW m PROVE [luaF_close(z, m) EXCEPT !.ci = Pop(@)].ci = Pop(z.ci)
      BY DEF luaF_close, lua_State
    <3>. QED
      BY <1>3, <3>1 DEF Pop
  <2>. QED
    BY <1>3, <2>2, <2>3
<1>6. /\ DOMAIN s = {"th", "host", "run", "thrown"} /\ s.host = host /\ s.run = run /\ s.thrown = "no"
      /\ s.th = [th EXCEPT ![run] = v]
  BY <1>1, StateIs
<1>7. Keeps(host, run, q, ef) /\ q \in Seq(CallInfo) /\ Len(q) = d - 1 /\ DOMAIN q = 1..d - 1
  BY <1>1, ReturnKeeps
<1>8. q = SubSeq(L.ci, 1, Depth - 1)
  OBVIOUS
<1>. HIDE DEF s, v, d, q, ef
<1>9. n \in Int
  BY <1>3
<1>10. /\ counted.host = g /\ counted.run = run /\ DOMAIN counted = {"th", "host", "run", "thrown"}
      /\ counted.thrown = "no" /\ counted.th = [th EXCEPT ![run] = c]
  <2>1. /\ counted.host = Pop(host) /\ counted.run = run /\ counted.thrown = "no"
        /\ DOMAIN counted = {"th", "host", "run", "thrown"}
    BY <1>6
  <2>2. counted.th = [s.th EXCEPT ![run].nCcalls = @ - 1, ![run].nny = IF h.ny THEN @ - 1 ELSE @]
    BY <1>6, Zenon
  <2>3. counted.th = [s.th EXCEPT ![run] = [v EXCEPT !.nCcalls = @ - 1, !.nny = IF h.ny THEN v.nny - 1 ELSE v.nny]]
    BY <1>3, <1>5, <1>6, <2>2, ThreadIs
  <2>. QED
    BY <1>3, <1>5, <1>6, <2>1, <2>3, ZenonT(60)
<1>. HIDE DEF counted, n
<1>11. c \in lua_State /\ c.ci = q /\ c.errfunc = ef /\ c.status = "ok"
  <2>1. ASSUME NEW z \in lua_State, NEW m \in Int
        PROVE  LET u == [z EXCEPT !.nCcalls = @ - 1, !.nny = m]
               IN u \in lua_State /\ u.ci = z.ci /\ u.status = z.status /\ u.errfunc = z.errfunc
    BY CountedIs
  <2>. QED
    BY <1>5, <1>9, <2>1
<1>. HIDE DEF c, g, k
<1>12. ASSUME returns
       PROVE  /\ CutTo(host, g, k - 1) /\ k \in Nat \ {0} /\ (\A i \in (k - 1) + 1..k : host[i].L = run)
              /\ Keeps(g, run, q, ef) /\ \A j \in Of(g, run) : Low(g[j]) <= Len(q)
  <2>1. host # <<>> /\ Last(host).kind \in {"call", "handler"} /\ Last(host).at = Depth
    BY <1>12 DEF d
  <2>2. g = Pop(host) /\ k = Len(host)
    BY DEF g, k
  <2>3. /\ CutTo(host, g, k - 1) /\ k \in Nat \ {0} /\ (\A i \in (k - 1) + 1..k : host[i].L = run)
        /\ Keeps(g, run, q, L.errfunc) /\ \A j \in Of(g, run) : Low(g[j]) <= Depth - 1
    BY <1>1, <1>8, <2>1, <2>2, CallEnds
  <2>. QED
    BY <1>7, <2>3 DEF ef, d
<1>13. CASE (host = <<>> \/ (~returns /\ h.kind # "resume")) /\ Becomes(s)
  <2>1. host # <<>> => Last(host).kind \in {"call", "handler"} /\ Last(host).at # Depth
    <3>. SUFFICES ASSUME host # <<>> PROVE Last(host).kind \in {"call", "handler"} /\ Last(host).at # Depth
      OBVIOUS
    <3>1. h.L = run /\ h.kind \in {"call", "handler", "resume"}
      BY <1>1, TopIs
    <3>. QED
      BY <1>13, <3>1 DEF d
  <2>2. TopNot(q)
    BY <1>1, <1>8, <2>1, PlainTopNot
  <2>3. TurnedTo(s, v, host, "no")
    BY <1>6 DEF TurnedTo
  <2>4. CutTo(host, host, Len(host)) /\ \A i \in Len(host) + 1..Len(host) : host[i].L = run
    BY <1>3 DEF CutTo
  <2>5. Keeps(host, run, v.ci, v.errfunc) /\ TopNot(v.ci)
    BY <1>5, <1>7, <2>2
  <2>6. Cont(s.host, s.th, s.run, s.thrown)
    BY <1>1, <2>3, <2>4, <2>5, LeaveCont
  <2>. QED
    BY <1>13, <2>6, BecomesCont
<1>14. CASE host # <<>> /\ h.kind = "resume" /\ Becomes(unroll(s))
  <2>1. Of(host, run) = {}
    <3>1. k \in DOMAIN host /\ h = host[k] /\ k \in Nat /\ DOMAIN host = 1..k /\ h.L = run
      BY <1>1, <1>3, <1>14, PopTo, TopIs DEF k
    <3>2. k \in 1..Len(host) /\ host[k].kind = "resume" /\ host[k].L = run
      BY <1>14, <3>1 DEF k
    <3>3. \A i \in 1..k : ~(host[i].L = run /\ host[i].kind # "resume")
      BY <1>1, <3>2, NoneAbove
    <3>. QED
      BY <3>1, <3>3 DEF Of
  <2>2. s.th \in [Thread -> lua_State] /\ s.th[run] = v /\ \A t \in Thread \ {run} : s.th[t] = th[t]
    BY <1>3, <1>5, <1>6
  <2>3. ASSUME NEW t \in Thread, t # run, s.th[t].status # "error"
        PROVE  Keeps(host, t, s.th[t].ci, s.th[t].errfunc) /\ TopNot(s.th[t].ci)
    BY <1>1, <2>2, <2>3 DEF ContInv, Cont
  <2>4. Keeps(host, run, s.th[run].ci, s.th[run].errfunc) /\ s.th[run].status # "error"
    BY <1>5, <1>7, <2>2
  <2>5. Resuming(s)
    BY <1>3, <1>6, <1>14, <2>2 DEF Resuming
  <2>6. \A t \in Thread : s.th[t].status # "error" => Keeps(host, t, s.th[t].ci, s.th[t].errfunc)
    BY <2>3, <2>4
  <2>7. \A t \in Thread : s.th[t].status # "error" /\ t # run => TopNot(s.th[t].ci)
    BY <2>3
  <2>8. Unrolls(s)
    BY <1>3, <1>6, <2>1, <2>4, <2>5, <2>6, <2>7 DEF Unrolls
  <2>. DEFINE r == unroll(s)
  <2>9. Cont(r.host, r.th, r.run, r.thrown)
    BY <2>8, UnrollCont
  <2>. HIDE DEF r
  <2>. QED
    BY <1>14, <2>9, BecomesCont DEF r
<1>15. CASE returns /\ h.kind = "handler" /\ Becomes(a)
  <2>1. TurnedTo(a, c, g, "run")
    BY <1>10 DEF TurnedTo
  <2>. HIDE DEF a
  <2>2. Keeps(g, run, c.ci, c.errfunc)
    BY <1>11, <1>12, <1>15
  <2>3. Cont(a.host, a.th, a.run, a.thrown)
    BY <1>1, <1>12, <1>15, <2>1, <2>2, LeaveCont DEF k
  <2>. QED
    BY <1>15, <2>3, BecomesCont
<1>16. CASE returns /\ h.kind # "handler" /\ protected /\ Becomes(b)
  <2>. DEFINE j == k - 1
              u == [c EXCEPT !.errfunc = below.errfunc, !.nCcalls = below.ncc]
              p == SubSeq(host, 1, j - 1)
  <2>1. /\ j \in 1..Len(host) /\ host[j].kind = "pcall" /\ host[j].L = run /\ host[j].at = d - 1 /\ j - 1 \in 0..Len(host)
        /\ j \in Nat /\ k = j + 1 /\ k = Len(host) /\ below = host[j]
    BY <1>3, <1>16 DEF k
  <2>2. b.host = p
    BY <1>3, <1>10, <1>16, PopTwo DEF k
  <2>3. /\ b.run = run /\ b.thrown = "no" /\ b.th = [th EXCEPT ![run] = u]
    BY <1>3, <1>10
  <2>4. TurnedTo(b, u, p, "no")
    BY <2>2, <2>3, Zenon DEF TurnedTo
  <2>. HIDE DEF b, below
  <2>5. u.ci = q /\ u.errfunc = below.errfunc
    <3>1. ASSUME NEW x, NEW y PROVE LET z == [c EXCEPT !.errfunc = x, !.nCcalls = y] IN z.ci = c.ci /\ z.errfunc = x
      BY <1>11 DEF lua_State
    <3>. QED
      BY <1>11, <3>1
  <2>. HIDE DEF u, p, j
  <2>6. CutTo(host, p, j - 1)
    BY <1>3, <2>1, CutToIs DEF p
  <2>7. CutAt(host, p, run, j)
    <3>1. j \in 1..k /\ DOMAIN host = 1..k /\ DOMAIN p = 1..j - 1 /\ (\A i \in 1..j - 1 : p[i] = host[i]) /\ k \in Nat
      BY <1>3, <2>1, <2>6 DEF CutTo
    <3>. QED
      BY <2>1, <3>1, CutPcalls
  <2>8. Keeps(p, run, q, host[j].errfunc) /\ TopNot(q)
    <3>. DEFINE m == host[j].at
    <3>1. m = host[j].at /\ m <= Len(q) /\ Len(q) = m /\ DOMAIN q = 1..m /\ \A i \in 1..m : q[i] = q[i]
      BY <1>3, <1>7, <2>1
    <3>2. k \in Nat /\ j \in 1..k /\ DOMAIN host = 1..k
      BY <1>3, <2>1
    <3>. HIDE DEF m
    <3>. QED
      BY <1>3, <1>7, <2>1, <2>7, <3>1, <3>2, KeepsCut
  <2>9. Keeps(p, run, u.ci, u.errfunc) /\ TopNot(u.ci)
    BY <2>1, <2>5, <2>8
  <2>10. \A i \in (j - 1) + 1..Len(host) : host[i].L = run
    <3>1. host[k].L = run
      BY <1>12, <1>16
    <3>. QED
      BY <1>3, <2>1, <3>1
  <2>11. Cont(b.host, b.th, b.run, b.thrown)
    BY <1>1, <2>4, <2>6, <2>9, <2>10, LeaveCont
  <2>. QED
    BY <1>16, <2>11, BecomesCont
<1>17. CASE returns /\ h.kind # "handler" /\ ~protected /\ Becomes(e)
  <2>. DEFINE u == EndYpcall(c)
  <2>1. e.host = g /\ e.run = run /\ e.thrown = "no" /\ e.th = [th EXCEPT ![run] = u]
    BY <1>3, <1>10
  <2>2. TurnedTo(e, u, g, "no")
    BY <2>1, Zenon DEF TurnedTo
  <2>3. q # <<>>
    <3>1. host # <<>> /\ Last(host).kind # "resume" /\ Last(host).at = d
      BY <1>17
    <3>2. d >= 2
      BY <1>1, <3>1, TopIs
    <3>. QED
      BY <1>3, <1>7, <3>2
  <2>4. IsSeq(g) /\ Linked(g)
    <3>1. CutTo(host, g, k - 1) /\ k \in Nat \ {0} /\ g = SubSeq(host, 1, k - 1) /\ k - 1 \in 0..Len(host)
      BY <1>3, <1>12, <1>17 DEF k, g, Pop
    <3>. QED
      BY <1>3, <3>1, CutStack DEF Stacked
  <2>5. Keeps(g, run, u.ci, u.errfunc) /\ TopNot(u.ci)
    <3>1. ASSUME NEW w \in lua_State, Keeps(g, run, w.ci, w.errfunc), w.ci # <<>>,
                 \A j \in Of(g, run) : Low(g[j]) <= Len(w.ci)
          PROVE  LET z == EndYpcall(w) IN Keeps(g, run, z.ci, z.errfunc) /\ TopNot(z.ci)
      BY <2>4, <3>1, KeepsEndYpcall
    <3>2. Keeps(g, run, c.ci, c.errfunc) /\ c.ci # <<>> /\ \A j \in Of(g, run) : Low(g[j]) <= Len(c.ci)
      BY <1>11, <1>12, <1>17, <2>3
    <3>. QED
      BY <1>11, <3>1, <3>2
  <2>. HIDE DEF e, u
  <2>6. Cont(e.host, e.th, e.run, e.thrown)
    BY <1>1, <1>12, <1>17, <2>2, <2>5, LeaveCont DEF k
  <2>. QED
    BY <1>17, <2>6, BecomesCont
<1>. QED
  BY <1>2, <1>13, <1>14, <1>15, <1>16, <1>17

-----------------------------------------------------------------------------
(* Throws. *)

\* Above what catches there is only the thread that runs.
LEMMA AboveIsRun ==
  ASSUME StackInv(State), run # Nobody, NEW j \in 1..Len(host), host[j].kind \in {"pcall", "resume"}, host[j].L = run
  PROVE  /\ \A k \in j + 1..Len(host) : host[k].L = run /\ host[k].kind # "resume"
         /\ host[j].kind = "resume" => run # Main
<1>1. /\ IsSeq(host) /\ Linked(host) /\ Apart(host) /\ Len(host) \in Nat /\ DOMAIN host = 1..Len(host)
      /\ run = Owner(host, Len(host))
  BY RunStack DEF Stacked
<1>2. j \in 0..Len(host) /\ Owner(host, j) = run /\ j \in DOMAIN host /\ Len(host) \in j..Len(host)
  BY <1>1 DEF Owner
<1>3. \A k \in j + 1..Len(host) : host[k].kind # "resume" /\ host[k].L = Owner(host, j)
  BY <1>1, <1>2, OneRun
<1>4. ASSUME host[j].kind = "resume" PROVE run # Main
  <2>1. 0 \in 0..(j - 1) /\ j \in j..Len(host) /\ Owner(host, 0) = Main
    BY <1>1 DEF Owner
  <2>. QED
    BY <1>1, <1>2, <1>4, <2>1 DEF Apart
<1>. QED
  BY <1>2, <1>3, <1>4

\* luaD_pcall catches.
LEMMA CaughtByPcallCont ==
  ASSUME NEW j \in 1..Len(host), StackInv(State), ContInv, run # Nobody, host[j].kind = "pcall", host[j].L = run,
         CaughtByPcall(j)
  PROVE  ContInv'
<1>. DEFINE f == host[j]
            w == [luaF_close(L, f.at + 1) EXCEPT !.ci = SubSeq(@, 1, f.at)]
            u == Restored(w, f.nny, f.ncc, f.errfunc)
            s == [State EXCEPT !.host = SubSeq(@, 1, j - 1), !.thrown = "no",
             !.th[run] = [luaF_close(L, f.at + 1) EXCEPT
                !.ci = SubSeq(@, 1, f.at), !.nny = f.nny, !.nCcalls = f.ncc, !.errfunc = f.errfunc]]
            r == [s EXCEPT !.thrown = "gcmm"]
            g == SubSeq(host, 1, j - 1)
            ci == L.ci
            ef == L.errfunc
            q == SubSeq(L.ci, 1, f.at)
            n == Len(host)
<1>1. /\ L \in lua_State /\ L = th[run] /\ run \in Thread /\ DOMAIN th = Thread
      /\ Depth = Len(ci) /\ Depth \in Nat /\ Keeps(host, run, ci, ef) /\ ci \in Seq(CallInfo)
      /\ IsSeq(host) /\ Linked(host) /\ Ordered(host) /\ n \in Nat /\ DOMAIN host = 1..n
  BY RunStack, RunKeeps
<1>2. /\ f.nny \in Int /\ f.ncc \in Int /\ f.errfunc \in Nat /\ f.at \in Nat /\ f.at <= Depth /\ f.at >= 1
  BY SavedIs
<1>3. Becomes(s) \/ Becomes(r)
  BY Zenon DEF CaughtByPcall
<1>4. [luaF_close(L, f.at + 1) EXCEPT
                !.ci = SubSeq(@, 1, f.at), !.nny = f.nny, !.nCcalls = f.ncc, !.errfunc = f.errfunc] = u
  BY <1>1, CloseIs DEF Restored, lua_State
<1>5. TurnedTo(s, u, g, "no") /\ TurnedTo(r, u, g, "gcmm")
  BY <1>4, StateIs DEF TurnedTo
<1>6. u.ci = q /\ u.errfunc = f.errfunc
  <2>1. w.ci = q /\ DOMAIN w = {"ci", "status", "nny", "nCcalls", "errfunc", "open", "fn"}
    <3>. DEFINE x == luaF_close(L, f.at + 1)
    <3>1. x \in lua_State /\ x.ci = L.ci /\ w = [x EXCEPT !.ci = SubSeq(@, 1, f.at)]
      BY <1>1, CloseIs
    <3>2. DOMAIN x = {"ci", "status", "nny", "nCcalls", "errfunc", "open", "fn"}
      BY <3>1, ThreadIs
    <3>. HIDE DEF x, w
    <3>3. w = [x EXCEPT !.ci = q]
      BY <3>1
    <3>. HIDE DEF q
    <3>. QED
      BY <3>2, <3>3
  <2>. HIDE DEF w
  <2>2. u.ci = w.ci /\ u.errfunc = f.errfunc
    BY <2>1 DEF Restored
  <2>. QED
    BY <2>1, <2>2
<1>. HIDE DEF s, u, r
<1>7. CutTo(host, g, j - 1)
  <2>1. j - 1 \in 0..Len(host)
    BY <1>1
  <2>. QED
    BY <1>1, <2>1, CutToIs
<1>8. /\ Len(q) = f.at /\ DOMAIN q = 1..f.at /\ \A i \in 1..f.at : q[i] = ci[i]
  BY <1>1, <1>2
<1>. HIDE DEF g, ci, ef, q, n
<1>9. CutAt(host, g, run, j)
  <2>1. j \in 1..n /\ DOMAIN g = 1..j - 1 /\ \A i \in 1..j - 1 : g[i] = host[i]
    BY <1>7 DEF CutTo, n
  <2>. QED
    BY <1>1, <2>1, CutPcalls
<1>10. Keeps(g, run, q, host[j].errfunc) /\ TopNot(q)
  <2>. DEFINE m == host[j].at
  <2>1. /\ m = host[j].at /\ m <= Len(ci) /\ Len(q) = m /\ DOMAIN q = 1..m /\ \A i \in 1..m : q[i] = ci[i]
        /\ j \in 1..n
    BY <1>1, <1>2, <1>8 DEF n
  <2>. HIDE DEF m
  <2>. QED
    BY <1>1, <1>9, <2>1, KeepsCut
<1>11. \A k \in (j - 1) + 1..Len(host) : host[k].L = run \/ host[k].kind = "resume"
  <2>1. \A k \in j + 1..Len(host) : host[k].L = run
    BY AboveIsRun
  <2>. QED
    BY <2>1
<1>12. Keeps(g, run, u.ci, u.errfunc) /\ TopNot(u.ci)
  BY <1>6, <1>10
<1>13. Cont(s.host, s.th, s.run, s.thrown)
  BY <1>5, <1>7, <1>11, <1>12, LeaveCont
<1>14. Cont(r.host, r.th, r.run, r.thrown)
  <2>1. "gcmm" # "yield"
    OBVIOUS
  <2>. DEFINE y == "gcmm"
  <2>2. TurnedTo(r, u, g, y) /\ y # "yield"
    BY <1>5
  <2>. HIDE DEF y
  <2>. QED
    BY <1>7, <1>11, <1>12, <2>2, LeaveCont
<1>. QED
  BY <1>3, <1>13, <1>14, BecomesCont

\* A yield on its way meets only calls that let it pass.
LEMMA YieldPasses ==
  ASSUME StackInv(State), ContInv, run # Nobody, thrown = "yield"
  PROVE  \A j \in Of(host, run) : IsCall(host[j]) /\ ~host[j].ny
<1>1. /\ Stacked(host, th, run, thrown) /\ Len(host) \in Nat /\ DOMAIN host = 1..Len(host) /\ Linked(host)
      /\ Owns(host, th, run, run, thrown) /\ L = th[run]
  BY RunStack DEF Stacked
<1>2. th[run].nny = 0
  BY DEF ContInv, Cont
<1>3. 0 = Base0(run) + Nny(host, run, Len(host)) /\ Nny(host, run, Len(host)) \in Nat
  BY <1>1, <1>2, NnyStep DEF Owns
<1>4. Nny(host, run, Len(host)) = 0
  BY <1>3 DEF Base0
<1>5. \A i \in 1..Len(host) : ~(host[i].L = run /\ NoYield(host[i]))
  BY <1>1, <1>4, NnyZero
<1>6. ASSUME NEW j \in Of(host, run) PROVE IsCall(host[j]) /\ ~host[j].ny
  <2>1. j \in 1..Len(host) /\ host[j].L = run /\ host[j].kind # "resume" /\ j \in DOMAIN host
    BY <1>1 DEF Of
  <2>2. host[j].kind # "pcall"
    BY <1>1, <2>1 DEF Stacked, Yields
  <2>3. IsCall(host[j])
    BY <1>1, <2>1, <2>2 DEF Linked, IsCall
  <2>. QED
    BY <1>5, <2>1, <2>3 DEF NoYield
<1>. QED
  BY <1>6

\* A thread with other frames is a thread.
WithCi(v, c) == [v EXCEPT !.ci = c, !.nny = 0]

\* It has them.
LEMMA WithCiIs ==
  ASSUME NEW v \in lua_State, NEW c \in Seq(CallInfo)
  PROVE  WithCi(v, c).ci = c /\ WithCi(v, c) \in lua_State
<1>1. ASSUME NEW n \in Int PROVE LET u == [v EXCEPT !.ci = c, !.nny = n] IN u.ci = c /\ u \in lua_State
  BY DEF lua_State
<1>2. 0 \in Int
  OBVIOUS
<1>. QED
  BY <1>1, <1>2, Zenon DEF WithCi

\* What recovery leaves: the frames up to the protected call, which ends.
LEMMA RecoverKeeps ==
  ASSUME NEW h, NEW g, NEW t, NEW v \in lua_State, NEW p \in DOMAIN v.ci, Keeps(h, t, v.ci, v.errfunc), v.ci[p].yp,
         Of(g, t) = {}, t # Main
  PROVE  LET u == recover(v, p) IN Keeps(g, t, u.ci, u.errfunc) /\ TopNot(u.ci)
<1>. DEFINE ci == v.ci
            e == v.errfunc
            d == SubSeq(ci, 1, p)
            x == ci[p].ef
            z == [luaF_close(v, p + 1) EXCEPT !.ci = SubSeq(@, 1, p), !.nny = 0]
            y == [z EXCEPT !.errfunc = x]
<1>1. ci \in Seq(CallInfo) /\ p \in 1..Len(ci) /\ Len(ci) \in Nat /\ ci[p] \in CallInfo /\ x \in Nat
  <2>1. ci \in Seq(CallInfo) /\ p \in 1..Len(ci) /\ Len(ci) \in Nat /\ ci[p] \in CallInfo
    BY ThreadIs
  <2>2. x \in Nat
    BY <2>1 DEF CallInfo
  <2>. QED
    BY <2>1, <2>2
<1>2. luaF_close(v, p + 1) \in lua_State /\ luaF_close(v, p + 1).ci = ci
  BY CloseIs
<1>3. /\ Keeps(g, t, d, x)
      /\ Len(d) = p /\ DOMAIN d = 1..p /\ d \in Seq(CallInfo) /\ d # <<>>
      /\ \A i \in 1..p : d[i] = ci[i]
  <2>1. Keeps(h, t, ci, e) /\ UpTo(d, ci, p) /\ x = ci[p].ef
    BY DEF UpTo
  <2>. HIDE DEF ci, e, d, x, z, y
  <2>2. p \in DOMAIN ci
    BY <1>1
  <2>3. Of(g, t) = {} /\ t # Main /\ ci \in Seq(CallInfo)
    BY <1>1
  <2>4. Recovers(g, t, d, ci, p)
    BY <2>1, <2>2, <2>3, KeepsRecover
  <2>. QED
    BY <2>1, <2>4 DEF Recovers
<1>. HIDE DEF d, x
<1>4. z = [luaF_close(v, p + 1) EXCEPT !.ci = d, !.nny = 0]
  BY <1>2 DEF d
<1>5. z.ci = d /\ z \in lua_State
  <2>. DEFINE w == luaF_close(v, p + 1)
  <2>1. w \in lua_State /\ z = WithCi(w, d)
    BY <1>2, <1>4 DEF WithCi
  <2>. HIDE DEF w, z
  <2>. QED
    BY <1>3, <2>1, WithCiIs
<1>6. recover(v, p) = EndYpcall(z)
  BY DEF recover
<1>. HIDE DEF z
<1>7. y \in lua_State /\ y.ci = d /\ y.errfunc = x
  <2>1. ASSUME NEW w \in lua_State, NEW n \in Nat
        PROVE  LET k == [w EXCEPT !.errfunc = n] IN k.ci = w.ci /\ k \in lua_State /\ k.errfunc = n
    BY DEF lua_State
  <2>. QED
    BY <1>1, <1>5, <2>1 DEF x
<1>8. Last(d).yp /\ Len(d) \in DOMAIN d
  BY <1>1, <1>3 DEF Last
<1>9. EndYpcall(y).ci = EndYpcall(z).ci /\ EndYpcall(y).errfunc = EndYpcall(z).errfunc
  <2>1. ASSUME NEW w \in lua_State, Last(w.ci).yp, w.ci = d
        PROVE  /\ EndYpcall(w).ci = [d EXCEPT ![Len(d)] = [d[Len(d)] EXCEPT !.yp = FALSE, !.ef = 0, !.oldef = 0]]
               /\ EndYpcall(w).errfunc = Last(d).oldef
    <3>1. EndYpcall(w) = [w EXCEPT !.ci[Len(w.ci)] = [@ EXCEPT !.yp = FALSE, !.ef = 0, !.oldef = 0],
                            !.errfunc = Last(w.ci).oldef]
      BY <2>1, Zenon DEF EndYpcall
    <3>2. EndYpcall(w) = [w EXCEPT !.ci = [w.ci EXCEPT ![Len(w.ci)] =
                                              [w.ci[Len(w.ci)] EXCEPT !.yp = FALSE, !.ef = 0, !.oldef = 0]],
                            !.errfunc = Last(w.ci).oldef]
      BY <3>1, ThreadIs
    <3>. QED
      BY <2>1, <3>2 DEF lua_State
  <2>. HIDE DEF y
  <2>. QED
    BY <1>5, <1>7, <1>8, <2>1
<1>. HIDE DEF y
<1>10. LET u == EndYpcall(y) IN Keeps(g, t, u.ci, u.errfunc) /\ TopNot(u.ci)
  BY <1>3, <1>7, FinishKeeps
<1>. QED
  BY <1>6, <1>9, <1>10

\* The running thread becomes z, with the C stack g.
Left(s, g, z) ==
  /\ DOMAIN s = {"th", "host", "run", "thrown"} /\ s.host = g /\ s.run = run /\ s.thrown = "no"
  /\ s.th = [th EXCEPT ![run] = z]

\* What a coroutine that its resume catches leaves to the other threads.
LEMMA LeftKeeps ==
  ASSUME NEW j \in 1..Len(host), NEW g, NEW s, NEW z, StackInv(State), ContInv, run # Nobody, host[j].kind = "resume",
         host[j].L = run, CutTo(host, g, j), Left(s, g, z),
         z.status # "error" => Keeps(g, run, z.ci, z.errfunc) /\ TopNot(z.ci)
  PROVE  AllKeep(s.host, s.th)
<1>. DEFINE e == s.th
<1>1. th \in [Thread -> lua_State] /\ run \in Thread
  BY RunStack
<1>2. s.host = g /\ e[run] = z /\ \A t \in Thread \ {run} : e[t] = th[t]
  BY <1>1 DEF Left
<1>. HIDE DEF e
<1>3. Cont(host, th, run, thrown)
  BY DEF ContInv
<1>4. ASSUME NEW t \in Thread, t # run, th[t].status # "error"
      PROVE  Keeps(g, t, th[t].ci, th[t].errfunc) /\ TopNot(th[t].ci)
  <2>1. Keeps(host, t, th[t].ci, th[t].errfunc) /\ TopNot(th[t].ci)
    BY <1>3, <1>4 DEF Cont
  <2>2. \A k \in j + 1..Len(host) : host[k].L # t \/ host[k].kind = "resume"
    BY <1>4, AboveIsRun
  <2>3. OfSame(host, g, t)
    BY <2>2, CutOthers
  <2>. QED
    BY <2>1, <2>3, KeepsOf
<1>5. ASSUME NEW t \in Thread, e[t].status # "error"
      PROVE  Keeps(g, t, e[t].ci, e[t].errfunc) /\ TopNot(e[t].ci)
  <2>1. CASE t = run
    BY <1>2, <1>5, <2>1
  <2>2. CASE t # run
    <3>1. e[t] = th[t]
      BY <1>2, <2>2
    <3>. QED
      BY <1>4, <1>5, <2>2, <3>1
  <2>. QED
    BY <2>1, <2>2
<1>6. AllKeep(g, e)
  BY <1>5 DEF AllKeep
<1>. QED
  BY <1>2, <1>6 DEF e

\* lua_resume catches.
LEMMA CaughtByResumeCont ==
  ASSUME NEW j \in 1..Len(host), StackInv(State), ContInv, run # Nobody, thrown # "no", host[j].kind = "resume",
         host[j].L = run, CaughtByResume(j)
  PROVE  ContInv'
<1>. DEFINE f == host[j]
            g == SubSeq(host, 1, j)
            v == [L EXCEPT !.nCcalls = f.ncc]
            s == [State EXCEPT !.host = SubSeq(@, 1, j), !.thrown = "no", !.th[run].nCcalls = f.ncc]
            q == [s EXCEPT !.th[run] = recover(@, Max(findpcall))]
            d == [s EXCEPT !.th[run] = MarkDead(@)]
            ci == L.ci
            ef == L.errfunc
<1>1. /\ th \in [Thread -> lua_State] /\ L \in lua_State /\ L = th[run] /\ run \in Thread /\ ci \in Seq(CallInfo)
      /\ Depth = Len(ci) /\ Depth \in Nat /\ DOMAIN ci = 1..Depth /\ Keeps(host, run, ci, ef)
      /\ IsSeq(host) /\ Linked(host) /\ Len(host) \in Nat
  BY RunStack, RunKeeps
<1>2. Becomes(IF thrown = "yield" THEN EndResume(s) ELSE IF findpcall # {} THEN q ELSE EndResume(d))
  BY Zenon DEF CaughtByResume
<1>3. CutTo(host, g, j) /\ j \in Nat /\ j >= 1
  <2>1. j \in 0..Len(host)
    BY <1>1
  <2>. QED
    BY <1>1, <2>1, CutToIs
<1>4. g # <<>> /\ Last(g) = host[j] /\ IsSeq(g)
  <2>1. Len(g) = j /\ g[j] = host[j]
    BY <1>3 DEF CutTo
  <2>. QED
    BY <1>3, <2>1 DEF Last, CutTo
<1>5. Of(g, run) = {}
  <2>1. \A i \in 1..j : ~(host[i].L = run /\ host[i].kind # "resume")
    BY NoneAbove
  <2>2. DOMAIN g = 1..j /\ \A i \in 1..j : g[i] = host[i]
    BY <1>3 DEF CutTo
  <2>. QED
    BY <2>1, <2>2 DEF Of
<1>6. run # Main
  BY AboveIsRun
<1>7. f.ncc \in Int
  <2>1. f.kind = "resume"
    OBVIOUS
  <2>2. j \in DOMAIN host
    BY <1>1, SeqLen
  <2>. QED
    BY <1>1, <2>1, <2>2 DEF Linked
<1>. HIDE DEF f
<1>8. v \in lua_State /\ v.ci = L.ci /\ v.errfunc = L.errfunc /\ v.status = L.status
  <2>1. ASSUME NEW n \in Int
        PROVE  LET z == [L EXCEPT !.nCcalls = n]
               IN z \in lua_State /\ z.ci = L.ci /\ z.errfunc = L.errfunc /\ z.status = L.status
    BY <1>1 DEF lua_State
  <2>. QED
    BY <1>7, <2>1
<1>9. Left(s, g, v)
  BY <1>1, StateIs DEF Left
<1>. HIDE DEF v, g, s
<1>10. Left(q, g, recover(v, Max(findpcall))) /\ Left(d, g, MarkDead(v))
  BY <1>1, <1>9 DEF Left
<1>11. MarkDead(v) \in lua_State /\ MarkDead(v).status = "error"
  BY <1>8 DEF MarkDead, lua_State
<1>. HIDE DEF q, d
<1>12. ASSUME NEW w, NEW z \in lua_State, Left(w, g, z), z.status # "error" => Keeps(g, run, z.ci, z.errfunc) /\ TopNot(z.ci)
       PROVE  LET r == EndResume(w) IN Cont(r.host, r.th, r.run, r.thrown)
  <2>1. AllKeep(w.host, w.th)
    BY <1>3, <1>12, LeftKeeps
  <2>2. Resuming(w)
    BY <1>1, <1>4, <1>12 DEF Resuming, Left
  <2>. QED
    BY <2>1, <2>2, EndResumeCont
<1>13. CASE thrown = "yield"
  <2>1. \A i \in Of(host, run) : IsCall(host[i]) /\ ~host[i].ny
    BY <1>13, YieldPasses
  <2>. HIDE DEF ci, ef
  <2>2. Keeps(g, run, ci, ef)
    BY <1>1, <1>5, <1>6, <2>1, KeepsYield
  <2>3. TopNot(ci) \/ v.status = "error"
    BY <1>1, <1>8, <1>13 DEF ContInv, Cont, ci
  <2>4. v.status # "error" => Keeps(g, run, v.ci, v.errfunc) /\ TopNot(v.ci)
    BY <1>8, <2>2, <2>3 DEF ci, ef
  <2>. DEFINE r == EndResume(s)
  <2>5. Cont(r.host, r.th, r.run, r.thrown)
    BY <1>8, <1>9, <1>12, <2>4
  <2>6. Becomes(r)
    BY <1>2, <1>13
  <2>. HIDE DEF r
  <2>. QED
    BY <2>5, <2>6, BecomesCont
<1>14. CASE thrown # "yield" /\ findpcall = {}
  <2>. DEFINE r == EndResume(d)
  <2>1. Cont(r.host, r.th, r.run, r.thrown)
    BY <1>10, <1>11, <1>12
  <2>2. Becomes(r)
    BY <1>2, <1>14
  <2>. HIDE DEF r
  <2>. QED
    BY <2>1, <2>2, BecomesCont
<1>15. CASE thrown # "yield" /\ findpcall # {}
  <2>. DEFINE p == Max(findpcall)
              u == recover(v, p)
  <2>1. findpcall \in SUBSET (1..Depth)
    BY <1>1 DEF findpcall
  <2>2. p \in findpcall
    BY <1>1, <1>15, <2>1, MaxInSet
  <2>. HIDE DEF p
  <2>3. p \in DOMAIN v.ci /\ v.ci[p].yp /\ Keeps(host, run, v.ci, v.errfunc)
    BY <1>1, <1>8, <2>2 DEF findpcall
  <2>4. Keeps(g, run, u.ci, u.errfunc) /\ TopNot(u.ci)
    <3>1. ASSUME NEW o, NEW n, Keeps(o, n, v.ci, v.errfunc), Of(g, n) = {}, n # Main
          PROVE  LET y == recover(v, p) IN Keeps(g, n, y.ci, y.errfunc) /\ TopNot(y.ci)
      BY <1>8, <2>3, <3>1, RecoverKeeps
    <3>. QED
      BY <1>5, <1>6, <2>3, <3>1
  <2>5. Left(q, g, u)
    BY <1>10 DEF p
  <2>. HIDE DEF u
  <2>6. AllKeep(q.host, q.th)
    BY <1>3, <2>4, <2>5, LeftKeeps
  <2>7. Cont(q.host, q.th, q.run, "no") /\ q.thrown = "no"
    BY <2>5, <2>6, AllKeepCont DEF Left
  <2>8. Becomes(q)
    BY <1>2, <1>15
  <2>. QED
    BY <2>7, <2>8, BecomesCont
<1>. QED
  BY <1>13, <1>14, <1>15

\* A throw unwinds the C stack down to what catches it.
LEMMA ThrownCont ==
  ASSUME StackInv(State), ContInv, luaD_throw
  PROVE  ContInv'
<1>1. run # Nobody /\ thrown # "no"
  BY StateIs DEF StackInv, luaD_throw
<1>2. CASE Catchers = {}
  <2>. DEFINE r == [State EXCEPT !.run = Nobody, !.thrown = "no"]
  <2>1. r.th = th /\ r.host = host /\ r.run = Nobody /\ r.thrown = "no"
    BY StateIs
  <2>2. Becomes(r)
    BY <1>2 DEF luaD_throw
  <2>. HIDE DEF r
  <2>3. Cont(host, th, Nobody, "no")
    <3>1. \A t \in Thread : th[t].status # "error" => Keeps(host, t, th[t].ci, th[t].errfunc)
      BY DEF ContInv, Cont
    <3>2. "no" # "yield"
      OBVIOUS
    <3>. QED
      BY <3>1, <3>2 DEF Cont
  <2>. QED
    BY <2>1, <2>2, <2>3, BecomesCont
<1>3. CASE Catchers # {}
  <2>. DEFINE j == Max(Catchers)
  <2>1. Len(host) \in Nat /\ DOMAIN host = 1..Len(host)
    BY <1>1, RunStack
  <2>2. Catchers \in SUBSET (1..Len(host))
    BY <2>1 DEF Catchers
  <2>3. j \in Catchers /\ j \in 1..Len(host)
    BY <1>3, <2>1, <2>2, MaxInSet
  <2>4. IF host[j].kind = "pcall" THEN CaughtByPcall(j) ELSE CaughtByResume(j)
    BY <1>3 DEF luaD_throw
  <2>. HIDE DEF j
  <2>5. host[j].kind \in {"pcall", "resume"} /\ host[j].L = run
    BY <2>3 DEF Catchers
  <2>6. CASE host[j].kind = "pcall"
    BY <1>1, <2>3, <2>4, <2>5, <2>6, CaughtByPcallCont
  <2>7. CASE host[j].kind = "resume"
    BY <1>1, <2>3, <2>4, <2>5, <2>7, CaughtByResumeCont
  <2>. QED
    BY <2>5, <2>6, <2>7
<1>. QED
  BY <1>2, <1>3

-----------------------------------------------------------------------------
(* Resumes that begin. *)

\* Between steps without a throw all threads keep their promises.
LEMMA AllKept ==
  ASSUME ContInv, Running
  PROVE  AllKeep(host, th)
BY DEF ContInv, Cont, Running, AllKeep

\* Thread co becomes z, and runs or not.
Wakes(s, g, co, z) == s.host = g /\ s.thrown = "no" /\ s.th = [th EXCEPT ![co] = z]

\* A resume is pushed; the coroutine that starts or goes on is z.
LEMMA WakesKeep ==
  ASSUME NEW co \in Thread, NEW g, NEW z, NEW s, NEW a, StackInv(State), ContInv, Running, Wakes(s, g, co, z),
         g = host \/ Pushed(host, g, a), a.kind = "resume",
         z.status # "error" => Keeps(host, co, z.ci, z.errfunc) /\ TopNot(z.ci)
  PROVE  AllKeep(s.host, s.th)
<1>. DEFINE e == s.th
<1>1. th \in [Thread -> lua_State]
  BY RunStack DEF Running
<1>2. s.host = g /\ e[co] = z /\ \A t \in Thread \ {co} : e[t] = th[t]
  BY <1>1 DEF Wakes
<1>. HIDE DEF e
<1>3. AllKeep(host, th)
  BY AllKept
<1>4. ASSUME NEW t \in Thread, e[t].status # "error"
      PROVE  Keeps(host, t, e[t].ci, e[t].errfunc) /\ TopNot(e[t].ci)
  <2>1. CASE t = co
    BY <1>2, <1>4, <2>1
  <2>2. CASE t # co
    <3>1. e[t] = th[t]
      BY <1>2, <2>2
    <3>. QED
      BY <1>3, <1>4, <3>1 DEF AllKeep
  <2>. QED
    BY <2>1, <2>2
<1>5. ASSUME NEW t \in Thread PROVE OfSame(host, g, t)
  <2>1. CASE g = host
    BY <2>1 DEF OfSame
  <2>2. CASE Pushed(host, g, a)
    BY <2>2, OthersOf DEF OfSame
  <2>. QED
    BY <2>1, <2>2
<1>6. ASSUME NEW t \in Thread, e[t].status # "error"
      PROVE  Keeps(g, t, e[t].ci, e[t].errfunc) /\ TopNot(e[t].ci)
  BY <1>4, <1>5, <1>6, KeepsOf
<1>7. AllKeep(g, e)
  BY <1>6 DEF AllKeep
<1>. QED
  BY <1>2, <1>7 DEF e

\* A coroutine that can be resumed has no activation.
LEMMA NoActivation ==
  ASSUME NEW co \in Thread, StackInv(State), Running, Resumable(th[co])
  PROVE  Of(host, co) = {}
<1>1. Stacked(host, th, run, "no") /\ DOMAIN host = 1..Len(host) /\ Len(host) \in Nat
  BY RunStack DEF Running
<1>2. ASSUME NEW i \in Of(host, co) PROVE FALSE
  <2>1. i \in 0..Len(host) /\ Owner(host, i) = co
    BY <1>1, <1>2 DEF Of, Owner
  <2>2. ~th[co].fn /\ Len(th[co].ci) >= 1 /\ th[co].status = "ok"
    BY <1>1, <2>1 DEF Stacked, Owners, Owns
  <2>3. th[co].ci # <<>>
    BY <2>2
  <2>. QED
    BY <2>2, <2>3 DEF Resumable
<1>. QED
  BY <1>2

\* What a coroutine that goes on has.
LEMMA AwakeHas ==
  ASSUME NEW v \in lua_State, NEW n
  PROVE  LET u == Awake(v, n) IN u.ci = v.ci /\ u.errfunc = v.errfunc /\ u.status = "ok"
BY ThreadIs DEF Awake

\* A coroutine goes on without the function that yielded.
LEMMA UnrollResumeCont ==
  ASSUME NEW co \in Thread, NEW v \in lua_State, NEW g, NEW a, NEW s, StackInv(State), ContInv, Running,
         Resumable(th[co]), v.status = "ok", v.ci # <<>>, ~Last(v.ci).lua, Live(v), Pushed(host, g, a),
         a.kind = "resume", a.L = co, DOMAIN s = {"th", "host", "run", "thrown"}, s.run = co, Wakes(s, g, co, v),
         Keeps(host, co, v.ci, v.errfunc), TopNot(v.ci)
  PROVE  LET c == [s EXCEPT !.th[co].ci = Pop(@)]
             r == unroll(c)
         IN Cont(r.host, r.th, r.run, r.thrown)
<1>. DEFINE u == [v EXCEPT !.ci = Pop(@)]
            c == [s EXCEPT !.th[co].ci = Pop(@)]
            ci == v.ci
            e == v.errfunc
            n == Len(ci)
            m == n - 1
            d == SubSeq(ci, 1, m)
<1>1. /\ th \in [Thread -> lua_State] /\ IsSeq(host) /\ Linked(host)
  BY RunStack DEF Running, Stacked
<1>2. u \in lua_State /\ u.status = "ok"
  BY PoppedC
<1>3. u.ci = d /\ u.errfunc = e
  BY ThreadIs DEF Pop
<1>4. ci \in Seq(CallInfo) /\ n \in Nat /\ n >= 1 /\ m \in 0..n /\ DOMAIN ci = 1..n /\ m + 1 = n
  <2>1. ci \in Seq(CallInfo)
    BY ThreadIs
  <2>. QED
    BY <2>1
<1>5. Of(host, co) = {}
  BY NoActivation
<1>6. \A p \in DOMAIN ci : ci[p].yp => p <= m
  BY <1>4 DEF TopNot
<1>7. DOMAIN c = {"th", "host", "run", "thrown"} /\ c.run = co /\ Wakes(c, g, co, u)
  <2>1. DOMAIN c = {"th", "host", "run", "thrown"} /\ c.run = co /\ c.host = g /\ c.thrown = "no"
    BY DEF Wakes
  <2>2. c.th = [s.th EXCEPT ![co].ci = Pop(@)]
    OBVIOUS
  <2>3. [s.th EXCEPT ![co].ci = Pop(@)] = [th EXCEPT ![co] = u]
    BY <1>1 DEF Wakes
  <2>. QED
    BY <2>1, <2>2, <2>3 DEF Wakes
<1>. HIDE DEF u, c
<1>8. Keeps(host, co, d, e)
  <2>1. Keeps(host, co, ci, e)
    OBVIOUS
  <2>2. \A j \in Of(host, co) : IsCall(host[j]) => Low(host[j]) <= m
    BY <1>5
  <2>. HIDE DEF ci, e, m, n
  <2>3. m \in 0..Len(ci) /\ d = SubSeq(ci, 1, m)
    BY <1>4 DEF n
  <2>. QED
    BY <1>1, <1>4, <1>6, <2>1, <2>2, <2>3, KeepsFirst
<1>. HIDE DEF d, e, ci, n, m
<1>9. OfSame(host, g, co) /\ \A t \in Thread : OfSame(host, g, t)
  BY OthersOf DEF OfSame
<1>10. Of(g, co) = {} /\ Keeps(g, co, u.ci, u.errfunc)
  <2>1. Keeps(g, co, d, e)
    BY <1>8, <1>9, KeepsOf
  <2>. QED
    BY <1>3, <1>5, <1>9, <2>1 DEF OfSame
<1>11. AllKeep(host, th)
  BY AllKept
<1>12. c.host = g /\ c.th[co] = u /\ (\A t \in Thread \ {co} : c.th[t] = th[t]) /\ c.th \in [Thread -> lua_State]
       /\ c.thrown = "no"
  BY <1>1, <1>2, <1>7 DEF Wakes
<1>13. ASSUME NEW t \in Thread, t # co, c.th[t].status # "error"
       PROVE  Keeps(g, t, c.th[t].ci, c.th[t].errfunc) /\ TopNot(c.th[t].ci)
  <2>1. c.th[t] = th[t]
    BY <1>12, <1>13
  <2>2. Keeps(host, t, th[t].ci, th[t].errfunc) /\ TopNot(th[t].ci)
    BY <1>11, <1>13, <2>1 DEF AllKeep
  <2>3. Keeps(g, t, th[t].ci, th[t].errfunc)
    BY <1>9, <2>2, KeepsOf
  <2>. QED
    BY <2>1, <2>2, <2>3
<1>14. Resuming(c)
  <2>1. IsSeq(g) /\ g # <<>> /\ Last(g) = a
    <3>1. IsSeq(g) /\ Len(g) = Len(host) + 1 /\ g[Len(host) + 1] = a /\ Len(host) \in Nat
      BY DEF Pushed
    <3>. QED
      BY <3>1, SeqLen DEF Last
  <2>. QED
    BY <1>7, <1>12, <2>1 DEF Resuming
<1>15. ASSUME NEW t \in Thread, c.th[t].status # "error"
       PROVE  Keeps(g, t, c.th[t].ci, c.th[t].errfunc)
  <2>1. CASE t = co
    BY <1>10, <1>12, <2>1
  <2>2. CASE t # co
    BY <1>13, <1>15, <2>2
  <2>. QED
    BY <2>1, <2>2
<1>16. Unrolls(c)
  <2>1. c.th[c.run].status # "error" /\ Of(c.host, c.run) = {} /\ c.run \in Thread /\ c.thrown = "no"
    <3>1. "ok" # "error"
      OBVIOUS
    <3>. QED
      BY <1>2, <1>7, <1>10, <1>12, <3>1
  <2>2. \A t \in Thread : c.th[t].status # "error" => Keeps(c.host, t, c.th[t].ci, c.th[t].errfunc)
    BY <1>12, <1>15
  <2>3. \A t \in Thread : c.th[t].status # "error" /\ t # c.run => TopNot(c.th[t].ci)
    BY <1>7, <1>13
  <2>. QED
    BY <1>14, <2>1, <2>2, <2>3 DEF Unrolls
<1>17. LET r == unroll(c) IN Cont(r.host, r.th, r.run, r.thrown)
  BY <1>16, UnrollCont
<1>. QED
  BY <1>17 DEF c

\* The first function of a coroutine.
LEMMA FirstKeeps ==
  ASSUME NEW h, NEW t, NEW v \in lua_State, NEW lua \in BOOLEAN, Keeps(h, t, v.ci, v.errfunc), v.ci = <<>>
  PROVE  LET u == [v EXCEPT !.ci = <<Frame(lua)>>] IN Keeps(h, t, u.ci, u.errfunc) /\ TopNot(u.ci)
<1>. DEFINE u == [v EXCEPT !.ci = <<Frame(lua)>>]
            c == Frame(lua)
            e == v.errfunc
            z == << >>
            d == <<Frame(lua)>>
<1>1. u.ci = d /\ u.errfunc = e
  BY ThreadIs
<1>2. c \in CallInfo /\ ~c.yp
  BY FrameIn
<1>3. Keeps(h, t, z, e) /\ z \in Seq(CallInfo)
  OBVIOUS
<1>4. d = Append(z, c)
  OBVIOUS
<1>5. z = <<>>
  OBVIOUS
<1>. HIDE DEF u, c, e, z, d
<1>6. Keeps(h, t, Append(z, c), e) /\ TopNot(Append(z, c))
  BY <1>2, <1>3, <1>5, KeepsFrame
<1>. QED
  BY <1>1, <1>4, <1>6 DEF u

\* coroutine.resume, with its errors.
LEMMA AuxresumeCont ==
  ASSUME StackInv(State), ContInv, NEW co \in Thread, NEW lua \in BOOLEAN, auxresume(co, lua)
  PROVE  ContInv'
<1>. DEFINE s == Resumed(co)
            n == StartCount(L)
            v == Awake(th[co], n)
            a == [kind |-> "resume", L |-> co, from |-> run, nny |-> th[co].nny, ncc |-> n]
            g == Append(host, a)
            fails == [State EXCEPT !.th[co].nCcalls = n - 1]
            new == [s EXCEPT !.th[co].ci = <<Frame(lua)>>]
            cut == [s EXCEPT !.th[co].ci = Pop(@)]
<1>1. Running
  BY DEF auxresume
<1>2. \/ Becomes(State)
      \/ Becomes(fails)
      \/ Resumable(th[co]) /\ (\/ th[co].status = "ok" /\ Becomes(new)
                               \/ th[co].status # "ok" /\ Becomes(s)
                               \/ th[co].status # "ok" /\ Becomes(unroll(cut)))
  BY Zenon DEF auxresume
<1>3. /\ th \in [Thread -> lua_State] /\ (\A t \in Thread : Live(th[t])) /\ DOMAIN th = Thread
      /\ L \in lua_State /\ th[co] \in lua_State /\ Live(th[co]) /\ thrown = "no" /\ IsSeq(host)
  BY <1>1, RunStack DEF Running, Stacked
<1>4. n \in Int /\ n - 1 \in Int
  BY <1>3, ThreadIs DEF StartCount
<1>5. a.kind = "resume" /\ a.L = co
  OBVIOUS
<1>6. th[co].status # "error" => Keeps(host, co, th[co].ci, th[co].errfunc) /\ TopNot(th[co].ci)
  BY <1>1, AllKept DEF AllKeep
<1>. HIDE DEF n, a
<1>7. Pushed(host, g, a)
  BY <1>3, PushedIs
<1>. HIDE DEF g
<1>8. CASE Becomes(fails)
  <2>. DEFINE u == [th[co] EXCEPT !.nCcalls = n - 1]
  <2>1. Wakes(fails, host, co, u)
    BY <1>3, StateIs DEF Wakes
  <2>2. u.ci = th[co].ci /\ u.errfunc = th[co].errfunc /\ u.status = th[co].status
    BY <1>3, ThreadIs
  <2>. HIDE DEF fails, u
  <2>3. u.status # "error" => Keeps(host, co, u.ci, u.errfunc) /\ TopNot(u.ci)
    BY <1>6, <2>2
  <2>4. AllKeep(fails.host, fails.th)
    BY <1>1, <1>5, <2>1, <2>3, WakesKeep
  <2>5. Cont(fails.host, fails.th, fails.run, fails.thrown)
    BY <2>1, <2>4, AllKeepCont DEF Wakes
  <2>. QED
    BY <1>8, <2>5, BecomesCont
<1>9. CASE Resumable(th[co]) /\ (\/ th[co].status = "ok" /\ Becomes(new)
                                 \/ th[co].status # "ok" /\ Becomes(s)
                                 \/ th[co].status # "ok" /\ Becomes(unroll(cut)))
  <2>1. v \in lua_State /\ v.ci = th[co].ci /\ v.open = th[co].open /\ v.nny = 0 /\ ~v.fn /\ Live(v)
    <3>1. ASSUME NEW t \in lua_State, Live(t)
          PROVE  LET u == Awake(t, n)
                 IN u \in lua_State /\ u.ci = t.ci /\ u.open = t.open /\ u.nny = 0 /\ u.status = "ok" /\ ~u.fn /\ Live(u)
      BY <1>4, <3>1, AwakeIs
    <3>. QED
      BY <1>3, <3>1
  <2>2. v.errfunc = th[co].errfunc /\ v.status = "ok"
    <3>1. ASSUME NEW t \in lua_State
          PROVE  LET u == Awake(t, n) IN u.ci = t.ci /\ u.errfunc = t.errfunc /\ u.status = "ok"
      BY AwakeHas
    <3>. QED
      BY <1>3, <3>1
  <2>3. DOMAIN s = {"th", "host", "run", "thrown"} /\ s.run = co /\ Wakes(s, g, co, v)
    <3>1. s = [State EXCEPT !.host = Append(@, a), !.run = co,
                 !.th[co] = [@ EXCEPT !.nCcalls = n, !.nny = 0, !.status = "ok", !.fn = FALSE]]
      BY Zenon DEF Resumed, n, a
    <3>2. v = [th[co] EXCEPT !.nCcalls = n, !.nny = 0, !.status = "ok", !.fn = FALSE]
      BY DEF Awake
    <3>. HIDE DEF v, s
    <3>3. s.th = [th EXCEPT ![co] = v]
      BY <1>3, <3>1, <3>2, StateIs
    <3>4. DOMAIN s = {"th", "host", "run", "thrown"} /\ s.run = co /\ s.host = g /\ s.thrown = "no"
      BY <1>3, <3>1, StateIs DEF g
    <3>. QED
      BY <3>3, <3>4 DEF Wakes
  <2>4. th[co].status # "ok" => v.ci # <<>> /\ ~Last(v.ci).lua
    BY <1>3, <1>9, <2>1 DEF Resumable, Live
  <2>5. Keeps(host, co, v.ci, v.errfunc) /\ TopNot(v.ci)
    <3>1. th[co].status # "error"
      BY <1>9 DEF Resumable
    <3>. QED
      BY <1>6, <2>1, <2>2, <3>1
  <2>. HIDE DEF s, v
  <2>6. CASE th[co].status = "ok" /\ Becomes(new)
    <3>. DEFINE u == [v EXCEPT !.ci = <<Frame(lua)>>]
    <3>1. v.ci = <<>>
      BY <1>9, <2>1, <2>6 DEF Resumable
    <3>2. Keeps(host, co, u.ci, u.errfunc) /\ TopNot(u.ci)
      <4>1. ASSUME NEW h, NEW t, Keeps(h, t, v.ci, v.errfunc)
            PROVE  LET q == [v EXCEPT !.ci = <<Frame(lua)>>] IN Keeps(h, t, q.ci, q.errfunc) /\ TopNot(q.ci)
        BY <2>1, <3>1, <4>1, FirstKeeps
      <4>. QED
        BY <2>5, <4>1
    <3>3. new.host = s.host /\ new.thrown = s.thrown /\ new.th = [s.th EXCEPT ![co].ci = <<Frame(lua)>>]
      BY <2>3
    <3>4. [s.th EXCEPT ![co].ci = <<Frame(lua)>>] = [th EXCEPT ![co] = u]
      BY <1>3, <2>3 DEF Wakes
    <3>. HIDE DEF new, u
    <3>5. Wakes(new, g, co, u)
      BY <2>3, <3>3, <3>4 DEF Wakes
    <3>6. AllKeep(new.host, new.th)
      BY <1>1, <1>5, <1>7, <3>2, <3>5, WakesKeep
    <3>7. Cont(new.host, new.th, new.run, new.thrown)
      BY <3>5, <3>6, AllKeepCont DEF Wakes
    <3>. QED
      BY <2>6, <3>7, BecomesCont
  <2>7. CASE th[co].status # "ok" /\ Becomes(s)
    <3>1. AllKeep(s.host, s.th)
      BY <1>1, <1>5, <1>7, <2>3, <2>5, WakesKeep
    <3>2. Cont(s.host, s.th, s.run, s.thrown)
      BY <2>3, <3>1, AllKeepCont DEF Wakes
    <3>. QED
      BY <2>7, <3>2, BecomesCont
  <2>8. CASE th[co].status # "ok" /\ Becomes(unroll(cut))
    <3>. DEFINE r == unroll(cut)
    <3>1. Cont(r.host, r.th, r.run, r.thrown)
      BY <1>1, <1>5, <1>7, <1>9, <2>1, <2>2, <2>3, <2>4, <2>5, <2>8, UnrollResumeCont, SMTT(30)
    <3>2. Becomes(r)
      BY <2>8
    <3>. HIDE DEF r
    <3>. QED
      BY <3>1, <3>2, BecomesCont
  <2>. QED
    BY <1>9, <2>6, <2>7, <2>8
<1>10. CASE Becomes(State)
  <2>1. Cont(State.host, State.th, State.run, State.thrown)
    BY Zenon, StateIs DEF ContInv
  <2>. QED
    BY <1>10, <2>1, BecomesCont
<1>. QED
  BY <1>2, <1>8, <1>9, <1>10

-----------------------------------------------------------------------------
(* The layer holds. *)

\* A thread without frames or activations keeps what there is to keep.
LEMMA EmptyKeeps ==
  ASSUME NEW h, NEW t, Of(h, t) = {}
  PROVE  Keeps(h, t, << >>, 0) /\ TopNot(<< >>)
<1>. DEFINE z == << >>
<1>1. DOMAIN z = {} /\ Len(z) = 0
  OBVIOUS
<1>2. Pcalls(h, t) = {}
  BY PcallsOf
<1>. HIDE DEF z
<1>3. GoesOn(h, t, z) /\ Yieldable(h, t, z)
  BY <1>1 DEF GoesOn, Yieldable
<1>4. Recoverable(h, t, z) /\ TopNot(z)
  BY <1>1 DEF Recoverable, TopNot
<1>5. Handlers(h, t, z, 0)
  BY <1>1, <1>2 DEF Handlers, InForce, Below
<1>6. Keeps(h, t, z, 0)
  BY <1>3, <1>4, <1>5 DEF Keeps
<1>. QED
  BY <1>4, <1>6 DEF z

\* The new thread.
LEMMA NewThread ==
  /\ preinit_thread \in lua_State /\ preinit_thread.ci = << >> /\ preinit_thread.errfunc = 0
  /\ luaB_cocreate.ci = << >> /\ luaB_cocreate.errfunc = 0
<1>1. "ok" \in {"ok", "yield", "error"} /\ FALSE \in BOOLEAN /\ <<>> \in Seq(CallInfo) /\ {} \in SUBSET Nat
      /\ 0 \in Int /\ 1 \in Int /\ 0 \in Nat
  OBVIOUS
<1>2. ASSUME NEW q \in Seq(CallInfo), NEW o \in {"ok", "yield", "error"}, NEW i \in Int, NEW c \in Int, NEW e \in Nat,
             NEW p \in SUBSET Nat, NEW b \in BOOLEAN
      PROVE  LET x == [ci |-> q, status |-> o, nny |-> i, nCcalls |-> c, errfunc |-> e, open |-> p, fn |-> b]
             IN x \in lua_State /\ x.ci = q /\ x.errfunc = e
  BY DEF lua_State
<1>3. preinit_thread \in lua_State /\ preinit_thread.ci = << >> /\ preinit_thread.errfunc = 0
  BY <1>1, <1>2, Zenon DEF preinit_thread
<1>. DEFINE v == preinit_thread
            u == [v EXCEPT !.fn = TRUE]
<1>4. v \in lua_State
  BY <1>3
<1>. HIDE DEF v
<1>5. u.ci = v.ci /\ u.errfunc = v.errfunc
  BY <1>4, ThreadIs
<1>6. luaB_cocreate = u
  BY Zenon DEF luaB_cocreate, v
<1>. QED
  BY <1>3, <1>5, <1>6 DEF v

\* The second layer holds when the program starts.
LEMMA ContInit ==
  ASSUME Init
  PROVE  ContInv
<1>1. /\ host = <<>> /\ run = Main /\ thrown = "no" /\ Main \in Thread
      /\ th = [t \in Thread |-> IF t = Main THEN [preinit_thread EXCEPT !.ci = <<Frame(FALSE)>>] ELSE luaB_cocreate]
  BY CallAssumption DEF Init, Thread
<1>2. \A t \in Thread : Of(host, t) = {}
  BY <1>1 DEF Of
<1>. DEFINE v == preinit_thread
            u == [v EXCEPT !.ci = <<Frame(FALSE)>>]
            c == luaB_cocreate
<1>3. v \in lua_State /\ v.ci = << >> /\ v.errfunc = 0 /\ c.ci = << >> /\ c.errfunc = 0
  BY NewThread
<1>4. th = [t \in Thread |-> IF t = Main THEN u ELSE c]
  BY <1>1
<1>. HIDE DEF v, c
<1>5. Keeps(host, Main, u.ci, u.errfunc) /\ TopNot(u.ci)
  <2>1. Keeps(host, Main, v.ci, v.errfunc)
    <3>1. ASSUME NEW h, NEW t, Of(h, t) = {} PROVE Keeps(h, t, v.ci, v.errfunc)
      BY <1>3, <3>1, EmptyKeeps
    <3>. QED
      BY <1>1, <1>2, <3>1
  <2>2. ASSUME NEW h, NEW t, NEW b \in BOOLEAN, Keeps(h, t, v.ci, v.errfunc)
        PROVE  LET q == [v EXCEPT !.ci = <<Frame(b)>>] IN Keeps(h, t, q.ci, q.errfunc) /\ TopNot(q.ci)
    BY <1>3, <2>2, FirstKeeps
  <2>. QED
    BY <2>1, <2>2
<1>. HIDE DEF u
<1>6. ASSUME NEW t \in Thread PROVE Keeps(host, t, th[t].ci, th[t].errfunc) /\ TopNot(th[t].ci)
  <2>1. CASE t = Main
    BY <1>4, <1>5, <2>1
  <2>2. CASE t # Main
    <3>1. th[t] = c
      BY <1>4, <2>2
    <3>2. Keeps(host, t, c.ci, c.errfunc) /\ TopNot(c.ci)
      BY <1>2, <1>3, EmptyKeeps
    <3>. QED
      BY <3>1, <3>2
  <2>. QED
    BY <2>1, <2>2
<1>7. AllKeep(host, th)
  BY <1>6 DEF AllKeep
<1>. QED
  BY <1>1, <1>7, AllKeepCont DEF ContInv

\* Every step keeps it.
LEMMA ContStep ==
  StackInv(State) /\ ContInv /\ [Next]_vars => ContInv'
<1>. SUFFICES ASSUME StackInv(State), ContInv, [Next]_vars PROVE ContInv'
  OBVIOUS
<1>1. ASSUME NEW lua \in BOOLEAN, \/ OpCall(lua) \/ luaT_callTM(lua) \/ GCTM(lua) \/ generic_reader(lua)
                                  \/ luaG_errormsg(lua)
      PROVE  ContInv'
  BY <1>1, OpCallCont, CallTMCont, GCTMCont, ReaderCont, ErrormsgCont
<1>2. ASSUME NEW lua \in BOOLEAN, NEW k \in BOOLEAN,
             lua_callk(k, lua) \/ \E handler \in BOOLEAN : lua_pcallk(k, handler, lua)
      PROVE  ContInv'
  BY <1>2, CallkCont, PcallkCont
<1>3. ASSUME NEW lua \in BOOLEAN, NEW co \in Thread, auxresume(co, lua)
      PROVE  ContInv'
  BY <1>3, AuxresumeCont
<1>4. CASE OpTailCall \/ luaF_findupval \/ lua_load \/ ParserEnds \/ Return \/ luaD_throw
  BY <1>4, OpTailCallCont, FindUpvalCont, LoadCont, ParserEndsCont, ReturnCont, ThrownCont
<1>5. CASE SyntaxError
  BY <1>5, SyntaxErrorCont
<1>6. CASE lua_error
  BY <1>6, LuaErrorCont
<1>7. ASSUME NEW k \in BOOLEAN, lua_yieldk(k)
      PROVE  ContInv'
  BY <1>7, YieldCont
<1>8. CASE UNCHANGED vars
  BY <1>8 DEF vars, ContInv, Cont
<1>. QED
  BY <1>1, <1>2, <1>3, <1>4, <1>5, <1>6, <1>7, <1>8 DEF Next

\* Both layers together.
LEMMA PromisesAreKept == Spec => []ContInv
<1>1. Init => ContInv
  BY ContInit
<1>2. StackInv(State) /\ ContInv /\ [Next]_vars => ContInv'
  BY ContStep
<1>. QED
  BY <1>1, <1>2, StackIsSound, PTL DEF Spec

\* A C function that waits goes on: its call is still on the C stack, or it has a
\* continuation that unroll runs (the assertion of finishCcall).
THEOREM CallersGoOn == Spec => []Continuable
<1>1. StackInv(State) /\ ContInv => Continuable
  <2>. SUFFICES ASSUME StackInv(State), ContInv, NEW t \in Thread, NEW i \in 1..MaxFrames,
                       i < Len(th[t].ci), th[t].status # "error", ~th[t].ci[i].lua
       PROVE  \/ th[t].ci[i].k
              \/ \E j \in DOMAIN host : host[j].kind \in {"call", "handler"} /\ host[j].L = t /\ host[j].at = i + 1
    BY DEF Continuable
  <2>1. th[t] \in lua_State
    BY StateIs DEF StackInv
  <2>2. i \in DOMAIN th[t].ci
    BY <2>1, ThreadIs
  <2>3. Keeps(host, t, th[t].ci, th[t].errfunc)
    BY DEF ContInv, Cont
  <2>4. \/ \E j \in Of(host, t) : IsCall(host[j]) /\ host[j].at = i + 1
        \/ th[t].ci[i].k
    BY <2>2, <2>3 DEF Keeps, GoesOn
  <2>. QED
    BY <2>4 DEF Of, IsCall
<1>. QED
  BY <1>1, StackIsSound, PromisesAreKept, PTL

\* The message handler in force is that of the innermost protected call, with an
\* activation or not, on every way out (luaD_pcall, lua_pcallk, finishpcallk, recover).
THEOREM HandlerIsInForce == Spec => []HandlerInForce
<1>1. StackInv(State) /\ ContInv => HandlerInForce
  <2>. SUFFICES ASSUME StackInv(State), ContInv, NEW t \in Thread, run # Nobody, thrown = "no", th[t].status # "error"
       PROVE  LET P == Protections(t)
              IN IF P = {} THEN th[t].errfunc = 0
                 ELSE \E p \in P : /\ p[3] = th[t].errfunc
                                   /\ \A q \in P : q[1] < p[1] \/ (q[1] = p[1] /\ q[2] <= p[2])
    BY DEF HandlerInForce
  <2>. DEFINE ci == th[t].ci
              e == th[t].errfunc
              A == {<<host[j].at, j, host[j].ef>> : j \in Pcalls(host, t)}
              B == {<<i, 0, ci[i].ef>> : i \in {p \in DOMAIN ci : ci[p].yp}}
  <2>1. Keeps(host, t, ci, e) /\ Linked(host) /\ Ordered(host) /\ IsSeq(host) /\ DOMAIN host = 1..Len(host) /\ Len(host) \in Nat
    BY RunStack DEF ContInv, Cont, Stacked
  <2>2. ci \in Seq(CallInfo) /\ Len(ci) \in Nat /\ DOMAIN ci = 1..Len(ci)
    BY RunStack, ThreadIs
  <2>3. Protections(t) = A \cup B
    BY Zenon DEF Protections, Pcalls
  <2>4. InForce(host, Pcalls(host, t), ci, e) /\ Recoverable(host, t, ci)
    BY <2>1 DEF Keeps, Handlers
  <2>. HIDE DEF ci, e
  <2>5. CASE Pcalls(host, t) = {} /\ Below(ci, Len(ci) + 1, e)
    <3>1. A = {}
      BY <2>5
    <3>2. CASE e = 0 /\ \A o \in DOMAIN ci : o < Len(ci) + 1 => ~ci[o].yp
      <4>1. B = {}
        BY <2>2, <3>2
      <4>. QED
        BY <2>3, <3>1, <3>2, <4>1 DEF e
    <3>3. ASSUME NEW p \in DOMAIN ci, ci[p].yp, e = ci[p].ef,
                 \A o \in DOMAIN ci : o < Len(ci) + 1 /\ ci[o].yp => o <= p
          PROVE  \E w \in B : w[3] = e /\ \A q \in B : q[1] < w[1] \/ (q[1] = w[1] /\ q[2] <= w[2])
      <4>1. \A q \in B : q[1] < p \/ (q[1] = p /\ q[2] <= 0)
        BY <2>2, <3>3
      <4>. DEFINE w == <<p, 0, ci[p].ef>>
      <4>2. w \in B /\ w[1] = p /\ w[2] = 0 /\ w[3] = e
        BY <3>3
      <4>. HIDE DEF w, B
      <4>. QED
        BY <4>1, <4>2
    <3>. QED
      BY <2>3, <2>5, <3>1, <3>2, <3>3 DEF Below, e
  <2>6. ASSUME NEW i \in Pcalls(host, t), e = host[i].ef, \A j \in Pcalls(host, t) : j <= i
        PROVE  \E w \in A : w[3] = e /\ \A q \in A \cup B : q[1] < w[1] \/ (q[1] = w[1] /\ q[2] <= w[2])
    <3>. DEFINE w == <<host[i].at, i, host[i].ef>>
    <3>1. w \in A /\ w[1] = host[i].at /\ w[2] = i /\ w[3] = e
      BY <2>6
    <3>2. \A j \in Pcalls(host, t) : /\ j \in 1..Len(host) /\ host[j].L = t /\ host[j].kind = "pcall"
                                     /\ host[j].at \in Nat /\ Low(host[j]) = host[j].at
      BY <2>1 DEF Pcalls, Linked, Low
    <3>3. ASSUME NEW j \in Pcalls(host, t)
          PROVE  host[j].at < host[i].at \/ (host[j].at = host[i].at /\ j <= i)
      <4>1. CASE j = i
        BY <3>2, <4>1
      <4>2. CASE j # i
        <5>1. j < i
          BY <2>6, <3>2, <4>2
        <5>2. Low(host[j]) <= Low(host[i])
          BY <2>1, <3>2, <5>1 DEF Ordered
        <5>. QED
          BY <3>2, <5>1, <5>2
      <4>. QED
        BY <4>1, <4>2
    <3>4. \A p \in DOMAIN ci : ci[p].yp => p < host[i].at
      BY <2>4 DEF Recoverable
    <3>5. \A q \in A : q[1] < host[i].at \/ (q[1] = host[i].at /\ q[2] <= i)
      BY <3>3
    <3>6. \A q \in B : q[1] < host[i].at
      BY <3>4
    <3>. HIDE DEF w, A, B
    <3>. QED
      BY <3>1, <3>5, <3>6
  <2>. QED
    BY <2>3, <2>4, <2>5, <2>6 DEF InForce, e
<1>. QED
  BY <1>1, StackIsSound, PromisesAreKept, PTL
=============================================================================
