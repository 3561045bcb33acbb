----------------------------- MODULE LuaNumber -----------------------------
(***************************************************************************)
(* Numbers and strings of the Lua virtual machine (lvm.c): integers of W   *)
(* bits, floats with NBM bits of mantissa, and the places where the two    *)
(* meet: comparisons, the limit of a 'for', integer division and shifts.   *)
(*                                                                         *)
(* A float is twice its value, an integer here: halves are the only        *)
(* fractions, which is enough for values that are not integral.            *)
(***************************************************************************)
EXTENDS Integers, Sequences

CONSTANTS W, NBM

ASSUME NumberAssumption == W \in Nat \ {0} /\ NBM \in Nat \ {0} /\ NBM < W

MinInt == -(2 ^ (W - 1))
MaxInt == 2 ^ (W - 1) - 1
LuaInt == MinInt .. MaxInt

\* intop: operations wrap around.
Wrap(n) == ((n - MinInt) % 2 ^ W) + MinInt
Unsigned(n) == n % 2 ^ W

Abs(n) == IF n < 0 THEN -n ELSE n
IntOf(i) == [t |-> "int", v |-> i, nan |-> FALSE]
FltOf(v) == [t |-> "flt", v |-> v, nan |-> FALSE]
NaN == [t |-> "flt", v |-> 0, nan |-> TRUE]

\* The exponent that leaves NBM bits of v, and v rounded to them, ties to even.
Exponent(v) == CHOOSE e \in 0 .. 2 * W : /\ Abs(v) < 2 ^ (NBM + e)
                                         /\ e > 0 => Abs(v) >= 2 ^ (NBM + e - 1)
Round(v) ==
  LET unit == 2 ^ Exponent(v)
      q == Abs(v) \div unit
      r == Abs(v) % unit
      up == IF 2 * r > unit \/ (2 * r = unit /\ q % 2 = 1) THEN 1 ELSE 0
  IN (IF v < 0 THEN -1 ELSE 1) * (q + up) * unit

Infinite == 2 ^ (W + NBM)
Floats == {FltOf(v) : v \in {Round(2 * i + h) : i \in 2 * MinInt .. 2 * MaxInt, h \in {0, 1}}}
          \cup {FltOf(Infinite), FltOf(-Infinite), NaN}
Ints == {IntOf(i) : i \in LuaInt}

cast_num(i) == Round(2 * i)
Floor(v) == v \div 2
Trunc(v) == IF v < 0 THEN -(-v \div 2) ELSE v \div 2

-----------------------------------------------------------------------------
(* Comparisons. *)

\* Mutant: integers are always compared as floats.
l_intfitsfAlways(i) == TRUE

l_intfitsf(i) == -(2 ^ NBM) <= i /\ i <= 2 ^ NBM

LTintfloat(i, f) ==
  IF f.nan THEN FALSE
  ELSE IF l_intfitsf(i) THEN cast_num(i) < f.v
  ELSE f.v >= -cast_num(MinInt) \/ (f.v > cast_num(MinInt) /\ i < Trunc(f.v))

LEintfloat(i, f) ==
  IF f.nan THEN FALSE
  ELSE IF l_intfitsf(i) THEN cast_num(i) <= f.v
  ELSE f.v >= -cast_num(MinInt) \/ (f.v >= cast_num(MinInt) /\ i <= Trunc(f.v))

LTnum(l, r) ==
  CASE l.t = "int" /\ r.t = "int" -> l.v < r.v
    [] l.t = "int" /\ r.t = "flt" -> LTintfloat(l.v, r)
    [] l.t = "flt" /\ r.t = "flt" -> ~l.nan /\ ~r.nan /\ l.v < r.v
    [] OTHER -> ~l.nan /\ ~LEintfloat(r.v, l)

LEnum(l, r) ==
  CASE l.t = "int" /\ r.t = "int" -> l.v <= r.v
    [] l.t = "int" /\ r.t = "flt" -> LEintfloat(l.v, r)
    [] l.t = "flt" /\ r.t = "flt" -> ~l.nan /\ ~r.nan /\ l.v <= r.v
    [] OTHER -> ~l.nan /\ ~LTintfloat(r.v, l)

\* luaV_tointeger: mode 0 takes integral values only, 1 the floor, 2 the ceiling.
NoInt == [ok |-> FALSE, i |-> 0]
luaV_tointeger(n, mode) ==
  IF n.t = "int" THEN [ok |-> TRUE, i |-> n.v]
  ELSE LET integral == n.v % 2 = 0
           f == Floor(n.v) + IF ~integral /\ mode > 1 THEN 1 ELSE 0
       IN IF n.nan \/ (~integral /\ mode = 0) \/ f \notin LuaInt THEN NoInt
          ELSE [ok |-> TRUE, i |-> f]

\* luaV_equalobj, for numbers.
luaV_equalobj(l, r) ==
  IF l.t = r.t THEN ~l.nan /\ ~r.nan /\ l.v = r.v
  ELSE LET i1 == luaV_tointeger(l, 0)
           i2 == luaV_tointeger(r, 0)
       IN i1.ok /\ i2.ok /\ i1.i = i2.i

\* The value of a number, to compare with.
Exact(n) == IF n.t = "int" THEN 2 * n.v ELSE n.v

Compared(l, r) == [lt |-> LTnum(l, r), le |-> LEnum(l, r), eq |-> luaV_equalobj(l, r)]
ComparesAs(l, r, res) ==
  LET ordered == ~l.nan /\ ~r.nan
  IN res = [lt |-> ordered /\ Exact(l) < Exact(r),
            le |-> ordered /\ Exact(l) <= Exact(r),
            eq |-> ordered /\ Exact(l) = Exact(r)]

-----------------------------------------------------------------------------
(* Integer arithmetic.  Division by zero is an error. *)

\* C division and remainder, towards zero.
CDiv(m, n) == LET q == Abs(m) \div Abs(n) IN IF (m < 0) = (n < 0) THEN q ELSE -q
CMod(m, n) == m - n * CDiv(m, n)

luaV_div(m, n) ==
  IF n = -1 THEN Wrap(-m)
  ELSE CDiv(m, n) - IF (m < 0) # (n < 0) /\ CMod(m, n) # 0 THEN 1 ELSE 0

luaV_mod(m, n) ==
  IF n = -1 THEN 0
  ELSE CMod(m, n) + IF CMod(m, n) # 0 /\ (m < 0) # (n < 0) THEN n ELSE 0

luaV_shiftl(x, y) ==
  IF y < 0 THEN IF y <= -W THEN 0 ELSE Wrap(Unsigned(x) \div 2 ^ (-y))
  ELSE IF y >= W THEN 0 ELSE Wrap(Unsigned(x) * 2 ^ y)

Computed(m, n) ==
  [div |-> IF n = 0 THEN 0 ELSE luaV_div(m, n), mod |-> IF n = 0 THEN m ELSE luaV_mod(m, n),
   shl |-> luaV_shiftl(m, n)]

\* Division rounds down, and shifts move the bits of the unsigned value.
ComputesAs(m, n, res) ==
  LET q == res.div
      r == res.mod
      Bit(x, k) == k \in 0 .. W - 1 /\ (Unsigned(x) \div 2 ^ k) % 2 = 1
  IN /\ n # 0 => /\ q \in LuaInt /\ r \in LuaInt /\ Wrap(q * n + r) = m
                 /\ IF n > 0 THEN 0 <= r /\ r < n ELSE n < r /\ r <= 0
                 /\ (m # MinInt \/ n # -1) => q * n + r = m
     /\ \A k \in 0 .. W - 1 : Bit(res.shl, k) = Bit(m, k - n)

-----------------------------------------------------------------------------
(* The numeric 'for' with an integer start and step (OP_FORPREP and        *)
(* OP_FORLOOP): the values of the variable, MaxIter at most.               *)

forlimit(limit, step) ==
  LET p == luaV_tointeger(limit, IF step < 0 THEN 2 ELSE 1)
  IN IF p.ok THEN [i |-> p.i, stopnow |-> FALSE]
     ELSE IF ~limit.nan /\ limit.v > 0 THEN [i |-> MaxInt, stopnow |-> step < 0]
     ELSE [i |-> MinInt, stopnow |-> step >= 0]

ForPrep(init, limit, step) ==
  LET l == forlimit(limit, step)
  IN [idx |-> Wrap((IF l.stopnow THEN 0 ELSE init) - step), limit |-> l.i]

MaxIter == 2 ^ W + 1

\* OP_FORLOOP until it does not jump back.
ForValues(init, limit, step) ==
  LET p == ForPrep(init, limit, step)
      Runs(idx) == IF 0 < step THEN idx <= p.limit ELSE p.limit <= idx
      Loop[n \in 0 .. MaxIter, idx \in LuaInt] ==
        LET next == Wrap(idx + step)
        IN IF n = 0 \/ ~Runs(next) THEN <<>> ELSE <<next>> \o Loop[n - 1, next]
  IN Loop[MaxIter, p.idx]

\* The loop as the manual defines it, with the limit as it was given.
LoopOfManual(init, limit, step) ==
  LET Loop[n \in 0 .. MaxIter, var \in LuaInt] ==
        LET next == Wrap(var + step)
            ends == (step >= 0 /\ 2 * next > Exact(limit)) \/ (step < 0 /\ 2 * next < Exact(limit))
        IN IF n = 0 \/ ends THEN <<>> ELSE <<next>> \o Loop[n - 1, next]
  IN Loop[MaxIter, Wrap(init - step)]

-----------------------------------------------------------------------------
(* Comparison of strings that may hold zeros: strcoll, the order of byte   *)
(* values here, sees them up to a zero (l_strcmp).                         *)

Segment(s) == LET zeros == {i \in DOMAIN s : s[i] = 0}
              IN IF zeros = {} THEN s ELSE SubSeq(s, 1, (CHOOSE i \in zeros : \A j \in zeros : i <= j) - 1)

Before(l, r) ==
  \/ \E i \in DOMAIN l \cap DOMAIN r : l[i] < r[i] /\ \A j \in 1 .. i - 1 : l[j] = r[j]
  \/ Len(l) < Len(r) /\ \A j \in DOMAIN l : l[j] = r[j]

strcoll(l, r) ==
  IF Before(Segment(l), Segment(r)) THEN -1 ELSE IF Segment(l) = Segment(r) THEN 0 ELSE 1

l_strcmp(ls, rs) ==
  LET Compare[k \in 1 .. Len(ls) + 1] ==
        LET l == SubSeq(ls, k, Len(ls))
            r == SubSeq(rs, k, Len(rs))
            temp == strcoll(l, r)
            len == Len(Segment(l))
        IN IF temp # 0 THEN temp
           ELSE IF len = Len(r) THEN IF len = Len(l) THEN 0 ELSE 1
           ELSE IF len = Len(l) THEN -1
           ELSE Compare[k + len + 1]
  IN Compare[1]

\* The order of strings as the manual has it, byte by byte.
StringOrder(l, r) == IF l = r THEN 0 ELSE IF Before(l, r) THEN -1 ELSE 1
=============================================================================
