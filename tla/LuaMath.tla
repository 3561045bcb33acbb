------------------------------ MODULE LuaMath ------------------------------
(***************************************************************************)
(* The functions of the math library that do not leave it to C's           *)
(* (lmathlib.c): where integers and floats meet, and where an integer      *)
(* would overflow.  Numbers are those of LuaNumber.                        *)
(***************************************************************************)
EXTENDS LuaNumber, SequencesExt

CONSTANT L_RANDMAX

\* The random number has fewer bits than a float keeps.
ASSUME MathAssumption == L_RANDMAX \in Nat /\ L_RANDMAX + 1 < 2 ^ NBM

MathError == [t |-> "error", v |-> 0, nan |-> FALSE]
MathNil == [t |-> "nil", v |-> 0, nan |-> FALSE]
Fail(x, y) == x.nan \/ y.nan

math_abs(x) == IF x.t = "int" THEN IntOf(IF x.v < 0 THEN Wrap(0 - Unsigned(x.v)) ELSE x.v) ELSE [x EXCEPT !.v = Abs(x.v)]

math_toint(x) == LET i == luaV_tointeger(x, 0) IN IF i.ok THEN IntOf(i.i) ELSE MathNil

\* lua_numbertointeger: the test is on floats.
numberfits(d) == ~d.nan /\ d.v >= 2 * MinInt /\ d.v < -(2 * MinInt)
pushnumint(d) == IF numberfits(d) THEN IntOf(d.v \div 2) ELSE d

floor(x) == IF x.nan THEN x ELSE FltOf(2 * Floor(x.v))
ceil(x) == IF x.nan THEN x ELSE FltOf(-(2 * Floor(-x.v)))
math_floor(x) == IF x.t = "int" THEN x ELSE pushnumint(floor(x))
math_ceil(x) == IF x.t = "int" THEN x ELSE pushnumint(ceil(x))

checknumber(x) == IF x.t = "int" THEN FltOf(cast_num(x.v)) ELSE x

\* fmod of C, exact.
fmod(x, y) ==
  IF Fail(x, y) \/ y.v = 0 \/ Abs(x.v) = Infinite THEN NaN
  ELSE IF Abs(y.v) = Infinite THEN x
  ELSE FltOf(CMod(x.v, y.v))

math_fmod(x, y) ==
  IF x.t = "int" /\ y.t = "int"
  THEN IF Unsigned(y.v + 1) <= 1 THEN IF y.v = 0 THEN MathError ELSE IntOf(0)
       ELSE IntOf(CMod(x.v, y.v))
  ELSE fmod(checknumber(x), checknumber(y))

\* Both results.
math_modf(x) ==
  LET ip == IF ~x.nan /\ x.v < 0 THEN ceil(x) ELSE floor(x)
      frac == IF x.nan THEN NaN ELSE FltOf(IF x.v = ip.v THEN 0 ELSE x.v - ip.v)
  IN IF x.t = "int" THEN <<x, FltOf(0)>> ELSE <<pushnumint(ip), frac>>

math_ult(a, b) == Unsigned(a) < Unsigned(b)

\* The index of the least and of the greatest argument.
math_min(args) ==
  FoldLeft(LAMBDA imin, i : IF LTnum(args[i], args[imin]) THEN i ELSE imin, 1, [i \in DOMAIN args |-> i])
math_max(args) ==
  FoldLeft(LAMBDA imax, i : IF LTnum(args[imax], args[i]) THEN i ELSE imax, 1, [i \in DOMAIN args |-> i])

\* An integer in low .. up from what l_rand returned.  The product is computed
\* with the bits of a float, whatever its exponent.
math_random(low, up, rand) ==
  LET width == Round(cast_num(up - low) + 2)
      scaled == Round(width * rand * 2 ^ NBM)
      r == scaled \div (2 * 2 ^ NBM * (L_RANDMAX + 1))
  IN IF low > up \/ (low < 0 /\ up > MaxInt + low) THEN MathError ELSE IntOf(r + low)

math_type(x) == IF x.t = "int" THEN "integer" ELSE "float"

Math(x, y, rand) ==
  [abs |-> math_abs(x), toint |-> math_toint(x), floor |-> math_floor(x), ceil |-> math_ceil(x),
   modf |-> math_modf(x), fmod |-> math_fmod(x, y), type |-> math_type(x),
   min |-> math_min(<<x, y, IntOf(0)>>), max |-> math_max(<<x, y, IntOf(0)>>),
   ult |-> x.t = "int" /\ y.t = "int" /\ math_ult(x.v, y.v),
   random |-> IF x.t = "int" /\ y.t = "int" THEN math_random(x.v, y.v, rand) ELSE MathNil]

-----------------------------------------------------------------------------
(* What the manual says: integers wherever one holds the value.            *)

\* Result res is the value v (a float is twice its value), as an integer if it is one.
Is(res, v) == Exact(res) = v /\ ~res.nan /\ (res.t = "int" <=> v % 2 = 0 /\ v \div 2 \in LuaInt)
Finite(x) == ~x.nan /\ (x.t = "flt" => Abs(x.v) # Infinite)

RoundsTo(x, res, up) ==
  IF Finite(x) THEN /\ Exact(res) % 2 = 0 /\ Is(res, Exact(res))
                    /\ IF up THEN Exact(res) - 2 < Exact(x) /\ Exact(x) <= Exact(res)
                       ELSE Exact(res) <= Exact(x) /\ Exact(x) < Exact(res) + 2
  ELSE res = x

\* The remainder has the sign of x and a quotient that is an integer.
RemainderOf(x, y, r) ==
  /\ Abs(r) < Abs(y) /\ (x - r) % Abs(y) = 0
  /\ r = 0 \/ (r < 0 <=> x < 0)

Extreme(args, i, Better(_, _)) ==
  i \in DOMAIN args /\ ((\A j \in DOMAIN args : ~args[j].nan) =>
                           \A j \in DOMAIN args : ~Better(Exact(args[j]), Exact(args[i])) /\ (j < i => Exact(args[j]) # Exact(args[i])))

MathAs(x, y, res) ==
  LET args == <<x, y, IntOf(0)>>
      ints == x.t = "int" /\ y.t = "int"
      xf == checknumber(x)
      yf == checknumber(y)
      whole == res.modf[1]
      part == res.modf[2]
  IN /\ IF x = IntOf(MinInt) THEN res.abs = x ELSE res.abs = [x EXCEPT !.v = Abs(@)]
     /\ IF Finite(x) /\ Exact(x) % 2 = 0 /\ Exact(x) \div 2 \in LuaInt THEN Is(res.toint, Exact(x)) ELSE res.toint = MathNil
     /\ RoundsTo(x, res.floor, FALSE) /\ RoundsTo(x, res.ceil, TRUE)
     /\ IF Finite(x) THEN /\ RoundsTo(x, whole, Exact(x) < 0) /\ part.t = "flt"
                          /\ Exact(whole) + part.v = Exact(x)
        ELSE whole = x /\ part = IF x.nan THEN NaN ELSE FltOf(0)
     /\ IF ints THEN IF y.v = 0 THEN res.fmod = MathError ELSE res.fmod.t = "int" /\ RemainderOf(x.v, y.v, res.fmod.v)
        ELSE IF ~Finite(xf) \/ yf.nan \/ yf.v = 0 THEN res.fmod = NaN
        ELSE IF Finite(yf) THEN res.fmod.t = "flt" /\ ~res.fmod.nan /\ RemainderOf(xf.v, yf.v, res.fmod.v)
        ELSE res.fmod = xf
     /\ Extreme(args, res.min, LAMBDA a, b : a < b) /\ Extreme(args, res.max, LAMBDA a, b : a > b)
     /\ ints => /\ res.ult = IF (x.v < 0) = (y.v < 0) THEN x.v < y.v ELSE y.v < 0
                /\ IF x.v <= y.v /\ y.v - x.v <= MaxInt THEN res.random.t = "int" /\ res.random.v \in x.v .. y.v
                   ELSE res.random = MathError
     /\ res.type = IF x.t = "int" THEN "integer" ELSE "float"
=============================================================================
