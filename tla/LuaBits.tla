------------------------------ MODULE LuaBits ------------------------------
(***************************************************************************)
(* The bit library (lbitlib.c): numbers of LUA_NBITS bits, kept in         *)
(* unsigned integers of UBITS bits.  Arguments are Lua integers of UBITS   *)
(* bits, with a sign.                                                      *)
(***************************************************************************)
EXTENDS Integers, Sequences, SequencesExt, Bitwise

CONSTANTS LUA_NBITS, UBITS

ASSUME BitsAssumption ==
  /\ UBITS \in Nat /\ LUA_NBITS \in 1 .. UBITS
  /\ \E k \in 0 .. UBITS : LUA_NBITS = 2 ^ k   \* b_rot takes a remainder with '&'

checkunsigned(n) == n % 2 ^ UBITS
Complement(r) == 2 ^ UBITS - 1 - r
Left(r, i) == (r * 2 ^ i) % 2 ^ UBITS
Right(r, i) == r \div 2 ^ i

ALLONES == 2 ^ LUA_NBITS - 1
trim(r) == r & ALLONES
\* n ones; the shift of ALLONES leaves ones above the bits in use, too.
mask(n) == Complement(Left(ALLONES, n))

andaux(args) == trim(FoldLeft(LAMBDA r, n : r & checkunsigned(n), Complement(0), args))
b_or(args) == trim(FoldLeft(LAMBDA r, n : r | checkunsigned(n), 0, args))
b_xor(args) == trim(FoldLeft(LAMBDA r, n : r ^^ checkunsigned(n), 0, args))
b_not(n) == trim(Complement(checkunsigned(n)))

b_shift(r, i) ==
  IF i < 0 THEN IF -i >= LUA_NBITS THEN 0 ELSE Right(trim(r), -i)
  ELSE IF i >= LUA_NBITS THEN 0 ELSE trim(Left(r, i))

arshiftFilled(n, i) == trim(Right(checkunsigned(n), i) | Complement(Right(trim(Complement(0)), i)))

b_arshift(n, i) ==
  IF i < 0 \/ (checkunsigned(n) & 2 ^ (LUA_NBITS - 1)) = 0 THEN b_shift(checkunsigned(n), -i)
  ELSE IF i >= LUA_NBITS THEN ALLONES ELSE arshiftFilled(n, i)

b_rot(n, d) ==
  LET i == d % LUA_NBITS
      r == trim(checkunsigned(n))
  IN IF i = 0 THEN r ELSE trim(Left(r, i) | Right(r, LUA_NBITS - i))

fieldargs(f, w) == 0 <= f /\ 0 < w /\ f + w <= LUA_NBITS
b_extract(n, f, w) == Right(trim(checkunsigned(n)), f) & mask(w)
b_replace(n, v, f, w) ==
  (trim(checkunsigned(n)) & Complement(Left(mask(w), f))) | Left(trim(checkunsigned(v)) & mask(w), f)

\* A call of op with arguments args; an error is -1.
BitOp(op, args) ==
  CASE op = "band" -> andaux(args)
    [] op = "btest" -> IF andaux(args) # 0 THEN 1 ELSE 0
    [] op = "bor" -> b_or(args)
    [] op = "bxor" -> b_xor(args)
    [] op = "bnot" -> b_not(args[1])
    [] op = "lshift" -> b_shift(checkunsigned(args[1]), args[2])
    [] op = "rshift" -> b_shift(checkunsigned(args[1]), -args[2])
    [] op = "arshift" -> b_arshift(args[1], args[2])
    [] op = "lrotate" -> b_rot(args[1], args[2])
    [] op = "rrotate" -> b_rot(args[1], -args[2])
    [] op = "extract" -> IF fieldargs(args[2], args[3]) THEN b_extract(args[1], args[2], args[3]) ELSE -1
    [] op = "replace" -> IF fieldargs(args[3], args[4]) THEN b_replace(args[1], args[2], args[3], args[4]) ELSE -1

\* What the manual says of bit k of the result.
Positions == 0 .. LUA_NBITS - 1
BitSet(n, k) == k \in Positions /\ (n \div 2 ^ k) % 2 = 1
BitOfManual(op, a, k) ==
  CASE op = "band" -> \A j \in DOMAIN a : BitSet(a[j], k)
    [] op = "btest" -> k = 0 /\ \E p \in Positions : \A j \in DOMAIN a : BitSet(a[j], p)
    [] op = "bor" -> \E j \in DOMAIN a : BitSet(a[j], k)
    [] op = "bxor" -> Len(SelectSeq(a, LAMBDA n : BitSet(n, k))) % 2 = 1
    [] op = "bnot" -> ~BitSet(a[1], k)
    [] op = "lshift" -> BitSet(a[1], k - a[2])
    [] op = "rshift" -> BitSet(a[1], k + a[2])
    [] op = "arshift" -> BitSet(a[1], IF k + a[2] >= LUA_NBITS THEN LUA_NBITS - 1 ELSE k + a[2])
    [] op = "lrotate" -> BitSet(a[1], (k - a[2]) % LUA_NBITS)
    [] op = "rrotate" -> BitSet(a[1], (k + a[2]) % LUA_NBITS)
    [] op = "extract" -> k < a[3] /\ BitSet(a[1], k + a[2])
    [] op = "replace" -> IF k \in a[3] .. a[3] + a[4] - 1 THEN BitSet(a[2], k - a[3]) ELSE BitSet(a[1], k)

InRange(op, a) ==
  CASE op = "extract" -> a[3] > 0 /\ a[2] .. a[2] + a[3] - 1 \subseteq Positions
    [] op = "replace" -> a[4] > 0 /\ a[3] .. a[3] + a[4] - 1 \subseteq Positions
    [] OTHER -> TRUE

BitsAs(op, a, res) ==
  IF InRange(op, a)
  THEN res \in 0 .. ALLONES /\ \A k \in Positions : BitSet(res, k) = BitOfManual(op, a, k)
  ELSE res = -1
=============================================================================
