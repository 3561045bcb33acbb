----------------------------- MODULE LuaTabLib -----------------------------
(***************************************************************************)
(* The table library (ltablib.c): sort with any comparison function, and   *)
(* insert, remove and move, which copy element by element.                 *)
(***************************************************************************)
EXTENDS Integers, Sequences, SequencesExt

CONSTANTS
  RanLimit,      \* RANLIMIT: larger intervals may use a random pivot
  Imbalance,     \* a partition is imbalanced when one side is this many times the other
  LUA_MAXINTEGER \* the greatest integer

ASSUME SortAssumption == RanLimit >= 4 /\ Imbalance \in Nat \ {0}

\* The comparison function, as the pairs for which it answers true.
sort_comp(lt, x, y) == <<x, y>> \in lt

Swap(a, i, j) == [a EXCEPT ![i] = a[j], ![j] = a[i]]

\* Mutant: the pivot is only compared with the upper end.
Sorted3Upper(a, lo, p, up, lt) == IF sort_comp(lt, a[up], a[p]) THEN Swap(a, p, up) ELSE a

\* The three elements at lo, p and up in order, when a[lo] <= a[up] already.
Sorted3(a, lo, p, up, lt) ==
  IF sort_comp(lt, a[p], a[lo]) THEN Swap(a, p, lo)
  ELSE IF sort_comp(lt, a[up], a[p]) THEN Swap(a, p, up)
  ELSE a

RECURSIVE ScanUp(_, _, _, _, _), ScanDown(_, _, _, _, _, _), PartitionFrom(_, _, _, _, _, _, _), auxsort(_, _, _, _, _, _)

\* The two inner loops of partition: the first i from which a[i] < P fails, the first j
\* down from which P < a[j] fails.
InvalidOrder == 0
Outside == -1     \* an element beyond the interval lo .. up would be compared
ScanUp(a, i, up, P, lt) ==
  LET k == i + 1
  IN IF k > up THEN Outside
     ELSE IF ~sort_comp(lt, a[k], P) THEN k
     ELSE IF k = up - 1 THEN InvalidOrder
     ELSE ScanUp(a, k, up, P, lt)

ScanDown(a, lo, i, j, P, lt) ==
  LET k == j - 1
  IN IF k < lo THEN Outside
     ELSE IF ~sort_comp(lt, P, a[k]) THEN k
     ELSE IF k < i THEN InvalidOrder
     ELSE ScanDown(a, lo, i, k, P, lt)

\* partition, with the pivot P at up - 1: the array and the place of the pivot.
PartitionFrom(a, lo, i, j, up, P, lt) ==
  LET i1 == ScanUp(a, i, up, P, lt)
      j1 == ScanDown(a, lo, i1, j, P, lt)
  IN IF i1 \in {InvalidOrder, Outside} THEN [a |-> a, p |-> i1]
     ELSE IF j1 \in {InvalidOrder, Outside} THEN [a |-> a, p |-> j1]
     ELSE IF j1 < i1 THEN [a |-> Swap(a, up - 1, i1), p |-> i1]
     ELSE PartitionFrom(Swap(a, i1, j1), lo, i1, j1, up, P, lt)

partition(a, lo, up, P, lt) == PartitionFrom(a, lo, lo, up - 1, up, P, lt)

choosePivot(lo, up, rnd) == LET r4 == (up - lo) \div 4 IN (rnd % (r4 * 2)) + (lo + r4)

\* auxsort: random is what l_randomizePivot returns, rnd the value in use.
auxsort(a, lo, up, rnd, random, lt) ==
  IF lo >= up THEN [a |-> a, err |-> "none"]
  ELSE
    LET b == IF sort_comp(lt, a[up], a[lo]) THEN Swap(a, lo, up) ELSE a
        p == IF up - lo < RanLimit \/ rnd = 0 THEN (lo + up) \div 2 ELSE choosePivot(lo, up, rnd)
        c == Sorted3(b, lo, p, up, lt)
        q == partition(Swap(c, p, up - 1), lo, up, c[p], lt)
        lower == q.p - lo < up - q.p
        n == IF lower THEN q.p - lo ELSE up - q.p
        first == IF lower THEN auxsort(q.a, lo, q.p - 1, rnd, random, lt)
                 ELSE auxsort(q.a, q.p + 1, up, rnd, random, lt)
        lo2 == IF lower THEN q.p + 1 ELSE lo
        up2 == IF lower THEN up ELSE q.p - 1
        again == lo2 <= up2 /\ (up2 - lo2) \div Imbalance > n
    IN IF up - lo = 1 THEN [a |-> b, err |-> "none"]
       ELSE IF up - lo = 2 THEN [a |-> c, err |-> "none"]
       ELSE IF q.p = InvalidOrder THEN [a |-> q.a, err |-> "invalid order"]
       ELSE IF q.p = Outside THEN [a |-> q.a, err |-> "outside"]
       ELSE IF first.err # "none" THEN first
       ELSE auxsort(first.a, lo2, up2, IF again THEN random ELSE rnd, random, lt)

sort(a, lt, random) ==
  IF Len(a) <= 1 THEN [a |-> a, err |-> "none"]
  ELSE auxsort(a, 1, Len(a), 0, random, lt)

\* Whatever the comparison answers, no element is lost or doubled and none outside the
\* interval is compared; a strict weak order sorts.
IsOrder(lt, V) ==
  /\ \A x, y \in V : <<x, y>> \in lt => <<y, x>> \notin lt
  /\ \A x, y, z \in V : <<x, y>> \in lt => <<x, z>> \in lt \/ <<z, y>> \in lt
SortIsRight(a, lt, r) ==
  LET V == {a[i] : i \in DOMAIN a}
      Count(s, v) == Len(SelectSeq(s, LAMBDA x : x = v))
  IN /\ r.err # "outside" /\ DOMAIN r.a = DOMAIN a /\ \A v \in V : Count(r.a, v) = Count(a, v)
     /\ IsOrder(lt, V) => r.err = "none" /\ \A i, j \in DOMAIN a : i < j => <<r.a[j], r.a[i]>> \notin lt

-----------------------------------------------------------------------------
(* Functions that copy, on a table from integers to values, 0 for nil. *)

Copy(t, from, to) == [t EXCEPT ![to] = t[from]]

\* tinsert, at a position from 1 to e.
tinsert(t, size, pos, v) ==
  [FoldLeft(LAMBDA u, k : Copy(u, size + 1 - k, size + 2 - k), t, [k \in 1 .. size + 1 - pos |-> k])
   EXCEPT ![pos] = v]

\* tremove, at a position from 1 to size + 1.
tremove(t, size, pos) ==
  [FoldLeft(LAMBDA u, k : Copy(u, pos + k, pos + k - 1), t, [k \in 1 .. size - pos |-> k])
   EXCEPT ![IF pos < size THEN size ELSE pos] = 0]

Increasing(f, e, t) == t > e \/ t <= f

\* tmove in one table; "too many elements to move" and "destination wrap around" are
\* its errors.
tmove(tab, f, e, t) ==
  LET n == e - f + 1
      fits == (f > 0 \/ e < LUA_MAXINTEGER + f) /\ t <= LUA_MAXINTEGER - n + 1
      order == [k \in 1 .. n |-> IF Increasing(f, e, t) THEN k - 1 ELSE n - k]
  IN IF e < f THEN [err |-> FALSE, tab |-> tab]
     ELSE [err |-> ~fits, tab |-> IF fits THEN FoldLeft(LAMBDA u, i : Copy(u, f + i, t + i), tab, order) ELSE tab]

\* A move copies as if all elements were read first, and is refused when their number or
\* the last place they go to is no integer; an insertion and the removal at its place
\* cancel out, and shift what is above.
MoveIsRight(tab, f, e, t, new) ==
  LET moved == IF e < f THEN {} ELSE t .. t + (e - f)
  IN /\ new.err <=> (Cardinality(moved) > LUA_MAXINTEGER \/ \E i \in moved : i > LUA_MAXINTEGER)
     /\ \A i \in DOMAIN tab : new.tab[i] = IF i \in moved /\ ~new.err THEN tab[i - t + f] ELSE tab[i]

InsertIsRight(tab, size, pos, v, new) ==
  /\ \A i \in DOMAIN tab : new[i] = IF i = pos THEN v
                                    ELSE IF pos < i /\ i <= size + 1 THEN tab[i - 1] ELSE tab[i]
  /\ tremove(new, size + 1, pos) = [tab EXCEPT ![size + 1] = 0]
=============================================================================
