---------------------------- MODULE LuaGcProofs ----------------------------
(***************************************************************************)
(* Proofs about LuaGc: the types, the lists of objects, the invariant of   *)
(* colours and what is never freed, for every heap the program may have    *)
(* built, any number of objects and operations, and every order of steps   *)
(* of the collector and of the program.                                    *)
(*                                                                         *)
(* GcInv says in which states what is true of the colours: what the sweep  *)
(* has passed has the present white (SweptOK), the dead are in allgc only, *)
(* and only until it has been swept (DeadOK), what waits to be traversed   *)
(* is alive (MarkedOK), and black objects refer to none that is white      *)
(* (ColoursOK).  The first part is about sequences, the second about what  *)
(* one sweep step does to one list; marking is seen as a step that makes   *)
(* objects darker, an operation of the program as one that may tint them.  *)
(***************************************************************************)
EXTENDS LuaGc, WellFoundedInduction, TLAPS

-----------------------------------------------------------------------------
(* Lists. *)

\* Cut(s, k, m): s without its elements between the k-th and the m-th.
Cut(s, k, m) == SubSeq(s, 1, k) \o SubSeq(s, m, Len(s))

\* x comes before y in s.
Before(s, x, y) == \E j, i \in 1..Len(s) : j < i /\ s[j] = x /\ s[i] = y

\* What a pointer p into s, or at its head, has in front of it.
After(s, p) == IF p = "head" THEN ToSet(s) ELSE {y \in ToSet(s) : Before(s, p, y)}

\* The elements of a list are those of its positions.
LEMMA ElementsOf ==
  ASSUME NEW T, NEW s \in Seq(T)
  PROVE  /\ ToSet(s) = {s[i] : i \in 1..Len(s)} /\ ToSet(s) \subseteq T
         /\ Len(s) \in Nat /\ DOMAIN s = 1..Len(s)
         /\ IsInjective(s) <=> \A i, j \in 1..Len(s) : s[i] = s[j] => i = j
  BY SMT DEF ToSet, IsInjective

\* A list that is cut is what is left of it.
LEMMA CutIs ==
  ASSUME NEW T, NEW s \in Seq(T), NEW k \in Nat, NEW m \in Nat, k < m, m <= Len(s) + 1
  PROVE  /\ Cut(s, k, m) \in Seq(T)
         /\ Len(Cut(s, k, m)) = k + Len(s) + 1 - m
         /\ \A i \in 1..k : Cut(s, k, m)[i] = s[i]
         /\ \A i \in (k + 1)..(k + Len(s) + 1 - m) : Cut(s, k, m)[i] = s[i + m - k - 1]
<1>1. SubSeq(s, 1, k) \in Seq(T) /\ SubSeq(s, m, Len(s)) \in Seq(T)
  OBVIOUS
<1>2. Len(SubSeq(s, 1, k)) = k /\ Len(SubSeq(s, m, Len(s))) = Len(s) + 1 - m
  OBVIOUS
<1>3. \A i \in 1..k : SubSeq(s, 1, k)[i] = s[i]
  OBVIOUS
<1>4. \A i \in 1..(Len(s) + 1 - m) : SubSeq(s, m, Len(s))[i] = s[i + m - 1]
  OBVIOUS
<1>. DEFINE a == SubSeq(s, 1, k)  b == SubSeq(s, m, Len(s))
<1>5. a \in Seq(T) /\ b \in Seq(T) /\ Len(a) = k /\ Len(b) = Len(s) + 1 - m /\ Len(s) \in Nat
  BY <1>1, <1>2
<1>6. (\A i \in 1..k : a[i] = s[i]) /\ \A i \in 1..(Len(s) + 1 - m) : b[i] = s[i + m - 1]
  BY <1>3, <1>4
<1>7. Cut(s, k, m) = a \o b
  BY DEF Cut
<1>. HIDE DEF a, b
<1>8. /\ a \o b \in Seq(T) /\ Len(a \o b) = k + Len(s) + 1 - m
      /\ \A i \in 1..k : (a \o b)[i] = a[i]
      /\ \A i \in (k + 1)..(k + Len(s) + 1 - m) : (a \o b)[i] = b[i - k]
  <2>1. a \o b \in Seq(T)
    BY <1>5
  <2>2. Len(a \o b) = Len(a) + Len(b)
    BY <1>5, SMTT(30)
  <2>3. \A i \in 1..(Len(a) + Len(b)) : (a \o b)[i] = IF i <= Len(a) THEN a[i] ELSE b[i - Len(a)]
    BY <1>5
  <2>4. (\A i \in 1..k : i \in 1..(Len(a) + Len(b)) /\ i <= Len(a))
        /\ \A i \in (k + 1)..(k + Len(s) + 1 - m) : i \in 1..(Len(a) + Len(b)) /\ ~(i <= Len(a))
    BY <1>5
  <2>5. \A i \in 1..k : (a \o b)[i] = a[i]
    BY <2>3, <2>4
  <2>6. \A i \in (k + 1)..(k + Len(s) + 1 - m) : (a \o b)[i] = b[i - k]
    BY <2>3, <2>4, <1>5
  <2>7. Len(a \o b) = k + Len(s) + 1 - m
    BY <2>2, <1>5
  <2>. QED  BY <2>1, <2>5, <2>6, <2>7
<1>9. \A i \in (k + 1)..(k + Len(s) + 1 - m) :
         i - k \in 1..(Len(s) + 1 - m) /\ (i - k) + m - 1 = i + m - k - 1
  BY <1>5
<1>. QED  BY <1>6, <1>7, <1>8, <1>9

\* What a cut takes away is gone, the rest is there once, in its order.
LEMMA CutSet ==
  ASSUME NEW T, NEW s \in Seq(T), NEW k \in Nat, NEW m \in Nat, k < m, m <= Len(s) + 1,
         IsInjective(s)
  PROVE  /\ ToSet(Cut(s, k, m)) = ToSet(s) \ {s[i] : i \in (k + 1)..(m - 1)}
         /\ IsInjective(Cut(s, k, m))
         /\ \A x, y : Before(s, x, y) /\ x \in ToSet(Cut(s, k, m)) /\ y \in ToSet(Cut(s, k, m))
                        => Before(Cut(s, k, m), x, y)
<1>. DEFINE c == Cut(s, k, m)  d == m - k - 1
<1>1. /\ c \in Seq(T) /\ Len(c) = Len(s) - d /\ d \in Nat
      /\ \A i \in 1..k : c[i] = s[i]
      /\ \A i \in (k + 1)..Len(c) : c[i] = s[i + d]
  <2>1. Len(s) \in Nat
    OBVIOUS
  <2>2. k + Len(s) + 1 - m = Len(s) - (m - k - 1) /\ \A i \in Int : i + m - k - 1 = i + (m - k - 1)
    BY <2>1
  <2>. QED  BY CutIs, <2>1, <2>2
<1>. HIDE DEF c
<1>2. \A i \in 1..Len(c) : c[i] = s[IF i <= k THEN i ELSE i + d] /\ (IF i <= k THEN i ELSE i + d) \in 1..Len(s)
  BY <1>1
<1>3. \A j \in 1..Len(s) : j <= k => j \in 1..Len(c) /\ c[j] = s[j]
  BY <1>1
<1>4. \A j \in 1..Len(s) : j >= m => j - d \in 1..Len(c) /\ c[j - d] = s[j]
  BY <1>1
<1>5. /\ ToSet(c) = {c[i] : i \in 1..Len(c)} /\ ToSet(s) = {s[i] : i \in 1..Len(s)}
      /\ \A i, j \in 1..Len(s) : s[i] = s[j] => i = j
      /\ IsInjective(c) <=> \A i, j \in 1..Len(c) : c[i] = c[j] => i = j
  BY ElementsOf, <1>1
<1>6. ToSet(c) = ToSet(s) \ {s[i] : i \in (k + 1)..(m - 1)}
  <2>1. ASSUME NEW x \in ToSet(c)  PROVE x \in ToSet(s) /\ ~ \E i \in (k + 1)..(m - 1) : x = s[i]
    <3>1. PICK i \in 1..Len(c) : x = c[i]
      BY <1>5
    <3>. DEFINE j == IF i <= k THEN i ELSE i + d
    <3>2. j \in 1..Len(s) /\ x = s[j] /\ ~(j \in (k + 1)..(m - 1))
      BY <3>1, <1>1, <1>2
    <3>3. \A q \in (k + 1)..(m - 1) : q \in 1..Len(s)
      BY <1>1
    <3>. QED  BY <3>2, <3>3, <1>5
  <2>2. ASSUME NEW x \in ToSet(s), ~ \E i \in (k + 1)..(m - 1) : x = s[i]  PROVE x \in ToSet(c)
    <3>1. PICK j \in 1..Len(s) : x = s[j]
      BY <1>5
    <3>2. j <= k \/ j >= m
      BY <3>1, <2>2
    <3>. QED  BY <3>1, <3>2, <1>3, <1>4, <1>5
  <2>. QED  BY <2>1, <2>2
<1>7. IsInjective(c)
  <2>. SUFFICES ASSUME NEW i \in 1..Len(c), NEW j \in 1..Len(c), c[i] = c[j]  PROVE i = j
    BY <1>5
  <2>. DEFINE ii == IF i <= k THEN i ELSE i + d  jj == IF j <= k THEN j ELSE j + d
  <2>1. ii \in 1..Len(s) /\ jj \in 1..Len(s) /\ s[ii] = s[jj]
    BY <1>2
  <2>. HIDE DEF ii, jj
  <2>2. ii = jj
    BY <2>1, <1>5
  <2>. QED  BY <2>2, <1>1 DEF ii, jj
<1>8. ASSUME NEW x, NEW y, Before(s, x, y), x \in ToSet(c), y \in ToSet(c)  PROVE Before(c, x, y)
  <2>1. PICK j \in 1..Len(s), i \in 1..Len(s) : j < i /\ s[j] = x /\ s[i] = y
    BY <1>8 DEF Before
  <2>2. (j <= k \/ j >= m) /\ (i <= k \/ i >= m)
    BY <2>1, <1>8, <1>6
  <2>. DEFINE jj == IF j <= k THEN j ELSE j - d  ii == IF i <= k THEN i ELSE i - d
  <2>3. jj \in 1..Len(c) /\ c[jj] = x
    BY <2>1, <2>2, <1>3, <1>4
  <2>4. ii \in 1..Len(c) /\ c[ii] = y
    BY <2>1, <2>2, <1>3, <1>4
  <2>5. jj < ii
    BY <2>1, <2>2, <1>1
  <2>. QED  BY <2>3, <2>4, <2>5 DEF Before
<1>. QED  BY <1>6, <1>7, <1>8 DEF c

\* Taking out one element.
LEMMA TakeOut ==
  ASSUME NEW T, NEW s \in Seq(T), NEW i \in 1..Len(s), IsInjective(s)
  PROVE  /\ RemoveAt(s, i) \in Seq(T) /\ IsInjective(RemoveAt(s, i))
         /\ ToSet(RemoveAt(s, i)) = ToSet(s) \ {s[i]}
         /\ \A x, y : Before(s, x, y) /\ x # s[i] /\ y # s[i] => Before(RemoveAt(s, i), x, y)
<1>1. RemoveAt(s, i) = Cut(s, i - 1, i + 1)
  BY DEF RemoveAt, Cut
<1>2. i - 1 \in Nat /\ i + 1 \in Nat /\ i - 1 < i + 1 /\ i + 1 <= Len(s) + 1
  OBVIOUS
<1>. DEFINE a == i - 1  b == i + 1
<1>3. {s[j] : j \in (a + 1)..(b - 1)} = {s[i]}
  OBVIOUS
<1>. HIDE DEF a, b
<1>4. /\ Cut(s, a, b) \in Seq(T) /\ IsInjective(Cut(s, a, b))
      /\ ToSet(Cut(s, a, b)) = ToSet(s) \ {s[i]}
      /\ \A x, y : Before(s, x, y) /\ x \in ToSet(Cut(s, a, b)) /\ y \in ToSet(Cut(s, a, b))
                     => Before(Cut(s, a, b), x, y)
  <2>1. a \in Nat /\ b \in Nat /\ a < b /\ b <= Len(s) + 1
    BY <1>2 DEF a, b
  <2>2. {s[j] : j \in (a + 1)..(b - 1)} = {s[i]}
    BY <1>3
  <2>3. Cut(s, a, b) \in Seq(T)
    BY <2>1, CutIs
  <2>4. /\ ToSet(Cut(s, a, b)) = ToSet(s) \ {s[j] : j \in (a + 1)..(b - 1)}
        /\ IsInjective(Cut(s, a, b))
        /\ \A x, y : Before(s, x, y) /\ x \in ToSet(Cut(s, a, b)) /\ y \in ToSet(Cut(s, a, b))
                       => Before(Cut(s, a, b), x, y)
    BY <2>1, CutSet
  <2>. QED  BY <2>2, <2>3, <2>4
<1>5. \A x, y : Before(s, x, y) => x \in ToSet(s) /\ y \in ToSet(s)
  BY ElementsOf DEF Before
<1>. QED  BY <1>1, <1>4, <1>5 DEF a, b

\* One element more, at the head.
LEMMA PutFirst ==
  ASSUME NEW T, NEW s \in Seq(T), NEW o \in T, o \notin ToSet(s), IsInjective(s)
  PROVE  /\ <<o>> \o s \in Seq(T) /\ IsInjective(<<o>> \o s)
         /\ ToSet(<<o>> \o s) = ToSet(s) \cup {o}
         /\ \A x, y : Before(s, x, y) => Before(<<o>> \o s, x, y)
<1>. DEFINE c == <<o>> \o s
<1>1. /\ c \in Seq(T) /\ Len(c) = Len(s) + 1 /\ c[1] = o
      /\ \A i \in 1..Len(s) : c[i + 1] = s[i]
  OBVIOUS
<1>. HIDE DEF c
<1>2. \A i \in 1..Len(c) : i = 1 \/ (i - 1 \in 1..Len(s) /\ c[i] = s[i - 1])
  <2>. TAKE i \in 1..Len(c)
  <2>1. i # 1 => i - 1 \in 1..Len(s) /\ (i - 1) + 1 = i
    BY <1>1
  <2>. QED  BY <2>1, <1>1
<1>3. /\ ToSet(c) = {c[i] : i \in 1..Len(c)} /\ ToSet(s) = {s[i] : i \in 1..Len(s)}
      /\ \A i, j \in 1..Len(s) : s[i] = s[j] => i = j
      /\ IsInjective(c) <=> \A i, j \in 1..Len(c) : c[i] = c[j] => i = j
  BY ElementsOf, <1>1
<1>4. \A i \in 1..Len(s) : i + 1 \in 1..Len(c)
  BY <1>1
<1>5. 1 \in 1..Len(c)
  BY <1>1
<1>6. ToSet(c) = ToSet(s) \cup {o}
  <2>1. ASSUME NEW x \in ToSet(c)  PROVE x \in ToSet(s) \cup {o}
    <3>1. PICK i \in 1..Len(c) : x = c[i]
      BY <1>3
    <3>2. i = 1 => x = o
      BY <3>1, <1>1
    <3>3. i # 1 => x \in ToSet(s)
      BY <3>1, <1>2, <1>3
    <3>. QED  BY <3>2, <3>3
  <2>2. \A i \in 1..Len(s) : s[i] \in ToSet(c)
    BY <1>1, <1>3, <1>4
  <2>3. o \in ToSet(c)
    BY <1>1, <1>3, <1>5
  <2>4. ToSet(s) \subseteq ToSet(c)
    BY <2>2, <1>3
  <2>. QED  BY <2>1, <2>3, <2>4
<1>7. \A i, j \in 1..Len(c) : c[i] = c[j] => i = j
  <2>. SUFFICES ASSUME NEW i \in 1..Len(c), NEW j \in 1..Len(c), c[i] = c[j]  PROVE i = j
    OBVIOUS
  <2>0. \A q \in 1..Len(c) : q # 1 => c[q] # o
    BY <1>2, <1>3
  <2>1. CASE i = 1 \/ j = 1
    BY <2>0, <2>1, <1>1
  <2>2. CASE i # 1 /\ j # 1
    <3>1. i - 1 = j - 1
      BY <2>2, <1>2, <1>3
    <3>. QED  BY <3>1
  <2>. QED  BY <2>1, <2>2
<1>8. ASSUME NEW x, NEW y, Before(s, x, y)  PROVE Before(c, x, y)
  <2>1. PICK j \in 1..Len(s), i \in 1..Len(s) : j < i /\ s[j] = x /\ s[i] = y
    BY <1>8 DEF Before
  <2>2. j + 1 \in 1..Len(c) /\ i + 1 \in 1..Len(c) /\ j + 1 < i + 1 /\ c[j + 1] = x /\ c[i + 1] = y
    BY <2>1, <1>1, <1>4
  <2>. QED  BY <2>2 DEF Before
<1>. QED  BY <1>1, <1>3, <1>6, <1>7, <1>8 DEF c

\* One element more, at the end.
LEMMA PutLast ==
  ASSUME NEW T, NEW s \in Seq(T), NEW o \in T, o \notin ToSet(s), IsInjective(s)
  PROVE  /\ Append(s, o) \in Seq(T) /\ IsInjective(Append(s, o))
         /\ ToSet(Append(s, o)) = ToSet(s) \cup {o}
<1>. DEFINE c == Append(s, o)
<1>1. /\ c \in Seq(T) /\ Len(c) = Len(s) + 1 /\ c[Len(s) + 1] = o
      /\ \A i \in 1..Len(s) : c[i] = s[i]
  OBVIOUS
<1>. HIDE DEF c
<1>2. /\ ToSet(c) = {c[i] : i \in 1..Len(c)} /\ ToSet(s) = {s[i] : i \in 1..Len(s)}
      /\ \A i, j \in 1..Len(s) : s[i] = s[j] => i = j
      /\ IsInjective(c) <=> \A i, j \in 1..Len(c) : c[i] = c[j] => i = j
  BY ElementsOf, <1>1
<1>3. Len(s) \in Nat /\ (\A i \in 1..Len(c) : i \in 1..Len(s) \/ i = Len(s) + 1) /\ Len(s) + 1 \in 1..Len(c)
  BY <1>1
<1>4. \A i \in 1..Len(s) : i \in 1..Len(c) /\ i # Len(s) + 1
  BY <1>1
<1>. QED  BY <1>1, <1>2, <1>3, <1>4 DEF c

\* The first element is taken away.
LEMMA TakeFirst ==
  ASSUME NEW T, NEW s \in Seq(T), s # <<>>, IsInjective(s)
  PROVE  /\ Tail(s) \in Seq(T) /\ IsInjective(Tail(s)) /\ Head(s) \in ToSet(s) /\ Head(s) \in T
         /\ ToSet(Tail(s)) = ToSet(s) \ {Head(s)}
<1>. DEFINE c == Tail(s)
<1>1. /\ c \in Seq(T) /\ Len(c) = Len(s) - 1 /\ Len(s) > 0 /\ Head(s) = s[1]
      /\ \A i \in 1..Len(c) : c[i] = s[i + 1]
  OBVIOUS
<1>. HIDE DEF c
<1>2. /\ ToSet(c) = {c[i] : i \in 1..Len(c)} /\ ToSet(s) = {s[i] : i \in 1..Len(s)}
      /\ \A i, j \in 1..Len(s) : s[i] = s[j] => i = j
      /\ IsInjective(c) <=> \A i, j \in 1..Len(c) : c[i] = c[j] => i = j
  <2>1. ToSet(c) = {c[i] : i \in 1..Len(c)} /\ (IsInjective(c) <=> \A i, j \in 1..Len(c) : c[i] = c[j] => i = j)
    BY ElementsOf, <1>1, SMTT(30)
  <2>2. ToSet(s) = {s[i] : i \in 1..Len(s)} /\ (\A i, j \in 1..Len(s) : s[i] = s[j] => i = j)
    BY ElementsOf
  <2>. QED  BY <2>1, <2>2
<1>3. \A i \in 1..Len(c) : i + 1 \in 1..Len(s) /\ i + 1 # 1
  BY <1>1
<1>4. \A i \in 1..Len(s) : i = 1 \/ (i - 1 \in 1..Len(c) /\ c[i - 1] = s[i])
  <2>. TAKE i \in 1..Len(s)
  <2>1. i # 1 => i - 1 \in 1..Len(c) /\ (i - 1) + 1 = i
    BY <1>1
  <2>. QED  BY <2>1, <1>1
<1>5. 1 \in 1..Len(s)
  BY <1>1
<1>6. ToSet(c) = ToSet(s) \ {s[1]}
  BY <1>1, <1>2, <1>3, <1>4, <1>5
<1>7. \A i, j \in 1..Len(c) : c[i] = c[j] => i = j
  BY <1>1, <1>2, <1>3
<1>8. Head(s) \in ToSet(s) /\ Head(s) \in T
  BY <1>1, <1>2, <1>5
<1>. QED  BY <1>1, <1>2, <1>6, <1>7, <1>8 DEF c

\* The place of an element.
LEMMA IndexIs ==
  ASSUME NEW T, NEW s \in Seq(T), NEW o \in ToSet(s)
  PROVE  Index(s, o) \in 1..Len(s) /\ s[Index(s, o)] = o
  BY ElementsOf DEF Index

-----------------------------------------------------------------------------
(* The invariant. *)

clean(o) == marked[o] = currentwhite

\* What the sweep has passed is clean, and after it everything but unswept.
SweptOK ==
  /\ gcstate = "swpallgc" => \A o \in ToSet(allgc) \ After(allgc, sweepgc) : clean(o)
  /\ gcstate \in {"swpfinobj", "swptobefnz", "swpend"} => \A o \in ToSet(allgc) : clean(o)
  /\ gcstate = "swpfinobj" => \A o \in ToSet(finobj) \ After(finobj, sweepgc) : clean(o)
  /\ gcstate \in {"swptobefnz", "swpend"} => \A o \in ToSet(finobj) : clean(o)
  /\ gcstate \in {"callfin", "pause"} => \A o \in Live \ unswept : clean(o)

\* The dead are in allgc, and only until it has been swept.
DeadOK ==
  \A o \in Live : isdead(o) => gcstate \in {"entersweep", "swpallgc"} /\ o \in ToSet(allgc)

\* The states in which the collector marks.
Marking == {"propagate", "atomic"} \cup (Inside \ {"entersweep"})

\* The main thread is gray, objects with finalizers are marked before the white
\* changes, and what the collector is going to traverse is alive.
MarkedOK ==
  /\ gcstate \in {"fnz", "converge2"} => \A o \in tofinalize : ~iswhite(o)
  /\ gcstate \in Marking \cup {"entersweep"} => marked[Main] = "gray"
  /\ \A th \in Thread : marked[th] # "black"
  /\ gcstate \in Marking => gray \cup grayagain \cup ephemeron \cup todo \subseteq Live
  /\ gcstate \notin {"marked", "converge1", "converge2"} => todo = {}

NotWhite(x) == x \in Obj => ~iswhite(x)

\* What a black object may not refer to; a table also keeps the key of an empty entry.
BlackOK(o) ==
  /\ o \in Tab => NotWhite(Key(o)) /\ NotWhite(Val(o))
  /\ o \in Udata => NotWhite(uservalue[o])
  /\ o \in Lcl /\ ~upisopen(o) => NotWhite(upval[o].v)

\* While the invariant is kept, of all that the last sweep came to.
ColoursOK ==
  keepinvariant =>
    \A o \in Live \ unswept :
      /\ marked[o] = "black" => BlackOK(o)
      /\ marked[o] = "gray" => o \in gray \cup grayagain \cup allweak

GcInv == TypeOK /\ ListsOK /\ SweptOK /\ DeadOK /\ MarkedOK /\ ColoursOK

-----------------------------------------------------------------------------
(* Sweeping a part of a list. *)

\* sweeplist has taken the elements k + 1 .. n of s, and they were all dead but the last.
Sweepable(s, k, n) ==
  /\ k \in Nat /\ n \in Nat /\ k <= n /\ n <= Len(s)
  /\ n = k => k = Len(s)
  /\ \A j \in (k + 1)..(n - 1) : isdead(s[j])

\* p is the pointer behind the first k elements of s.
PointsAt(s, k, p) == (p = "head" /\ k = 0) \/ (k \in 1..Len(s) /\ s[k] = p)

DeadOf(s, k, n) == {o \in Swept(s, k, n) : isdead(o)}

\* What remains of a list is what was not dead, in its order.
LEMMA RemainingIs ==
  ASSUME NEW T, NEW s \in Seq(T), NEW k, NEW n, IsInjective(s), Sweepable(s, k, n)
  PROVE  /\ Remaining(s, k, n) \in Seq(T) /\ IsInjective(Remaining(s, k, n))
         /\ ToSet(Remaining(s, k, n)) = ToSet(s) \ DeadOf(s, k, n)
         /\ \A x, y : Before(s, x, y) /\ x \in ToSet(Remaining(s, k, n)) /\ y \in ToSet(Remaining(s, k, n))
                        => Before(Remaining(s, k, n), x, y)
<1>. DEFINE m == IF LastLives(s, k, n) THEN n ELSE n + 1
<1>0. Len(s) \in Nat /\ k \in Nat /\ n \in Nat /\ k <= n /\ n <= Len(s)
  BY DEF Sweepable
<1>1. m \in Nat /\ k < m /\ m <= Len(s) + 1
  BY <1>0 DEF LastLives
<1>2. Remaining(s, k, n) = Cut(s, k, m)
  BY DEF Remaining, Cut
<1>3. {s[i] : i \in (k + 1)..(m - 1)} = DeadOf(s, k, n)
  <2>1. CASE LastLives(s, k, n)
    <3>1. m - 1 = n - 1 /\ n > k /\ ~isdead(s[n])
      BY <2>1, <1>0 DEF LastLives
    <3>2. \A i \in (k + 1)..n : isdead(s[i]) <=> i \in (k + 1)..(n - 1)
      BY <3>1, <1>0 DEF Sweepable
    <3>3. \A i \in (k + 1)..(n - 1) : i \in (k + 1)..n
      BY <1>0
    <3>. QED  BY <3>1, <3>2, <3>3 DEF DeadOf, Swept
  <2>2. CASE ~LastLives(s, k, n)
    <3>1. m - 1 = n
      BY <2>2, <1>0
    <3>2. \A i \in (k + 1)..n : isdead(s[i])
      BY <2>2, <1>0 DEF Sweepable, LastLives
    <3>. QED  BY <3>1, <3>2 DEF DeadOf, Swept
  <2>. QED  BY <2>1, <2>2
<1>. HIDE DEF m
<1>4. Cut(s, k, m) \in Seq(T)
  BY <1>0, <1>1, CutIs
<1>5. /\ ToSet(Cut(s, k, m)) = ToSet(s) \ {s[i] : i \in (k + 1)..(m - 1)}
      /\ IsInjective(Cut(s, k, m))
      /\ \A x, y : Before(s, x, y) /\ x \in ToSet(Cut(s, k, m)) /\ y \in ToSet(Cut(s, k, m))
                     => Before(Cut(s, k, m), x, y)
  BY <1>0, <1>1, CutSet
<1>. QED  BY <1>2, <1>3, <1>4, <1>5

\* What comes after the pointer was swept, or comes after the new pointer.
LEMMA PositionIs ==
  ASSUME NEW T, NEW s \in Seq(T), NEW k, NEW n, NEW p, IsInjective(s), Sweepable(s, k, n),
         PointsAt(s, k, p), NEW y \in After(s, p), y \in ToSet(Remaining(s, k, n)), "head" \notin T
  PROVE  y \in Swept(s, k, n) \/ y \in After(Remaining(s, k, n), Position(s, k, n, p))
<1>. DEFINE r == Remaining(s, k, n)
<1>0. Len(s) \in Nat /\ k \in Nat /\ n \in Nat /\ k <= n /\ n <= Len(s) /\ (n = k => k = Len(s))
  BY DEF Sweepable
<1>1. /\ ToSet(s) = {s[i] : i \in 1..Len(s)} /\ ToSet(s) \subseteq T
      /\ \A i, j \in 1..Len(s) : s[i] = s[j] => i = j
  BY ElementsOf
<1>2. /\ ToSet(r) = ToSet(s) \ DeadOf(s, k, n)
      /\ \A a, b : Before(s, a, b) /\ a \in ToSet(r) /\ b \in ToSet(r) => Before(r, a, b)
  BY RemainingIs
<1>3. PICK i \in 1..Len(s) : y = s[i] /\ i > k
  <2>1. CASE p = "head"
    <3>1. k = 0
      BY <2>1, <1>1 DEF PointsAt
    <3>. QED  BY <2>1, <3>1, <1>1 DEF After
  <2>2. CASE p # "head"
    <3>1. k \in 1..Len(s) /\ s[k] = p
      BY <2>2 DEF PointsAt
    <3>2. PICK j \in 1..Len(s), i \in 1..Len(s) : j < i /\ s[j] = p /\ s[i] = y
      BY <2>2 DEF After, Before
    <3>. QED  BY <3>1, <3>2, <1>1
  <2>. QED  BY <2>1, <2>2
<1>4. CASE i <= n
  BY <1>3, <1>4, <1>0 DEF Swept
<1>5. CASE i > n
  <2>0. n < Len(s) /\ n > k /\ n \in 1..Len(s)
    BY <1>5, <1>0
  <2>1. CASE LastLives(s, k, n)
    <3>1. Position(s, k, n, p) = s[n]
      BY <2>0, <2>1 DEF Position
    <3>2. Before(s, s[n], y)
      BY <1>3, <1>5, <2>0 DEF Before
    <3>3. s[n] \in ToSet(r) /\ s[n] # "head"
      BY <2>0, <2>1, <1>1, <1>2 DEF LastLives, DeadOf
    <3>. QED  BY <3>1, <3>2, <3>3, <1>2 DEF After
  <2>2. CASE ~LastLives(s, k, n)
    <3>1. Position(s, k, n, p) = p
      BY <2>0, <2>2 DEF Position
    <3>2. CASE p = "head"
      BY <3>1, <3>2 DEF After
    <3>3. CASE p # "head"
      <4>1. k \in 1..Len(s) /\ s[k] = p
        BY <3>3 DEF PointsAt
      <4>2. Before(s, p, y)
        BY <3>3 DEF After
      <4>3. p \notin Swept(s, k, n)
        BY <4>1, <1>0, <1>1 DEF Swept
      <4>4. p \in ToSet(r)
        BY <4>1, <4>3, <1>1, <1>2 DEF DeadOf
      <4>. QED  BY <3>1, <3>3, <4>2, <4>4, <1>2 DEF After
    <3>. QED  BY <3>2, <3>3
  <2>. QED  BY <2>1, <2>2
<1>. QED  BY <1>0, <1>3, <1>4, <1>5

\* At the end of the list nothing comes after.
LEMMA PositionAtEnd ==
  ASSUME NEW T, NEW s \in Seq(T), NEW k, NEW n, NEW p, Sweepable(s, k, n),
         Position(s, k, n, p) = Nil, Nil \notin T, p # Nil
  PROVE  n = Len(s)
<1>1. n > k => n \in 1..Len(s)
  BY DEF Sweepable
<1>2. \A i \in 1..Len(s) : s[i] # Nil
  BY ElementsOf
<1>. QED  BY <1>1, <1>2 DEF Position, LastLives

\* sweeptolive stops at the first object that is alive.
LEMMA ToLiveIs ==
  ASSUME NEW T, NEW s \in Seq(T), NEW k \in 0..Len(s)
  PROVE  /\ Sweepable(s, k, ToLive(s, k))
         /\ ToLive(s, k) = Len(s) \/ LastLives(s, k, ToLive(s, k))
<1>. DEFINE alive == {i \in (k + 1)..Len(s) : ~isdead(s[i])}
<1>0. Len(s) \in Nat /\ k \in Nat /\ k <= Len(s)
  OBVIOUS
<1>1. CASE alive = {}
  <2>1. ToLive(s, k) = Len(s)
    BY <1>1 DEF ToLive
  <2>2. \A j \in (k + 1)..(Len(s) - 1) : j \in (k + 1)..Len(s)
    BY <1>0
  <2>. QED  BY <1>0, <1>1, <2>1, <2>2 DEF Sweepable
<1>2. CASE alive # {}
  <2>1. alive \subseteq Nat
    BY <1>0
  <2>2. PICK x \in alive : \A y \in alive : ~(<<y, x>> \in OpToRel(<, Nat))
    BY <1>2, <2>1, NatLessThanWellFounded, WFMin
  <2>a. \A y \in alive : ~(y < x)
    <3>. HIDE DEF alive
    <3>. QED  BY <2>1, <2>2 DEF OpToRel
  <2>3. \A y \in alive : x <= y
    <3>. HIDE DEF alive
    <3>. QED  BY <2>1, <2>a
  <2>4. ToLive(s, k) = Min(alive)
    BY <1>2 DEF ToLive
  <2>. DEFINE n == Min(alive)
  <2>5. n \in alive /\ \A y \in alive : n <= y
    BY <2>3 DEF Min
  <2>. HIDE DEF n
  <2>6. n \in (k + 1)..Len(s) /\ ~isdead(s[n]) /\ \A j \in (k + 1)..(n - 1) : isdead(s[j])
    BY <2>5, <1>0
  <2>. QED  BY <1>0, <2>4, <2>6 DEF Sweepable, LastLives, n
<1>. QED  BY <1>1, <1>2

-----------------------------------------------------------------------------
(* Colours. *)

\* There are two whites, and the other one is the dead one.
LEMMA TwoWhites ==
  ASSUME currentwhite \in White
  PROVE  /\ otherwhite \in White /\ otherwhite # currentwhite
         /\ \A w \in White : w = currentwhite \/ w = otherwhite
         /\ "free" \notin White /\ "gray" \notin White /\ "black" \notin White
<1>1. currentwhite = "white0" \/ currentwhite = "white1"
  BY DEF White
<1>2. CASE currentwhite = "white0"
  BY <1>2, Zenon DEF White, otherwhite
<1>3. CASE currentwhite = "white1"
  BY <1>3, Zenon DEF White, otherwhite
<1>. QED  BY <1>1, <1>2, <1>3

\* What a part of the type invariant says of the lists.
LEMMA ListTypes ==
  ASSUME TypeOK
  PROVE  /\ allgc \in Seq(Obj \ {Main}) /\ finobj \in Seq(Finalizable) /\ tobefnz \in Seq(Finalizable)
         /\ allgc \in Seq(Obj) /\ finobj \in Seq(Obj) /\ tobefnz \in Seq(Obj)
         /\ ToSet(allgc) \subseteq Obj \ {Main} /\ ToSet(finobj) \subseteq Finalizable /\ ToSet(tobefnz) \subseteq Finalizable
         /\ tofinalize \subseteq Finalizable /\ Finalizable \subseteq Obj \ {Main} /\ Main \in Obj /\ Main \in Thread /\ Thread \subseteq Obj
         /\ currentwhite \in White
         /\ marked \in [Obj -> White \cup {"gray", "black", "free"}]
<1>1. /\ allgc \in Seq(Obj \ {Main}) /\ finobj \in Seq(Finalizable) /\ tobefnz \in Seq(Finalizable)
      /\ tofinalize \subseteq Finalizable /\ currentwhite \in White
      /\ marked \in [Obj -> White \cup {"gray", "black", "free"}]
  BY DEF TypeOK
<1>2. Finalizable \subseteq Obj \ {Main} /\ Main \in Obj /\ Main \in Thread /\ Thread \subseteq Obj
  BY GcAssumption DEF Obj, Thread, Finalizable
<1>3. ToSet(allgc) \subseteq Obj \ {Main} /\ ToSet(finobj) \subseteq Finalizable /\ ToSet(tobefnz) \subseteq Finalizable
  BY <1>1, ElementsOf
<1>4. allgc \in Seq(Obj) /\ finobj \in Seq(Obj) /\ tobefnz \in Seq(Obj)
  BY <1>1, <1>2
<1>. QED  BY <1>1, <1>2, <1>3, <1>4

\* The colours after a sweep over the objects of W: those of D were dead.
SweptTo(W, D) ==
  marked' = [o \in Obj |-> IF o \in D THEN "free" ELSE IF o \in W THEN currentwhite ELSE marked[o]]

\* What is swept is clean or gone, the rest is as it was.
LEMMA SweptColours ==
  ASSUME TypeOK, NEW W, NEW D, SweptTo(W, D), currentwhite' = currentwhite, D = {o \in W : isdead(o)}
  PROVE  /\ marked' \in [Obj -> White \cup {"gray", "black", "free"}]
         /\ \A o \in Obj : o \in D => marked'[o] = "free"
         /\ \A o \in Obj : o \notin D => (marked'[o] = "free" <=> marked[o] = "free" /\ o \notin W)
         /\ \A o \in Obj : isdead(o)' => isdead(o) /\ o \notin W
         /\ \A o \in Obj : clean(o) => clean(o)'
         /\ \A o \in Obj : o \in W /\ o \notin D => clean(o)'
         /\ \A o \in Obj : marked[o] # "black" => marked'[o] # "black"
<1>1. currentwhite \in White /\ marked \in [Obj -> White \cup {"gray", "black", "free"}]
  BY ListTypes
<1>2. /\ otherwhite \in White /\ otherwhite # currentwhite /\ otherwhite' = otherwhite
      /\ "free" \notin White /\ "gray" \notin White /\ "black" \notin White
  BY <1>1, TwoWhites DEF otherwhite
<1>3. \A o \in Obj : marked'[o] = IF o \in D THEN "free" ELSE IF o \in W THEN currentwhite ELSE marked[o]
  BY DEF SweptTo
<1>4. marked' \in [Obj -> White \cup {"gray", "black", "free"}]
  BY <1>1 DEF SweptTo
<1>5. \A o \in Obj : isdead(o) <=> marked[o] = otherwhite
  BY DEF isdead
<1>6. \A o \in Obj : isdead(o)' <=> marked'[o] = otherwhite
  BY <1>2 DEF isdead
<1>7. \A o \in Obj : (clean(o) <=> marked[o] = currentwhite) /\ (clean(o)' <=> marked'[o] = currentwhite)
  BY DEF clean
<1>8. \A o : o \in D <=> o \in W /\ isdead(o)
  OBVIOUS
<1>. HIDE DEF SweptTo
<1>9. \A o \in Obj : o \in D => marked'[o] = "free"
  BY <1>3
<1>10. \A o \in Obj : o \notin D => (marked'[o] = "free" <=> marked[o] = "free" /\ o \notin W)
  BY <1>1, <1>2, <1>3
<1>11. \A o \in Obj : isdead(o)' => isdead(o) /\ o \notin W
  BY <1>2, <1>3, <1>5, <1>6
<1>12. \A o \in Obj : clean(o) => clean(o)'
  BY <1>2, <1>3, <1>5, <1>7, <1>8
<1>13. \A o \in Obj : o \in W /\ o \notin D => clean(o)'
  BY <1>3, <1>7
<1>14. \A o \in Obj : marked[o] # "black" => marked'[o] # "black"
  BY <1>1, <1>2, <1>3
<1>. QED  BY <1>4, <1>9, <1>10, <1>11, <1>12, <1>13, <1>14

\* Nothing comes after a pointer that is not in the list.
LEMMA NotAfter ==
  ASSUME NEW T, NEW s \in Seq(T), NEW p, p \notin ToSet(s), p # "head"
  PROVE  After(s, p) = {}
  BY ElementsOf DEF After, Before

\* A list stays clean up to where the sweep is.
LEMMA SweepList ==
  ASSUME NEW s \in Seq(Obj), NEW k, NEW n, NEW p, IsInjective(s), Sweepable(s, k, n),
         PointsAt(s, k, p), TypeOK, SweptTo(Swept(s, k, n), DeadOf(s, k, n)), currentwhite' = currentwhite,
         \A y \in ToSet(s) : clean(y) \/ y \in After(s, p)
  PROVE  /\ ToSet(Remaining(s, k, n)) = ToSet(s) \ DeadOf(s, k, n)
         /\ \A y \in ToSet(Remaining(s, k, n)) : clean(y)' \/ y \in After(Remaining(s, k, n), Position(s, k, n, p))
<1>1. "head" \notin Obj
  BY GcAssumption
<1>2. ToSet(s) \subseteq Obj
  BY ElementsOf
<1>3. ToSet(Remaining(s, k, n)) = ToSet(s) \ DeadOf(s, k, n)
  BY RemainingIs
<1>4. DeadOf(s, k, n) = {o \in Swept(s, k, n) : isdead(o)}
  BY DEF DeadOf
<1>5. /\ \A o \in Obj : clean(o) => clean(o)'
      /\ \A o \in Obj : o \in Swept(s, k, n) /\ o \notin DeadOf(s, k, n) => clean(o)'
  <2>. DEFINE W == Swept(s, k, n)  D == DeadOf(s, k, n)
  <2>1. SweptTo(W, D) /\ D = {o \in W : isdead(o)}
    BY <1>4
  <2>. HIDE DEF W, D
  <2>2. (\A o \in Obj : clean(o) => clean(o)') /\ \A o \in Obj : o \in W /\ o \notin D => clean(o)'
    BY <2>1, SweptColours
  <2>. QED  BY <2>2 DEF W, D
<1>6. ASSUME NEW y \in ToSet(Remaining(s, k, n)), ~clean(y)'
      PROVE  y \in After(Remaining(s, k, n), Position(s, k, n, p))
  <2>1. y \in Obj /\ y \in ToSet(s) /\ ~clean(y) /\ y \notin Swept(s, k, n)
    BY <1>2, <1>3, <1>5, <1>6
  <2>2. y \in After(s, p)
    BY <2>1
  <2>. QED  BY <1>1, <1>6, <2>1, <2>2, PositionIs
<1>. QED  BY <1>3, <1>6

\* The place of sweepgc in the list it is in.
LEMMA SweepFrom ==
  ASSUME NEW s \in Seq(Obj), NEW state, InList(s, state), TypeOK
  PROVE  /\ PointsAt(s, From(s), sweepgc) /\ Sweepable(s, From(s), Upto(s))
         /\ From(s) \in 0..Len(s)
<1>1. "head" \notin Obj
  BY GcAssumption
<1>2. PointsAt(s, From(s), sweepgc) /\ From(s) \in 0..Len(s)
  <2>1. CASE sweepgc = "head"
    BY <2>1 DEF From, PointsAt
  <2>2. CASE sweepgc # "head"
    <3>1. sweepgc \in ToSet(s)
      BY <2>2 DEF InList
    <3>2. Index(s, sweepgc) \in 1..Len(s) /\ s[Index(s, sweepgc)] = sweepgc
      BY <3>1, IndexIs
    <3>. QED  BY <2>2, <3>2 DEF From, PointsAt
  <2>. QED  BY <2>1, <2>2
<1>3. Sweepable(s, From(s), Upto(s))
  <2>. DEFINE k == From(s)
  <2>1. k \in 0..Len(s) /\ Len(s) \in Nat
    BY <1>2
  <2>2. Upto(s) = IF k = Len(s) THEN Len(s) ELSE k + 1
    BY DEF Upto
  <2>. HIDE DEF k
  <2>3. Sweepable(s, k, Upto(s))
    BY <2>1, <2>2 DEF Sweepable
  <2>. QED  BY <2>3 DEF k
<1>. QED  BY <1>2, <1>3

-----------------------------------------------------------------------------
(* The type invariant, in parts that the actions change apart. *)

States == {"pause", "propagate", "atomic", "callfin"} \cup Inside \cup DOMAIN NextState \cup {"swpend"}

ControlTypes ==
  /\ currentwhite \in White /\ gcstate \in States
  /\ sweepgc \in Obj \cup {Nil, "head"} /\ changed \in BOOLEAN
  /\ gckind \in {"normal", "emergency"} /\ goal \in {"none", "pause", "leave", "callfin", "finish"}
  /\ fin \in Finalizable \cup {Nil} /\ ops \in 0..MaxOps /\ unswept \subseteq Obj \ {Main}

ObjectTypes ==
  /\ marked \in [Obj -> White \cup {"gray", "black", "free"}]
  /\ allgc \in Seq(Obj \ {Main}) /\ finobj \in Seq(Finalizable) /\ tobefnz \in Seq(Finalizable)
  /\ tofinalize \subseteq Finalizable

GrayTypes ==
  /\ gray \cup grayagain \cup weak \cup allweak \cup ephemeron \cup todo \subseteq Obj \ Leaf
  /\ twups \subseteq Thread

HeapTypes ==
  /\ DOMAIN stack = Thread
  /\ \A th \in Thread : stack[th] \in [Slot(th) -> Obj \cup {Nil}]
  /\ mode \in [Tab -> {"strong", "k", "v", "kv"}]
  /\ entry \in [Tab -> (Obj \cup {Nil, Dead}) \X (Obj \cup {Nil})]
  /\ uservalue \in [Udata -> Obj \cup {Nil}]
  /\ upval \in [Lcl -> Upvalue]

\* The parts make the whole.
LEMMA TypeParts ==
  /\ TypeOK <=> ControlTypes /\ ObjectTypes /\ GrayTypes /\ HeapTypes
  /\ TypeOK' <=> ControlTypes' /\ ObjectTypes' /\ GrayTypes' /\ HeapTypes'
<1>1. TypeOK <=> ControlTypes /\ ObjectTypes /\ GrayTypes /\ HeapTypes
  BY Zenon DEF TypeOK, ControlTypes, ObjectTypes, GrayTypes, HeapTypes, States
<1>2. TypeOK' <=> ControlTypes' /\ ObjectTypes' /\ GrayTypes' /\ HeapTypes'
  BY Zenon DEF TypeOK, ControlTypes, ObjectTypes, GrayTypes, HeapTypes, States
<1>. QED  BY <1>1, <1>2

\* The states by name.
LEMMA StatesAre ==
  States = {"pause", "propagate", "atomic", "callfin", "propagateall", "marked", "again", "converge1",
            "separate", "fnz", "converge2", "entersweep", "swpallgc", "swpfinobj", "swptobefnz", "swpend"}
  BY DEF States, Inside, NextState

\* The values in the heap.
LEMMA HeapValues ==
  ASSUME HeapTypes
  PROVE  /\ \A th \in Thread : 1 \in Slot(th) /\ \A i \in Slot(th) : stack[th][i] \in Obj \cup {Nil}
         /\ \A t \in Tab : Key(t) \in Obj \cup {Nil, Dead} /\ Val(t) \in Obj \cup {Nil} /\ entry[t] = <<Key(t), Val(t)>>
         /\ \A u \in Udata : uservalue[u] \in Obj \cup {Nil}
         /\ \A c \in Lcl : upval[c].open \in Thread \cup {Nil} /\ upval[c].v \in Obj \cup {Nil}
                           /\ upval[c].touched \in BOOLEAN /\ UpValue(c) \in Obj \cup {Nil}
<1>1. \A th \in Thread : 1 \in Slot(th)
  BY GcAssumption DEF Slot
<1>2. \A th \in Thread : \A i \in Slot(th) : stack[th][i] \in Obj \cup {Nil}
  BY DEF HeapTypes
<1>3. \A t \in Tab : Key(t) \in Obj \cup {Nil, Dead} /\ Val(t) \in Obj \cup {Nil} /\ entry[t] = <<Key(t), Val(t)>>
  BY DEF HeapTypes, Key, Val
<1>4. \A u \in Udata : uservalue[u] \in Obj \cup {Nil}
  BY DEF HeapTypes
<1>5. \A c \in Lcl : upval[c].open \in Thread \cup {Nil} /\ upval[c].v \in Obj \cup {Nil} /\ upval[c].touched \in BOOLEAN
  BY DEF HeapTypes, Upvalue
<1>6. \A c \in Lcl : UpValue(c) \in Obj \cup {Nil}
  BY <1>1, <1>2, <1>5 DEF UpValue, upisopen
<1>. QED  BY <1>1, <1>2, <1>3, <1>4, <1>5, <1>6

\* Freeing objects leaves a heap.
LEMMA FreeTypes ==
  ASSUME HeapTypes, NEW D, Free(D), mode' = mode
  PROVE  HeapTypes'
<1>1. /\ stack' = [th \in Thread |-> IF th \in D THEN [i \in Slot(th) |-> Nil] ELSE stack[th]]
      /\ entry' = [t \in Tab |-> IF t \in D THEN <<Nil, Nil>> ELSE entry[t]]
      /\ uservalue' = [u \in Udata |-> IF u \in D THEN Nil ELSE uservalue[u]]
  BY DEF Free
<1>2. DOMAIN stack' = Thread /\ \A th \in Thread : stack'[th] \in [Slot(th) -> Obj \cup {Nil}]
  BY <1>1 DEF HeapTypes
<1>3. entry' \in [Tab -> (Obj \cup {Nil, Dead}) \X (Obj \cup {Nil})]
  <2>1. \A t \in Tab : entry[t] \in (Obj \cup {Nil, Dead}) \X (Obj \cup {Nil})
    BY DEF HeapTypes
  <2>. QED  BY <1>1, <2>1
<1>4. uservalue' \in [Udata -> Obj \cup {Nil}]
  BY <1>1 DEF HeapTypes
<1>5. upval' \in [Lcl -> Upvalue]
  <2>1. \A c \in Lcl : UpValue(c) \in Obj \cup {Nil} /\ upval[c] \in Upvalue
    BY HeapValues DEF HeapTypes
  <2>2. ASSUME NEW v \in Obj \cup {Nil}  PROVE [open |-> Nil, v |-> v, touched |-> FALSE] \in Upvalue
    BY DEF Upvalue
  <2>. DEFINE closing(c) == upval[c].open \in D
              gone(c) == (c \in D \/ marked[c] = "free") /\ (closing(c) \/ ~upisopen(c))
              N == [open |-> Nil, v |-> Nil, touched |-> FALSE]
              C(c) == [open |-> Nil, v |-> UpValue(c), touched |-> FALSE]
  <2>3. upval' = [c \in Lcl |-> IF gone(c) THEN N ELSE IF closing(c) THEN C(c) ELSE upval[c]]
    BY DEF Free
  <2>4. N \in Upvalue /\ \A c \in Lcl : C(c) \in Upvalue
    BY <2>1, <2>2
  <2>. HIDE DEF closing, gone, N, C
  <2>. QED  BY <2>1, <2>3, <2>4
<1>6. mode' \in [Tab -> {"strong", "k", "v", "kv"}]
  BY DEF HeapTypes
<1>. QED  BY <1>2, <1>3, <1>4, <1>5, <1>6 DEF HeapTypes

-----------------------------------------------------------------------------
(* The sweep. *)

\* What is freed is what was dead of the part swept.
LEMMA SweptLive ==
  ASSUME NEW s \in Seq(Obj), NEW k, NEW n, IsInjective(s), Sweepable(s, k, n), ToSet(s) \subseteq Live,
         TypeOK, ListsOK, SweepColours(s, k, n), currentwhite' = currentwhite
  PROVE  /\ SweptTo(Swept(s, k, n), DeadOf(s, k, n)) /\ Free(DeadOf(s, k, n))
         /\ marked' \in [Obj -> White \cup {"gray", "black", "free"}]
         /\ \A o \in Obj : marked'[o] = "free" <=> marked[o] = "free" \/ o \in DeadOf(s, k, n)
         /\ \A o \in Obj : isdead(o)' => isdead(o) /\ o \notin Swept(s, k, n)
         /\ \A o \in Obj : clean(o) => clean(o)'
         /\ \A o \in Obj : marked[o] # "black" => marked'[o] # "black"
         /\ \A o \in DeadOf(s, k, n) : o \in ToSet(s) /\ isdead(o)
<1>. DEFINE W == Swept(s, k, n)  D == DeadOf(s, k, n)
<1>1. D = {o \in W : isdead(o)}
  BY DEF DeadOf
<1>2. SweptTo(W, D) /\ Free(D)
  BY <1>1 DEF SweepColours, SweptTo
<1>3. \A o \in W : o \in ToSet(s)
  <2>1. \A i \in (k + 1)..n : i \in 1..Len(s)
    BY DEF Sweepable
  <2>2. ToSet(s) = {s[i] : i \in 1..Len(s)}
    BY ElementsOf
  <2>. QED  BY <2>1, <2>2 DEF Swept
<1>4. \A o \in W : marked[o] # "free" /\ o \in Obj
  BY <1>3 DEF ListsOK
<1>5. \A o \in D : o \in ToSet(s) /\ isdead(o)
  BY <1>1, <1>3
<1>. HIDE DEF W, D
<1>6. /\ marked' \in [Obj -> White \cup {"gray", "black", "free"}]
      /\ \A o \in Obj : o \in D => marked'[o] = "free"
      /\ \A o \in Obj : o \notin D => (marked'[o] = "free" <=> marked[o] = "free" /\ o \notin W)
      /\ \A o \in Obj : isdead(o)' => isdead(o) /\ o \notin W
      /\ \A o \in Obj : clean(o) => clean(o)'
      /\ \A o \in Obj : marked[o] # "black" => marked'[o] # "black"
  BY <1>1, <1>2, SweptColours
<1>7. \A o \in Obj : marked'[o] = "free" <=> marked[o] = "free" \/ o \in D
  BY <1>4, <1>6
<1>. QED  BY <1>2, <1>5, <1>6, <1>7 DEF W, D

\* The lists are parts of what lives, and disjoint.
LEMMA ListsAre ==
  ASSUME TypeOK, ListsOK
  PROVE  /\ ToSet(allgc) \subseteq Live /\ ToSet(finobj) \subseteq Live /\ ToSet(tobefnz) \subseteq Live
         /\ Live \subseteq Obj /\ Main \in Live /\ \A o \in Obj : o \in Live <=> marked[o] # "free"
         /\ \A o \in ToSet(allgc) : o \notin ToSet(finobj) /\ o \notin ToSet(tobefnz) /\ o # Main
         /\ \A o \in ToSet(finobj) : o \notin ToSet(tobefnz) /\ o # Main
         /\ \A o \in ToSet(tobefnz) : o # Main
  BY ListTypes DEF Live, ListsOK

\* Objects outside allgc are not dead.
LEMMA DeadInAllgc ==
  ASSUME TypeOK, ListsOK, DeadOK, NEW s \in {finobj, tobefnz}, NEW k, NEW n, Sweepable(s, k, n)
  PROVE  DeadOf(s, k, n) = {}
<1>1. s \in Seq(Obj) /\ ToSet(s) \subseteq Live /\ \A o \in ToSet(s) : o \notin ToSet(allgc)
  BY ListTypes, ListsAre
<1>2. \A o \in Swept(s, k, n) : o \in ToSet(s)
  <2>1. \A i \in (k + 1)..n : i \in 1..Len(s)
    BY DEF Sweepable
  <2>2. ToSet(s) = {s[i] : i \in 1..Len(s)}
    BY <1>1, ElementsOf
  <2>. QED  BY <2>1, <2>2 DEF Swept
<1>. QED  BY <1>1, <1>2 DEF DeadOf, DeadOK

\* A part of allgc is swept.
LEMMA SweepAllgc ==
  ASSUME TypeOK, ListsOK, NEW k, NEW n, Sweepable(allgc, k, n), SweepColours(allgc, k, n),
         allgc' = Remaining(allgc, k, n), currentwhite' = currentwhite, UNCHANGED <<finobj, tobefnz, tofinalize>>
  PROVE  ListsOK' /\ ObjectTypes' /\ Live' = Live \ DeadOf(allgc, k, n)
<1>. DEFINE D == DeadOf(allgc, k, n)  r == Remaining(allgc, k, n)
<1>1. /\ allgc \in Seq(Obj \ {Main}) /\ finobj \in Seq(Finalizable) /\ tobefnz \in Seq(Finalizable) /\ tofinalize \subseteq Finalizable
      /\ allgc \in Seq(Obj) /\ IsInjective(allgc) /\ Main \in Obj
  BY ListTypes DEF ListsOK
<1>2. r \in Seq(Obj \ {Main}) /\ IsInjective(r) /\ ToSet(r) = ToSet(allgc) \ D
  BY <1>1, RemainingIs
<1>3. /\ marked' \in [Obj -> White \cup {"gray", "black", "free"}]
      /\ \A o \in Obj : marked'[o] = "free" <=> marked[o] = "free" \/ o \in D
      /\ \A o \in D : o \in ToSet(allgc)
  BY <1>1, ListsAre, SweptLive
<1>4. ObjectTypes'
  BY <1>1, <1>2, <1>3 DEF ObjectTypes
<1>. HIDE DEF D, r
<1>5. allgc' = r
  BY DEF r
<1>6. \A o \in D : o \notin ToSet(finobj) /\ o \notin ToSet(tobefnz) /\ o # Main
  BY <1>3, ListsAre
<1>7. Live' = Live \ D
  BY <1>2, <1>5, <1>6 DEF Live
<1>8. Live' = {o \in Obj : marked'[o] # "free"}
  BY <1>3, <1>7 DEF ListsOK
<1>9. IsInjective(allgc)' /\ IsInjective(finobj)' /\ IsInjective(tobefnz)'
  BY <1>2, <1>5 DEF ListsOK
<1>10. /\ ToSet(allgc') \cap tofinalize' = {} /\ ToSet(finobj') \cap ToSet(tobefnz') = {}
       /\ tofinalize' = ToSet(finobj') \cup ToSet(tobefnz')
  BY <1>2, <1>5 DEF ListsOK
<1>. QED  BY <1>4, <1>7, <1>8, <1>9, <1>10 DEF ListsOK, D

\* A part of finobj or tobefnz is swept: there is nothing dead in it.
LEMMA SweepFinobj ==
  ASSUME TypeOK, ListsOK, DeadOK, NEW s \in {finobj, tobefnz}, NEW k, NEW n, Sweepable(s, k, n), SweepColours(s, k, n),
         \/ s = finobj /\ finobj' = Remaining(s, k, n) /\ tobefnz' = tobefnz
         \/ s = tobefnz /\ tobefnz' = Remaining(s, k, n) /\ finobj' = finobj,
         currentwhite' = currentwhite, UNCHANGED <<allgc, tofinalize>>
  PROVE  /\ ListsOK' /\ ObjectTypes' /\ Live' = Live
         /\ ToSet(finobj') = ToSet(finobj) /\ ToSet(tobefnz') = ToSet(tobefnz)
<1>. DEFINE r == Remaining(s, k, n)
<1>1. /\ allgc \in Seq(Obj \ {Main}) /\ finobj \in Seq(Finalizable) /\ tobefnz \in Seq(Finalizable) /\ tofinalize \subseteq Finalizable
      /\ s \in Seq(Obj) /\ s \in Seq(Finalizable) /\ IsInjective(s)
  BY ListTypes DEF ListsOK
<1>2. DeadOf(s, k, n) = {}
  BY DeadInAllgc
<1>3. r \in Seq(Finalizable) /\ IsInjective(r) /\ ToSet(r) = ToSet(s)
  <2>1. r \in Seq(Finalizable) /\ IsInjective(r) /\ ToSet(r) = ToSet(s) \ DeadOf(s, k, n)
    BY <1>1, RemainingIs
  <2>. QED  BY <2>1, <1>2
<1>4. /\ marked' \in [Obj -> White \cup {"gray", "black", "free"}]
      /\ \A o \in Obj : marked'[o] = "free" <=> marked[o] = "free"
  BY <1>1, <1>2, ListsAre, SweptLive
<1>. HIDE DEF r
<1>5. \/ s = finobj /\ finobj' = r /\ tobefnz' = tobefnz
      \/ s = tobefnz /\ tobefnz' = r /\ finobj' = finobj
  BY DEF r
<1>6. ToSet(finobj') = ToSet(finobj) /\ ToSet(tobefnz') = ToSet(tobefnz) /\ IsInjective(finobj)' /\ IsInjective(tobefnz)'
  BY <1>3, <1>5 DEF ListsOK
<1>7. finobj' \in Seq(Finalizable) /\ tobefnz' \in Seq(Finalizable)
  BY <1>1, <1>3, <1>5
<1>8. ObjectTypes'
  BY <1>1, <1>4, <1>7 DEF ObjectTypes
<1>9. Live' = Live
  BY <1>6 DEF Live
<1>10. Live' = {o \in Obj : marked'[o] # "free"}
  BY <1>4, <1>9 DEF ListsOK
<1>11. ListsOK'
  BY <1>6, <1>10 DEF ListsOK
<1>. QED  BY <1>6, <1>8, <1>9, <1>11

\* The sweep of list s has come to p; it will have after a step.
CleanUpTo(s, p) == \A y \in ToSet(s) : clean(y) \/ y \in After(s, p)
CleanNext(s, p) == \A y \in ToSet(s) : clean(y)' \/ y \in After(s, p)

\* The sweep goes on from p, or with the next list.
GoesOn(p) ==
  /\ gcstate' = IF p = Nil THEN NextState[gcstate] ELSE gcstate
  /\ sweepgc' = IF p # Nil THEN p ELSE IF gcstate = "swptobefnz" THEN Nil ELSE "head"

\* No step of the sweep makes an object dead or dirty, or loses one that lives.
Cleaner ==
  /\ \A o \in Obj : (clean(o) => clean(o)') /\ (isdead(o)' => isdead(o))
  /\ Live' \subseteq Live /\ ToSet(finobj') = ToSet(finobj)
  /\ \A o \in ToSet(allgc) : o \in Live' => o \in ToSet(allgc')
  /\ ToSet(allgc') \subseteq ToSet(allgc)

SweepStates == {"swpallgc", "swpfinobj", "swptobefnz"}

\* The states of the sweep by name.
LEMMA NextStates ==
  /\ DOMAIN NextState = SweepStates
  /\ NextState["swpallgc"] = "swpfinobj" /\ NextState["swpfinobj"] = "swptobefnz" /\ NextState["swptobefnz"] = "swpend"
  BY DEF NextState, SweepStates

\* A list whose sweep is over is clean.
LEMMA CleanAtEnd ==
  ASSUME NEW s \in Seq(Obj), CleanUpTo(s, Nil)
  PROVE  \A y \in ToSet(s) : clean(y)
<1>1. Nil \notin Obj /\ Nil # "head"
  BY GcAssumption
<1>2. ToSet(s) \subseteq Obj
  BY ElementsOf
<1>3. After(s, Nil) = {}
  BY <1>1, <1>2, NotAfter
<1>. QED  BY <1>3 DEF CleanUpTo

\* The same, after a step.
LEMMA CleanAtEndNext ==
  ASSUME NEW s \in Seq(Obj), CleanNext(s, Nil)
  PROVE  \A y \in ToSet(s) : clean(y)'
<1>1. Nil \notin Obj /\ Nil # "head"
  BY GcAssumption
<1>2. ToSet(s) \subseteq Obj
  BY ElementsOf
<1>3. After(s, Nil) = {}
  BY <1>1, <1>2, NotAfter
<1>. QED  BY <1>3 DEF CleanNext

\* A step of the sweep that has come to p.
LEMMA Passed ==
  ASSUME NEW p, TypeOK, ListsOK, SweptOK, DeadOK, gcstate \in SweepStates, Cleaner, GoesOn(p), ObjectTypes',
         gcstate = "swpallgc" => CleanNext(allgc', p),
         gcstate = "swpfinobj" => CleanNext(finobj', p)
  PROVE  SweptOK' /\ DeadOK'
<1>1. /\ allgc' \in Seq(Obj) /\ finobj' \in Seq(Obj)
      /\ ToSet(allgc) \subseteq Obj /\ ToSet(finobj) \subseteq Obj /\ Live \subseteq Obj
  BY ListTypes, ListsAre DEF ObjectTypes
<1>2. /\ NextState["swpallgc"] = "swpfinobj" /\ NextState["swpfinobj"] = "swptobefnz" /\ NextState["swptobefnz"] = "swpend"
  BY NextStates
<1>3. \A o \in Obj : (clean(o) => clean(o)') /\ (isdead(o)' => isdead(o))
  BY DEF Cleaner
<1>4. CASE gcstate = "swpallgc"
  <2>1. CASE p = Nil
    <3>1. gcstate' = "swpfinobj" /\ sweepgc' = "head"
      BY <1>2, <1>4, <2>1 DEF GoesOn
    <3>2. \A y \in ToSet(allgc') : clean(y)'
      BY <1>1, <1>4, <2>1, CleanAtEndNext
    <3>3. After(finobj', sweepgc') = ToSet(finobj')
      BY <3>1 DEF After
    <3>4. SweptOK'
      BY <3>1, <3>2, <3>3 DEF SweptOK
    <3>5. \A o \in Live' : ~isdead(o)'
      <4>. SUFFICES ASSUME NEW o \in Live', isdead(o)'  PROVE FALSE
        OBVIOUS
      <4>1. o \in Live /\ o \in Obj /\ isdead(o)
        BY <1>1, <1>3 DEF Cleaner
      <4>2. o \in ToSet(allgc')
        BY <4>1 DEF Cleaner, DeadOK
      <4>3. clean(o)'
        BY <3>2, <4>2
      <4>4. marked'[o] = currentwhite' /\ marked'[o] = otherwhite'
        BY <4>3 DEF clean, isdead
      <4>5. otherwhite' # currentwhite'
        BY Zenon DEF otherwhite
      <4>. QED  BY <4>4, <4>5
    <3>. QED  BY <3>4, <3>5 DEF DeadOK
  <2>2. CASE p # Nil
    <3>1. gcstate' = "swpallgc" /\ sweepgc' = p
      BY <1>4, <2>2 DEF GoesOn
    <3>2. \A y \in ToSet(allgc') : clean(y)' \/ y \in After(allgc', sweepgc')
      BY <1>4, <3>1 DEF CleanNext
    <3>3. SweptOK'
      BY <3>1, <3>2 DEF SweptOK
    <3>4. DeadOK'
      BY <1>1, <1>3, <3>1 DEF DeadOK, Cleaner
    <3>. QED  BY <3>3, <3>4
  <2>. QED  BY <2>1, <2>2
<1>5. CASE gcstate # "swpallgc"
  <2>0. gcstate = "swpfinobj" \/ gcstate = "swptobefnz"
    BY <1>5 DEF SweepStates
  <2>1. \A y \in ToSet(allgc') : clean(y)'
    BY <1>1, <1>3, <2>0 DEF SweptOK, Cleaner
  <2>2. DeadOK'
    BY <1>1, <1>3, <2>0 DEF DeadOK, Cleaner
  <2>3. CASE gcstate = "swpfinobj" /\ p = Nil
    <3>1. gcstate' = "swptobefnz"
      BY <1>2, <2>3 DEF GoesOn
    <3>2. \A y \in ToSet(finobj') : clean(y)'
      BY <1>1, <2>3, CleanAtEndNext
    <3>. QED  BY <2>1, <2>2, <3>1, <3>2 DEF SweptOK
  <2>4. CASE gcstate = "swpfinobj" /\ p # Nil
    <3>1. gcstate' = "swpfinobj" /\ sweepgc' = p
      BY <2>4 DEF GoesOn
    <3>2. \A y \in ToSet(finobj') : clean(y)' \/ y \in After(finobj', sweepgc')
      BY <2>4, <3>1 DEF CleanNext
    <3>. QED  BY <2>1, <2>2, <3>1, <3>2 DEF SweptOK
  <2>5. CASE gcstate = "swptobefnz"
    <3>1. gcstate' \in {"swptobefnz", "swpend"}
      BY <1>2, <2>5 DEF GoesOn
    <3>2. \A y \in ToSet(finobj') : clean(y)'
      BY <1>1, <1>3, <2>5 DEF SweptOK, Cleaner
    <3>. QED  BY <2>1, <2>2, <3>1, <3>2 DEF SweptOK
  <2>. QED  BY <2>0, <2>3, <2>4, <2>5
<1>. QED  BY <1>4, <1>5

\* The new pointer is at an object of the list, where it was, or at the end.
LEMMA PositionType ==
  ASSUME NEW s \in Seq(Obj), NEW k, NEW n, NEW p \in Obj \cup {Nil, "head"}, Sweepable(s, k, n)
  PROVE  Position(s, k, n, p) \in Obj \cup {Nil, "head"}
<1>1. n > k => n \in 1..Len(s)
  BY DEF Sweepable
<1>2. \A i \in 1..Len(s) : s[i] \in Obj
  BY ElementsOf
<1>. QED  BY <1>1, <1>2 DEF Position, LastLives

\* Outside the marking little is asked of colours and gray lists.
LEMMA NotMarking ==
  ASSUME gcstate' \in SweepStates \cup {"swpend", "callfin", "pause"},
         \A th \in Thread : marked'[th] # "black", todo' = {}
  PROVE  MarkedOK' /\ ColoursOK'
<1>1. /\ gcstate' \notin {"fnz", "converge2"} /\ gcstate' \notin Marking \cup {"entersweep"}
      /\ gcstate' \notin {"propagate", "atomic"}
  BY DEF Marking, Inside, SweepStates
<1>2. MarkedOK'
  BY <1>1 DEF MarkedOK
<1>3. ColoursOK'
  BY <1>1 DEF ColoursOK, keepinvariant
<1>. QED  BY <1>2, <1>3

\* What stays of the types in a step of the sweep.
LEMMA SweepTypes ==
  ASSUME TypeOK, gcstate' \in States, sweepgc' \in Obj \cup {Nil, "head"},
         UNCHANGED <<currentwhite, grayVars, twups, convVars, callVars, idleVars>>
  PROVE  ControlTypes' /\ GrayTypes'
<1>1. ControlTypes /\ GrayTypes
  BY TypeParts
<1>2. ControlTypes'
  BY <1>1 DEF ControlTypes, convVars, callVars, idleVars
<1>3. GrayTypes'
  BY <1>1 DEF GrayTypes, convVars, grayVars
<1>. QED  BY <1>2, <1>3

\* From one state of the sweep to the next.
LEMMA GoesOnTypes ==
  ASSUME NEW p \in Obj \cup {Nil, "head"}, gcstate \in SweepStates, GoesOn(p)
  PROVE  /\ gcstate' \in States /\ gcstate' \in SweepStates \cup {"swpend", "callfin", "pause"}
         /\ sweepgc' \in Obj \cup {Nil, "head"}
<1>1. gcstate' \in SweepStates \cup {"swpend"}
  BY NextStates DEF SweepStates, GoesOn
<1>2. SweepStates \cup {"swpend"} \subseteq States
  BY StatesAre DEF SweepStates
<1>3. sweepgc' \in Obj \cup {Nil, "head"}
  BY DEF GoesOn
<1>. QED  BY <1>1, <1>2, <1>3

\* The sweep is entered.
LEMMA EnterSweepInv ==
  ASSUME GcInv, entersweep
  PROVE  GcInv'
<1>. DEFINE n == ToLive(allgc, 0)  p == Position(allgc, 0, n, "head")  D == DeadOf(allgc, 0, n)
<1>1. TypeOK /\ ListsOK /\ SweptOK /\ DeadOK /\ MarkedOK
  BY DEF GcInv
<1>2. /\ gcstate = "entersweep" /\ gcstate' = "swpallgc" /\ SweepColours(allgc, 0, n)
      /\ allgc' = Remaining(allgc, 0, n) /\ sweepgc' = p
      /\ UNCHANGED <<currentwhite, grayVars, twups, convVars, callVars, idleVars>>
      /\ UNCHANGED <<finobj, tobefnz, tofinalize>>
  BY DEF entersweep
<1>3. allgc \in Seq(Obj) /\ IsInjective(allgc) /\ ToSet(allgc) \subseteq Live /\ Live \subseteq Obj /\ Thread \subseteq Obj
  BY <1>1, ListTypes, ListsAre DEF ListsOK
<1>4. Sweepable(allgc, 0, n)
  BY <1>3, ToLiveIs
<1>. HIDE DEF n
<1>5. ListsOK' /\ ObjectTypes' /\ Live' = Live \ D
  BY <1>1, <1>2, <1>4, SweepAllgc
<1>6. /\ SweptTo(Swept(allgc, 0, n), D) /\ Free(D)
      /\ \A o \in Obj : isdead(o)' => isdead(o) /\ o \notin Swept(allgc, 0, n)
      /\ \A o \in Obj : marked[o] # "black" => marked'[o] # "black"
      /\ \A o \in DeadOf(allgc, 0, n) : o \in ToSet(allgc) /\ isdead(o)
  BY <1>1, <1>2, <1>3, <1>4, SweptLive
<1>7. /\ ToSet(allgc') = ToSet(allgc) \ D
      /\ \A y \in ToSet(allgc') : clean(y)' \/ y \in After(allgc', p)
  <2>1. PointsAt(allgc, 0, "head")
    BY DEF PointsAt
  <2>2. \A y \in ToSet(allgc) : clean(y) \/ y \in After(allgc, "head")
    BY DEF After
  <2>3. /\ ToSet(Remaining(allgc, 0, n)) = ToSet(allgc) \ DeadOf(allgc, 0, n)
        /\ \A y \in ToSet(Remaining(allgc, 0, n)) :
              clean(y)' \/ y \in After(Remaining(allgc, 0, n), Position(allgc, 0, n, "head"))
    BY <1>1, <1>2, <1>3, <1>4, <1>6, <2>1, <2>2, SweepList
  <2>. QED  BY <1>2, <2>3
<1>8. SweptOK'
  BY <1>2, <1>7 DEF SweptOK
<1>9. DeadOK'
  <2>. SUFFICES ASSUME NEW o \in Live', isdead(o)'  PROVE o \in ToSet(allgc')
    BY <1>2 DEF DeadOK
  <2>1. o \in Live /\ o \notin D /\ o \in Obj
    BY <1>3, <1>5
  <2>2. o \in ToSet(allgc)
    BY <1>1, <1>6, <2>1 DEF DeadOK
  <2>. QED  BY <1>7, <2>1, <2>2
<1>10. MarkedOK' /\ ColoursOK'
  <2>1. \A th \in Thread : marked'[th] # "black"
    BY <1>1, <1>3, <1>6 DEF MarkedOK
  <2>2. todo' = {}
    BY <1>1, <1>2 DEF MarkedOK, convVars
  <2>3. gcstate' \in SweepStates \cup {"swpend", "callfin", "pause"}
    BY <1>2 DEF SweepStates
  <2>. QED  BY <2>1, <2>2, <2>3, NotMarking
<1>11. ControlTypes' /\ GrayTypes'
  <2>1. sweepgc' \in Obj \cup {Nil, "head"}
    BY <1>2, <1>3, <1>4, PositionType
  <2>2. gcstate' \in States
    BY <1>2, StatesAre
  <2>. QED  BY <1>1, <1>2, <2>1, <2>2, SweepTypes
<1>12. HeapTypes'
  <2>1. HeapTypes
    BY <1>1, TypeParts
  <2>. QED  BY <1>2, <1>6, <2>1, FreeTypes DEF idleVars
<1>. QED  BY <1>5, <1>8, <1>9, <1>10, <1>11, <1>12, TypeParts DEF GcInv

\* What a step of the sweep has to show.
LEMMA SweepStepInv ==
  ASSUME GcInv, NEW p \in Obj \cup {Nil, "head"}, gcstate \in SweepStates, GoesOn(p), Cleaner, ListsOK', ObjectTypes', HeapTypes',
         \A th \in Thread : marked'[th] # "black",
         UNCHANGED <<currentwhite, grayVars, twups, convVars, callVars, idleVars>>,
         gcstate = "swpallgc" => CleanNext(allgc', p),
         gcstate = "swpfinobj" => CleanNext(finobj', p)
  PROVE  GcInv'
<1>1. TypeOK /\ ListsOK /\ SweptOK /\ DeadOK /\ MarkedOK
  BY DEF GcInv
<1>2. SweptOK' /\ DeadOK'
  BY <1>1, Passed
<1>3. /\ gcstate' \in States /\ gcstate' \in SweepStates \cup {"swpend", "callfin", "pause"}
      /\ sweepgc' \in Obj \cup {Nil, "head"}
  BY GoesOnTypes
<1>4. ControlTypes' /\ GrayTypes'
  BY <1>1, <1>3, SweepTypes
<1>5. todo' = {}
  BY <1>1 DEF MarkedOK, convVars, SweepStates
<1>6. MarkedOK' /\ ColoursOK'
  BY <1>3, <1>5, NotMarking
<1>. QED  BY <1>2, <1>4, <1>6, TypeParts DEF GcInv

\* The list of the state is over already.
LEMMA SweepNothingInv ==
  ASSUME GcInv, gcstate \in SweepStates, sweepgc = Nil,
         gcstate' = NextState[gcstate], sweepgc' = IF gcstate = "swptobefnz" THEN Nil ELSE "head",
         UNCHANGED <<allgc, finobj, tobefnz, marked, heapVars>>,
         UNCHANGED <<tofinalize, currentwhite, grayVars, twups, convVars, callVars, idleVars>>
  PROVE  GcInv'
<1>1. TypeOK /\ ListsOK /\ SweptOK /\ DeadOK /\ MarkedOK
  BY DEF GcInv
<1>2. GoesOn(Nil)
  BY DEF GoesOn
<1>3. Live' = Live
  BY DEF Live
<1>4. Cleaner
  BY <1>3 DEF Cleaner, clean, isdead, otherwhite
<1>5. ListsOK' /\ ObjectTypes'
  BY <1>1, <1>3, TypeParts DEF ListsOK, ObjectTypes
<1>6. HeapTypes'
  BY <1>1, TypeParts DEF HeapTypes, heapVars, idleVars
<1>7. gcstate = "swpallgc" => CleanNext(allgc', Nil)
  BY <1>1 DEF CleanNext, SweptOK, clean
<1>8. gcstate = "swpfinobj" => CleanNext(finobj', Nil)
  BY <1>1 DEF CleanNext, SweptOK, clean
<1>9. \A th \in Thread : marked'[th] # "black"
  BY <1>1 DEF MarkedOK
<1>10. Nil \in Obj \cup {Nil, "head"}
  OBVIOUS
<1>. HIDE DEF GcInv
<1>. QED  BY <1>2, <1>4, <1>5, <1>6, <1>7, <1>8, <1>9, <1>10, SweepStepInv

\* The pointer is in one list, so nothing comes after it in another.
LEMMA ElsewhereClean ==
  ASSUME NEW s \in Seq(Obj), NEW r \in Seq(Obj), \A y \in ToSet(s) : y \notin ToSet(r), sweepgc \in ToSet(r),
         CleanUpTo(s, sweepgc)
  PROVE  \A y \in ToSet(s) : clean(y)
<1>1. "head" \notin Obj /\ ToSet(r) \subseteq Obj
  BY ElementsOf, GcAssumption
<1>2. After(s, sweepgc) = {}
  BY <1>1, NotAfter
<1>. QED  BY <1>2 DEF CleanUpTo

\* One object of allgc is swept.
LEMMA SweepAllgcInv ==
  ASSUME GcInv, gcstate \in SweepStates, sweeplist(allgc, "swpallgc"),
         allgc' = Remaining(allgc, From(allgc), Upto(allgc)), UNCHANGED <<finobj, tobefnz>>,
         UNCHANGED <<tofinalize, currentwhite, grayVars, twups, convVars, callVars, idleVars>>
  PROVE  GcInv'
<1>. DEFINE k == From(allgc)  n == Upto(allgc)  p == Position(allgc, k, n, sweepgc)  D == DeadOf(allgc, k, n)
<1>1. TypeOK /\ ListsOK /\ SweptOK /\ DeadOK /\ MarkedOK
  BY DEF GcInv
<1>2. SweepColours(allgc, k, n) /\ GoesOn(p) /\ InList(allgc, "swpallgc")
  BY DEF sweeplist, GoesOn
<1>3. /\ allgc \in Seq(Obj) /\ IsInjective(allgc) /\ ToSet(allgc) \subseteq Live /\ Live \subseteq Obj /\ Thread \subseteq Obj
      /\ finobj \in Seq(Obj) /\ \A y \in ToSet(finobj) : y \notin ToSet(allgc)
  BY <1>1, ListTypes, ListsAre DEF ListsOK
<1>4. PointsAt(allgc, k, sweepgc) /\ Sweepable(allgc, k, n)
  BY <1>1, <1>2, <1>3, SweepFrom
<1>5. allgc' = Remaining(allgc, k, n)
  OBVIOUS
<1>. HIDE DEF k, n
<1>6. ListsOK' /\ ObjectTypes' /\ Live' = Live \ D
  BY <1>1, <1>2, <1>4, <1>5, SweepAllgc
<1>7. /\ SweptTo(Swept(allgc, k, n), D) /\ Free(D)
      /\ \A o \in Obj : isdead(o)' => isdead(o) /\ o \notin Swept(allgc, k, n)
      /\ \A o \in Obj : clean(o) => clean(o)'
      /\ \A o \in Obj : marked[o] # "black" => marked'[o] # "black"
  BY <1>1, <1>2, <1>3, <1>4, SweptLive
<1>8. ToSet(allgc') = ToSet(allgc) \ D
  BY <1>3, <1>4, <1>5, RemainingIs
<1>9. Cleaner
  BY <1>3, <1>6, <1>7, <1>8 DEF Cleaner
<1>10. gcstate = "swpallgc" => CleanNext(allgc', p)
  <2>. SUFFICES ASSUME gcstate = "swpallgc"  PROVE CleanNext(allgc', p)
    OBVIOUS
  <2>1. \A y \in ToSet(allgc) : clean(y) \/ y \in After(allgc, sweepgc)
    BY <1>1 DEF SweptOK
  <2>2. \A y \in ToSet(Remaining(allgc, k, n)) :
           clean(y)' \/ y \in After(Remaining(allgc, k, n), Position(allgc, k, n, sweepgc))
    BY <1>1, <1>3, <1>4, <1>7, <2>1, SweepList
  <2>. QED  BY <1>5, <2>2 DEF CleanNext
<1>11. gcstate = "swpfinobj" => CleanNext(finobj', p)
  <2>. SUFFICES ASSUME gcstate = "swpfinobj"  PROVE CleanNext(finobj', p)
    OBVIOUS
  <2>1. sweepgc \in ToSet(allgc)
    BY <1>2 DEF InList
  <2>2. CleanUpTo(finobj, sweepgc)
    BY <1>1 DEF SweptOK, CleanUpTo
  <2>3. \A y \in ToSet(finobj) : clean(y) /\ y \in Obj
    BY <1>3, <2>1, <2>2, ElsewhereClean, ElementsOf
  <2>. QED  BY <1>7, <2>3 DEF CleanNext
<1>12. \A th \in Thread : marked'[th] # "black"
  BY <1>1, <1>3, <1>7 DEF MarkedOK
<1>13. p \in Obj \cup {Nil, "head"}
  <2>1. sweepgc \in Obj \cup {Nil, "head"}
    BY <1>1, TypeParts DEF ControlTypes
  <2>. QED  BY <1>3, <1>4, <2>1, PositionType
<1>14. HeapTypes'
  <2>1. HeapTypes
    BY <1>1, TypeParts
  <2>. QED  BY <1>7, <2>1, FreeTypes DEF idleVars
<1>. HIDE DEF p
<1>. QED  BY <1>2, <1>6, <1>9, <1>10, <1>11, <1>12, <1>13, <1>14, SweepStepInv

\* One object of finobj or tobefnz is.
LEMMA SweepFinobjInv ==
  ASSUME NEW s \in {finobj, tobefnz}, GcInv, gcstate \in SweepStates, 
         \/ s = finobj /\ finobj' = Remaining(s, From(s), Upto(s)) /\ tobefnz' = tobefnz
              /\ sweeplist(s, "swpfinobj")
         \/ s = tobefnz /\ tobefnz' = Remaining(s, From(s), Upto(s)) /\ finobj' = finobj
              /\ sweeplist(s, "swptobefnz"),
         UNCHANGED <<allgc, tofinalize, currentwhite, grayVars, twups, convVars, callVars, idleVars>>
  PROVE  GcInv'
<1>. DEFINE k == From(s)  n == Upto(s)  p == Position(s, k, n, sweepgc)
<1>1. TypeOK /\ ListsOK /\ SweptOK /\ DeadOK /\ MarkedOK
  BY DEF GcInv
<1>2. /\ SweepColours(s, k, n) /\ GoesOn(p)
      /\ \/ s = finobj /\ finobj' = Remaining(s, k, n) /\ tobefnz' = tobefnz /\ InList(s, "swpfinobj")
         \/ s = tobefnz /\ tobefnz' = Remaining(s, k, n) /\ finobj' = finobj /\ InList(s, "swptobefnz")
  BY DEF sweeplist, GoesOn
<1>3. /\ allgc \in Seq(Obj) /\ Live \subseteq Obj /\ Thread \subseteq Obj /\ finobj \in Seq(Obj) /\ tobefnz \in Seq(Obj)
      /\ s \in Seq(Obj) /\ IsInjective(s) /\ ToSet(s) \subseteq Live
      /\ (\A y \in ToSet(allgc) : y \notin ToSet(s)) /\ (\A y \in ToSet(finobj) : y \notin ToSet(tobefnz))
  BY <1>1, ListTypes, ListsAre DEF ListsOK
<1>4. PointsAt(s, k, sweepgc) /\ Sweepable(s, k, n)
  BY <1>1, <1>2, <1>3, SweepFrom
<1>. HIDE DEF k, n
<1>6. ListsOK' /\ ObjectTypes' /\ Live' = Live /\ ToSet(finobj') = ToSet(finobj)
  BY <1>1, <1>2, <1>4, SweepFinobj
<1>7. /\ SweptTo(Swept(s, k, n), DeadOf(s, k, n)) /\ Free(DeadOf(s, k, n))
      /\ \A o \in Obj : isdead(o)' => isdead(o) /\ o \notin Swept(s, k, n)
      /\ \A o \in Obj : clean(o) => clean(o)'
      /\ \A o \in Obj : marked[o] # "black" => marked'[o] # "black"
  BY <1>1, <1>2, <1>3, <1>4, SweptLive
<1>9. Cleaner
  BY <1>3, <1>6, <1>7 DEF Cleaner
<1>10. gcstate = "swpallgc" => CleanNext(allgc', p)
  <2>. SUFFICES ASSUME gcstate = "swpallgc"  PROVE CleanNext(allgc', p)
    OBVIOUS
  <2>1. sweepgc \in ToSet(s)
    BY <1>2 DEF InList
  <2>2. CleanUpTo(allgc, sweepgc)
    BY <1>1 DEF SweptOK, CleanUpTo
  <2>3. \A y \in ToSet(allgc) : clean(y)
    BY <1>3, <2>1, <2>2, ElsewhereClean
  <2>4. \A y \in ToSet(allgc) : y \in Obj
    BY <1>3, ElementsOf
  <2>. QED  BY <1>7, <2>3, <2>4 DEF CleanNext
<1>11. gcstate = "swpfinobj" => CleanNext(finobj', p)
  <2>. SUFFICES ASSUME gcstate = "swpfinobj"  PROVE CleanNext(finobj', p)
    OBVIOUS
  <2>0. \A y \in ToSet(finobj) : y \in Obj
    BY <1>3, ElementsOf
  <2>1. \A y \in ToSet(finobj) : clean(y) \/ y \in After(finobj, sweepgc)
    BY <1>1 DEF SweptOK
  <2>2. CASE s = finobj /\ finobj' = Remaining(s, k, n)
    <3>0. \A y \in ToSet(s) : clean(y) \/ y \in After(s, sweepgc)
      BY <2>1, <2>2
    <3>1. \A y \in ToSet(Remaining(s, k, n)) :
             clean(y)' \/ y \in After(Remaining(s, k, n), Position(s, k, n, sweepgc))
      BY <1>1, <1>3, <1>4, <1>7, <3>0, SweepList
    <3>. QED  BY <2>2, <3>1 DEF CleanNext
  <2>3. CASE s = tobefnz /\ finobj' = finobj /\ InList(s, "swptobefnz")
    <3>1. sweepgc \in ToSet(tobefnz)
      BY <2>3 DEF InList
    <3>2. CleanUpTo(finobj, sweepgc)
      BY <2>1 DEF CleanUpTo
    <3>3. \A y \in ToSet(finobj) : clean(y)
      BY <1>3, <3>1, <3>2, ElsewhereClean
    <3>. QED  BY <1>7, <2>0, <2>3, <3>3 DEF CleanNext
  <2>. QED  BY <1>2, <2>2, <2>3
<1>12. \A th \in Thread : marked'[th] # "black"
  BY <1>1, <1>3, <1>7 DEF MarkedOK
<1>13. p \in Obj \cup {Nil, "head"}
  <2>1. sweepgc \in Obj \cup {Nil, "head"}
    BY <1>1, TypeParts DEF ControlTypes
  <2>. QED  BY <1>3, <1>4, <2>1, PositionType
<1>14. HeapTypes'
  <2>1. HeapTypes
    BY <1>1, TypeParts
  <2>. QED  BY <1>7, <2>1, FreeTypes DEF idleVars
<1>. HIDE DEF p
<1>. QED  BY <1>2, <1>6, <1>9, <1>10, <1>11, <1>12, <1>13, <1>14, SweepStepInv

\* A step of the sweep.
LEMMA SweepInv ==
  ASSUME GcInv, sweepstep
  PROVE  GcInv'
<1>0. gcstate \in SweepStates
  BY NextStates DEF sweepstep
<1>1. CASE sweepgc = Nil /\ gcstate' = NextState[gcstate] /\ sweepgc' = (IF gcstate = "swptobefnz" THEN Nil ELSE "head")
           /\ UNCHANGED <<allgc, finobj, tobefnz, marked, heapVars>>
  BY <1>0, <1>1, SweepNothingInv DEF sweepstep
<1>2. CASE sweeplist(allgc, "swpallgc") /\ allgc' = Remaining(allgc, From(allgc), Upto(allgc)) /\ UNCHANGED <<finobj, tobefnz>>
  BY <1>0, <1>2, SweepAllgcInv DEF sweepstep
<1>3. CASE sweeplist(finobj, "swpfinobj") /\ finobj' = Remaining(finobj, From(finobj), Upto(finobj)) /\ UNCHANGED <<allgc, tobefnz>>
  <2>1. UNCHANGED <<allgc, tofinalize, currentwhite, grayVars, twups, convVars, callVars, idleVars>>
    BY <1>3 DEF sweepstep
  <2>. QED  BY <1>0, <1>3, <2>1, SweepFinobjInv
<1>4. CASE sweeplist(tobefnz, "swptobefnz") /\ tobefnz' = Remaining(tobefnz, From(tobefnz), Upto(tobefnz)) /\ UNCHANGED <<allgc, finobj>>
  <2>1. UNCHANGED <<allgc, tofinalize, currentwhite, grayVars, twups, convVars, callVars, idleVars>>
    BY <1>4 DEF sweepstep
  <2>. QED  BY <1>0, <1>4, <2>1, SweepFinobjInv
<1>. QED  BY <1>1, <1>2, <1>3, <1>4 DEF sweepstep

\* The sweep is over: what it has not come to is remembered.
LEMMA SweepEndInv ==
  ASSUME GcInv, SweepEnd
  PROVE  GcInv'
<1>1. TypeOK /\ ListsOK /\ SweptOK /\ DeadOK /\ MarkedOK
  BY DEF GcInv
<1>2. /\ gcstate = "swpend" /\ gcstate' = "callfin" /\ marked' = [marked EXCEPT ![Main] = currentwhite]
      /\ unswept' = {o \in Live \ {Main} : marked[o] # currentwhite}
      /\ UNCHANGED <<listVars, currentwhite, sweepgc, grayVars, twups, convVars, callVars, heapVars, mode, ops>>
  BY DEF SweepEnd
<1>3. /\ marked \in [Obj -> White \cup {"gray", "black", "free"}] /\ currentwhite \in White /\ Main \in Obj /\ Thread \subseteq Obj
      /\ Live \subseteq Obj /\ Main \in Live /\ \A o \in Obj : o \in Live <=> marked[o] # "free"
  BY <1>1, ListTypes, ListsAre
<1>4. currentwhite # "free" /\ currentwhite # "black" /\ otherwhite # currentwhite /\ otherwhite' = otherwhite
  BY <1>2, <1>3, TwoWhites DEF otherwhite
<1>5. Live' = Live
  BY <1>2 DEF Live, listVars
<1>6. \A o \in Obj : marked'[o] = IF o = Main THEN currentwhite ELSE marked[o]
  BY <1>2, <1>3
<1>7. ListsOK'
  BY <1>1, <1>2, <1>3, <1>4, <1>5, <1>6 DEF ListsOK, listVars
<1>8. SweptOK'
  <2>1. \A o \in Live' \ unswept' : clean(o)'
    BY <1>2, <1>3, <1>5, <1>6 DEF clean
  <2>. QED  BY <1>2, <2>1 DEF SweptOK
<1>9. DeadOK'
  BY <1>1, <1>2, <1>3, <1>4, <1>5, <1>6 DEF DeadOK, isdead
<1>10. MarkedOK' /\ ColoursOK'
  <2>1. \A th \in Thread : marked'[th] # "black"
    BY <1>1, <1>3, <1>4, <1>6 DEF MarkedOK
  <2>2. todo' = {}
    BY <1>1, <1>2 DEF MarkedOK, convVars
  <2>. QED  BY <1>2, <2>1, <2>2, NotMarking
<1>11. TypeOK'
  <2>1. ControlTypes'
    BY <1>1, <1>2, <1>3, TypeParts, StatesAre DEF ControlTypes, convVars, callVars
  <2>2. ObjectTypes'
    BY <1>1, <1>2, <1>3, TypeParts DEF ObjectTypes, listVars
  <2>3. GrayTypes' /\ HeapTypes'
    BY <1>1, <1>2, TypeParts DEF GrayTypes, HeapTypes, grayVars, convVars, heapVars
  <2>. QED  BY <2>1, <2>2, <2>3, TypeParts
<1>. QED  BY <1>7, <1>8, <1>9, <1>10, <1>11 DEF GcInv

-----------------------------------------------------------------------------
(* Objects move from list to list. *)

\* Colours that change to the present white only.
Whitened ==
  /\ \A o \in Obj : (clean(o) => clean(o)') /\ (isdead(o)' => isdead(o)) /\ (marked[o] # "black" => marked'[o] # "black")
  /\ ~issweepphase => marked' = marked

\* What the program does leaves the collector where it is.
LEMMA StillThere ==
  ASSUME GcInv, Whitened, gcstate \notin Inside, Live' = Live, heapVars' = heapVars,
         UNCHANGED <<currentwhite, gcstate, grayVars, convVars, unswept>>
  PROVE  MarkedOK' /\ ColoursOK'
<1>1. TypeOK /\ ListsOK /\ MarkedOK /\ ColoursOK /\ Thread \subseteq Obj /\ Main \in Obj
  BY ListTypes DEF GcInv
<1>2. \A th \in Thread : marked'[th] # "black"
  BY <1>1 DEF MarkedOK, Whitened
<1>3. gcstate \in Marking \cup {"entersweep"} => gcstate \in {"propagate", "atomic"}
  BY DEF Marking, Inside
<1>4. gcstate \in {"propagate", "atomic"} => ~issweepphase
  BY DEF issweepphase
<1>5. gcstate \notin {"fnz", "converge2", "marked", "converge1"}
  BY DEF Inside
<1>6. MarkedOK'
  <2>1. gcstate' \in Marking \cup {"entersweep"} => marked'[Main] = "gray"
    BY <1>1, <1>3, <1>4 DEF MarkedOK, Whitened
  <2>2. gcstate' \in Marking => gray' \cup grayagain' \cup ephemeron' \cup todo' \subseteq Live'
    BY <1>1 DEF MarkedOK, grayVars, convVars
  <2>3. todo' = {} /\ gcstate' \notin {"fnz", "converge2"}
    BY <1>1, <1>5 DEF MarkedOK, convVars
  <2>. QED  BY <1>2, <2>1, <2>2, <2>3 DEF MarkedOK
<1>7. ColoursOK'
  <2>. SUFFICES ASSUME keepinvariant'
                PROVE  \A o \in Live' \ unswept' :
                         /\ marked'[o] = "black" => BlackOK(o)'
                         /\ marked'[o] = "gray" => o \in gray' \cup grayagain' \cup allweak'
    BY DEF ColoursOK
  <2>1. keepinvariant /\ marked' = marked
    BY <1>4 DEF keepinvariant, Whitened
  <2>2. \A o : BlackOK(o) <=> BlackOK(o)'
    BY <2>1 DEF BlackOK, NotWhite, iswhite, Key, Val, upisopen, heapVars
  <2>. QED  BY <1>1, <2>1, <2>2 DEF ColoursOK, grayVars
<1>. QED  BY <1>6, <1>7

\* An object of allgc is moved to finobj, those of D are freed.
LEMMA ToFinobj ==
  ASSUME NEW o \in Finalizable, NEW D, TypeOK, ListsOK, o \in ToSet(allgc), \A x \in D : x \in ToSet(allgc) /\ x # o,
         allgc' \in Seq(Obj \ {Main}), IsInjective(allgc'), ToSet(allgc') = (ToSet(allgc) \ D) \ {o},
         finobj' = <<o>> \o finobj, tobefnz' = tobefnz, tofinalize' = tofinalize \cup {o},
         marked' \in [Obj -> White \cup {"gray", "black", "free"}],
         \A x \in Obj : marked'[x] = "free" <=> marked[x] = "free" \/ x \in D
  PROVE  /\ ListsOK' /\ ObjectTypes' /\ Live' = Live \ D
         /\ ToSet(finobj') = ToSet(finobj) \cup {o} /\ \A x, y : Before(finobj, x, y) => Before(finobj', x, y)
<1>1. finobj \in Seq(Finalizable) /\ tobefnz \in Seq(Finalizable) /\ tofinalize \subseteq Finalizable /\ IsInjective(finobj) /\ IsInjective(tobefnz)
  BY ListTypes DEF ListsOK
<1>2. o \notin ToSet(finobj) /\ o \notin ToSet(tobefnz) /\ o # Main
  BY ListsAre
<1>3. /\ finobj' \in Seq(Finalizable) /\ IsInjective(finobj') /\ ToSet(finobj') = ToSet(finobj) \cup {o}
      /\ \A x, y : Before(finobj, x, y) => Before(finobj', x, y)
  BY <1>1, <1>2, PutFirst
<1>4. ObjectTypes'
  BY <1>1, <1>3 DEF ObjectTypes
<1>5. \A x \in D : x \notin ToSet(finobj) /\ x \notin ToSet(tobefnz) /\ x # Main
  BY ListsAre
<1>6. Live' = Live \ D
  BY <1>3, <1>5 DEF Live
<1>7. Live' = {x \in Obj : marked'[x] # "free"}
  BY <1>6 DEF ListsOK
<1>8. /\ ToSet(allgc') \cap tofinalize' = {} /\ ToSet(finobj') \cap ToSet(tobefnz') = {}
      /\ tofinalize' = ToSet(finobj') \cup ToSet(tobefnz')
  BY <1>2, <1>3 DEF ListsOK
<1>9. ListsOK'
  BY <1>1, <1>3, <1>7, <1>8 DEF ListsOK
<1>. QED  BY <1>3, <1>4, <1>6, <1>9

\* The state in which the program does something.
LEMMA ProgramState ==
  ASSUME TypeOK, Op
  PROVE  /\ gcstate \in {"pause", "propagate", "atomic", "callfin", "swpallgc", "swpfinobj", "swptobefnz", "swpend"}
         /\ gcstate \notin Inside
         /\ issweepphase <=> gcstate \in SweepStates \cup {"swpend"}
         /\ ops' \in 0..MaxOps
<1>1. gcstate \in States /\ ops \in 0..MaxOps
  BY TypeParts DEF ControlTypes
<1>2. gcstate \notin Inside /\ ops < MaxOps /\ ops' = ops + 1
  BY DEF Op, Stopped
<1>3. issweepphase <=> gcstate \in SweepStates \cup {"swpend"}
  BY DEF issweepphase, SweepStates
<1>4. ops' \in 0..MaxOps
  BY <1>1, <1>2, GcAssumption
<1>. QED  BY <1>1, <1>2, <1>3, <1>4, StatesAre DEF Inside

\* What is held can be given a finalizer when it is in allgc.
LEMMA HeldInAllgc ==
  ASSUME TypeOK, ListsOK, NEW o \in Finalizable, o \in Held, o \notin tofinalize
  PROVE  o \in ToSet(allgc)
<1>1. o # Main /\ o \in Live
  BY ListTypes DEF Held
<1>. QED  BY <1>1 DEF Live, ListsOK

\* luaC_checkfinalizer when the sweep is not at the object.
LEMMA CheckFinalizerAside ==
  ASSUME NEW o \in Finalizable, GcInv, luaC_checkfinalizer(o), ~(issweepphase /\ sweepgc = o)
  PROVE  GcInv'
<1>1. TypeOK /\ ListsOK /\ SweptOK /\ DeadOK
  BY DEF GcInv
<1>2. /\ Op /\ o \in Held /\ o \notin tofinalize /\ tofinalize' = tofinalize \cup {o} /\ finobj' = <<o>> \o finobj
      /\ marked' = (IF issweepphase THEN [marked EXCEPT ![o] = currentwhite] ELSE marked)
      /\ allgc' = RemoveAt(allgc, Index(allgc, o))
      /\ UNCHANGED <<sweepgc, heapVars>>
      /\ UNCHANGED <<tobefnz, currentwhite, gcstate, grayVars, twups, convVars, callVars, mode, unswept>>
  BY DEF luaC_checkfinalizer
<1>3. /\ allgc \in Seq(Obj \ {Main}) /\ IsInjective(allgc) /\ o \in Obj /\ o # Main /\ Live \subseteq Obj
      /\ ToSet(allgc) \subseteq Live /\ ToSet(finobj) \subseteq Live
      /\ marked \in [Obj -> White \cup {"gray", "black", "free"}] /\ currentwhite \in White
      /\ \A x \in Obj : x \in Live <=> marked[x] # "free"
  BY <1>1, ListTypes, ListsAre DEF ListsOK
<1>4. /\ gcstate \in {"pause", "propagate", "atomic", "callfin", "swpallgc", "swpfinobj", "swptobefnz", "swpend"}
      /\ gcstate \notin Inside
      /\ issweepphase <=> gcstate \in SweepStates \cup {"swpend"}
      /\ ops' \in 0..MaxOps
  BY <1>1, <1>2, ProgramState
<1>5. o \in ToSet(allgc)
  BY <1>1, <1>2, HeldInAllgc
<1>6. /\ allgc' \in Seq(Obj \ {Main}) /\ IsInjective(allgc') /\ ToSet(allgc') = ToSet(allgc) \ {o}
      /\ \A x, y : Before(allgc, x, y) /\ x # o /\ y # o => Before(allgc', x, y)
  <2>. DEFINE i == Index(allgc, o)
  <2>1. i \in 1..Len(allgc) /\ allgc[i] = o
    BY <1>3, <1>5, IndexIs
  <2>2. allgc' = RemoveAt(allgc, i)
    BY <1>2
  <2>. HIDE DEF i
  <2>3. /\ RemoveAt(allgc, i) \in Seq(Obj \ {Main}) /\ IsInjective(RemoveAt(allgc, i))
        /\ ToSet(RemoveAt(allgc, i)) = ToSet(allgc) \ {allgc[i]}
        /\ \A x, y : Before(allgc, x, y) /\ x # allgc[i] /\ y # allgc[i] => Before(RemoveAt(allgc, i), x, y)
    BY <1>3, <2>1, TakeOut
  <2>. QED  BY <2>1, <2>2, <2>3
<1>7. currentwhite # "free" /\ currentwhite # "black" /\ otherwhite # currentwhite /\ otherwhite' = otherwhite
  BY <1>2, <1>3, TwoWhites DEF otherwhite
<1>8. /\ \A x \in Obj : marked'[x] = IF issweepphase /\ x = o THEN currentwhite ELSE marked[x]
      /\ marked' \in [Obj -> White \cup {"gray", "black", "free"}]
  BY <1>2, <1>3
<1>9. \A x \in Obj : marked'[x] = "free" <=> marked[x] = "free" \/ x \in {}
  BY <1>3, <1>5, <1>7, <1>8
<1>10. Whitened
  <2>1. \A x \in Obj : (clean(x) => clean(x)') /\ (isdead(x)' => isdead(x)) /\ (marked[x] # "black" => marked'[x] # "black")
    BY <1>2, <1>7, <1>8 DEF clean, isdead
  <2>. QED  BY <1>2, <2>1 DEF Whitened
<1>11. issweepphase => clean(o)' /\ ~isdead(o)'
  BY <1>2, <1>3, <1>7, <1>8 DEF clean, isdead
<1>12. /\ ListsOK' /\ ObjectTypes' /\ Live' = Live
       /\ ToSet(finobj') = ToSet(finobj) \cup {o} /\ \A x, y : Before(finobj, x, y) => Before(finobj', x, y)
  <2>. DEFINE D == {}
  <2>1. ToSet(allgc') = (ToSet(allgc) \ D) \ {o} /\ \A x \in D : x \in ToSet(allgc) /\ x # o
    BY <1>6
  <2>2. \A x \in Obj : marked'[x] = "free" <=> marked[x] = "free" \/ x \in D
    BY <1>9
  <2>3. finobj' = <<o>> \o finobj /\ tobefnz' = tobefnz /\ tofinalize' = tofinalize \cup {o}
    BY <1>2
  <2>. HIDE DEF D
  <2>4. /\ ListsOK' /\ ObjectTypes' /\ Live' = Live \ D
        /\ ToSet(finobj') = ToSet(finobj) \cup {o} /\ \A x, y : Before(finobj, x, y) => Before(finobj', x, y)
    BY <1>1, <1>5, <1>6, <1>8, <2>1, <2>2, <2>3, ToFinobj
  <2>. QED  BY <2>4 DEF D
<1>13. SweptOK'
  <2>0. \A x \in Obj : clean(x) => clean(x)'
    BY <1>10 DEF Whitened
  <2>1. ASSUME gcstate = "swpallgc", NEW y \in ToSet(allgc'), y \notin After(allgc', sweepgc)  PROVE clean(y)'
    <3>1. y \in ToSet(allgc) /\ y # o /\ sweepgc # o /\ y \in Obj
      BY <1>3, <1>4, <1>6, <2>1 DEF SweepStates
    <3>2. CASE y \in After(allgc, sweepgc)
      <4>1. sweepgc # "head"
        BY <2>1 DEF After
      <4>2. Before(allgc, sweepgc, y)
        BY <3>2, <4>1 DEF After
      <4>. QED  BY <1>6, <2>1, <3>1, <4>1, <4>2 DEF After
    <3>3. CASE y \notin After(allgc, sweepgc)
      BY <1>1, <2>0, <2>1, <3>1, <3>3 DEF SweptOK
    <3>. QED  BY <3>2, <3>3
  <2>2. ASSUME gcstate \in {"swpfinobj", "swptobefnz", "swpend"}, NEW y \in ToSet(allgc')  PROVE clean(y)'
    BY <1>1, <1>3, <1>6, <2>0, <2>2 DEF SweptOK
  <2>3. ASSUME gcstate = "swpfinobj", NEW y \in ToSet(finobj'), y \notin After(finobj', sweepgc)  PROVE clean(y)'
    <3>1. CASE y = o
      BY <1>4, <1>11, <2>3, <3>1 DEF SweepStates
    <3>2. CASE y # o
      <4>1. y \in ToSet(finobj) /\ y \in Obj
        BY <1>3, <1>12, <3>2
      <4>2. y \notin After(finobj, sweepgc)
        BY <1>12, <2>3, <4>1 DEF After
      <4>. QED  BY <1>1, <2>0, <2>3, <4>1, <4>2 DEF SweptOK
    <3>. QED  BY <3>1, <3>2
  <2>4. ASSUME gcstate \in {"swptobefnz", "swpend"}, NEW y \in ToSet(finobj')  PROVE clean(y)'
    <3>1. CASE y = o
      BY <1>4, <1>11, <2>4, <3>1 DEF SweepStates
    <3>2. CASE y # o
      BY <1>1, <1>3, <1>12, <2>0, <2>4, <3>2 DEF SweptOK
    <3>. QED  BY <3>1, <3>2
  <2>5. ASSUME gcstate \in {"callfin", "pause"}, NEW y \in Live' \ unswept'  PROVE clean(y)'
    BY <1>1, <1>2, <1>3, <1>12, <2>0, <2>5 DEF SweptOK
  <2>6. gcstate' = gcstate /\ sweepgc' = sweepgc
    BY <1>2
  <2>. QED  BY <2>1, <2>2, <2>3, <2>4, <2>5, <2>6 DEF SweptOK
<1>14. DeadOK'
  <2>. SUFFICES ASSUME NEW x \in Live', isdead(x)'
                PROVE  gcstate' \in {"entersweep", "swpallgc"} /\ x \in ToSet(allgc')
    BY DEF DeadOK
  <2>1. x \in Live /\ x \in Obj /\ isdead(x)
    BY <1>3, <1>10, <1>12 DEF Whitened
  <2>2. gcstate \in {"entersweep", "swpallgc"} /\ x \in ToSet(allgc)
    BY <1>1, <2>1 DEF DeadOK
  <2>3. gcstate = "swpallgc" /\ issweepphase
    BY <1>4, <2>2 DEF SweepStates
  <2>4. x # o
    BY <1>11, <2>3
  <2>. QED  BY <1>2, <1>6, <2>2, <2>4
<1>15. MarkedOK' /\ ColoursOK'
  BY <1>2, <1>4, <1>10, <1>12, StillThere
<1>16. TypeOK'
  <2>1. ControlTypes' /\ GrayTypes' /\ HeapTypes'
    BY <1>1, <1>2, <1>4, TypeParts DEF ControlTypes, GrayTypes, HeapTypes, grayVars, convVars, callVars, heapVars
  <2>. QED  BY <1>12, <2>1, TypeParts
<1>. QED  BY <1>12, <1>13, <1>14, <1>15, <1>16 DEF GcInv

\* What is in front of the sweep stays in front of it when an object is put first.
LEMMA AfterPutFirst ==
  ASSUME NEW s \in Seq(Obj), NEW o \in Obj, o \notin ToSet(s), IsInjective(s), NEW p,
         NEW y \in ToSet(s), y \in After(s, p)
  PROVE  y \in After(<<o>> \o s, p)
<1>1. /\ ToSet(<<o>> \o s) = ToSet(s) \cup {o}
      /\ \A a, b : Before(s, a, b) => Before(<<o>> \o s, a, b)
  BY PutFirst
<1>. QED  BY <1>1 DEF After

\* A finalizer is called: its object is a normal one again.
LEMMA Udata2finalizeInv ==
  ASSUME GcInv, udata2finalize
  PROVE  GcInv'
<1>0. PICK o : o = Head(tobefnz)
  OBVIOUS
<1>1. TypeOK /\ ListsOK /\ SweptOK /\ DeadOK
  BY DEF GcInv
<1>2. /\ tobefnz # <<>> /\ gcstate \notin Inside \cup {"pause"} /\ fin' = o
      /\ tofinalize' = tofinalize \ {o} /\ tobefnz' = Tail(tobefnz)
      /\ marked' = (IF issweepphase THEN [marked EXCEPT ![o] = currentwhite] ELSE marked)
      /\ allgc' = <<o>> \o allgc
      /\ UNCHANGED <<finobj, currentwhite, gcstate, sweepgc, grayVars, twups, convVars, gckind, goal, heapVars, idleVars>>
  BY <1>0 DEF udata2finalize, Normal
<1>3. /\ allgc \in Seq(Obj \ {Main}) /\ IsInjective(allgc) /\ tobefnz \in Seq(Finalizable) /\ IsInjective(tobefnz)
      /\ finobj \in Seq(Finalizable) /\ IsInjective(finobj) /\ allgc \in Seq(Obj)
      /\ tofinalize \subseteq Finalizable /\ Finalizable \subseteq Obj \ {Main} /\ Live \subseteq Obj
      /\ ToSet(allgc) \subseteq Live /\ ToSet(finobj) \subseteq Live /\ ToSet(tobefnz) \subseteq Live
      /\ marked \in [Obj -> White \cup {"gray", "black", "free"}] /\ currentwhite \in White
      /\ \A x \in Obj : x \in Live <=> marked[x] # "free"
  BY <1>1, ListTypes, ListsAre DEF ListsOK
<1>4. /\ tobefnz' \in Seq(Finalizable) /\ IsInjective(tobefnz') /\ o \in ToSet(tobefnz) /\ o \in Finalizable
      /\ ToSet(tobefnz') = ToSet(tobefnz) \ {o}
  BY <1>0, <1>2, <1>3, TakeFirst
<1>5. gcstate \in {"propagate", "atomic", "callfin", "swpallgc", "swpfinobj", "swptobefnz", "swpend"}
      /\ (issweepphase <=> gcstate \in SweepStates \cup {"swpend"})
  <2>1. gcstate \in States
    BY <1>1, TypeParts DEF ControlTypes
  <2>. QED  BY <1>2, <2>1, StatesAre DEF Inside, issweepphase, SweepStates
<1>6. o \in Obj /\ o # Main /\ o \notin ToSet(allgc) /\ o \notin ToSet(finobj) /\ o \in Live
  BY <1>1, <1>3, <1>4, ListsAre
<1>7. /\ allgc' \in Seq(Obj \ {Main}) /\ IsInjective(allgc') /\ ToSet(allgc') = ToSet(allgc) \cup {o}
  BY <1>2, <1>3, <1>6, PutFirst
<1>8. currentwhite # "free" /\ currentwhite # "black" /\ otherwhite # currentwhite /\ otherwhite' = otherwhite
  BY <1>2, <1>3, TwoWhites DEF otherwhite
<1>9. /\ \A x \in Obj : marked'[x] = IF issweepphase /\ x = o THEN currentwhite ELSE marked[x]
      /\ marked' \in [Obj -> White \cup {"gray", "black", "free"}]
  BY <1>2, <1>3
<1>10. \A x \in Obj : marked'[x] = "free" <=> marked[x] = "free"
  BY <1>3, <1>6, <1>8, <1>9
<1>11. Whitened
  <2>1. \A x \in Obj : (clean(x) => clean(x)') /\ (isdead(x)' => isdead(x)) /\ (marked[x] # "black" => marked'[x] # "black")
    BY <1>2, <1>8, <1>9 DEF clean, isdead
  <2>. QED  BY <1>2, <2>1 DEF Whitened
<1>12. issweepphase => clean(o)'
  BY <1>2, <1>6, <1>9 DEF clean
<1>13. Live' = Live
  BY <1>2, <1>4, <1>7 DEF Live
<1>14. ListsOK'
  <2>1. Live' = {x \in Obj : marked'[x] # "free"}
    BY <1>10, <1>13, <1>1 DEF ListsOK
  <2>2. /\ ToSet(allgc') \cap tofinalize' = {} /\ ToSet(finobj') \cap ToSet(tobefnz') = {}
        /\ tofinalize' = ToSet(finobj') \cup ToSet(tobefnz')
    BY <1>1, <1>2, <1>4, <1>6, <1>7 DEF ListsOK
  <2>. QED  BY <1>2, <1>3, <1>4, <1>7, <2>1, <2>2 DEF ListsOK
<1>15. ObjectTypes'
  BY <1>2, <1>3, <1>4, <1>7, <1>9 DEF ObjectTypes
<1>16. SweptOK'
  <2>0. \A x \in Obj : clean(x) => clean(x)'
    BY <1>11 DEF Whitened
  <2>1. ASSUME gcstate = "swpallgc", NEW y \in ToSet(allgc'), y \notin After(allgc', sweepgc)  PROVE clean(y)'
    <3>1. CASE y = o
      BY <1>5, <1>12, <2>1, <3>1 DEF SweepStates
    <3>2. CASE y # o
      <4>1. y \in ToSet(allgc) /\ y \in Obj
        BY <1>3, <1>7, <3>2
      <4>2. y \notin After(allgc, sweepgc)
        BY <1>2, <1>3, <1>6, <2>1, <4>1, AfterPutFirst
      <4>. QED  BY <1>1, <2>0, <2>1, <4>1, <4>2 DEF SweptOK
    <3>. QED  BY <3>1, <3>2
  <2>2. ASSUME gcstate \in {"swpfinobj", "swptobefnz", "swpend"}, NEW y \in ToSet(allgc')  PROVE clean(y)'
    <3>1. CASE y = o
      BY <1>5, <1>12, <2>2, <3>1 DEF SweepStates
    <3>2. CASE y # o
      BY <1>1, <1>3, <1>7, <2>0, <2>2, <3>2 DEF SweptOK
    <3>. QED  BY <3>1, <3>2
  <2>3. ASSUME NEW y \in ToSet(finobj),
               \/ (gcstate = "swpfinobj" /\ y \notin After(finobj, sweepgc)) \/ gcstate \in {"swptobefnz", "swpend"}
        PROVE  clean(y)'
    BY <1>1, <1>3, <2>0, <2>3 DEF SweptOK
  <2>4. ASSUME gcstate \in {"callfin", "pause"}, NEW y \in Live' \ unswept'  PROVE clean(y)'
    BY <1>1, <1>2, <1>3, <1>13, <2>0, <2>4 DEF SweptOK, idleVars
  <2>5. gcstate' = gcstate /\ sweepgc' = sweepgc /\ finobj' = finobj
    BY <1>2
  <2>. QED  BY <2>1, <2>2, <2>3, <2>4, <2>5 DEF SweptOK
<1>17. DeadOK'
  BY <1>1, <1>2, <1>3, <1>7, <1>11, <1>13 DEF DeadOK, Whitened
<1>18. MarkedOK' /\ ColoursOK'
  BY <1>2, <1>11, <1>13, StillThere DEF idleVars
<1>19. TypeOK'
  <2>1. ControlTypes' /\ GrayTypes' /\ HeapTypes'
    BY <1>1, <1>2, <1>4, TypeParts DEF ControlTypes, GrayTypes, HeapTypes, grayVars, convVars, idleVars, heapVars
  <2>. QED  BY <1>15, <2>1, TypeParts
<1>. QED  BY <1>14, <1>16, <1>17, <1>18, <1>19 DEF GcInv

\* What remains of a list still has the elements before the sweep.
LEMMA RemainingKeeps ==
  ASSUME NEW T, NEW s \in Seq(T), NEW k, NEW n, Sweepable(s, k, n), k > 0
  PROVE  k \in 1..Len(Remaining(s, k, n)) /\ Remaining(s, k, n)[k] = s[k]
<1>. DEFINE m == IF LastLives(s, k, n) THEN n ELSE n + 1
<1>0. Len(s) \in Nat /\ k \in Nat /\ n \in Nat /\ k <= n /\ n <= Len(s)
  BY DEF Sweepable
<1>1. m \in Nat /\ k < m /\ m <= Len(s) + 1
  BY <1>0 DEF LastLives
<1>2. Remaining(s, k, n) = Cut(s, k, m)
  BY DEF Remaining, Cut
<1>. HIDE DEF m
<1>3. Cut(s, k, m) \in Seq(T) /\ Len(Cut(s, k, m)) = k + Len(s) + 1 - m /\ \A i \in 1..k : Cut(s, k, m)[i] = s[i]
  BY <1>0, <1>1, CutIs
<1>. QED  BY <1>0, <1>1, <1>2, <1>3

\* What is swept comes behind the k-th element.
LEMMA NotSwept ==
  ASSUME NEW T, NEW s \in Seq(T), NEW k, NEW n, IsInjective(s), Sweepable(s, k, n), k > 0
  PROVE  s[k] \notin Swept(s, k, n) /\ \A x \in Swept(s, k, n) : x \in ToSet(s)
<1>1. \A i \in (k + 1)..n : i \in 1..Len(s) /\ i # k
  BY DEF Sweepable
<1>2. k \in 1..Len(s)
  BY DEF Sweepable
<1>3. ToSet(s) = {s[i] : i \in 1..Len(s)} /\ \A i, j \in 1..Len(s) : s[i] = s[j] => i = j
  BY ElementsOf
<1>. QED  BY <1>1, <1>2, <1>3 DEF Swept

\* An object is not in front of itself.
LEMMA NotAfterItself ==
  ASSUME NEW T, NEW s \in Seq(T), NEW o, o # "head", IsInjective(s)
  PROVE  o \notin After(s, o)
<1>1. \A i, j \in 1..Len(s) : s[i] = s[j] => i = j
  BY ElementsOf
<1>. QED  BY <1>1 DEF After, Before

\* luaC_checkfinalizer when the sweep is at the object: it goes on to the next live one.
LEMMA CheckFinalizerAt ==
  ASSUME NEW o \in Finalizable, GcInv, luaC_checkfinalizer(o), issweepphase, sweepgc = o
  PROVE  GcInv'
<1>. DEFINE k == From(allgc)  n == ToLive(allgc, k)  W == Swept(allgc, k, n)  D == DeadOf(allgc, k, n)
            left == Remaining(allgc, k, n)  p == Position(allgc, k, n, o)
<1>1. TypeOK /\ ListsOK /\ SweptOK /\ DeadOK /\ MarkedOK
  BY DEF GcInv
<1>2. /\ Op /\ o \in Held /\ o \notin tofinalize /\ tofinalize' = tofinalize \cup {o} /\ finobj' = <<o>> \o finobj
      /\ marked' = [x \in Obj |-> IF x \in D THEN "free" ELSE IF x \in W \cup {o} THEN currentwhite ELSE marked[x]]
      /\ allgc' = RemoveAt(left, k) /\ sweepgc' = p /\ Free(D)
      /\ UNCHANGED <<tobefnz, currentwhite, gcstate, grayVars, twups, convVars, callVars, mode, unswept>>
  BY DEF luaC_checkfinalizer, DeadOf
<1>3. /\ allgc \in Seq(Obj \ {Main}) /\ allgc \in Seq(Obj) /\ IsInjective(allgc) /\ o \in Obj /\ o # Main /\ Live \subseteq Obj
      /\ finobj \in Seq(Obj) /\ ToSet(allgc) \subseteq Live /\ ToSet(finobj) \subseteq Live /\ ToSet(allgc) \subseteq Obj /\ Thread \subseteq Obj
      /\ marked \in [Obj -> White \cup {"gray", "black", "free"}] /\ currentwhite \in White
  BY <1>1, ListTypes, ListsAre DEF ListsOK
<1>4. gcstate \in SweepStates \cup {"swpend"}
  BY <1>1, <1>2, ProgramState
<1>5. o \in ToSet(allgc) /\ "head" \notin Obj /\ Nil \notin Obj /\ \A x \in ToSet(finobj) : x \notin ToSet(allgc)
  BY <1>1, <1>2, HeldInAllgc, ListsAre, GcAssumption
<1>6. k \in 1..Len(allgc) /\ allgc[k] = o
  <2>1. From(allgc) = Index(allgc, o)
    BY <1>3, <1>5 DEF From
  <2>. QED  BY <1>3, <1>5, <2>1, IndexIs
<1>7. Sweepable(allgc, k, n) /\ (n = Len(allgc) \/ LastLives(allgc, k, n)) /\ n \in Nat
  <2>. HIDE DEF k
  <2>1. k \in 0..Len(allgc)
    BY <1>6
  <2>2. Sweepable(allgc, k, ToLive(allgc, k)) /\ (ToLive(allgc, k) = Len(allgc) \/ LastLives(allgc, k, ToLive(allgc, k)))
    BY <1>3, <2>1, ToLiveIs
  <2>. QED  BY <2>2 DEF Sweepable
<1>. HIDE DEF k, n
<1>8. o \notin W /\ \A x \in W : x \in ToSet(allgc)
  <2>1. allgc[k] \notin Swept(allgc, k, n) /\ \A x \in Swept(allgc, k, n) : x \in ToSet(allgc)
    BY <1>3, <1>6, <1>7, NotSwept
  <2>. QED  BY <1>6, <2>1
<1>9. clean(o)
  <2>1. CASE gcstate = "swpallgc"
    <3>1. o \notin After(allgc, o)
      BY <1>3, <1>5, NotAfterItself
    <3>. QED  BY <1>1, <1>5, <2>1, <3>1 DEF SweptOK
  <2>2. CASE gcstate # "swpallgc"
    BY <1>1, <1>4, <1>5, <2>2 DEF SweptOK, SweepStates
  <2>. QED  BY <2>1, <2>2
<1>10. \A x \in D : x \in ToSet(allgc) /\ x # o /\ x \in W
  BY <1>8 DEF DeadOf
<1>11. SweepColours(allgc, k, n)
  <2>1. \A x \in Obj : (IF x \in D THEN "free" ELSE IF x \in W \cup {o} THEN currentwhite ELSE marked[x])
                     = (IF x \in D THEN "free" ELSE IF x \in W THEN currentwhite ELSE marked[x])
    BY <1>9, <1>10 DEF clean
  <2>2. marked' = [x \in Obj |-> IF x \in D THEN "free" ELSE IF x \in W THEN currentwhite ELSE marked[x]]
    BY <1>2, <2>1
  <2>. QED  BY <1>2, <2>2 DEF SweepColours, DeadOf
<1>12. /\ SweptTo(W, D)
       /\ marked' \in [Obj -> White \cup {"gray", "black", "free"}]
       /\ \A x \in Obj : marked'[x] = "free" <=> marked[x] = "free" \/ x \in D
       /\ \A x \in Obj : isdead(x)' => isdead(x) /\ x \notin W
       /\ \A x \in Obj : clean(x) => clean(x)'
       /\ \A x \in Obj : marked[x] # "black" => marked'[x] # "black"
  BY <1>1, <1>2, <1>3, <1>7, <1>11, SweptLive
<1>13. /\ left \in Seq(Obj \ {Main}) /\ IsInjective(left) /\ ToSet(left) = ToSet(allgc) \ D
  BY <1>3, <1>7, RemainingIs
<1>14. k \in 1..Len(left) /\ left[k] = o
  BY <1>3, <1>6, <1>7, RemainingKeeps
<1>15. CleanUpTo(allgc, o)
  BY <1>1, <1>3, <1>4 DEF SweptOK, CleanUpTo, SweepStates
<1>16. \A y \in ToSet(left) : clean(y)' \/ y \in After(left, p)
  <2>1. PointsAt(allgc, k, o)
    BY <1>6 DEF PointsAt
  <2>2. \A y \in ToSet(allgc) : clean(y) \/ y \in After(allgc, o)
    BY <1>15 DEF CleanUpTo
  <2>. QED  BY <1>1, <1>2, <1>3, <1>7, <1>12, <2>1, <2>2, SweepList
<1>17. p # o /\ p # "head" /\ p \in Obj \cup {Nil, "head"}
  <2>1. p \in Obj \cup {Nil, "head"}
    BY <1>3, <1>7, PositionType
  <2>2. CASE n = Len(allgc)
    BY <1>3, <1>5, <2>1, <2>2, GcAssumption DEF Position
  <2>3. CASE n # Len(allgc)
    <3>1. LastLives(allgc, k, n) /\ n > k
      BY <1>7, <2>3 DEF LastLives
    <3>2. p = allgc[n] /\ n \in (k + 1)..n
      BY <1>6, <1>7, <2>3, <3>1 DEF Position
    <3>3. p \in W
      BY <3>2 DEF Swept
    <3>. QED  BY <1>3, <1>5, <1>8, <2>1, <3>3
  <2>. QED  BY <2>2, <2>3
<1>. HIDE DEF W, D, left, p
<1>18. /\ allgc' \in Seq(Obj \ {Main}) /\ IsInjective(allgc') /\ ToSet(allgc') = (ToSet(allgc) \ D) \ {o}
       /\ \A x, y : Before(left, x, y) /\ x # o /\ y # o => Before(allgc', x, y)
  <2>1. /\ RemoveAt(left, k) \in Seq(Obj \ {Main}) /\ IsInjective(RemoveAt(left, k))
        /\ ToSet(RemoveAt(left, k)) = ToSet(left) \ {left[k]}
        /\ \A x, y : Before(left, x, y) /\ x # left[k] /\ y # left[k] => Before(RemoveAt(left, k), x, y)
    BY <1>13, <1>14, TakeOut
  <2>. QED  BY <1>2, <1>13, <1>14, <2>1
<1>19. /\ ListsOK' /\ ObjectTypes' /\ Live' = Live \ D
       /\ ToSet(finobj') = ToSet(finobj) \cup {o} /\ \A x, y : Before(finobj, x, y) => Before(finobj', x, y)
  BY <1>1, <1>2, <1>5, <1>10, <1>12, <1>18, ToFinobj, ZenonT(60)
<1>20. clean(o)'
  BY <1>3, <1>9, <1>12
<1>21. \A y \in ToSet(allgc') : clean(y)' \/ y \in After(allgc', p)
  <2>. SUFFICES ASSUME NEW y \in ToSet(allgc'), ~clean(y)'  PROVE y \in After(allgc', p)
    OBVIOUS
  <2>1. y # o /\ y \in ToSet(left) /\ y \in After(left, p)
    BY <1>13, <1>16, <1>18
  <2>2. Before(left, p, y)
    BY <1>17, <2>1 DEF After
  <2>. QED  BY <1>17, <1>18, <2>1, <2>2 DEF After
<1>22. gcstate # "swpallgc" => \A y \in ToSet(allgc') : clean(y)'
  BY <1>1, <1>3, <1>4, <1>12, <1>18 DEF SweptOK, SweepStates
<1>23. gcstate # "swpallgc" => \A y \in ToSet(finobj') : clean(y)'
  <2>. SUFFICES ASSUME gcstate # "swpallgc", NEW y \in ToSet(finobj)  PROVE clean(y)'
    BY <1>19, <1>20
  <2>1. CleanUpTo(finobj, o)
    BY <1>1, <1>4 DEF SweptOK, CleanUpTo, SweepStates
  <2>2. \A x \in ToSet(finobj) : clean(x)
    BY <1>3, <1>5, <2>1, ElsewhereClean
  <2>. QED  BY <1>3, <1>12, <2>2
<1>24. SweptOK'
  BY <1>2, <1>4, <1>21, <1>22, <1>23 DEF SweptOK, SweepStates
<1>25. DeadOK'
  <2>. SUFFICES ASSUME NEW x \in Live', isdead(x)'
                PROVE  gcstate' \in {"entersweep", "swpallgc"} /\ x \in ToSet(allgc')
    BY DEF DeadOK
  <2>1. x \in Live /\ x \in Obj /\ isdead(x) /\ x \notin D
    BY <1>3, <1>12, <1>19
  <2>2. gcstate \in {"entersweep", "swpallgc"} /\ x \in ToSet(allgc)
    BY <1>1, <2>1 DEF DeadOK
  <2>3. x # o
    BY <1>3, <1>9, <2>1, TwoWhites DEF clean, isdead
  <2>. QED  BY <1>2, <1>18, <2>1, <2>2, <2>3
<1>26. MarkedOK' /\ ColoursOK'
  <2>1. \A th \in Thread : marked'[th] # "black"
    BY <1>1, <1>3, <1>12 DEF MarkedOK
  <2>2. todo' = {}
    BY <1>1, <1>2, <1>4 DEF MarkedOK, convVars, SweepStates
  <2>3. gcstate' \in SweepStates \cup {"swpend", "callfin", "pause"}
    BY <1>2, <1>4
  <2>. QED  BY <2>1, <2>2, <2>3, NotMarking
<1>27. TypeOK'
  <2>1. ControlTypes'
    <3>1. ops' \in 0..MaxOps
      BY <1>1, <1>2, ProgramState
    <3>. QED  BY <1>1, <1>2, <1>17, <3>1, TypeParts DEF ControlTypes, convVars, callVars
  <2>2. GrayTypes'
    BY <1>1, <1>2, TypeParts DEF GrayTypes, convVars, grayVars
  <2>3. HeapTypes'
    BY <1>1, <1>2, TypeParts, FreeTypes
  <2>. QED  BY <1>19, <2>1, <2>2, <2>3, TypeParts
<1>. QED  BY <1>19, <1>24, <1>25, <1>26, <1>27 DEF GcInv

-----------------------------------------------------------------------------
(* Marking. *)

\* x is not white when the step is done.
Coloured(x) == x \in Obj => marked'[x] \notin White

\* Objects get darker only, and no thread gets black.
Darkened ==
  /\ marked' \in [Obj -> White \cup {"gray", "black", "free"}]
  /\ \A x \in Obj : \/ marked'[x] = marked[x]
                    \/ /\ marked[x] # "free"
                       /\ marked'[x] = "gray" \/ (marked'[x] = "black" /\ x \notin Thread)

\* The least set that reallymarkobject marks is closed.
LEMMA MarkSetIs ==
  ASSUME NEW S
  PROVE  /\ \A x \in MarkSet(S) : x \in Obj /\ iswhite(x)
         /\ \A x \in S : x \in Obj /\ iswhite(x) => x \in MarkSet(S)
         /\ \A u \in MarkSet(S) : u \in Udata /\ uservalue[u] \in Obj /\ iswhite(uservalue[u]) => uservalue[u] \in MarkSet(S)
<1>. DEFINE white == {o \in Obj : iswhite(o)}
            closed == {U \in SUBSET (Udata \cap white) :
                         \A u \in Udata \cap white : u \in S \/ (\E x \in U : uservalue[x] = u) => u \in U}
            users == {u \in Udata \cap white : \A U \in closed : u \in U}
<1>1. MarkSet(S) = white \cap (S \cup {uservalue[u] : u \in users})
  BY DEF MarkSet
<1>2. \A x : x \in white <=> x \in Obj /\ iswhite(x)
  OBVIOUS
<1>3. ASSUME NEW u \in MarkSet(S), u \in Udata  PROVE u \in users
  <2>1. u \in Udata \cap white
    BY <1>1, <1>3
  <2>2. ASSUME NEW U \in closed  PROVE u \in U
    <3>1. \A w \in Udata \cap white : w \in S \/ (\E x \in U : uservalue[x] = w) => w \in U
      BY <2>2
    <3>2. CASE u \in S
      BY <2>1, <3>1, <3>2
    <3>3. CASE u \notin S
      <4>. HIDE DEF users, closed
      <4>1. PICK x \in users : u = uservalue[x]
        BY <1>1, <3>3
      <4>2. x \in U
        BY <4>1, <2>2 DEF users
      <4>. QED  BY <2>1, <3>1, <4>1, <4>2
    <3>. QED  BY <3>2, <3>3
  <2>. HIDE DEF closed
  <2>. QED  BY <2>1, <2>2
<1>. HIDE DEF users, white
<1>. QED  BY <1>1, <1>2, <1>3

\* What marking S does, o having been given colour c.
LEMMA MarkAndIs ==
  ASSUME NEW S, NEW o, NEW c, NEW rest, TypeOK, MarkAnd(S, o, c, rest),
         o = Nil \/ (o \in Obj /\ c \in {"gray", "black"})
  PROVE  /\ marked' \in [Obj -> White \cup {"gray", "black", "free"}]
         /\ \A x \in Obj : x # o => \/ marked'[x] = marked[x]
                                    \/ iswhite(x) /\ marked'[x] = "gray" /\ x \in gray'
                                    \/ iswhite(x) /\ marked'[x] = "black" /\ x \in Leaf /\ (x \in Udata => Coloured(uservalue[x]))
         /\ o \in Obj => marked'[o] = c
         /\ \A x \in S : Coloured(x)
         /\ \A x : NotWhite(x) => Coloured(x)
         /\ rest \subseteq gray' /\ \A x \in gray' : x \in rest \/ (x \in Obj /\ x \notin Leaf /\ iswhite(x))
<1>. DEFINE M == MarkSet(S) \ {o}
<1>1. /\ marked' = [x \in Obj |-> IF x = o THEN c
                                  ELSE IF x \in M THEN IF x \in Leaf THEN "black" ELSE "gray"
                                  ELSE marked[x]]
      /\ gray' = rest \cup (M \ Leaf)
  BY DEF MarkAnd
<1>2. Nil \notin Obj /\ marked \in [Obj -> White \cup {"gray", "black", "free"}]
  BY ListTypes, GcAssumption
<1>3. "gray" \notin White /\ "black" \notin White
  BY DEF White
<1>4. /\ \A x \in M : x \in Obj /\ iswhite(x) /\ x # o
      /\ \A x \in S : x \in Obj /\ iswhite(x) => x \in M \/ x = o
      /\ \A u \in M : u \in Udata /\ uservalue[u] \in Obj /\ iswhite(uservalue[u]) => uservalue[u] \in M \/ uservalue[u] = o
  BY MarkSetIs
<1>. HIDE DEF M
<1>5. \A x \in Obj : marked'[x] = IF x = o THEN c
                                  ELSE IF x \in M THEN IF x \in Leaf THEN "black" ELSE "gray"
                                  ELSE marked[x]
  BY <1>1
<1>6. \A x : iswhite(x) <=> marked[x] \in White
  BY DEF iswhite
<1>7. marked' \in [Obj -> White \cup {"gray", "black", "free"}]
  <2>1. \A x \in Obj : (IF x = o THEN c ELSE IF x \in M THEN IF x \in Leaf THEN "black" ELSE "gray" ELSE marked[x])
                          \in White \cup {"gray", "black", "free"}
    BY <1>2
  <2>. QED  BY <1>1, <2>1
<1>8. o \in Obj => marked'[o] = c
  BY <1>5
<1>9. \A x : NotWhite(x) => Coloured(x)
  BY <1>2, <1>3, <1>4, <1>5, <1>6 DEF NotWhite, Coloured
<1>10. \A x : (x \in M \/ x = o) => Coloured(x)
  BY <1>2, <1>3, <1>5 DEF Coloured
<1>11. \A x \in S : Coloured(x)
  BY <1>4, <1>9, <1>10 DEF NotWhite
<1>12. \A x \in M : x \in Udata => Coloured(uservalue[x])
  BY <1>4, <1>9, <1>10 DEF NotWhite
<1>13. rest \subseteq gray' /\ \A x \in gray' : x \in rest \/ (x \in Obj /\ x \notin Leaf /\ iswhite(x))
  BY <1>1, <1>4
<1>14. ASSUME NEW x \in Obj, x # o
       PROVE  \/ marked'[x] = marked[x]
              \/ iswhite(x) /\ marked'[x] = "gray" /\ x \in gray'
              \/ iswhite(x) /\ marked'[x] = "black" /\ x \in Leaf /\ (x \in Udata => Coloured(uservalue[x]))
  <2>1. CASE x \notin M
    BY <1>5, <1>14, <2>1
  <2>2. CASE x \in M /\ x \in Leaf
    BY <1>4, <1>5, <1>12, <1>14, <2>2
  <2>3. CASE x \in M /\ x \notin Leaf
    BY <1>1, <1>4, <1>5, <1>14, <2>3
  <2>. QED  BY <2>1, <2>2, <2>3
<1>. QED  BY <1>7, <1>8, <1>9, <1>11, <1>13, <1>14

\* Marking darkens.
LEMMA MarkDarkens ==
  ASSUME NEW S, NEW o, NEW c, NEW rest, TypeOK, MarkAnd(S, o, c, rest),
         o = Nil \/ (o \in Obj /\ c \in {"gray", "black"} /\ marked[o] # "free" /\ (c = "black" => o \notin Thread))
  PROVE  Darkened
<1>1. /\ marked' \in [Obj -> White \cup {"gray", "black", "free"}]
      /\ \A x \in Obj : x # o => \/ marked'[x] = marked[x]
                                 \/ iswhite(x) /\ marked'[x] = "gray"
                                 \/ iswhite(x) /\ marked'[x] = "black" /\ x \in Leaf
      /\ o \in Obj => marked'[o] = c
  BY MarkAndIs
<1>2. \A x \in Obj : iswhite(x) => marked[x] # "free"
  BY DEF iswhite, White
<1>3. \A x \in Leaf : x \notin Thread
  BY GcAssumption DEF Leaf, Thread
<1>4. Nil \notin Obj
  BY GcAssumption
<1>. QED  BY <1>1, <1>2, <1>3, <1>4 DEF Darkened

\* While the collector marks, darker objects disturb neither lists nor sweep.
LEMMA DarkenInv ==
  ASSUME TypeOK, ListsOK, DeadOK, MarkedOK, Darkened, gcstate \in Marking \cup {"pause"}, gcstate' \in Marking,
         UNCHANGED <<listVars, currentwhite>>
  PROVE  /\ ListsOK' /\ SweptOK' /\ DeadOK' /\ ObjectTypes' /\ Live' = Live
         /\ (\A th \in Thread : marked'[th] # "black") /\ (marked[Main] = "gray" => marked'[Main] = "gray")
         /\ \A x : NotWhite(x) => Coloured(x)
         /\ \A x \in Obj : iswhite(x) => x \in Live
<1>1. currentwhite \in White /\ Live \subseteq Obj /\ Thread \subseteq Obj /\ Main \in Thread /\ Main \in Obj
      /\ \A x \in Obj : x \in Live <=> marked[x] # "free"
  BY ListTypes, ListsAre
<1>2. /\ "gray" \notin White /\ "black" \notin White /\ "free" \notin White
      /\ otherwhite \in White /\ otherwhite' = otherwhite
  BY <1>1, TwoWhites DEF otherwhite
<1>3. Live' = Live
  BY DEF Live, listVars
<1>4. \A x \in Obj : marked'[x] = "free" <=> marked[x] = "free"
  BY DEF Darkened
<1>5. ListsOK'
  BY <1>3, <1>4 DEF ListsOK, listVars
<1>6. gcstate' \notin {"swpallgc", "swpfinobj", "swptobefnz", "swpend", "callfin", "pause"}
  BY DEF Marking, Inside
<1>7. SweptOK'
  BY <1>6 DEF SweptOK
<1>8. gcstate \notin {"entersweep", "swpallgc"}
  BY DEF Marking, Inside
<1>9. \A x \in Live' : ~isdead(x)'
  BY <1>1, <1>2, <1>3, <1>8 DEF DeadOK, isdead, Darkened
<1>10. DeadOK'
  BY <1>9 DEF DeadOK
<1>11. ObjectTypes'
  BY TypeParts DEF ObjectTypes, Darkened, listVars
<1>12. (\A th \in Thread : marked'[th] # "black") /\ (marked[Main] = "gray" => marked'[Main] = "gray")
  BY <1>1 DEF MarkedOK, Darkened
<1>13. \A x : NotWhite(x) => Coloured(x)
  BY <1>2 DEF NotWhite, Coloured, Darkened, iswhite
<1>14. \A x \in Obj : iswhite(x) => x \in Live
  BY <1>1, <1>2 DEF iswhite
<1>. QED  BY <1>3, <1>5, <1>7, <1>10, <1>11, <1>12, <1>13, <1>14

\* BlackOK when the step is done.
NextBlackOK(o) ==
  /\ o \in Tab => Coloured(entry'[o][1]) /\ Coloured(entry'[o][2])
  /\ o \in Udata => Coloured(uservalue'[o])
  /\ o \in Lcl /\ upval'[o].open = Nil => Coloured(upval'[o].v)

EntryTypes == entry' \in [Tab -> (Obj \cup {Nil, Dead}) \X (Obj \cup {Nil})]

\* Others keep what they refer to.
OthersKept(o) ==
  /\ \A t \in Tab : t # o => entry'[t] = entry[t]
  /\ \A c \in Lcl : c # o => upval'[c] = upval[c]

\* How a step that traverses o colours the others.
OthersMarked(o) ==
  \A x \in Obj : x # o =>
    /\ marked'[x] = "gray" => marked[x] = "gray" \/ x \in gray'
    /\ marked'[x] = "black" => marked[x] = "black" \/ (x \in Leaf /\ (x \in Udata => Coloured(uservalue[x])))

\* How the lists of gray objects grow.
GrayGrown(o, rest) ==
  /\ rest \subseteq gray' /\ \A x \in gray' : x \in rest \/ (x \in Obj /\ x \notin Leaf /\ iswhite(x))
  /\ grayagain \subseteq grayagain' /\ grayagain' \subseteq grayagain \cup {o}
  /\ weak' \subseteq weak \cup {o} /\ ephemeron' \subseteq ephemeron \cup {o}
  /\ allweak \subseteq allweak' /\ allweak' \subseteq allweak \cup {o}
  /\ twups' \subseteq twups \cup ({o} \cap Thread)

\* What is left to show of an object when it has been traversed.
Traversed(o, rest) ==
  /\ Darkened /\ OthersMarked(o) /\ OthersKept(o) /\ GrayGrown(o, rest)
  /\ marked'[o] = "black" => NextBlackOK(o)
  /\ gcstate = "propagate" /\ marked'[o] = "gray" => o \in grayagain' \cup allweak'
  /\ EntryTypes /\ upval' \in [Lcl -> Upvalue]

\* Objects of one type are not of another.
LEMMA TypesApart ==
  /\ \A x \in Tab : x \in Obj /\ x \notin Leaf /\ x \notin Thread /\ x \notin Lcl /\ x \notin Udata /\ x # Nil
  /\ \A x \in Lcl : x \in Obj /\ x \notin Leaf /\ x \notin Thread /\ x \notin Tab /\ x \notin Udata /\ x # Nil
  /\ \A x \in Thread : x \in Obj /\ x \notin Leaf /\ x \notin Tab /\ x \notin Lcl /\ x \notin Udata /\ x # Nil
  /\ \A x \in Leaf : x \in Obj /\ x \notin Tab /\ x \notin Lcl /\ x \notin Thread /\ x # Nil
  /\ Dead \notin Obj /\ Nil \notin Obj
  BY GcAssumption DEF Leaf, Obj, Thread

\* What MarkAnd colours besides o.
LEMMA MarksOthers ==
  ASSUME NEW S, NEW o \in Obj, NEW c \in {"gray", "black"}, NEW rest, TypeOK, MarkAnd(S, o, c, rest)
  PROVE  OthersMarked(o)
<1>1. \A x \in Obj : x # o => \/ marked'[x] = marked[x]
                              \/ marked'[x] = "gray" /\ x \in gray'
                              \/ marked'[x] = "black" /\ x \in Leaf /\ (x \in Udata => Coloured(uservalue[x]))
  BY MarkAndIs
<1>. QED  BY <1>1 DEF OthersMarked

\* An entry whose value is gone has no white key left.
LEMMA RemovedEntry ==
  ASSUME HeapTypes, NEW t \in Tab
  PROVE  /\ removeentry(t) \in (Obj \cup {Nil, Dead}) \X (Obj \cup {Nil})
         /\ NotWhite(removeentry(t)[1]) /\ removeentry(t)[2] = Nil
<1>1. Key(t) \in Obj \cup {Nil, Dead} /\ Nil \in Obj \cup {Nil} /\ Dead \notin Obj
  BY HeapValues, TypesApart
<1>2. CASE Key(t) \in Obj /\ iswhite(Key(t))
  <2>1. removeentry(t) = <<Dead, Nil>>
    BY <1>2 DEF removeentry
  <2>. QED  BY <1>1, <2>1 DEF NotWhite
<1>3. CASE ~(Key(t) \in Obj /\ iswhite(Key(t)))
  <2>1. removeentry(t) = <<Key(t), Nil>>
    BY <1>3 DEF removeentry
  <2>. QED  BY <1>1, <1>3, <2>1 DEF NotWhite
<1>. QED  BY <1>2, <1>3

\* A table is traversed.
LEMMA TraverseTable ==
  ASSUME NEW t \in Tab, NEW rest, TypeOK, marked[t] # "free", traversetable(t, rest)
  PROVE  Traversed(t, rest)
<1>. DEFINE S == TableMarks(t)  c == IF mode[t] = "strong" THEN "black" ELSE "gray"
<1>1. /\ MarkAnd(S, t, c, rest)
      /\ entry' = (IF Val(t) = Nil /\ mode[t] # "kv" THEN [entry EXCEPT ![t] = removeentry(t)] ELSE entry)
      /\ grayagain' = grayagain \cup {x \in {t} : Again(x)}
      /\ weak' = weak \cup {x \in {t} : HasClears(x) /\ mode[x] = "v"}
      /\ ephemeron' = ephemeron \cup {x \in {t} : WhiteWhite(x)}
      /\ allweak' = allweak \cup {x \in {t} : mode[x] = "kv" \/ (HasClears(x) /\ mode[x] = "k" /\ ~WhiteWhite(x))}
      /\ UNCHANGED <<twups, upval>>
  BY DEF traversetable
<1>2. t \in Obj /\ t \notin Thread /\ t \notin Udata /\ t \notin Lcl /\ HeapTypes /\ c \in {"gray", "black"} /\ Nil \notin Obj
  BY TypesApart, TypeParts
<1>3. mode[t] \in {"strong", "k", "v", "kv"} /\ (c = "black" <=> mode[t] = "strong")
  BY <1>2 DEF HeapTypes
<1>4. /\ removeentry(t) \in (Obj \cup {Nil, Dead}) \X (Obj \cup {Nil})
      /\ NotWhite(removeentry(t)[1]) /\ removeentry(t)[2] = Nil
  BY <1>2, RemovedEntry
<1>5. EntryTypes /\ \A x \in Tab : x # t => entry'[x] = entry[x]
  <2>1. entry \in [Tab -> (Obj \cup {Nil, Dead}) \X (Obj \cup {Nil})]
    BY <1>2 DEF HeapTypes
  <2>. HIDE DEF S, c
  <2>. QED  BY <1>1, <1>4, <2>1 DEF EntryTypes
<1>6. TableMarks(t) = S
  OBVIOUS
<1>. HIDE DEF S, c
<1>7. /\ marked'[t] = c
      /\ \A x \in S : Coloured(x)
      /\ \A x : NotWhite(x) => Coloured(x)
      /\ rest \subseteq gray' /\ \A x \in gray' : x \in rest \/ (x \in Obj /\ x \notin Leaf /\ iswhite(x))
  BY <1>1, <1>2, MarkAndIs
<1>8. Darkened
  BY <1>1, <1>2, MarkDarkens
<1>9. OthersMarked(t)
  BY <1>1, <1>2, MarksOthers
<1>10. OthersKept(t)
  BY <1>1, <1>5 DEF OthersKept
<1>11. GrayGrown(t, rest)
  <2>1. /\ grayagain \subseteq grayagain' /\ grayagain' \subseteq grayagain \cup {t}
        /\ weak' \subseteq weak \cup {t} /\ ephemeron' \subseteq ephemeron \cup {t}
        /\ allweak \subseteq allweak' /\ allweak' \subseteq allweak \cup {t}
    BY <1>1
  <2>. QED  BY <1>1, <1>7, <2>1 DEF GrayGrown
<1>12. ASSUME marked'[t] = "black"  PROVE NextBlackOK(t)
  <2>1. mode[t] = "strong"
    BY <1>3, <1>7, <1>12
  <2>2. CASE Val(t) = Nil
    <3>1. entry' = [entry EXCEPT ![t] = removeentry(t)]
      BY <1>1, <2>1, <2>2
    <3>2. entry'[t] = removeentry(t)
      BY <1>2, <3>1 DEF HeapTypes
    <3>3. Coloured(entry'[t][1])
      BY <1>4, <1>7, <3>2
    <3>4. Coloured(entry'[t][2])
      BY <1>2, <1>4, <3>2 DEF Coloured
    <3>. QED  BY <1>2, <3>3, <3>4 DEF NextBlackOK
  <2>3. CASE Val(t) # Nil
    <3>1. entry'[t][1] = Key(t) /\ entry'[t][2] = Val(t)
      BY <1>1, <2>3 DEF Key, Val
    <3>2. S = {Key(t), Val(t)}
      BY <1>6, <2>1, <2>3 DEF TableMarks
    <3>. QED  BY <1>2, <1>7, <3>1, <3>2 DEF NextBlackOK
  <2>. QED  BY <2>2, <2>3
<1>13. ASSUME gcstate = "propagate", marked'[t] = "gray"  PROVE t \in grayagain' \cup allweak'
  <2>1. mode[t] \in {"k", "v", "kv"}
    BY <1>3, <1>7, <1>13
  <2>2. Again(t) \/ mode[t] = "kv"
    BY <1>13, <2>1 DEF Again
  <2>. QED  BY <1>1, <2>2
<1>14. upval' \in [Lcl -> Upvalue]
  BY <1>1, <1>2 DEF HeapTypes
<1>. QED  BY <1>5, <1>8, <1>9, <1>10, <1>11, <1>12, <1>13, <1>14 DEF Traversed

\* A closure is.
LEMMA TraverseLclosure ==
  ASSUME NEW c \in Lcl, NEW rest, TypeOK, marked[c] # "free", traverseLclosure(c, rest)
  PROVE  Traversed(c, rest)
<1>1. /\ \/ /\ upisopen(c) /\ upval' = [upval EXCEPT ![c].touched = TRUE] /\ MarkAnd({}, c, "black", rest)
         \/ /\ upval' = upval /\ MarkAnd({UpValue(c)}, c, "black", rest)
      /\ UNCHANGED <<entry, grayagain, weak, allweak, ephemeron, twups>>
  BY DEF traverseLclosure
<1>2. PICK S : MarkAnd(S, c, "black", rest) /\ (~upisopen(c) => UpValue(c) \in S)
  BY <1>1
<1>3. c \in Obj /\ c \notin Thread /\ c \notin Udata /\ c \notin Tab /\ HeapTypes
  BY TypesApart, TypeParts
<1>4. /\ marked'[c] = "black"
      /\ \A x \in S : Coloured(x)
      /\ rest \subseteq gray' /\ \A x \in gray' : x \in rest \/ (x \in Obj /\ x \notin Leaf /\ iswhite(x))
  BY <1>2, <1>3, MarkAndIs
<1>5. Darkened
  BY <1>2, <1>3, MarkDarkens
<1>6. OthersMarked(c)
  BY <1>2, <1>3, MarksOthers
<1>7. /\ upval' \in [Lcl -> Upvalue] /\ \A x \in Lcl : x # c => upval'[x] = upval[x]
      /\ upval'[c].open = upval[c].open /\ upval'[c].v = upval[c].v
  <2>1. upval \in [Lcl -> Upvalue]
    BY <1>3 DEF HeapTypes
  <2>2. CASE upval' = upval
    BY <2>1, <2>2
  <2>3. CASE upval' = [upval EXCEPT ![c].touched = TRUE]
    <3>1. \A u \in Upvalue : [u EXCEPT !.touched = TRUE] \in Upvalue /\ [u EXCEPT !.touched = TRUE].open = u.open
                             /\ [u EXCEPT !.touched = TRUE].v = u.v
      BY DEF Upvalue
    <3>2. upval' = [upval EXCEPT ![c] = [upval[c] EXCEPT !.touched = TRUE]]
      BY <2>3
    <3>. QED  BY <2>1, <3>1, <3>2
  <2>. QED  BY <1>1, <2>2, <2>3
<1>8. OthersKept(c)
  BY <1>1, <1>7 DEF OthersKept
<1>9. GrayGrown(c, rest)
  BY <1>1, <1>4 DEF GrayGrown
<1>10. NextBlackOK(c)
  <2>1. upval'[c].open = Nil => Coloured(upval'[c].v)
    BY <1>2, <1>4, <1>7 DEF upisopen, UpValue
  <2>. QED  BY <1>3, <2>1 DEF NextBlackOK
<1>11. EntryTypes
  BY <1>1, <1>3 DEF HeapTypes, EntryTypes
<1>. QED  BY <1>4, <1>5, <1>6, <1>7, <1>8, <1>9, <1>10, <1>11 DEF Traversed

\* A thread is.
LEMMA TraverseThread ==
  ASSUME NEW th \in Thread, NEW rest, TypeOK, marked[th] # "free", traversethread(th, rest)
  PROVE  Traversed(th, rest)
<1>1. /\ MarkAnd(StackOf(th), th, "gray", rest)
      /\ grayagain' = grayagain \cup {th}
      /\ twups' = (IF insideatomic /\ HasOpenUpvalues(th) THEN twups \cup {th} ELSE twups)
      /\ UNCHANGED <<entry, upval, weak, allweak, ephemeron>>
  BY DEF traversethread
<1>2. th \in Obj /\ th \notin Udata /\ th \notin Tab /\ th \notin Lcl /\ HeapTypes
  BY TypesApart, TypeParts
<1>3. /\ marked'[th] = "gray"
      /\ rest \subseteq gray' /\ \A x \in gray' : x \in rest \/ (x \in Obj /\ x \notin Leaf /\ iswhite(x))
  BY <1>1, <1>2, MarkAndIs
<1>4. Darkened
  BY <1>1, <1>2, MarkDarkens
<1>5. OthersMarked(th)
  BY <1>1, <1>2, MarksOthers
<1>6. OthersKept(th)
  BY <1>1 DEF OthersKept
<1>7. GrayGrown(th, rest)
  BY <1>1, <1>3 DEF GrayGrown
<1>8. EntryTypes /\ upval' \in [Lcl -> Upvalue]
  BY <1>1, <1>2 DEF HeapTypes, EntryTypes
<1>. QED  BY <1>1, <1>3, <1>4, <1>5, <1>6, <1>7, <1>8 DEF Traversed

\* States in which a part of convergeephemerons, or TraverseAgain, has objects to come to.
WithTodo == {"marked", "converge1", "converge2"}

\* A step that darkens objects, from one state of the marking to another.
LEMMA MarkStepInv ==
  ASSUME TypeOK, ListsOK, DeadOK, MarkedOK, Darkened, gcstate \in Marking, gcstate' \in Marking,
         UNCHANGED <<listVars, currentwhite>>,
         gcstate' \in {"fnz", "converge2"} => gcstate \in {"fnz", "converge2"},
         gray' \cup grayagain' \cup ephemeron' \cup todo' \subseteq Live,
         gcstate' \notin WithTodo => todo' = {}
  PROVE  /\ ListsOK' /\ SweptOK' /\ DeadOK' /\ MarkedOK' /\ ObjectTypes' /\ Live' = Live
         /\ \A x : NotWhite(x) => Coloured(x)
<1>1. /\ ListsOK' /\ SweptOK' /\ DeadOK' /\ ObjectTypes' /\ Live' = Live
      /\ (\A th \in Thread : marked'[th] # "black") /\ (marked[Main] = "gray" => marked'[Main] = "gray")
      /\ \A x : NotWhite(x) => Coloured(x)
  BY DarkenInv
<1>2. gcstate' \in {"fnz", "converge2"} => \A o \in tofinalize' : ~iswhite(o)'
  BY <1>1, ListTypes DEF MarkedOK, NotWhite, Coloured, iswhite, listVars
<1>3. marked'[Main] = "gray"
  BY <1>1 DEF MarkedOK
<1>4. MarkedOK'
  BY <1>1, <1>2, <1>3 DEF MarkedOK, WithTodo
<1>. QED  BY <1>1, <1>4

\* An object that is traversed while the collector marks.
LEMMA TraversedInv ==
  ASSUME GcInv, NEW o \in Obj \ Leaf, o \in Live, NEW rest, Traversed(o, rest),
         gcstate \in Marking, gcstate' \in Marking, UNCHANGED <<listVars, currentwhite>>,
         gcstate' \in {"fnz", "converge2"} => gcstate \in {"fnz", "converge2"},
         gcstate' \notin WithTodo => todo' = {}, rest \subseteq gray, todo' \subseteq todo,
         UNCHANGED <<stack, uservalue, mode>>
  PROVE  /\ ListsOK' /\ SweptOK' /\ DeadOK' /\ MarkedOK' /\ ObjectTypes' /\ Live' = Live
         /\ GrayTypes' /\ HeapTypes' /\ \A x : NotWhite(x) => Coloured(x)
<1>1. TypeOK /\ ListsOK /\ DeadOK /\ MarkedOK /\ GrayTypes /\ HeapTypes
  BY TypeParts DEF GcInv
<1>2. /\ Darkened /\ OthersMarked(o) /\ OthersKept(o) /\ GrayGrown(o, rest)
      /\ EntryTypes /\ upval' \in [Lcl -> Upvalue]
  BY DEF Traversed
<1>3. \A x \in Obj : iswhite(x) => x \in Live
  BY <1>1, <1>2, DarkenInv
<1>4. gray \cup grayagain \cup ephemeron \cup todo \subseteq Live
  BY <1>1 DEF MarkedOK
<1>5. gray' \cup grayagain' \cup ephemeron' \cup todo' \subseteq Live
  BY <1>2, <1>3, <1>4 DEF GrayGrown
<1>6. /\ ListsOK' /\ SweptOK' /\ DeadOK' /\ MarkedOK' /\ ObjectTypes' /\ Live' = Live
      /\ \A x : NotWhite(x) => Coloured(x)
  BY <1>1, <1>2, <1>5, MarkStepInv
<1>7. GrayTypes'
  <2>1. gray' \cup grayagain' \cup weak' \cup allweak' \cup ephemeron' \cup todo' \subseteq Obj \ Leaf
    BY <1>1, <1>2 DEF GrayTypes, GrayGrown
  <2>2. twups' \subseteq Thread
    BY <1>1, <1>2 DEF GrayTypes, GrayGrown
  <2>. QED  BY <2>1, <2>2 DEF GrayTypes
<1>8. HeapTypes'
  BY <1>1, <1>2 DEF HeapTypes, EntryTypes
<1>. QED  BY <1>6, <1>7, <1>8

\* propagatemark takes an object that lives.
LEMMA PropagateMarkIs ==
  ASSUME GcInv, gcstate \in Marking, NEW o \in Obj, propagatemark(o)
  PROVE  /\ o \in Obj \ Leaf /\ o \in Live /\ marked[o] # "free" /\ Traversed(o, gray \ {o})
         /\ UNCHANGED <<listVars, currentwhite, sweepgc, stack, uservalue, callVars, idleVars>>
<1>1. TypeOK /\ ListsOK /\ MarkedOK
  BY DEF GcInv
<1>2. o \in gray
  BY DEF propagatemark
<1>3. o \in Live /\ marked[o] # "free"
  BY <1>1, <1>2, ListsAre DEF MarkedOK
<1>4. PICK rest : rest = gray \ {o}
  OBVIOUS
<1>5. \/ o \in Tab /\ traversetable(o, rest)
      \/ o \in Lcl /\ traverseLclosure(o, rest)
      \/ o \in Thread /\ traversethread(o, rest)
  BY <1>4 DEF propagatemark
<1>6. Traversed(o, rest)
  <2>1. CASE o \in Tab /\ traversetable(o, rest)
    BY <1>1, <1>3, <2>1, TraverseTable
  <2>2. CASE o \in Lcl /\ traverseLclosure(o, rest)
    BY <1>1, <1>3, <2>2, TraverseLclosure
  <2>3. CASE o \in Thread /\ traversethread(o, rest)
    BY <1>1, <1>3, <2>3, TraverseThread
  <2>. QED  BY <1>5, <2>1, <2>2, <2>3
<1>7. o \in Obj \ Leaf
  BY <1>1, <1>2, TypeParts DEF GrayTypes
<1>. QED  BY <1>3, <1>4, <1>6, <1>7 DEF propagatemark

\* The control of a step that changes the state only.
LEMMA StateTypes ==
  ASSUME TypeOK, gcstate' \in States, changed' \in BOOLEAN, currentwhite' \in White, UNCHANGED <<sweepgc, callVars, idleVars>>
  PROVE  ControlTypes'
  BY TypeParts DEF ControlTypes, callVars, idleVars

\* All that is gray is traversed, in the atomic phase.
LEMMA PropagateAllInv ==
  ASSUME GcInv, propagateall
  PROVE  GcInv'
<1>1. PICK o \in Obj : propagatemark(o)
  BY DEF propagateall
<1>2. gcstate \in Marking /\ gcstate' = gcstate /\ todo' = todo /\ changed' = changed /\ gcstate \notin {"propagate", "atomic"}
  BY DEF propagateall, convVars, Marking, Inside
<1>3. TypeOK /\ ControlTypes /\ MarkedOK
  BY TypeParts DEF GcInv
<1>4. /\ o \in Obj \ Leaf /\ o \in Live /\ Traversed(o, gray \ {o})
      /\ UNCHANGED <<listVars, currentwhite, sweepgc, stack, uservalue, callVars, idleVars>>
  BY <1>1, <1>2, PropagateMarkIs
<1>5. gcstate' \notin WithTodo => todo' = {}
  BY <1>2, <1>3 DEF MarkedOK, WithTodo
<1>6. UNCHANGED <<stack, uservalue, mode>> /\ gray \ {o} \subseteq gray
  BY <1>4 DEF idleVars
<1>7. /\ ListsOK' /\ SweptOK' /\ DeadOK' /\ MarkedOK' /\ ObjectTypes' /\ GrayTypes' /\ HeapTypes'
  BY <1>2, <1>4, <1>5, <1>6, TraversedInv
<1>8. ControlTypes'
  BY <1>2, <1>3, <1>4, StateTypes DEF ControlTypes
<1>9. ColoursOK'
  BY <1>2 DEF ColoursOK, keepinvariant
<1>. QED  BY <1>7, <1>8, <1>9, TypeParts DEF GcInv

\* One table of todo is traversed.
LEMMA TraverseEphemeronInv ==
  ASSUME GcInv, NEW w \in Tab, traverseephemeron(w)
  PROVE  GcInv'
<1>1. /\ gcstate \in {"converge1", "converge2"} /\ gray = {} /\ w \in todo /\ traversetable(w, gray) /\ todo' = todo \ {w}
      /\ changed' = (changed \/ (Val(w) \in Obj /\ iswhite(Val(w)) /\ ~iscleared(Key(w))))
      /\ UNCHANGED <<listVars, currentwhite, gcstate, sweepgc, stack, uservalue, callVars, idleVars>>
  BY DEF traverseephemeron
<1>2. TypeOK /\ ListsOK /\ ControlTypes /\ MarkedOK
  BY TypeParts DEF GcInv
<1>3. gcstate \in Marking /\ gcstate' = gcstate /\ gcstate \in WithTodo /\ gcstate \notin {"propagate", "atomic"}
  BY <1>1 DEF Marking, Inside, WithTodo
<1>4. w \in Live /\ marked[w] # "free" /\ w \in Obj \ Leaf
  BY <1>1, <1>2, <1>3, ListsAre, TypesApart DEF MarkedOK
<1>5. Traversed(w, gray)
  BY <1>1, <1>2, <1>4, TraverseTable
<1>6. UNCHANGED <<stack, uservalue, mode>> /\ todo' \subseteq todo /\ gray \subseteq gray
  BY <1>1 DEF idleVars
<1>7. /\ ListsOK' /\ SweptOK' /\ DeadOK' /\ MarkedOK' /\ ObjectTypes' /\ GrayTypes' /\ HeapTypes'
  BY <1>1, <1>3, <1>4, <1>5, <1>6, TraversedInv
<1>8. ControlTypes'
  <2>1. changed' \in BOOLEAN
    BY <1>1, <1>2 DEF ControlTypes
  <2>. QED  BY <1>1, <1>2, <2>1, StateTypes DEF ControlTypes
<1>9. ColoursOK'
  BY <1>3 DEF ColoursOK, keepinvariant
<1>. QED  BY <1>7, <1>8, <1>9, TypeParts DEF GcInv

\* BlackOK, spelled for the next state.
LEMMA BlackNext == \A o : BlackOK(o)' <=> NextBlackOK(o)
<1>. TAKE o
<1>1. \A x : NotWhite(x)' <=> NotWhite(x)'
  OBVIOUS
<1>. QED  BY DEF BlackOK, NextBlackOK, NotWhite, Coloured, iswhite, Key, Val, upisopen

\* One gray object is traversed, with the program between the steps.
LEMMA PropagateStepInv ==
  ASSUME GcInv, PropagateStep
  PROVE  GcInv'
<1>1. PICK o \in Obj : propagatemark(o)
  BY DEF PropagateStep
<1>2. /\ gcstate = "propagate" /\ gcstate' = (IF gray' = {} THEN "atomic" ELSE "propagate")
      /\ todo' = todo /\ changed' = changed
  BY DEF PropagateStep, convVars
<1>3. TypeOK /\ ListsOK /\ ControlTypes /\ HeapTypes /\ MarkedOK /\ ColoursOK
  BY TypeParts DEF GcInv
<1>4. gcstate \in Marking /\ gcstate' \in {"atomic", "propagate"} /\ gcstate' \in Marking /\ gcstate' \notin WithTodo
      /\ gcstate \notin WithTodo
  BY <1>2 DEF Marking, WithTodo
<1>5. /\ o \in Obj \ Leaf /\ o \in Live /\ Traversed(o, gray \ {o})
      /\ UNCHANGED <<listVars, currentwhite, sweepgc, stack, uservalue, callVars, idleVars>>
  BY <1>1, <1>4, PropagateMarkIs
<1>6. todo' = {}
  BY <1>2, <1>3, <1>4 DEF MarkedOK, WithTodo
<1>7. UNCHANGED <<stack, uservalue, mode>> /\ gray \ {o} \subseteq gray /\ unswept' = unswept
      /\ gcstate' \notin {"fnz", "converge2"} /\ todo' \subseteq todo
  BY <1>2, <1>4, <1>5 DEF idleVars
<1>8. /\ ListsOK' /\ SweptOK' /\ DeadOK' /\ MarkedOK' /\ ObjectTypes' /\ Live' = Live /\ GrayTypes' /\ HeapTypes'
      /\ \A x : NotWhite(x) => Coloured(x)
  BY <1>4, <1>5, <1>6, <1>7, TraversedInv
<1>9. ControlTypes'
  <2>1. gcstate' \in States
    BY <1>4, StatesAre
  <2>. QED  BY <1>2, <1>3, <1>5, <2>1, StateTypes DEF ControlTypes
<1>10. ColoursOK'
  <2>0. /\ OthersMarked(o) /\ OthersKept(o) /\ GrayGrown(o, gray \ {o})
        /\ marked'[o] = "black" => NextBlackOK(o)
        /\ marked'[o] = "gray" => o \in grayagain' \cup allweak'
    BY <1>2, <1>5 DEF Traversed
  <2>1. ASSUME NEW x \in Live \ unswept, marked'[x] = "black"  PROVE NextBlackOK(x)
    <3>0. x \in Obj
      BY <1>3, ListsAre
    <3>1. CASE x = o
      BY <2>0, <2>1, <3>1
    <3>2. CASE x # o /\ marked[x] = "black"
      <4>1. BlackOK(x)
        BY <1>2, <1>3, <2>1, <3>2 DEF ColoursOK, keepinvariant
      <4>2. x \in Tab => entry'[x] = entry[x]
        BY <2>0, <3>2 DEF OthersKept
      <4>3. x \in Lcl => upval'[x] = upval[x]
        BY <2>0, <3>2 DEF OthersKept
      <4>. QED  BY <1>7, <1>8, <4>1, <4>2, <4>3 DEF BlackOK, NextBlackOK, Key, Val, upisopen
    <3>3. CASE x # o /\ marked[x] # "black"
      <4>1. x \in Leaf /\ (x \in Udata => Coloured(uservalue[x]))
        BY <2>0, <2>1, <3>0, <3>3 DEF OthersMarked
      <4>. QED  BY <1>7, <4>1, TypesApart DEF NextBlackOK
    <3>. QED  BY <3>1, <3>2, <3>3
  <2>2. ASSUME NEW x \in Live \ unswept, marked'[x] = "gray"  PROVE x \in gray' \cup grayagain' \cup allweak'
    <3>0. x \in Obj
      BY <1>3, ListsAre
    <3>1. CASE x = o
      BY <2>0, <2>2, <3>1
    <3>2. CASE x # o /\ marked[x] = "gray"
      <4>1. x \in gray \cup grayagain \cup allweak
        BY <1>2, <1>3, <2>2, <3>2 DEF ColoursOK, keepinvariant
      <4>. QED  BY <2>0, <3>2, <4>1 DEF GrayGrown
    <3>3. CASE x # o /\ marked[x] # "gray"
      BY <2>0, <2>2, <3>0, <3>3 DEF OthersMarked
    <3>. QED  BY <3>1, <3>2, <3>3
  <2>. QED  BY <1>7, <1>8, <2>1, <2>2, BlackNext DEF ColoursOK
<1>. QED  BY <1>8, <1>9, <1>10, TypeParts DEF GcInv

\* Marking S alone.
LEMMA MarkAlone ==
  ASSUME NEW S, NEW rest, TypeOK, MarkAnd(S, Nil, Nil, rest)
  PROVE  /\ Darkened /\ \A x \in S : Coloured(x)
         /\ \A x \in Obj : \/ marked'[x] = marked[x]
                           \/ iswhite(x) /\ marked'[x] = "gray" /\ x \in gray'
                           \/ iswhite(x) /\ marked'[x] = "black" /\ x \in Leaf /\ (x \in Udata => Coloured(uservalue[x]))
         /\ rest \subseteq gray' /\ \A x \in gray' : x \in rest \/ (x \in Obj /\ x \notin Leaf /\ iswhite(x))
         /\ \A x : NotWhite(x) => Coloured(x)
<1>. DEFINE o == Nil  c == Nil
<1>1. MarkAnd(S, o, c, rest) /\ o = Nil /\ o \notin Obj
  BY TypesApart
<1>. HIDE DEF o, c
<1>2. Darkened
  BY <1>1, MarkDarkens
<1>3. /\ \A x \in Obj : x # o => \/ marked'[x] = marked[x]
                                 \/ iswhite(x) /\ marked'[x] = "gray" /\ x \in gray'
                                 \/ iswhite(x) /\ marked'[x] = "black" /\ x \in Leaf /\ (x \in Udata => Coloured(uservalue[x]))
      /\ \A x \in S : Coloured(x)
      /\ \A x : NotWhite(x) => Coloured(x)
      /\ rest \subseteq gray' /\ \A x \in gray' : x \in rest \/ (x \in Obj /\ x \notin Leaf /\ iswhite(x))
  BY <1>1, MarkAndIs
<1>. QED  BY <1>1, <1>2, <1>3

\* A step of the collector that has no colours to change.
LEMMA MarkNothing ==
  ASSUME TypeOK, marked' = marked
  PROVE  Darkened
  BY ListTypes DEF Darkened

\* A cycle begins: all that the last one came to is white.
LEMMA RestartInv ==
  ASSUME GcInv, restartcollection
  PROVE  GcInv'
<1>. DEFINE S == {Main} \cup markbeingfnz(tobefnz)
<1>1. /\ gcstate = "pause" /\ gcstate' = "propagate" /\ MarkAnd(S, Nil, Nil, {})
      /\ grayagain' = {} /\ weak' = {} /\ allweak' = {} /\ ephemeron' = {}
      /\ UNCHANGED <<listVars, currentwhite, sweepgc, twups, convVars, callVars, heapVars, idleVars>>
  BY DEF restartcollection
<1>2. TypeOK /\ ListsOK /\ SweptOK /\ DeadOK /\ MarkedOK /\ ControlTypes /\ GrayTypes /\ HeapTypes
  BY TypeParts DEF GcInv
<1>3. Main \in S
  OBVIOUS
<1>. HIDE DEF S
<1>4. PICK rest : rest = {} /\ MarkAnd(S, Nil, Nil, rest)
  BY <1>1
<1>5. /\ Darkened /\ \A x \in S : Coloured(x)
      /\ \A x \in Obj : \/ marked'[x] = marked[x]
                        \/ iswhite(x) /\ marked'[x] = "gray" /\ x \in gray'
                        \/ iswhite(x) /\ marked'[x] = "black" /\ x \in Leaf /\ (x \in Udata => Coloured(uservalue[x]))
      /\ \A x \in gray' : x \in Obj /\ x \notin Leaf /\ iswhite(x)
  BY <1>2, <1>4, MarkAlone
<1>6. gcstate \in Marking \cup {"pause"} /\ gcstate' \in Marking /\ UNCHANGED <<listVars, currentwhite>>
      /\ gcstate' \notin {"fnz", "converge2"} /\ gcstate \notin WithTodo
  BY <1>1 DEF Marking, WithTodo
<1>7. /\ ListsOK' /\ SweptOK' /\ DeadOK' /\ ObjectTypes' /\ Live' = Live
      /\ (\A th \in Thread : marked'[th] # "black")
      /\ \A x \in Obj : iswhite(x) => x \in Live
  BY <1>2, <1>5, <1>6, DarkenInv
<1>8. \A x \in Live \ unswept : marked[x] \in White /\ x \in Obj
  BY <1>1, <1>2, ListsAre DEF SweptOK, clean, ControlTypes
<1>9. marked'[Main] = "gray"
  <2>1. Main \in Live \ unswept /\ Main \in Obj /\ Main \notin Leaf
    BY <1>2, ListsAre, ListTypes, TypesApart DEF ControlTypes
  <2>. QED  BY <1>3, <1>5, <1>8, <2>1 DEF Coloured
<1>10. todo' = {} /\ gray' \cup grayagain' \cup ephemeron' \cup todo' \subseteq Live'
  BY <1>1, <1>2, <1>5, <1>6, <1>7 DEF MarkedOK, convVars, WithTodo
<1>11. MarkedOK'
  BY <1>6, <1>7, <1>9, <1>10 DEF MarkedOK
<1>12. ColoursOK'
  <2>0. unswept' = unswept /\ uservalue' = uservalue
    BY <1>1 DEF idleVars, heapVars
  <2>1. ASSUME NEW x \in Live \ unswept, marked'[x] = "black"  PROVE NextBlackOK(x)
    <3>1. x \in Leaf /\ (x \in Udata => Coloured(uservalue[x]))
      BY <1>5, <1>8, <2>1 DEF White
    <3>. QED  BY <2>0, <3>1, TypesApart DEF NextBlackOK
  <2>2. ASSUME NEW x \in Live \ unswept, marked'[x] = "gray"  PROVE x \in gray' \cup grayagain' \cup allweak'
    BY <1>5, <1>8, <2>2 DEF White
  <2>. QED  BY <1>7, <2>0, <2>1, <2>2, BlackNext DEF ColoursOK
<1>13. ControlTypes' /\ GrayTypes' /\ HeapTypes'
  <2>1. gcstate' \in States /\ changed' \in BOOLEAN
    BY <1>1, <1>2, StatesAre DEF ControlTypes, convVars
  <2>2. ControlTypes'
    BY <1>1, <1>2, <2>1, StateTypes DEF ControlTypes
  <2>3. GrayTypes'
    BY <1>1, <1>2, <1>5, <1>10 DEF GrayTypes
  <2>4. HeapTypes'
    BY <1>1, <1>2 DEF HeapTypes, heapVars, idleVars
  <2>. QED  BY <2>2, <2>3, <2>4
<1>. QED  BY <1>7, <1>11, <1>12, <1>13, TypeParts DEF GcInv

\* From one part of the atomic phase to another.
LEMMA AtomicInv ==
  ASSUME GcInv, Darkened, gcstate \in Marking, gcstate' \in Marking \ {"propagate", "atomic"}, changed' \in BOOLEAN,
         UNCHANGED <<listVars, currentwhite, sweepgc, callVars, idleVars>>,
         gcstate' \in {"fnz", "converge2"} => gcstate \in {"fnz", "converge2"},
         gray' \cup grayagain' \cup ephemeron' \cup todo' \subseteq Live,
         gcstate' \notin WithTodo => todo' = {}, GrayTypes', HeapTypes'
  PROVE  GcInv'
<1>1. TypeOK /\ ListsOK /\ DeadOK /\ MarkedOK /\ ControlTypes
  BY TypeParts DEF GcInv
<1>2. /\ ListsOK' /\ SweptOK' /\ DeadOK' /\ MarkedOK' /\ ObjectTypes'
  BY <1>1, MarkStepInv
<1>3. gcstate' \in States /\ gcstate' \notin {"propagate", "atomic"}
  BY StatesAre DEF Marking, Inside
<1>4. ControlTypes'
  BY <1>1, <1>3, StateTypes DEF ControlTypes
<1>5. ColoursOK'
  BY <1>3 DEF ColoursOK, keepinvariant
<1>. QED  BY <1>2, <1>4, <1>5, TypeParts DEF GcInv

\* What is gray while the collector marks.
LEMMA GrayLives ==
  ASSUME GcInv, gcstate \in Marking
  PROVE  /\ TypeOK /\ ListsOK /\ DeadOK /\ MarkedOK /\ ControlTypes /\ GrayTypes /\ HeapTypes
         /\ gray \cup grayagain \cup ephemeron \cup todo \subseteq Live /\ changed \in BOOLEAN
         /\ \A x \in Obj : iswhite(x) => x \in Live
<1>1. TypeOK /\ ListsOK /\ DeadOK /\ MarkedOK /\ ControlTypes /\ GrayTypes /\ HeapTypes
  BY TypeParts DEF GcInv
<1>2. gray \cup grayagain \cup ephemeron \cup todo \subseteq Live /\ changed \in BOOLEAN
  BY <1>1 DEF MarkedOK, ControlTypes
<1>3. \A x \in Obj : iswhite(x) => x \in Live
  BY <1>1, ListsAre DEF iswhite, White
<1>. QED  BY <1>1, <1>2, <1>3

\* The atomic phase begins.
LEMMA AtomicBeginsInv ==
  ASSUME GcInv, AtomicBegins
  PROVE  GcInv'
<1>1. /\ gcstate = "atomic" /\ gcstate' = "propagateall"
      /\ UNCHANGED <<listVars, marked, currentwhite, sweepgc, grayVars, twups, convVars, callVars, heapVars, idleVars>>
  BY DEF AtomicBegins
<1>2. gcstate \in Marking /\ gcstate' \in Marking \ {"propagate", "atomic"} /\ gcstate' \notin {"fnz", "converge2"}
      /\ gcstate \notin WithTodo
  BY <1>1 DEF Marking, Inside, WithTodo
<1>3. /\ TypeOK /\ MarkedOK /\ GrayTypes /\ HeapTypes
      /\ gray \cup grayagain \cup ephemeron \cup todo \subseteq Live /\ changed \in BOOLEAN
  BY <1>2, GrayLives
<1>4. Darkened
  BY <1>1, <1>3, MarkNothing
<1>5. gray' \cup grayagain' \cup ephemeron' \cup todo' \subseteq Live /\ todo' = {} /\ changed' \in BOOLEAN
  BY <1>1, <1>2, <1>3 DEF grayVars, convVars, MarkedOK, WithTodo
<1>6. GrayTypes' /\ HeapTypes'
  BY <1>1, <1>3 DEF GrayTypes, HeapTypes, grayVars, convVars, heapVars, idleVars
<1>. QED  BY <1>1, <1>2, <1>4, <1>5, <1>6, AtomicInv

\* Upvalues of threads that were not marked are.
LEMMA RemarkInv ==
  ASSUME GcInv, remarkupvals
  PROVE  GcInv'
<1>. DEFINE touched == {c \in Lcl : upval[c].open \in NotKept /\ upval[c].touched}
<1>1. /\ gcstate = "propagateall" /\ gcstate' = "marked"
      /\ MarkAnd({UpValue(c) : c \in touched}, Nil, Nil, {})
      /\ upval' = [c \in Lcl |-> IF c \in touched THEN [upval[c] EXCEPT !.touched = FALSE] ELSE upval[c]]
      /\ twups' = twups \ NotKept /\ todo' = grayagain
      /\ UNCHANGED <<listVars, currentwhite, sweepgc, grayagain, weak, allweak, ephemeron, changed, callVars, stack, entry, uservalue, idleVars>>
  BY DEF remarkupvals, Enter
<1>2. gcstate \in Marking /\ gcstate' \in Marking \ {"propagate", "atomic"} /\ gcstate' \notin {"fnz", "converge2"} /\ gcstate' \in WithTodo
  BY <1>1 DEF Marking, Inside, WithTodo
<1>3. /\ TypeOK /\ GrayTypes /\ HeapTypes
      /\ gray \cup grayagain \cup ephemeron \cup todo \subseteq Live /\ changed \in BOOLEAN
      /\ \A x \in Obj : iswhite(x) => x \in Live
  BY <1>2, GrayLives
<1>4. PICK S, rest : MarkAnd(S, Nil, Nil, rest) /\ rest = {}
  BY <1>1
<1>5. Darkened /\ \A x \in gray' : x \in Obj /\ x \notin Leaf /\ iswhite(x)
  BY <1>3, <1>4, MarkAlone
<1>6. gray' \cup grayagain' \cup ephemeron' \cup todo' \subseteq Live
  BY <1>1, <1>3, <1>5
<1>7. GrayTypes'
  BY <1>1, <1>3, <1>5 DEF GrayTypes
<1>8. HeapTypes'
  <2>1. \A u \in Upvalue : [u EXCEPT !.touched = FALSE] \in Upvalue
    BY DEF Upvalue
  <2>2. upval \in [Lcl -> Upvalue]
    BY <1>3 DEF HeapTypes
  <2>. HIDE DEF touched
  <2>3. upval' \in [Lcl -> Upvalue]
    BY <1>1, <2>1, <2>2
  <2>. QED  BY <1>1, <1>3, <2>3 DEF HeapTypes, idleVars
<1>. QED  BY <1>1, <1>2, <1>3, <1>5, <1>6, <1>7, <1>8, AtomicInv

\* Objects marked again are gray.
LEMMA TraverseAgainInv ==
  ASSUME GcInv, TraverseAgain
  PROVE  GcInv'
<1>1. /\ gcstate = "marked" /\ gcstate' = "again" /\ gray' = todo /\ todo' = {}
      /\ UNCHANGED <<listVars, marked, currentwhite, sweepgc, grayagain, weak, allweak, ephemeron, twups, changed, callVars, heapVars, idleVars>>
  BY DEF TraverseAgain, Enter
<1>2. gcstate \in Marking /\ gcstate' \in Marking \ {"propagate", "atomic"} /\ gcstate' \notin {"fnz", "converge2"}
  BY <1>1 DEF Marking, Inside
<1>3. /\ TypeOK /\ GrayTypes /\ HeapTypes
      /\ gray \cup grayagain \cup ephemeron \cup todo \subseteq Live /\ changed \in BOOLEAN
  BY <1>2, GrayLives
<1>4. Darkened
  BY <1>1, <1>3, MarkNothing
<1>5. gray' \cup grayagain' \cup ephemeron' \cup todo' \subseteq Live /\ changed' \in BOOLEAN
  BY <1>1, <1>3
<1>6. GrayTypes' /\ HeapTypes'
  BY <1>1, <1>3 DEF GrayTypes, HeapTypes, heapVars, idleVars
<1>. QED  BY <1>1, <1>2, <1>4, <1>5, <1>6, AtomicInv

\* A round of convergeephemerons begins.
LEMMA ConvergeRoundInv ==
  ASSUME GcInv, ConvergeRound
  PROVE  GcInv'
<1>1. /\ todo' = ephemeron /\ ephemeron' = {} /\ changed' = FALSE
      /\ \/ gcstate = "again" /\ gcstate' = "converge1"
         \/ gcstate = "fnz" /\ gcstate' = "converge2"
         \/ gcstate \in {"converge1", "converge2"} /\ gcstate' = gcstate
      /\ UNCHANGED <<listVars, marked, currentwhite, sweepgc, gray, grayagain, weak, allweak, twups, callVars, heapVars, idleVars>>
  BY DEF ConvergeRound, Enter
<1>2. gcstate \in Marking /\ gcstate' \in Marking \ {"propagate", "atomic"} /\ gcstate' \in WithTodo
      /\ (gcstate' \in {"fnz", "converge2"} => gcstate \in {"fnz", "converge2"})
  BY <1>1 DEF Marking, Inside, WithTodo
<1>3. /\ TypeOK /\ GrayTypes /\ HeapTypes
      /\ gray \cup grayagain \cup ephemeron \cup todo \subseteq Live
  BY <1>2, GrayLives
<1>4. Darkened
  BY <1>1, <1>3, MarkNothing
<1>5. gray' \cup grayagain' \cup ephemeron' \cup todo' \subseteq Live /\ changed' \in BOOLEAN
  BY <1>1, <1>3
<1>6. GrayTypes' /\ HeapTypes'
  BY <1>1, <1>3 DEF GrayTypes, HeapTypes, heapVars, idleVars
<1>. QED  BY <1>1, <1>2, <1>4, <1>5, <1>6, AtomicInv

\* Clearing entries leaves entries.
LEMMA ClearTypes ==
  ASSUME HeapTypes, ClearEntries
  PROVE  EntryTypes
<1>1. \A t \in Tab : removeentry(t) \in (Obj \cup {Nil, Dead}) \X (Obj \cup {Nil})
  BY RemovedEntry
<1>. QED  BY <1>1 DEF ClearEntries, EntryTypes, HeapTypes

\* Weak values are cleared.
LEMMA ClearValuesInv ==
  ASSUME GcInv, ClearValues
  PROVE  GcInv'
<1>1. /\ gcstate = "converge1" /\ gcstate' = "separate" /\ todo = {} /\ ClearEntries /\ MarkAnd(MetStrings, Nil, Nil, gray)
      /\ UNCHANGED <<listVars, currentwhite, sweepgc, grayagain, weak, allweak, ephemeron, twups, convVars, callVars, stack, uservalue, upval, idleVars>>
  BY DEF ClearValues, Enter
<1>2. gcstate \in Marking /\ gcstate' \in Marking \ {"propagate", "atomic"} /\ gcstate' \notin {"fnz", "converge2"}
  BY <1>1 DEF Marking, Inside
<1>3. /\ TypeOK /\ GrayTypes /\ HeapTypes
      /\ gray \cup grayagain \cup ephemeron \cup todo \subseteq Live /\ changed \in BOOLEAN
      /\ \A x \in Obj : iswhite(x) => x \in Live
  BY <1>2, GrayLives
<1>4. PICK S : MarkAnd(S, Nil, Nil, gray)
  BY <1>1
<1>5. Darkened /\ \A x \in gray' : x \in gray \/ (x \in Obj /\ x \notin Leaf /\ iswhite(x))
  BY <1>3, <1>4, MarkAlone
<1>6. gray' \cup grayagain' \cup ephemeron' \cup todo' \subseteq Live /\ todo' = {} /\ changed' \in BOOLEAN
  BY <1>1, <1>3, <1>5 DEF convVars
<1>7. GrayTypes'
  BY <1>1, <1>3, <1>5 DEF GrayTypes, convVars
<1>8. HeapTypes'
  <2>1. EntryTypes
    BY <1>1, <1>3, ClearTypes
  <2>. QED  BY <1>1, <1>3, <2>1 DEF HeapTypes, EntryTypes, idleVars
<1>. QED  BY <1>1, <1>2, <1>5, <1>6, <1>7, <1>8, AtomicInv

\* Objects to be finalized are marked, so that what has a finalizer is not white.
LEMMA MarkToBeFnzInv ==
  ASSUME GcInv, MarkToBeFnz
  PROVE  GcInv'
<1>1. /\ gcstate = "separate" /\ gcstate' = "fnz" /\ MarkAnd(markbeingfnz(tobefnz), Nil, Nil, gray)
      /\ \A o \in ToSet(finobj) : ~iswhite(o)
      /\ UNCHANGED <<listVars, currentwhite, sweepgc, grayagain, weak, allweak, ephemeron, twups, convVars, callVars, heapVars, idleVars>>
  BY DEF MarkToBeFnz, Enter
<1>2. gcstate \in Marking /\ gcstate' \in Marking /\ gcstate' \notin {"propagate", "atomic"} /\ gcstate \notin WithTodo
      /\ gcstate \in Marking \cup {"pause"}
  BY <1>1 DEF Marking, Inside, WithTodo
<1>3. /\ TypeOK /\ ListsOK /\ DeadOK /\ MarkedOK /\ ControlTypes /\ GrayTypes /\ HeapTypes
      /\ gray \cup grayagain \cup ephemeron \cup todo \subseteq Live /\ changed \in BOOLEAN
      /\ \A x \in Obj : iswhite(x) => x \in Live
  BY <1>2, GrayLives
<1>4. PICK S : S = markbeingfnz(tobefnz) /\ MarkAnd(S, Nil, Nil, gray)
  BY <1>1
<1>5. /\ Darkened /\ (\A x \in gray' : x \in gray \/ (x \in Obj /\ x \notin Leaf /\ iswhite(x)))
      /\ \A x \in S : Coloured(x)
  BY <1>3, <1>4, MarkAlone
<1>6. /\ ListsOK' /\ SweptOK' /\ DeadOK' /\ ObjectTypes' /\ Live' = Live
      /\ (\A th \in Thread : marked'[th] # "black") /\ (marked[Main] = "gray" => marked'[Main] = "gray")
      /\ \A x : NotWhite(x) => Coloured(x)
  BY <1>1, <1>2, <1>3, <1>5, DarkenInv
<1>7. \A o \in tofinalize' : ~iswhite(o)'
  <2>1. \A o \in ToSet(finobj) \cup ToSet(tobefnz) : Coloured(o)
    BY <1>1, <1>4, <1>5, <1>6 DEF NotWhite, markbeingfnz
  <2>2. tofinalize' = ToSet(finobj) \cup ToSet(tobefnz) /\ tofinalize' \subseteq Obj
    BY <1>1, <1>3, ListTypes DEF ListsOK, listVars
  <2>. QED  BY <2>1, <2>2 DEF Coloured, iswhite
<1>8. gray' \cup grayagain' \cup ephemeron' \cup todo' \subseteq Live' /\ todo' = {}
  BY <1>1, <1>2, <1>3, <1>5, <1>6 DEF convVars, MarkedOK, WithTodo
<1>9. MarkedOK'
  BY <1>2, <1>3, <1>6, <1>7, <1>8 DEF MarkedOK
<1>10. ControlTypes'
  <2>1. gcstate' \in States /\ changed' \in BOOLEAN
    BY <1>1, <1>3, StatesAre DEF convVars
  <2>. QED  BY <1>1, <1>3, <2>1, StateTypes DEF ControlTypes
<1>11. GrayTypes' /\ HeapTypes'
  BY <1>1, <1>3, <1>5 DEF GrayTypes, HeapTypes, heapVars, idleVars, convVars
<1>12. ColoursOK'
  BY <1>2 DEF ColoursOK, keepinvariant
<1>. QED  BY <1>6, <1>9, <1>10, <1>11, <1>12, TypeParts DEF GcInv

\* The white changes: what is white still is dead, and in allgc.
LEMMA FlipWhiteInv ==
  ASSUME GcInv, FlipWhite
  PROVE  GcInv'
<1>1. /\ gcstate = "converge2" /\ gcstate' = "entersweep" /\ todo = {} /\ ClearEntries /\ MarkAnd(MetStrings, Nil, Nil, gray)
      /\ currentwhite' = otherwhite
      /\ UNCHANGED <<listVars, sweepgc, grayagain, weak, allweak, ephemeron, twups, convVars, callVars, stack, uservalue, upval, idleVars>>
  BY DEF FlipWhite, Flipped, Enter
<1>2. gcstate \in Marking
  BY <1>1 DEF Marking, Inside
<1>3. /\ TypeOK /\ ListsOK /\ DeadOK /\ MarkedOK /\ ControlTypes /\ GrayTypes /\ HeapTypes /\ changed \in BOOLEAN
  BY <1>2, GrayLives
<1>4. PICK S : MarkAnd(S, Nil, Nil, gray)
  BY <1>1
<1>5. /\ Darkened /\ (\A x \in gray' : x \in gray \/ (x \in Obj /\ x \notin Leaf /\ iswhite(x)))
      /\ \A x : NotWhite(x) => Coloured(x)
  BY <1>3, <1>4, MarkAlone
<1>6. /\ currentwhite \in White /\ Live \subseteq Obj /\ Main \in Thread /\ Main \in Obj /\ Thread \subseteq Obj
      /\ ToSet(finobj) \subseteq Obj /\ ToSet(tobefnz) \subseteq Obj
  BY <1>3, ListTypes, ListsAre
<1>7. otherwhite \in White /\ otherwhite' = currentwhite
  <2>1. currentwhite = "white0" \/ currentwhite = "white1"
    BY <1>6 DEF White
  <2>2. CASE currentwhite = "white0"
    BY <1>1, <2>2, Zenon DEF White, otherwhite
  <2>3. CASE currentwhite = "white1"
    <3>1. otherwhite = "white0"
      BY <2>3 DEF otherwhite
    <3>2. otherwhite' = "white1"
      BY <1>1, <3>1 DEF otherwhite
    <3>. QED  BY <2>3, <3>1, <3>2 DEF White
  <2>. QED  BY <2>1, <2>2, <2>3
<1>8. Live' = Live
  BY <1>1 DEF Live, listVars
<1>9. ListsOK'
  <2>1. \A x \in Obj : marked'[x] = "free" <=> marked[x] = "free"
    BY <1>5 DEF Darkened
  <2>. QED  BY <1>1, <1>3, <1>8, <2>1 DEF ListsOK, listVars
<1>10. SweptOK'
  BY <1>1 DEF SweptOK
<1>11. marked'[Main] = "gray" /\ \A th \in Thread : marked'[th] # "black"
  BY <1>2, <1>3, <1>5, <1>6 DEF MarkedOK, Darkened
<1>12. DeadOK'
  <2>. SUFFICES ASSUME NEW x \in Live', isdead(x)'  PROVE x \in ToSet(allgc')
    BY <1>1 DEF DeadOK
  <2>1. x \in Live /\ marked'[x] \in White /\ x \in Obj
    BY <1>6, <1>7, <1>8 DEF isdead
  <2>2. x # Main
    BY <1>11, <2>1 DEF White
  <2>3. \A o \in tofinalize : o \in Obj /\ Coloured(o)
    BY <1>1, <1>3, <1>5, ListTypes DEF MarkedOK, NotWhite
  <2>4. x \notin tofinalize
    BY <2>1, <2>3 DEF Coloured
  <2>. QED  BY <1>1, <1>3, <2>1, <2>2, <2>4 DEF Live, ListsOK, listVars
<1>13. MarkedOK'
  <2>1. gcstate' \notin {"fnz", "converge2"} /\ gcstate' \notin Marking
    BY <1>1 DEF Marking, Inside
  <2>. QED  BY <1>1, <1>11, <2>1 DEF MarkedOK, convVars
<1>14. ColoursOK'
  BY <1>1 DEF ColoursOK, keepinvariant
<1>15. TypeOK'
  <2>1. gcstate' \in States /\ changed' \in BOOLEAN /\ currentwhite' \in White
    BY <1>1, <1>3, <1>7, StatesAre DEF convVars
  <2>2. ControlTypes'
    BY <1>1, <1>3, <2>1, StateTypes
  <2>3. ObjectTypes'
    BY <1>1, <1>3, <1>5, TypeParts DEF ObjectTypes, Darkened, listVars
  <2>4. GrayTypes'
    BY <1>1, <1>3, <1>5 DEF GrayTypes, convVars
  <2>5. EntryTypes
    BY <1>1, <1>3, ClearTypes
  <2>6. HeapTypes'
    BY <1>1, <1>3, <2>5 DEF HeapTypes, EntryTypes, idleVars
  <2>. QED  BY <2>2, <2>3, <2>4, <2>6, TypeParts
<1>. QED  BY <1>9, <1>10, <1>12, <1>13, <1>14, <1>15 DEF GcInv

\* A step that leaves objects, colours and lists as they are, and the state too.
LEMMA SameInv ==
  ASSUME GcInv, ControlTypes', Live' = Live, ListsOK', ObjectTypes',
         ToSet(allgc') = ToSet(allgc), finobj' = finobj \/ gcstate \notin SweepStates \cup {"swpend"}, allgc' = allgc, tofinalize' = tofinalize,
         UNCHANGED <<marked, currentwhite, gcstate, sweepgc, grayVars, twups, convVars, heapVars, mode, unswept>>
  PROVE  GcInv'
<1>1. TypeOK /\ SweptOK /\ DeadOK /\ MarkedOK /\ ColoursOK /\ GrayTypes /\ HeapTypes
  BY TypeParts DEF GcInv
<1>2. SweptOK'
  BY <1>1 DEF SweptOK, clean, SweepStates
<1>3. DeadOK'
  BY <1>1 DEF DeadOK, isdead, otherwhite
<1>4. MarkedOK'
  BY <1>1 DEF MarkedOK, iswhite, grayVars, convVars
<1>5. ColoursOK'
  <2>1. \A o : BlackOK(o) <=> BlackOK(o)'
    BY DEF BlackOK, NotWhite, iswhite, Key, Val, upisopen, heapVars
  <2>. QED  BY <1>1, <2>1 DEF ColoursOK, keepinvariant, grayVars
<1>6. GrayTypes' /\ HeapTypes'
  BY <1>1 DEF GrayTypes, HeapTypes, grayVars, convVars, heapVars
<1>. QED  BY <1>2, <1>3, <1>4, <1>5, <1>6, TypeParts DEF GcInv

\* The same, with the lists as they are.
LEMMA SameLists ==
  ASSUME GcInv, ControlTypes',
         UNCHANGED <<listVars, marked, currentwhite, gcstate, sweepgc, grayVars, twups, convVars, heapVars, mode, unswept>>
  PROVE  GcInv'
<1>1. ListsOK /\ ObjectTypes
  BY TypeParts DEF GcInv
<1>2. Live' = Live
  BY DEF Live, listVars
<1>3. ListsOK' /\ ObjectTypes'
  BY <1>1, <1>2 DEF ListsOK, ObjectTypes, listVars
<1>4. ToSet(allgc') = ToSet(allgc) /\ finobj' = finobj /\ allgc' = allgc /\ tofinalize' = tofinalize
  BY DEF listVars
<1>. QED  BY <1>2, <1>3, <1>4, SameInv

\* An object that was not reached goes to the end of tobefnz.
LEMMA SeparateInv ==
  ASSUME GcInv, separatetobefnz
  PROVE  GcInv'
<1>1. PICK i \in 1..Len(finobj) : tobefnz' = Append(tobefnz, finobj[i]) /\ finobj' = RemoveAt(finobj, i)
  BY DEF separatetobefnz
<1>2. /\ gcstate = "separate"
      /\ UNCHANGED <<allgc, tofinalize, marked, currentwhite, gcstate, sweepgc, grayVars, twups, convVars, callVars, heapVars, idleVars>>
  BY DEF separatetobefnz
<1>3. TypeOK /\ ListsOK /\ ControlTypes
  BY TypeParts DEF GcInv
<1>4. /\ finobj \in Seq(Finalizable) /\ IsInjective(finobj) /\ tobefnz \in Seq(Finalizable) /\ IsInjective(tobefnz) /\ tofinalize \subseteq Finalizable
      /\ allgc \in Seq(Obj \ {Main}) /\ marked \in [Obj -> White \cup {"gray", "black", "free"}]
  BY <1>3, ListTypes DEF ListsOK
<1>5. PICK o : o = finobj[i]
  OBVIOUS
<1>6. o \in Finalizable /\ o \in ToSet(finobj) /\ o \notin ToSet(tobefnz)
  <2>1. o \in Finalizable /\ o \in ToSet(finobj)
    BY <1>4, <1>5, ElementsOf
  <2>. QED  BY <1>3, <2>1 DEF ListsOK
<1>7. finobj' \in Seq(Finalizable) /\ IsInjective(finobj') /\ ToSet(finobj') = ToSet(finobj) \ {o}
  BY <1>1, <1>4, <1>5, TakeOut
<1>8. tobefnz' \in Seq(Finalizable) /\ IsInjective(tobefnz') /\ ToSet(tobefnz') = ToSet(tobefnz) \cup {o}
  BY <1>1, <1>4, <1>5, <1>6, PutLast
<1>9. Live' = Live
  BY <1>2, <1>6, <1>7, <1>8 DEF Live
<1>10. ListsOK'
  <2>1. /\ ToSet(allgc') \cap tofinalize' = {} /\ ToSet(finobj') \cap ToSet(tobefnz') = {}
        /\ tofinalize' = ToSet(finobj') \cup ToSet(tobefnz')
    BY <1>2, <1>3, <1>6, <1>7, <1>8 DEF ListsOK
  <2>2. Live' = {x \in Obj : marked'[x] # "free"} /\ IsInjective(allgc')
    BY <1>2, <1>3, <1>9 DEF ListsOK
  <2>. QED  BY <1>7, <1>8, <2>1, <2>2 DEF ListsOK
<1>11. ObjectTypes'
  BY <1>2, <1>4, <1>7, <1>8 DEF ObjectTypes
<1>12. ControlTypes'
  BY <1>2, <1>3 DEF ControlTypes, convVars, callVars, idleVars
<1>13. gcstate \notin SweepStates \cup {"swpend"} /\ UNCHANGED <<mode, unswept>> /\ ToSet(allgc') = ToSet(allgc)
  BY <1>2 DEF SweepStates, idleVars
<1>. QED  BY <1>2, <1>9, <1>10, <1>11, <1>12, <1>13, SameInv

\* A cycle is over.
LEMMA CycleEndsInv ==
  ASSUME GcInv, CycleEnds
  PROVE  GcInv'
<1>1. /\ gcstate = "callfin" /\ gcstate' = "pause"
      /\ UNCHANGED <<listVars, marked, currentwhite, sweepgc, grayVars, twups, convVars, callVars, heapVars, idleVars>>
  BY DEF CycleEnds
<1>2. TypeOK /\ ListsOK /\ SweptOK /\ DeadOK /\ MarkedOK /\ ControlTypes /\ ObjectTypes /\ GrayTypes /\ HeapTypes
  BY TypeParts DEF GcInv
<1>3. Live' = Live
  BY <1>1 DEF Live, listVars
<1>4. ListsOK' /\ ObjectTypes'
  BY <1>1, <1>2, <1>3 DEF ListsOK, ObjectTypes, listVars
<1>5. SweptOK'
  <2>1. \A o \in Live' \ unswept' : clean(o)'
    BY <1>1, <1>2, <1>3 DEF SweptOK, clean, idleVars
  <2>. QED  BY <1>1, <2>1 DEF SweptOK
<1>6. DeadOK'
  BY <1>1, <1>2, <1>3 DEF DeadOK, isdead, otherwhite
<1>7. MarkedOK' /\ ColoursOK'
  <2>1. \A th \in Thread : marked'[th] # "black"
    BY <1>1, <1>2 DEF MarkedOK
  <2>2. todo' = {}
    BY <1>1, <1>2 DEF MarkedOK, convVars
  <2>. QED  BY <1>1, <2>1, <2>2, NotMarking
<1>8. ControlTypes' /\ GrayTypes' /\ HeapTypes'
  BY <1>1, <1>2, StatesAre DEF ControlTypes, GrayTypes, HeapTypes, grayVars, convVars, callVars, heapVars, idleVars
<1>. QED  BY <1>4, <1>5, <1>6, <1>7, <1>8, TypeParts DEF GcInv

\* A finalizer returns; luaC_fullgc goes on; luaC_fullgc begins.
LEMMA ControlInv ==
  ASSUME GcInv, FinalizerReturns \/ luaC_runtilstate \/ luaC_fullgc
  PROVE  GcInv'
<1>1. TypeOK /\ ListsOK /\ DeadOK /\ MarkedOK /\ ControlTypes /\ ObjectTypes /\ GrayTypes /\ HeapTypes
  BY TypeParts DEF GcInv
<1>2. CASE FinalizerReturns
  <2>1. /\ fin' = Nil
        /\ UNCHANGED <<listVars, marked, currentwhite, gcstate, sweepgc, grayVars, twups, convVars, gckind, goal, heapVars, idleVars>>
    BY <1>2 DEF FinalizerReturns
  <2>2. ControlTypes'
    BY <1>1, <2>1 DEF ControlTypes, convVars, idleVars
  <2>3. UNCHANGED <<mode, unswept>>
    BY <2>1 DEF idleVars
  <2>. QED  BY <2>1, <2>2, <2>3, SameLists
<1>3. CASE luaC_runtilstate
  <2>1. /\ goal \in {"pause", "leave", "callfin", "finish"}
        /\ goal' = [pause |-> "leave", leave |-> "callfin", callfin |-> "finish", finish |-> "none"][goal]
        /\ gckind' = (IF goal = "finish" THEN "normal" ELSE gckind)
        /\ UNCHANGED <<listVars, marked, currentwhite, gcstate, sweepgc, grayVars, twups, convVars, fin, heapVars, idleVars>>
    BY <1>3 DEF luaC_runtilstate, GoalReached
  <2>2. goal' \in {"none", "pause", "leave", "callfin", "finish"}
    BY <2>1
  <2>3. ControlTypes'
    BY <1>1, <2>1, <2>2 DEF ControlTypes, convVars, idleVars
  <2>4. UNCHANGED <<mode, unswept>>
    BY <2>1 DEF idleVars
  <2>. QED  BY <2>1, <2>3, <2>4, SameLists
<1>4. CASE luaC_fullgc
  <2>1. /\ Op /\ gckind' \in {"normal", "emergency"} /\ goal' = "pause"
        /\ gcstate' = (IF keepinvariant THEN "entersweep" ELSE gcstate)
        /\ UNCHANGED <<listVars, marked, currentwhite, sweepgc, grayVars, twups, convVars, fin, heapVars, mode, unswept>>
    BY <1>4 DEF luaC_fullgc
  <2>2. ops' \in 0..MaxOps
    BY <1>1, <2>1, ProgramState
  <2>3. ControlTypes'
    <3>1. gcstate' \in States
      BY <1>1, <2>1, StatesAre DEF ControlTypes
    <3>. QED  BY <1>1, <2>1, <2>2, <3>1 DEF ControlTypes, convVars
  <2>4. CASE ~keepinvariant
    <3>1. gcstate' = gcstate
      BY <2>1, <2>4
    <3>. QED  BY <2>1, <2>3, <3>1, SameLists
  <2>5. CASE keepinvariant
    <3>1. gcstate \in {"propagate", "atomic"} /\ gcstate' = "entersweep" /\ gcstate \in Marking /\ gcstate \notin WithTodo
      BY <2>1, <2>5 DEF keepinvariant, Marking, WithTodo
    <3>2. Live' = Live
      BY <2>1 DEF Live, listVars
    <3>3. ListsOK' /\ ObjectTypes'
      BY <1>1, <2>1, <3>2 DEF ListsOK, ObjectTypes, listVars
    <3>4. SweptOK'
      BY <3>1 DEF SweptOK
    <3>5. DeadOK'
      BY <1>1, <2>1, <3>1, <3>2 DEF DeadOK, isdead, otherwhite
    <3>6. MarkedOK'
      <4>1. gcstate' \notin {"fnz", "converge2"} /\ gcstate' \notin Marking
        BY <3>1 DEF Marking, Inside
      <4>2. marked'[Main] = "gray" /\ (\A th \in Thread : marked'[th] # "black") /\ todo' = {}
        BY <1>1, <2>1, <3>1 DEF MarkedOK, WithTodo, convVars
      <4>. QED  BY <4>1, <4>2 DEF MarkedOK
    <3>7. ColoursOK'
      BY <3>1 DEF ColoursOK, keepinvariant
    <3>8. GrayTypes' /\ HeapTypes'
      BY <1>1, <2>1 DEF GrayTypes, HeapTypes, grayVars, convVars, heapVars
    <3>. QED  BY <2>3, <3>3, <3>4, <3>5, <3>6, <3>7, <3>8, TypeParts DEF GcInv
  <2>. QED  BY <2>4, <2>5
<1>. QED  BY <1>2, <1>3, <1>4

-----------------------------------------------------------------------------
(* The program. *)

\* How an operation of the program may colour: present white where nothing is
\* marked, gray for black, darker for white where objects are.
Tinted ==
  /\ marked' \in [Obj -> White \cup {"gray", "black", "free"}]
  /\ \A x \in Obj :
       \/ marked'[x] = marked[x]
       \/ marked[x] # "free" /\ marked'[x] = currentwhite /\ ~keepinvariant
       \/ marked[x] = "black" /\ marked'[x] = "gray"
       \/ keepinvariant /\ iswhite(x) /\ (marked'[x] = "gray" \/ (marked'[x] = "black" /\ x \in Leaf))

\* ColoursOK when the step is done, lists and unswept being as they were.
ColoursKept ==
  \A x \in Live \ unswept :
    /\ marked'[x] = "black" => NextBlackOK(x)
    /\ marked'[x] = "gray" => x \in gray' \cup grayagain' \cup allweak'

ProgramKeeps == UNCHANGED <<listVars, currentwhite, gcstate, sweepgc, weak, allweak, ephemeron, twups, convVars, callVars, mode, unswept>>

\* An operation that moves no object.
LEMMA ProgramInv ==
  ASSUME GcInv, Op, ProgramKeeps, HeapTypes', Tinted,
         gray' \cup grayagain' \subseteq Obj \ Leaf,
         keepinvariant => gray' \cup grayagain' \subseteq Live,
         keepinvariant => ColoursKept
  PROVE  GcInv'
<1>1. /\ TypeOK /\ ListsOK /\ SweptOK /\ DeadOK /\ MarkedOK /\ ColoursOK /\ ControlTypes /\ ObjectTypes /\ GrayTypes
      /\ UNCHANGED <<listVars, currentwhite, gcstate, sweepgc, weak, allweak, ephemeron, twups, convVars, callVars, mode, unswept>>
  BY TypeParts DEF GcInv, ProgramKeeps
<1>2. /\ gcstate \in {"pause", "propagate", "atomic", "callfin", "swpallgc", "swpfinobj", "swptobefnz", "swpend"}
      /\ gcstate \notin Inside /\ ops' \in 0..MaxOps
  BY <1>1, ProgramState
<1>3. /\ currentwhite \in White /\ Live \subseteq Obj /\ Main \in Thread /\ Main \in Obj /\ Thread \subseteq Obj
      /\ ToSet(allgc) \subseteq Obj /\ ToSet(finobj) \subseteq Obj
  BY <1>1, ListTypes, ListsAre
<1>4. /\ currentwhite # "free" /\ currentwhite # "black" /\ currentwhite # "gray" /\ otherwhite # currentwhite
      /\ otherwhite # "gray" /\ otherwhite # "black" /\ otherwhite' = otherwhite /\ "free" \notin White /\ "gray" \notin White
  BY <1>1, <1>3, TwoWhites DEF otherwhite
<1>5. Live' = Live
  BY <1>1 DEF Live, listVars
<1>6. ListsOK' /\ ObjectTypes'
  <2>1. \A x \in Obj : marked'[x] = "free" <=> marked[x] = "free"
    BY <1>4 DEF Tinted, iswhite
  <2>. QED  BY <1>1, <1>5, <2>1 DEF ListsOK, ObjectTypes, listVars, Tinted
<1>7. ~keepinvariant => \A x \in Obj : clean(x) => clean(x)'
  BY <1>1, <1>4 DEF Tinted, clean
<1>8. SweptOK'
  <2>1. CASE keepinvariant
    BY <1>1, <2>1 DEF SweptOK, keepinvariant
  <2>2. CASE ~keepinvariant
    <3>1. \A x \in Obj : clean(x) => clean(x)'
      BY <1>7, <2>2
    <3>. QED  BY <1>1, <1>3, <1>5, <3>1 DEF SweptOK, listVars
  <2>. QED  BY <2>1, <2>2
<1>9. DeadOK'
  <2>1. \A x \in Obj : isdead(x)' => isdead(x)
    BY <1>4 DEF Tinted, isdead
  <2>. QED  BY <1>1, <1>3, <1>5, <2>1 DEF DeadOK, listVars
<1>10. MarkedOK'
  <2>1. gcstate \in Marking \cup {"entersweep"} => keepinvariant
    BY <1>2 DEF Marking, Inside, keepinvariant
  <2>2. keepinvariant => gcstate \in Marking
    BY DEF Marking, keepinvariant
  <2>3. gcstate \notin {"fnz", "converge2"}
    BY <1>2
  <2>4. \A th \in Thread : th \notin Leaf
    BY TypesApart
  <2>5. \A th \in Thread : marked'[th] # "black"
    BY <1>1, <1>3, <1>4, <2>4 DEF MarkedOK, Tinted
  <2>6. gcstate \in Marking \cup {"entersweep"} => marked'[Main] = "gray"
    BY <1>1, <1>3, <1>4, <2>1 DEF MarkedOK, Tinted, iswhite
  <2>7. gcstate \in Marking => gray' \cup grayagain' \cup ephemeron' \cup todo' \subseteq Live'
    BY <1>1, <1>5, <2>1 DEF MarkedOK, convVars
  <2>. QED  BY <1>1, <2>3, <2>5, <2>6, <2>7 DEF MarkedOK, convVars
<1>11. ColoursOK'
  <2>1. keepinvariant' => keepinvariant
    BY <1>1 DEF keepinvariant
  <2>. QED  BY <1>1, <1>5, <2>1, BlackNext DEF ColoursOK, ColoursKept
<1>12. ControlTypes' /\ GrayTypes'
  BY <1>1, <1>2 DEF ControlTypes, GrayTypes, convVars, callVars
<1>. QED  BY <1>6, <1>8, <1>9, <1>10, <1>11, <1>12, TypeParts DEF GcInv

\* An operation that changes no colour.
LEMMA UntintedInv ==
  ASSUME GcInv, Op, ProgramKeeps, HeapTypes', UNCHANGED <<marked, gray, grayagain>>,
         keepinvariant => \A x \in Live \ unswept : marked[x] = "black" /\ BlackOK(x) => NextBlackOK(x)
  PROVE  GcInv'
<1>1. TypeOK /\ MarkedOK /\ ColoursOK /\ GrayTypes
  BY TypeParts DEF GcInv
<1>2. Tinted
  BY <1>1, ListTypes DEF Tinted
<1>3. gray' \cup grayagain' \subseteq Obj \ Leaf
  BY <1>1 DEF GrayTypes
<1>4. keepinvariant => gray' \cup grayagain' \subseteq Live
  BY <1>1 DEF MarkedOK, keepinvariant, Marking
<1>5. keepinvariant => ColoursKept
  BY <1>1 DEF ColoursOK, ColoursKept, ProgramKeeps
<1>. QED  BY <1>2, <1>3, <1>4, <1>5, ProgramInv

\* An operation that marks a value as the invariant is kept.
LEMMA BarrierInv ==
  ASSUME NEW v, GcInv, Op, ProgramKeeps, HeapTypes', keepinvariant, Mark({v}), grayagain' = grayagain,
         \A x \in Udata : marked[x] # "black" => uservalue'[x] = uservalue[x],
         Coloured(v) => \A x \in Live \ unswept : marked[x] = "black" /\ BlackOK(x) /\ (\A y : NotWhite(y) => Coloured(y)) => NextBlackOK(x)
  PROVE  GcInv'
<1>1. TypeOK /\ ListsOK /\ MarkedOK /\ ColoursOK /\ GrayTypes
  BY TypeParts DEF GcInv
<1>2. PICK S : S = {v} /\ MarkAnd(S, Nil, Nil, gray)
  BY DEF Mark
<1>3. /\ Darkened /\ \A x \in S : Coloured(x)
      /\ \A x \in Obj : \/ marked'[x] = marked[x]
                        \/ iswhite(x) /\ marked'[x] = "gray" /\ x \in gray'
                        \/ iswhite(x) /\ marked'[x] = "black" /\ x \in Leaf /\ (x \in Udata => Coloured(uservalue[x]))
      /\ gray \subseteq gray' /\ \A x \in gray' : x \in gray \/ (x \in Obj /\ x \notin Leaf /\ iswhite(x))
      /\ \A x : NotWhite(x) => Coloured(x)
  BY <1>1, <1>2, MarkAlone
<1>4. Coloured(v)
  BY <1>2, <1>3
<1>5. Tinted
  BY <1>3 DEF Tinted, Darkened
<1>6. /\ Live \subseteq Obj /\ gcstate \in Marking /\ \A x \in Obj : x \in Live <=> marked[x] # "free"
  BY <1>1, ListsAre DEF keepinvariant, Marking
<1>7. \A x \in Obj : iswhite(x) => x \in Live
  BY <1>6 DEF iswhite, White
<1>8. gray' \cup grayagain' \subseteq Live
  BY <1>1, <1>3, <1>6, <1>7 DEF MarkedOK
<1>9. gray' \cup grayagain' \subseteq Obj \ Leaf
  BY <1>1, <1>3 DEF GrayTypes
<1>10. allweak' = allweak
  BY DEF ProgramKeeps
<1>11. ColoursKept
  <2>1. ASSUME NEW x \in Live \ unswept, marked'[x] = "black"  PROVE NextBlackOK(x)
    <3>1. CASE marked[x] = "black"
      BY <1>1, <1>3, <1>4, <2>1, <3>1 DEF ColoursOK
    <3>2. CASE marked[x] # "black"
      <4>1. x \in Leaf /\ (x \in Udata => Coloured(uservalue[x]))
        BY <1>3, <1>6, <2>1, <3>2
      <4>. QED  BY <3>2, <4>1, TypesApart DEF NextBlackOK
    <3>. QED  BY <3>1, <3>2
  <2>2. ASSUME NEW x \in Live \ unswept, marked'[x] = "gray"  PROVE x \in gray' \cup grayagain' \cup allweak'
    BY <1>1, <1>3, <1>6, <1>10, <2>2 DEF ColoursOK
  <2>. QED  BY <2>1, <2>2 DEF ColoursKept
<1>. QED  BY <1>5, <1>8, <1>9, <1>11, ProgramInv

\* What is held is alive.
LEMMA HeldLives ==
  ASSUME TypeOK, ListsOK, NEW x \in Held
  PROVE  x \in Live /\ x \in Obj /\ marked[x] # "free"
  BY ListsAre DEF Held

\* A slot of a thread is set.
LEMMA StackTypes ==
  ASSUME HeapTypes, NEW th \in Thread, NEW i \in Slot(th), NEW v \in Obj \cup {Nil}, stack' = [stack EXCEPT ![th][i] = v]
  PROVE  DOMAIN stack' = Thread /\ \A x \in Thread : stack'[x] \in [Slot(x) -> Obj \cup {Nil}]
<1>1. DOMAIN stack = Thread /\ \A x \in Thread : stack[x] \in [Slot(x) -> Obj \cup {Nil}]
  BY DEF HeapTypes
<1>2. DOMAIN stack' = Thread
  BY <1>1
<1>3. \A x \in Thread : stack'[x] = IF x = th THEN [stack[th] EXCEPT ![i] = v] ELSE stack[x]
  BY <1>1
<1>4. [stack[th] EXCEPT ![i] = v] \in [Slot(th) -> Obj \cup {Nil}]
  BY <1>1
<1>. QED  BY <1>1, <1>2, <1>3, <1>4

\* A string is found again.
LEMMA InternInv ==
  ASSUME GcInv, NEW s \in Str, internshrstr(s)
  PROVE  GcInv'
<1>1. /\ Op /\ marked[s] # "free" /\ marked' = [marked EXCEPT ![s] = IF isdead(s) THEN currentwhite ELSE marked[s]]
      /\ stack' = [stack EXCEPT ![Main][Slots] = s]
      /\ UNCHANGED <<listVars, currentwhite, gcstate, sweepgc, grayVars, twups, convVars, callVars, entry, uservalue, upval, mode, unswept>>
  BY DEF internshrstr, Revive
<1>2. TypeOK /\ ListsOK /\ DeadOK /\ MarkedOK /\ ColoursOK /\ GrayTypes /\ HeapTypes
  BY TypeParts DEF GcInv
<1>3. s \in Obj /\ s \in Live /\ Main \in Thread /\ Slots \in Slot(Main)
      /\ marked \in [Obj -> White \cup {"gray", "black", "free"}] /\ currentwhite \in White
  BY <1>1, <1>2, ListsAre, ListTypes, TypesApart, GcAssumption DEF Leaf, Slot
<1>4. HeapTypes'
  <2>1. DOMAIN stack' = Thread /\ \A x \in Thread : stack'[x] \in [Slot(x) -> Obj \cup {Nil}]
    BY <1>1, <1>2, <1>3, StackTypes
  <2>. QED  BY <1>1, <1>2, <2>1 DEF HeapTypes
<1>5. keepinvariant => marked' = marked
  BY <1>1, <1>2, <1>3 DEF DeadOK, keepinvariant
<1>6. Tinted
  <2>1. \A x \in Obj : marked'[x] = IF x = s /\ isdead(s) THEN currentwhite ELSE marked[x]
    BY <1>1, <1>3
  <2>2. keepinvariant => \A x \in Obj : marked'[x] = marked[x]
    BY <1>5
  <2>3. marked' \in [Obj -> White \cup {"gray", "black", "free"}]
    BY <1>1, <1>3
  <2>. QED  BY <1>1, <2>1, <2>2, <2>3 DEF Tinted
<1>7. gray' \cup grayagain' \subseteq Obj \ Leaf
  BY <1>1, <1>2 DEF GrayTypes, grayVars
<1>8. keepinvariant => gray' \cup grayagain' \subseteq Live
  BY <1>1, <1>2 DEF MarkedOK, keepinvariant, Marking, grayVars
<1>9. keepinvariant => ColoursKept
  <2>. SUFFICES ASSUME keepinvariant  PROVE ColoursKept
    OBVIOUS
  <2>1. \A x : BlackOK(x) <=> NextBlackOK(x)
    BY <1>1, <1>5 DEF BlackOK, NextBlackOK, NotWhite, Coloured, iswhite, Key, Val, upisopen
  <2>. QED  BY <1>1, <1>2, <1>5, <2>1 DEF ColoursOK, ColoursKept, grayVars
<1>10. ProgramKeeps
  BY <1>1 DEF ProgramKeeps, grayVars
<1>. QED  BY <1>1, <1>4, <1>6, <1>7, <1>8, <1>9, <1>10, ProgramInv

\* A local variable is assigned to.
LEMMA SetSlotInv ==
  ASSUME GcInv, NEW th \in Thread, NEW i \in Slot(th), NEW v \in Obj \cup {Nil}, SetSlot(th, i, v)
  PROVE  GcInv'
<1>1. /\ Op /\ stack' = [stack EXCEPT ![th][i] = v]
      /\ UNCHANGED <<listVars, marked, currentwhite, gcstate, sweepgc, grayVars, twups, convVars, callVars, entry, uservalue, upval, mode, unswept>>
  BY DEF SetSlot
<1>2. HeapTypes
  BY TypeParts DEF GcInv
<1>3. HeapTypes'
  <2>1. DOMAIN stack' = Thread /\ \A x \in Thread : stack'[x] \in [Slot(x) -> Obj \cup {Nil}]
    BY <1>1, <1>2, StackTypes
  <2>. QED  BY <1>1, <1>2, <2>1 DEF HeapTypes
<1>4. \A x : BlackOK(x) => NextBlackOK(x)
  BY <1>1 DEF BlackOK, NextBlackOK, NotWhite, Coloured, iswhite, Key, Val, upisopen
<1>5. ProgramKeeps /\ UNCHANGED <<marked, gray, grayagain>>
  BY <1>1 DEF ProgramKeeps, grayVars
<1>. QED  BY <1>1, <1>3, <1>4, <1>5, UntintedInv

\* The barrier colours with a table that may get a new key or value.
LEMMA SetTableInv ==
  ASSUME GcInv, NEW t \in Tab, NEW k \in Obj, NEW v \in Obj \cup {Nil}, SetTable(t, k, v)
  PROVE  GcInv'
<1>1. /\ Op /\ t \in Held /\ NotHurt /\ UNCHANGED <<stack, uservalue, upval>> /\ gray' = gray
      /\ entry' = [entry EXCEPT ![t] = <<k, v>>]
      /\ barrierback(t, IF k = Key(t) THEN Nil ELSE k, v)
  BY DEF SetTable, barrierback
<1>2. TypeOK /\ ListsOK /\ MarkedOK /\ ColoursOK /\ GrayTypes /\ HeapTypes
  BY TypeParts DEF GcInv
<1>3. /\ t \in Live /\ t \in Obj /\ t \notin Leaf /\ t \notin Lcl /\ t \notin Udata
      /\ marked \in [Obj -> White \cup {"gray", "black", "free"}] /\ Live \subseteq Obj
  BY <1>1, <1>2, HeldLives, TypesApart, ListTypes, ListsAre
<1>4. ProgramKeeps
  BY <1>1 DEF ProgramKeeps, NotHurt
<1>5. HeapTypes'
  <2>1. entry' \in [Tab -> (Obj \cup {Nil, Dead}) \X (Obj \cup {Nil})]
    <3>1. <<k, v>> \in (Obj \cup {Nil, Dead}) \X (Obj \cup {Nil})
      OBVIOUS
    <3>2. entry \in [Tab -> (Obj \cup {Nil, Dead}) \X (Obj \cup {Nil})]
      BY <1>2 DEF HeapTypes
    <3>. HIDE DEF SetTable
    <3>. QED  BY <1>1, <3>1, <3>2
  <2>. QED  BY <1>1, <1>2, <2>1 DEF HeapTypes, NotHurt
<1>6. entry \in [Tab -> (Obj \cup {Nil, Dead}) \X (Obj \cup {Nil})]
  BY <1>2 DEF HeapTypes
<1>7. entry'[t][1] = k /\ entry'[t][2] = v /\ \A x \in Tab : x # t => entry'[x] = entry[x]
  BY <1>1, <1>6
<1>8. CASE marked[t] = "black" /\ \E x \in {IF k = Key(t) THEN Nil ELSE k, v} \cap Obj : iswhite(x)
  <2>1. marked' = [marked EXCEPT ![t] = "gray"] /\ grayagain' = grayagain \cup {t}
    BY <1>1, <1>8 DEF barrierback
  <2>2. \A x \in Obj : marked'[x] = IF x = t THEN "gray" ELSE marked[x]
    BY <1>3, <2>1
  <2>3. Tinted
    <3>1. marked' \in [Obj -> White \cup {"gray", "black", "free"}]
      BY <1>3, <2>1
    <3>. QED  BY <1>8, <2>2, <3>1 DEF Tinted
  <2>4. gray' \cup grayagain' \subseteq Obj \ Leaf
    BY <1>1, <1>2, <1>3, <2>1 DEF GrayTypes
  <2>5. keepinvariant => gray' \cup grayagain' \subseteq Live
    BY <1>1, <1>2, <1>3, <2>1 DEF MarkedOK, keepinvariant, Marking
  <2>6. keepinvariant => ColoursKept
    <3>. SUFFICES ASSUME keepinvariant, NEW x \in Live \ unswept
                  PROVE  /\ marked'[x] = "black" => NextBlackOK(x)
                         /\ marked'[x] = "gray" => x \in gray' \cup grayagain' \cup allweak'
      BY DEF ColoursKept
    <3>1. CASE x = t
      BY <2>1, <2>2, <1>3, <3>1
    <3>2. CASE x # t
      <4>1. x \in Obj /\ marked'[x] = marked[x]
        BY <1>3, <2>2, <3>2
      <4>2. \A y : NotWhite(y) => Coloured(y)
        BY <2>2 DEF NotWhite, Coloured, iswhite, White
      <4>3. marked[x] = "black" => BlackOK(x)
        BY <1>2 DEF ColoursOK
      <4>4. BlackOK(x) => NextBlackOK(x)
        BY <1>1, <1>7, <3>2, <4>2 DEF BlackOK, NextBlackOK, Key, Val, upisopen
      <4>5. marked[x] = "gray" => x \in gray \cup grayagain \cup allweak
        BY <1>2 DEF ColoursOK
      <4>. QED  BY <1>1, <2>1, <4>1, <4>3, <4>4, <4>5 DEF NotHurt
    <3>. QED  BY <3>1, <3>2
  <2>. QED  BY <1>1, <1>4, <1>5, <2>3, <2>4, <2>5, <2>6, ProgramInv
<1>9. CASE ~(marked[t] = "black" /\ \E x \in {IF k = Key(t) THEN Nil ELSE k, v} \cap Obj : iswhite(x))
  <2>1. UNCHANGED <<marked, gray, grayagain>>
    BY <1>1, <1>9 DEF barrierback
  <2>2. \A y : NotWhite(y) => Coloured(y)
    BY <2>1 DEF NotWhite, Coloured, iswhite
  <2>3. ASSUME NEW x \in Live \ unswept, marked[x] = "black", BlackOK(x)  PROVE NextBlackOK(x)
    <3>1. CASE x = t
      <4>1. Coloured(v)
        BY <1>9, <2>2, <2>3, <3>1 DEF NotWhite
      <4>2. Coloured(k)
        <5>1. CASE k = Key(t)
          BY <2>2, <2>3, <3>1, <5>1 DEF BlackOK
        <5>2. CASE k # Key(t)
          BY <1>9, <2>2, <2>3, <3>1, <5>2 DEF NotWhite
        <5>. QED  BY <5>1, <5>2
      <4>. QED  BY <1>3, <1>7, <3>1, <4>1, <4>2 DEF NextBlackOK
    <3>2. CASE x # t
      BY <1>1, <1>7, <2>2, <2>3, <3>2 DEF BlackOK, NextBlackOK, Key, Val, upisopen
    <3>. QED  BY <3>1, <3>2
  <2>. QED  BY <1>1, <1>4, <1>5, <2>1, <2>3, UntintedInv
<1>. QED  BY <1>8, <1>9

\* The user value is marked in marking, its owner is swept in sweeping.
LEMMA SetUservalueInv ==
  ASSUME GcInv, NEW u \in Udata, NEW v \in Obj \cup {Nil}, SetUservalue(u, v)
  PROVE  GcInv'
<1>1. /\ Op /\ u \in Held /\ NotHurt /\ UNCHANGED <<grayagain, stack, entry, upval>>
      /\ uservalue' = [uservalue EXCEPT ![u] = v]
      /\ IF marked[u] = "black" /\ v \in Obj /\ iswhite(v)
         THEN IF keepinvariant THEN Mark({v})
              ELSE marked' = [marked EXCEPT ![u] = currentwhite] /\ UNCHANGED gray
         ELSE UNCHANGED <<marked, gray>>
  BY DEF SetUservalue
<1>2. TypeOK /\ ListsOK /\ MarkedOK /\ ColoursOK /\ GrayTypes /\ HeapTypes
  BY TypeParts DEF GcInv
<1>3. /\ u \in Live /\ u \in Obj /\ u \notin Tab /\ u \notin Lcl /\ marked[u] # "free"
      /\ marked \in [Obj -> White \cup {"gray", "black", "free"}] /\ Live \subseteq Obj /\ currentwhite \in White
  BY <1>1, <1>2, HeldLives, TypesApart, ListTypes, ListsAre DEF Leaf
<1>4. ProgramKeeps
  BY <1>1 DEF ProgramKeeps, NotHurt
<1>5. uservalue \in [Udata -> Obj \cup {Nil}]
  BY <1>2 DEF HeapTypes
<1>6. uservalue' \in [Udata -> Obj \cup {Nil}] /\ uservalue'[u] = v /\ \A x \in Udata : x # u => uservalue'[x] = uservalue[x]
  BY <1>1, <1>5
<1>7. HeapTypes'
  BY <1>1, <1>2, <1>6 DEF HeapTypes, NotHurt
<1>8. ASSUME NEW x, BlackOK(x), \A y : NotWhite(y) => Coloured(y), Coloured(v)  PROVE NextBlackOK(x)
  BY <1>1, <1>6, <1>8 DEF BlackOK, NextBlackOK, Key, Val, upisopen
<1>9. CASE marked[u] = "black" /\ v \in Obj /\ iswhite(v) /\ keepinvariant
  <2>1. Mark({v}) /\ grayagain' = grayagain
    BY <1>1, <1>9
  <2>2. \A x \in Udata : marked[x] # "black" => uservalue'[x] = uservalue[x]
    BY <1>6, <1>9
  <2>. QED  BY <1>1, <1>4, <1>7, <1>8, <1>9, <2>1, <2>2, BarrierInv
<1>10. CASE marked[u] = "black" /\ v \in Obj /\ iswhite(v) /\ ~keepinvariant
  <2>1. marked' = [marked EXCEPT ![u] = currentwhite] /\ UNCHANGED <<gray, grayagain>>
    BY <1>1, <1>10
  <2>2. \A x \in Obj : marked'[x] = IF x = u THEN currentwhite ELSE marked[x]
    BY <1>3, <2>1
  <2>3. Tinted
    <3>1. marked' \in [Obj -> White \cup {"gray", "black", "free"}]
      BY <1>3, <2>1
    <3>. QED  BY <1>3, <1>10, <2>2, <3>1 DEF Tinted
  <2>4. gray' \cup grayagain' \subseteq Obj \ Leaf
    BY <1>2, <2>1 DEF GrayTypes
  <2>. QED  BY <1>1, <1>4, <1>7, <1>10, <2>3, <2>4, ProgramInv
<1>11. CASE ~(marked[u] = "black" /\ v \in Obj /\ iswhite(v))
  <2>1. UNCHANGED <<marked, gray, grayagain>>
    BY <1>1, <1>11
  <2>2. \A y : NotWhite(y) => Coloured(y)
    BY <2>1 DEF NotWhite, Coloured, iswhite
  <2>3. ASSUME NEW x \in Live \ unswept, marked[x] = "black", BlackOK(x)  PROVE NextBlackOK(x)
    <3>1. CASE x = u
      <4>1. Coloured(v)
        BY <1>11, <2>2, <2>3, <3>1 DEF NotWhite
      <4>. QED  BY <1>8, <2>2, <2>3, <4>1
    <3>2. CASE x # u
      BY <1>1, <1>6, <2>2, <2>3, <3>2 DEF BlackOK, NextBlackOK, Key, Val, upisopen
    <3>. QED  BY <3>1, <3>2
  <2>. QED  BY <1>1, <1>4, <1>7, <2>1, <2>3, UntintedInv
<1>. QED  BY <1>9, <1>10, <1>11

\* What the barrier of a closed upvalue keeps.
LEMMA UpvalBarrierInv ==
  ASSUME GcInv, NEW v, Op, NotHurt, UNCHANGED <<grayagain, entry, uservalue>>, upvalbarrier(v), HeapTypes',
         \A x \in Live \cap Lcl : upval'[x] = upval[x] \/ (upval'[x].open = Nil => upval'[x].v = v)
  PROVE  GcInv'
<1>1. ProgramKeeps
  BY DEF ProgramKeeps, NotHurt
<1>2. ASSUME NEW x \in Live, BlackOK(x), \A y : NotWhite(y) => Coloured(y), Coloured(v)  PROVE NextBlackOK(x)
  <2>1. x \in Lcl /\ upval'[x].open = Nil => Coloured(upval'[x].v)
    BY <1>2 DEF BlackOK, upisopen
  <2>. QED  BY <1>2, <2>1 DEF BlackOK, NextBlackOK, Key, Val
<1>3. CASE keepinvariant
  <2>1. Mark({v}) /\ grayagain' = grayagain
    BY <1>3 DEF upvalbarrier
  <2>2. \A x \in Udata : marked[x] # "black" => uservalue'[x] = uservalue[x]
    OBVIOUS
  <2>. QED  BY <1>1, <1>2, <1>3, <2>1, <2>2, BarrierInv
<1>4. CASE ~keepinvariant
  <2>1. UNCHANGED <<marked, gray, grayagain>>
    BY <1>4 DEF upvalbarrier
  <2>. QED  BY <1>1, <1>4, <2>1, UntintedInv
<1>. QED  BY <1>3, <1>4

\* An upvalue is set where its value is.
LEMMA SetUpvalInv ==
  ASSUME GcInv, NEW c \in Lcl, NEW v \in Obj \cup {Nil}, SetUpval(c, v)
  PROVE  GcInv'
<1>1. /\ Op /\ NotHurt /\ UNCHANGED <<grayagain, entry, uservalue>>
      /\ IF upisopen(c)
         THEN /\ stack' = [stack EXCEPT ![upval[c].open][1] = v]
              /\ UNCHANGED <<marked, gray, upval>>
         ELSE /\ upval' = [upval EXCEPT ![c].v = v]
              /\ upvalbarrier(v)
              /\ UNCHANGED stack
  BY DEF SetUpval
<1>2. HeapTypes
  BY TypeParts DEF GcInv
<1>3. CASE upisopen(c)
  <2>1. PICK th \in Thread : th = upval[c].open
    BY <1>2, <1>3, HeapValues DEF upisopen
  <2>2. stack' = [stack EXCEPT ![th][1] = v] /\ UNCHANGED <<marked, gray, upval>> /\ 1 \in Slot(th)
    BY <1>1, <1>2, <1>3, <2>1, HeapValues
  <2>3. HeapTypes'
    <3>1. DOMAIN stack' = Thread /\ \A x \in Thread : stack'[x] \in [Slot(x) -> Obj \cup {Nil}]
      <4>1. PICK i \in Slot(th) : i = 1
        BY <2>2
      <4>2. stack' = [stack EXCEPT ![th][i] = v]
        BY <2>2, <4>1
      <4>. QED  BY <1>2, <4>2, StackTypes
    <3>. QED  BY <1>1, <1>2, <2>2, <3>1 DEF HeapTypes, NotHurt
  <2>4. \A x : BlackOK(x) => NextBlackOK(x)
    BY <1>1, <2>2 DEF BlackOK, NextBlackOK, NotWhite, Coloured, iswhite, Key, Val, upisopen
  <2>5. ProgramKeeps /\ UNCHANGED <<marked, gray, grayagain>>
    BY <1>1, <2>2 DEF ProgramKeeps, NotHurt
  <2>. QED  BY <1>1, <2>3, <2>4, <2>5, UntintedInv
<1>4. CASE ~upisopen(c)
  <2>1. upval' = [upval EXCEPT ![c].v = v] /\ upvalbarrier(v) /\ UNCHANGED stack
    BY <1>1, <1>4
  <2>2. upval \in [Lcl -> Upvalue]
    BY <1>2 DEF HeapTypes
  <2>3. \A u \in Upvalue : [u EXCEPT !.v = v] \in Upvalue /\ [u EXCEPT !.v = v].v = v
    BY DEF Upvalue
  <2>4. /\ upval' \in [Lcl -> Upvalue] /\ upval'[c].v = v /\ \A x \in Lcl : x # c => upval'[x] = upval[x]
    BY <2>1, <2>2, <2>3
  <2>5. HeapTypes'
    BY <1>1, <1>2, <2>1, <2>4 DEF HeapTypes, NotHurt
  <2>. QED  BY <1>1, <2>1, <2>4, <2>5, UpvalBarrierInv
<1>. QED  BY <1>3, <1>4

\* A function returns and its open upvalue is closed.
LEMMA CloseInv ==
  ASSUME GcInv, NEW th \in Thread, luaF_close(th)
  PROVE  GcInv'
<1>. DEFINE open == {c \in Lcl : upval[c].open = th}
            kept == {c \in open : marked[c] # "free"}
            C(c) == [open |-> Nil, v |-> IF c \in kept THEN UpValue(c) ELSE Nil, touched |-> FALSE]
<1>1. /\ Op /\ NotHurt /\ UNCHANGED <<grayagain, entry, uservalue>>
      /\ upval' = [c \in Lcl |-> IF c \notin open THEN upval[c] ELSE C(c)]
      /\ stack' = [stack EXCEPT ![th][1] = Nil]
      /\ IF kept = {} THEN UNCHANGED <<marked, gray>> ELSE upvalbarrier(stack[th][1])
  BY DEF luaF_close
<1>2. TypeOK /\ ListsOK /\ MarkedOK /\ ColoursOK /\ HeapTypes
  BY TypeParts DEF GcInv
<1>3. /\ upval \in [Lcl -> Upvalue] /\ \A c \in Lcl : UpValue(c) \in Obj \cup {Nil}
      /\ 1 \in Slot(th) /\ th # Nil /\ Nil \in Obj \cup {Nil}
      /\ \A x \in Live : marked[x] # "free"
  BY <1>2, HeapValues, TypesApart, ListsAre DEF HeapTypes
<1>4. \A c \in open : UpValue(c) = stack[th][1]
  BY <1>3 DEF UpValue, upisopen
<1>5. \A c \in Lcl : C(c) \in Upvalue /\ C(c).open = Nil /\ (c \in kept => C(c).v = UpValue(c))
  <2>1. \A w \in Obj \cup {Nil} : [open |-> Nil, v |-> w, touched |-> FALSE] \in Upvalue
    BY DEF Upvalue
  <2>2. \A c \in Lcl : (IF c \in kept THEN UpValue(c) ELSE Nil) \in Obj \cup {Nil}
    BY <1>3
  <2>. QED  BY <2>1, <2>2
<1>6. \A x \in Live \cap Lcl : x \in open => x \in kept
  BY <1>3
<1>. HIDE DEF C, kept
<1>7. upval' \in [Lcl -> Upvalue] /\ \A x \in Lcl : upval'[x] = IF x \in open THEN C(x) ELSE upval[x]
  BY <1>1, <1>3, <1>5
<1>8. HeapTypes'
  <2>1. DOMAIN stack' = Thread /\ \A x \in Thread : stack'[x] \in [Slot(x) -> Obj \cup {Nil}]
    <3>1. PICK i \in Slot(th) : i = 1
      BY <1>3
    <3>2. PICK v \in Obj \cup {Nil} : v = Nil
      BY <1>3
    <3>3. stack' = [stack EXCEPT ![th][i] = v]
      BY <1>1, <3>1, <3>2
    <3>. QED  BY <1>2, <3>3, StackTypes
  <2>. QED  BY <1>1, <1>2, <1>7, <2>1 DEF HeapTypes, NotHurt
<1>9. CASE kept = {}
  <2>1. UNCHANGED <<marked, gray, grayagain>>
    BY <1>1, <1>9
  <2>2. ProgramKeeps
    BY <1>1 DEF ProgramKeeps, NotHurt
  <2>3. \A x \in Live \cap Lcl : upval'[x] = upval[x]
    BY <1>6, <1>7, <1>9
  <2>4. \A x \in Live : BlackOK(x) => NextBlackOK(x)
    BY <1>1, <2>1, <2>3 DEF BlackOK, NextBlackOK, NotWhite, Coloured, iswhite, Key, Val, upisopen
  <2>. QED  BY <1>1, <1>8, <2>1, <2>2, <2>4, UntintedInv
<1>10. CASE kept # {}
  <2>1. PICK v : v = stack[th][1] /\ upvalbarrier(v)
    BY <1>1, <1>10
  <2>2. \A x \in Live \cap Lcl : upval'[x] = upval[x] \/ (upval'[x].open = Nil => upval'[x].v = v)
    BY <1>4, <1>5, <1>6, <1>7, <2>1
  <2>. QED  BY <1>1, <1>8, <2>1, <2>2, UpvalBarrierInv
<1>. QED  BY <1>9, <1>10

\* No object refers to one whose name is free to be given.
LEMMA UnusedIs ==
  ASSUME TypeOK, NEW o \in Obj, Unused(o), NEW x \in Obj
  PROVE  /\ x \in Tab => Key(x) # o /\ Val(x) # o
         /\ x \in Udata => uservalue[x] # o
         /\ x \in Lcl /\ ~upisopen(x) => upval[x].v # o
<1>1. o \notin Refs(x) /\ \A t \in Tab : Key(t) # o
  BY DEF Unused
<1>2. CASE x \in Tab
  <2>1. Refs(x) = (IF Val(x) = Nil THEN {} ELSE {Key(x), Val(x)}) \cap Obj
    BY <1>2, TypesApart, GcAssumption DEF Refs, Leaf
  <2>. QED  BY <1>1, <1>2, <2>1, TypesApart
<1>3. CASE x \in Udata
  <2>1. Refs(x) = {uservalue[x]} \cap Obj
    BY <1>3, TypesApart, GcAssumption DEF Refs, Leaf
  <2>. QED  BY <1>1, <1>3, <2>1, TypesApart DEF Leaf
<1>4. CASE x \in Lcl
  <2>1. Refs(x) = {UpValue(x)} \cap Obj
    BY <1>4, TypesApart, GcAssumption DEF Refs
  <2>. QED  BY <1>1, <1>4, <2>1, TypesApart DEF UpValue
<1>. QED  BY <1>2, <1>3, <1>4

\* A new object is of the present white, and where the sweep has been already.
LEMMA NewObjInv ==
  ASSUME GcInv, NEW o \in Obj \ {Main}, luaC_newobj(o), twups' \subseteq Thread,
         mode' \in [Tab -> {"strong", "k", "v", "kv"}], upval' \in [Lcl -> Upvalue],
         \A c \in Lcl : c # o => upval'[c] = upval[c]
  PROVE  GcInv'
<1>1. TypeOK /\ ListsOK /\ SweptOK /\ DeadOK /\ MarkedOK /\ ColoursOK /\ ControlTypes /\ ObjectTypes /\ GrayTypes /\ HeapTypes
  BY TypeParts DEF GcInv
<1>2. /\ Op /\ Unused(o) /\ marked[o] = "free"
      /\ marked' = [marked EXCEPT ![o] = currentwhite] /\ allgc' = <<o>> \o allgc
      /\ stack' = [stack EXCEPT ![Main][Slots] = o] /\ unswept' = unswept \ {o}
      /\ UNCHANGED <<finobj, tobefnz, tofinalize, currentwhite, gcstate, sweepgc, grayVars, convVars, callVars, entry, uservalue>>
  BY DEF luaC_newobj, Unused
<1>3. /\ allgc \in Seq(Obj \ {Main}) /\ IsInjective(allgc) /\ allgc \in Seq(Obj) /\ finobj \in Seq(Finalizable) /\ IsInjective(finobj)
      /\ tobefnz \in Seq(Finalizable) /\ IsInjective(tobefnz) /\ tofinalize \subseteq Finalizable /\ Live \subseteq Obj
      /\ ToSet(allgc) \subseteq Live /\ ToSet(finobj) \subseteq Live /\ ToSet(tobefnz) \subseteq Live
      /\ marked \in [Obj -> White \cup {"gray", "black", "free"}] /\ currentwhite \in White
      /\ Main \in Thread /\ Main \in Obj /\ Thread \subseteq Obj
      /\ \A x \in Obj : x \in Live <=> marked[x] # "free"
  BY <1>1, ListTypes, ListsAre DEF ListsOK
<1>4. /\ gcstate \in {"pause", "propagate", "atomic", "callfin", "swpallgc", "swpfinobj", "swptobefnz", "swpend"}
      /\ gcstate \notin Inside /\ ops' \in 0..MaxOps
  BY <1>1, <1>2, ProgramState
<1>5. o \notin Live /\ o \notin ToSet(allgc) /\ o \notin ToSet(finobj) /\ o \notin ToSet(tobefnz)
  BY <1>2, <1>3
<1>6. /\ allgc' \in Seq(Obj \ {Main}) /\ IsInjective(allgc') /\ ToSet(allgc') = ToSet(allgc) \cup {o}
  BY <1>2, <1>3, <1>5, PutFirst
<1>7. /\ currentwhite # "free" /\ currentwhite # "black" /\ currentwhite # "gray"
      /\ otherwhite # currentwhite /\ otherwhite' = otherwhite
  BY <1>2, <1>3, TwoWhites DEF otherwhite
<1>8. /\ \A x \in Obj : marked'[x] = IF x = o THEN currentwhite ELSE marked[x]
      /\ marked' \in [Obj -> White \cup {"gray", "black", "free"}]
  BY <1>2, <1>3
<1>9. Live' = Live \cup {o}
  BY <1>2, <1>6 DEF Live
<1>10. /\ \A x \in Live : x # o /\ (clean(x) => clean(x)') /\ (isdead(x)' => isdead(x))
       /\ clean(o)' /\ ~isdead(o)'
  BY <1>2, <1>3, <1>5, <1>7, <1>8 DEF clean, isdead
<1>11. ListsOK'
  <2>1. Live' = {x \in Obj : marked'[x] # "free"}
    BY <1>1, <1>3, <1>7, <1>8, <1>9 DEF ListsOK
  <2>2. o \notin tofinalize
    BY <1>1, <1>5 DEF ListsOK
  <2>. QED  BY <1>1, <1>2, <1>3, <1>6, <2>1, <2>2 DEF ListsOK
<1>12. SweptOK'
  <2>1. ASSUME gcstate = "swpallgc", NEW y \in ToSet(allgc'), y \notin After(allgc', sweepgc)  PROVE clean(y)'
    <3>1. CASE y = o
      BY <1>10, <3>1
    <3>2. CASE y # o
      <4>1. y \in ToSet(allgc) /\ y \in Live
        BY <1>3, <1>6, <3>2
      <4>2. y \notin After(allgc, sweepgc)
        BY <1>2, <1>3, <1>5, <2>1, <4>1, AfterPutFirst
      <4>. QED  BY <1>1, <1>10, <2>1, <4>1, <4>2 DEF SweptOK
    <3>. QED  BY <3>1, <3>2
  <2>2. ASSUME gcstate \in {"swpfinobj", "swptobefnz", "swpend"}, NEW y \in ToSet(allgc')  PROVE clean(y)'
    <3>1. CASE y = o
      BY <1>10, <3>1
    <3>2. CASE y # o
      BY <1>1, <1>3, <1>6, <1>10, <2>2, <3>2 DEF SweptOK
    <3>. QED  BY <3>1, <3>2
  <2>3. ASSUME NEW y \in ToSet(finobj),
               \/ (gcstate = "swpfinobj" /\ y \notin After(finobj, sweepgc)) \/ gcstate \in {"swptobefnz", "swpend"}
        PROVE  clean(y)'
    BY <1>1, <1>3, <1>10, <2>3 DEF SweptOK
  <2>4. ASSUME gcstate \in {"callfin", "pause"}, NEW y \in Live' \ unswept'  PROVE clean(y)'
    BY <1>1, <1>2, <1>9, <1>10, <2>4 DEF SweptOK
  <2>5. gcstate' = gcstate /\ sweepgc' = sweepgc /\ finobj' = finobj
    BY <1>2
  <2>. QED  BY <2>1, <2>2, <2>3, <2>4, <2>5 DEF SweptOK
<1>13. DeadOK'
  BY <1>1, <1>2, <1>6, <1>9, <1>10 DEF DeadOK
<1>14. MarkedOK'
  <2>1. gcstate' \notin {"fnz", "converge2", "marked", "converge1"}
    BY <1>2, <1>4
  <2>2. \A th \in Thread : marked'[th] # "black"
    BY <1>1, <1>3, <1>7, <1>8 DEF MarkedOK
  <2>3. gcstate' \in Marking \cup {"entersweep"} => marked'[Main] = "gray"
    BY <1>1, <1>2, <1>3, <1>8 DEF MarkedOK
  <2>4. gcstate' \in Marking => gray' \cup grayagain' \cup ephemeron' \cup todo' \subseteq Live'
    BY <1>1, <1>2, <1>9 DEF MarkedOK, grayVars, convVars
  <2>5. todo' = {}
    BY <1>1, <1>2, <2>1 DEF MarkedOK, convVars
  <2>. QED  BY <2>1, <2>2, <2>3, <2>4, <2>5 DEF MarkedOK
<1>15. ColoursOK'
  <2>. SUFFICES ASSUME keepinvariant', NEW x \in Live' \ unswept'
                PROVE  /\ marked'[x] = "black" => BlackOK(x)'
                       /\ marked'[x] = "gray" => x \in gray' \cup grayagain' \cup allweak'
    BY DEF ColoursOK
  <2>1. CASE x = o
    BY <1>7, <1>8, <2>1
  <2>2. CASE x # o
    <3>1. x \in Live \ unswept /\ x \in Obj /\ marked'[x] = marked[x] /\ keepinvariant
      BY <1>2, <1>3, <1>8, <1>9, <2>2 DEF keepinvariant
    <3>2. \A y : NotWhite(y) /\ y # o => Coloured(y)
      BY <1>8 DEF NotWhite, Coloured, iswhite
    <3>3. /\ x \in Tab => Key(x) # o /\ Val(x) # o
          /\ x \in Udata => uservalue[x] # o
          /\ x \in Lcl /\ ~upisopen(x) => upval[x].v # o
      BY <1>1, <1>2, <3>1, UnusedIs
    <3>4. BlackOK(x) => NextBlackOK(x)
      BY <1>2, <2>2, <3>2, <3>3 DEF BlackOK, NextBlackOK, Key, Val, upisopen
    <3>5. NextBlackOK(x) => BlackOK(x)'
      BY BlackNext
    <3>. QED  BY <1>1, <1>2, <3>1, <3>4, <3>5 DEF ColoursOK, grayVars
  <2>. QED  BY <2>1, <2>2
<1>16. TypeOK'
  <2>1. ControlTypes'
    BY <1>1, <1>2, <1>4 DEF ControlTypes, convVars, callVars
  <2>2. ObjectTypes'
    BY <1>1, <1>2, <1>6, <1>8 DEF ObjectTypes
  <2>3. GrayTypes'
    BY <1>1, <1>2 DEF GrayTypes, grayVars, convVars
  <2>4. HeapTypes'
    <3>1. Slots \in Slot(Main)
      BY GcAssumption DEF Slot
    <3>2. DOMAIN stack' = Thread /\ \A x \in Thread : stack'[x] \in [Slot(x) -> Obj \cup {Nil}]
      BY <1>1, <1>2, <1>3, <3>1, StackTypes
    <3>. QED  BY <1>1, <1>2, <3>2 DEF HeapTypes
  <2>. QED  BY <2>1, <2>2, <2>3, <2>4, TypeParts
<1>. QED  BY <1>11, <1>12, <1>13, <1>14, <1>15, <1>16 DEF GcInv

\* The three ways to make an object.
LEMMA NewTableInv ==
  ASSUME GcInv, NEW t \in Tab, NewTable(t)
  PROVE  GcInv'
<1>1. GrayTypes /\ HeapTypes
  BY TypeParts DEF GcInv
<1>2. PICK m \in Modes : mode' = [mode EXCEPT ![t] = m]
  BY DEF NewTable
<1>3. mode' \in [Tab -> {"strong", "k", "v", "kv"}]
  BY <1>1, <1>2, GcAssumption DEF HeapTypes
<1>4. t \in Obj \ {Main}
  BY TypesApart, GcAssumption DEF Obj
<1>5. luaC_newobj(t) /\ twups' = twups /\ upval' = upval
  BY DEF NewTable
<1>. QED  BY <1>1, <1>3, <1>4, <1>5, NewObjInv DEF HeapTypes, GrayTypes

\* A coroutine, a userdata or a string.
LEMMA NewOtherInv ==
  ASSUME GcInv, NEW o \in Co \cup Udata \cup Str, NewOther(o)
  PROVE  GcInv'
<1>1. GrayTypes /\ HeapTypes
  BY TypeParts DEF GcInv
<1>2. o \in Obj \ {Main}
  BY GcAssumption DEF Obj, Thread
<1>3. luaC_newobj(o) /\ twups' = twups /\ upval' = upval /\ mode' = mode
  BY DEF NewOther
<1>. QED  BY <1>1, <1>2, <1>3, NewObjInv DEF HeapTypes, GrayTypes

\* A closure has its upvalue from the start, which is open.
LEMMA NewClosureInv ==
  ASSUME GcInv, NEW c \in Lcl, NEW th \in Thread, NewClosure(c, th)
  PROVE  GcInv'
<1>1. GrayTypes /\ HeapTypes
  BY TypeParts DEF GcInv
<1>2. /\ luaC_newobj(c) /\ twups' = twups \cup {th} /\ mode' = mode
      /\ upval' = [upval EXCEPT ![c] = [open |-> th, v |-> Nil, touched |-> TRUE]]
  BY DEF NewClosure
<1>3. c \in Obj \ {Main}
  BY TypesApart, GcAssumption DEF Obj
<1>4. upval' \in [Lcl -> Upvalue] /\ \A x \in Lcl : x # c => upval'[x] = upval[x]
  <2>1. [open |-> th, v |-> Nil, touched |-> TRUE] \in Upvalue
    BY DEF Upvalue
  <2>2. upval \in [Lcl -> Upvalue]
    BY <1>1 DEF HeapTypes
  <2>. QED  BY <1>2, <2>1, <2>2
<1>. QED  BY <1>1, <1>2, <1>3, <1>4, NewObjInv DEF HeapTypes, GrayTypes

-----------------------------------------------------------------------------
(* The specification. *)

\* The heap the program has built satisfies the invariant.
LEMMA InitInv ==
  ASSUME Init
  PROVE  GcInv
<1>1. PICK h \in Start :
        /\ allgc = h.allgc /\ finobj = h.finobj
        /\ marked = [o \in Obj |-> IF o \in {Main} \cup ToSet(h.allgc \o h.finobj) THEN "white0" ELSE "free"]
        /\ stack = h.stack /\ mode = h.mode /\ entry = h.entry /\ uservalue = h.uservalue
        /\ upval = h.upval
        /\ twups = {th \in Thread : \E c \in Lcl : h.upval[c].open = th}
        /\ tofinalize = ToSet(h.finobj)
  BY DEF Init
<1>2. /\ tobefnz = <<>> /\ currentwhite = "white0" /\ gcstate = "pause" /\ sweepgc = Nil
      /\ gray = {} /\ grayagain = {} /\ weak = {} /\ allweak = {} /\ ephemeron = {}
      /\ todo = {} /\ changed = FALSE /\ gckind = "normal" /\ goal = "none" /\ fin = Nil
      /\ ops = 0 /\ unswept = {}
  BY DEF Init
<1>3. HeapOK(h)
  BY GcAssumption
<1>4. /\ allgc \in Seq(Obj \ {Main}) /\ finobj \in Seq(Finalizable) /\ IsInjective(allgc) /\ IsInjective(finobj)
      /\ ToSet(allgc) \cap ToSet(finobj) = {}
  BY <1>1, <1>3 DEF HeapOK
<1>5. tobefnz \in Seq(Finalizable) /\ IsInjective(tobefnz) /\ ToSet(tobefnz) = {}
  <2>1. tobefnz \in Seq(Finalizable) /\ Len(tobefnz) = 0
    BY <1>2
  <2>2. /\ ToSet(tobefnz) = {tobefnz[i] : i \in 1..Len(tobefnz)}
        /\ IsInjective(tobefnz) <=> \A i, j \in 1..Len(tobefnz) : tobefnz[i] = tobefnz[j] => i = j
    BY <2>1, ElementsOf
  <2>3. 1..Len(tobefnz) = {}
    BY <2>1
  <2>. QED  BY <2>1, <2>2, <2>3
<1>6. Finalizable \subseteq Obj \ {Main} /\ Main \in Obj /\ Main \in Thread /\ Thread \subseteq Obj
  BY GcAssumption DEF Obj, Thread, Finalizable
<1>7. ToSet(allgc) \subseteq Obj \ {Main} /\ ToSet(finobj) \subseteq Finalizable
  BY <1>4, ElementsOf
<1>8. Live = {Main} \cup ToSet(allgc) \cup ToSet(finobj)
  BY <1>5 DEF Live
<1>9. \A o \in Obj : marked[o] = IF o \in Live THEN "white0" ELSE "free"
  <2>1. ToSet(allgc \o finobj) = ToSet(allgc) \cup ToSet(finobj)
    <3>1. allgc \in Seq(Obj) /\ finobj \in Seq(Obj)
      <4>1. \A i \in 1..Len(allgc) : allgc[i] \in Obj
        BY <1>4
      <4>2. \A i \in 1..Len(finobj) : finobj[i] \in Obj
        BY <1>4, <1>6
      <4>. QED  BY <1>4, <4>1, <4>2
    <3>2. /\ allgc \o finobj \in Seq(Obj) /\ Len(allgc \o finobj) = Len(allgc) + Len(finobj)
          /\ \A i \in 1..Len(allgc) : (allgc \o finobj)[i] = allgc[i]
          /\ \A i \in 1..Len(finobj) : (allgc \o finobj)[Len(allgc) + i] = finobj[i]
      BY <3>1
    <3>3. /\ ToSet(allgc) = {allgc[i] : i \in 1..Len(allgc)} /\ ToSet(finobj) = {finobj[i] : i \in 1..Len(finobj)}
          /\ Len(allgc) \in Nat /\ Len(finobj) \in Nat
      BY <3>1, ElementsOf
    <3>4. PICK all : all = allgc \o finobj
      OBVIOUS
    <3>5. ToSet(all) = {all[i] : i \in 1..(Len(allgc) + Len(finobj))}
      <4>1. all \in Seq(Obj) /\ Len(all) = Len(allgc) + Len(finobj)
        BY <3>2, <3>4
      <4>2. ToSet(all) = {all[i] : i \in 1..Len(all)}
        BY <4>1, ElementsOf
      <4>. QED  BY <4>1, <4>2
    <3>6. \A i \in 1..(Len(allgc) + Len(finobj)) : i \in 1..Len(allgc) \/ (i - Len(allgc) \in 1..Len(finobj) /\ i = Len(allgc) + (i - Len(allgc)))
      BY <3>3
    <3>7. \A i \in 1..Len(allgc) : i \in 1..(Len(allgc) + Len(finobj))
      BY <3>3
    <3>8. \A i \in 1..Len(finobj) : Len(allgc) + i \in 1..(Len(allgc) + Len(finobj))
      BY <3>3
    <3>9. \A x \in ToSet(all) : x \in ToSet(allgc) \cup ToSet(finobj)
      BY <3>2, <3>3, <3>4, <3>5, <3>6
    <3>10. \A x \in ToSet(allgc) \cup ToSet(finobj) : x \in ToSet(all)
      BY <3>2, <3>3, <3>4, <3>5, <3>7, <3>8
    <3>. QED  BY <3>4, <3>9, <3>10
  <2>. QED  BY <1>1, <1>8, <2>1
<1>10. Live \subseteq Obj
  BY <1>6, <1>7, <1>8
<1>11. ListsOK
  BY <1>1, <1>4, <1>5, <1>9, <1>10 DEF ListsOK
<1>12. ControlTypes
  <2>1. gcstate \in States
    BY <1>2, StatesAre
  <2>2. ops \in 0..MaxOps
    BY <1>2, GcAssumption
  <2>3. currentwhite \in White
    BY <1>2 DEF White
  <2>4. unswept \subseteq Obj \ {Main}
    BY <1>2
  <2>. QED  BY <1>2, <2>1, <2>2, <2>3, <2>4, Zenon DEF ControlTypes
<1>13. ObjectTypes
  <2>1. marked \in [Obj -> White \cup {"gray", "black", "free"}]
    <3>1. "white0" \in White
      BY DEF White
    <3>. QED  BY <1>1, <3>1
  <2>. QED  BY <1>1, <1>4, <1>5, <1>7, <2>1 DEF ObjectTypes
<1>14. GrayTypes
  BY <1>1, <1>2 DEF GrayTypes
<1>15. HeapTypes
  BY <1>1, <1>3 DEF HeapTypes, HeapOK
<1>16. SweptOK
  BY <1>2, <1>9, <1>10 DEF SweptOK, clean
<1>17. DeadOK
  BY <1>2, <1>9, <1>10 DEF DeadOK, isdead, otherwhite
<1>18. MarkedOK
  BY <1>2, <1>6, <1>9 DEF MarkedOK, Marking, Inside
<1>19. ColoursOK
  BY <1>2 DEF ColoursOK, keepinvariant
<1>. QED  BY <1>11, <1>12, <1>13, <1>14, <1>15, <1>16, <1>17, <1>18, <1>19, TypeParts DEF GcInv

\* Steps of the collector.
LEMMA CollectorInv ==
  ASSUME GcInv, Collector
  PROVE  GcInv'
<1>1. CASE restartcollection \/ PropagateStep \/ AtomicBegins \/ propagateall
  BY <1>1, RestartInv, PropagateStepInv, AtomicBeginsInv, PropagateAllInv
<1>2. CASE remarkupvals \/ TraverseAgain \/ ConvergeRound \/ \E t \in Tab : traverseephemeron(t)
  BY <1>2, RemarkInv, TraverseAgainInv, ConvergeRoundInv, TraverseEphemeronInv
<1>3. CASE ClearValues \/ separatetobefnz \/ MarkToBeFnz \/ FlipWhite
  BY <1>3, ClearValuesInv, SeparateInv, MarkToBeFnzInv, FlipWhiteInv
<1>4. CASE entersweep \/ sweepstep \/ SweepEnd \/ CycleEnds
  BY <1>4, EnterSweepInv, SweepInv, SweepEndInv, CycleEndsInv
<1>5. CASE udata2finalize \/ FinalizerReturns \/ luaC_runtilstate
  BY <1>5, Udata2finalizeInv, ControlInv
<1>. QED  BY <1>1, <1>2, <1>3, <1>4, <1>5 DEF Collector

\* Steps of the program.
LEMMA MutatorInv ==
  ASSUME GcInv, Program
  PROVE  GcInv'
<1>1. CASE luaC_fullgc
  BY <1>1, ControlInv
<1>2. CASE \E t \in Tab : NewTable(t)
  BY <1>2, NewTableInv
<1>3. CASE \E o \in Co \cup Udata \cup Str : NewOther(o)
  BY <1>3, NewOtherInv
<1>4. CASE \E c \in Lcl, th \in Thread : NewClosure(c, th)
  BY <1>4, NewClosureInv
<1>5. CASE \E s \in Str : internshrstr(s)
  BY <1>5, InternInv
<1>6. ASSUME NEW v \in Obj \cup {Nil},
             \/ \E t \in Tab, k \in Obj : SetTable(t, k, v)
             \/ \E u \in Udata : SetUservalue(u, v)
             \/ \E c \in Lcl : SetUpval(c, v)
             \/ \E th \in Thread : \E i \in Slot(th) : SetSlot(th, i, v)
      PROVE  GcInv'
  BY <1>6, SetTableInv, SetUservalueInv, SetUpvalInv, SetSlotInv
<1>7. CASE \E th \in Thread : luaF_close(th)
  BY <1>7, CloseInv
<1>8. ASSUME NEW u \in Finalizable, luaC_checkfinalizer(u)  PROVE GcInv'
  BY <1>8, CheckFinalizerAside, CheckFinalizerAt
<1>. QED  BY <1>1, <1>2, <1>3, <1>4, <1>5, <1>6, <1>7, <1>8 DEF Program

\* Every step keeps the invariant.
LEMMA GcStep ==
  ASSUME GcInv, [Next]_vars
  PROVE  GcInv'
<1>1. CASE Next
  BY <1>1, CollectorInv, MutatorInv DEF Next
<1>2. CASE UNCHANGED vars
  <2>1. UNCHANGED <<listVars, marked, currentwhite, gcstate, sweepgc, grayVars, twups, convVars, heapVars, mode, unswept>>
    BY <1>2 DEF vars, idleVars
  <2>2. ControlTypes'
    <3>1. ControlTypes
      BY TypeParts DEF GcInv
    <3>. QED  BY <1>2, <3>1 DEF ControlTypes, vars, convVars, callVars, idleVars
  <2>. QED  BY <2>1, <2>2, SameLists
<1>. QED  BY <1>1, <1>2

\* The invariant of the collector and the program that runs between its steps.
THEOREM GcInvariant == Spec => []GcInv
<1>1. Init => GcInv
  BY InitInv
<1>2. GcInv /\ [Next]_vars => GcInv'
  BY GcStep
<1>. QED  BY <1>1, <1>2, PTL DEF Spec

\* Every variable keeps its type.
THEOREM GcTypeCorrect == Spec => []TypeOK
<1>1. GcInv => TypeOK
  BY DEF GcInv
<1>. QED  BY <1>1, GcInvariant, PTL

\* allgc, finobj and tobefnz have every object that was made and not freed, once:
\* no sweep, no finalizer and no luaC_checkfinalizer loses or doubles one, and
\* those with FINALIZEDBIT are in the last two.
THEOREM GcListsCorrect == Spec => []ListsOK
<1>1. GcInv => ListsOK
  BY DEF GcInv
<1>. QED  BY <1>1, GcInvariant, PTL

\* While the program runs between steps that mark, no black object refers to a
\* white one, whatever it assigns, and no gray object is forgotten (lgc.h).
THEOREM GcTriColour == Spec => []TriColour
<1>1. ASSUME GcInv  PROVE TriColour
  <2>1. TypeOK /\ ListsOK /\ MarkedOK /\ ColoursOK
    BY <1>1 DEF GcInv
  <2>. SUFFICES ASSUME keepinvariant, NEW o \in Live \ unswept
                PROVE  /\ marked[o] = "black" /\ ~(o \in Lcl /\ upisopen(o)) => \A r \in Refs(o) : ~iswhite(r)
                       /\ marked[o] = "gray" => o \in gray \cup grayagain \cup allweak
    BY DEF TriColour
  <2>2. o \in Obj
    BY <2>1, ListsAre
  <2>3. ASSUME marked[o] = "black", ~(o \in Lcl /\ upisopen(o)), NEW r \in Refs(o)  PROVE ~iswhite(r)
    <3>1. BlackOK(o) /\ o \notin Thread
      BY <2>1, <2>3 DEF ColoursOK, MarkedOK
    <3>2. r \in Obj
      BY DEF Refs
    <3>3. CASE o \in Tab
      <4>1. Refs(o) = (IF Val(o) = Nil THEN {} ELSE {Key(o), Val(o)}) \cap Obj
        BY <3>3, TypesApart, GcAssumption DEF Refs, Leaf
      <4>. QED  BY <3>1, <3>2, <3>3, <4>1 DEF BlackOK, NotWhite
    <3>4. CASE o \in Udata
      <4>1. Refs(o) = {uservalue[o]} \cap Obj
        BY <3>4, TypesApart, GcAssumption DEF Refs, Leaf
      <4>. QED  BY <3>1, <3>2, <3>4, <4>1 DEF BlackOK, NotWhite
    <3>5. CASE o \in Lcl
      <4>1. Refs(o) = {UpValue(o)} \cap Obj
        BY <3>5, TypesApart, GcAssumption DEF Refs
      <4>. QED  BY <2>3, <3>1, <3>2, <3>5, <4>1 DEF BlackOK, NotWhite, UpValue
    <3>6. CASE o \in Str
      <4>1. Refs(o) = {}
        BY <3>6, TypesApart, GcAssumption DEF Refs, Leaf
      <4>. QED  BY <4>1
    <3>. QED  BY <2>2, <3>1, <3>3, <3>4, <3>5, <3>6 DEF Obj
  <2>. QED  BY <2>1, <2>3 DEF ColoursOK
<1>. QED  BY <1>1, GcInvariant, PTL

\* What leaves the objects with a finalizer is in allgc again.
LEMMA FinalizedMoves ==
  ASSUME GcInv, Next
  PROVE  tofinalize' = tofinalize \/ \A o \in tofinalize : o \in tofinalize' \cup ToSet(allgc')
<1>1. CASE udata2finalize
  <2>1. PICK o : o = Head(tobefnz)
    OBVIOUS
  <2>2. allgc' = <<o>> \o allgc /\ tofinalize' = tofinalize \ {o} /\ tobefnz # <<>>
    BY <1>1, <2>1 DEF udata2finalize, Normal
  <2>3. /\ allgc \in Seq(Obj) /\ IsInjective(allgc) /\ tobefnz \in Seq(Finalizable) /\ IsInjective(tobefnz)
    BY ListTypes DEF GcInv, ListsOK
  <2>4. o \in ToSet(tobefnz) /\ o \in Finalizable
    BY <2>1, <2>2, <2>3, TakeFirst
  <2>5. o \in Obj /\ o \notin ToSet(allgc)
    BY <2>4, ListTypes, ListsAre DEF GcInv
  <2>6. ToSet(<<o>> \o allgc) = ToSet(allgc) \cup {o}
    BY <2>3, <2>5, PutFirst
  <2>. QED  BY <2>2, <2>6
<1>2. ASSUME NEW u \in Finalizable, luaC_checkfinalizer(u)  PROVE tofinalize \subseteq tofinalize'
  BY <1>2 DEF luaC_checkfinalizer
<1>3. CASE restartcollection \/ PropagateStep \/ AtomicBegins \/ propagateall
  BY <1>3 DEF restartcollection, PropagateStep, AtomicBegins, propagateall, propagatemark, listVars
<1>4. CASE remarkupvals \/ TraverseAgain \/ ConvergeRound \/ \E t \in Tab : traverseephemeron(t)
  BY <1>4 DEF remarkupvals, TraverseAgain, ConvergeRound, traverseephemeron, listVars
<1>5. CASE ClearValues \/ separatetobefnz \/ MarkToBeFnz \/ FlipWhite
  BY <1>5 DEF ClearValues, separatetobefnz, MarkToBeFnz, FlipWhite, listVars
<1>6. CASE entersweep \/ sweepstep \/ SweepEnd \/ CycleEnds
  BY <1>6 DEF entersweep, sweepstep, SweepEnd, CycleEnds, listVars
<1>7. CASE FinalizerReturns \/ luaC_runtilstate \/ luaC_fullgc
  BY <1>7 DEF FinalizerReturns, luaC_runtilstate, luaC_fullgc, listVars
<1>8. CASE \/ \E t \in Tab : NewTable(t)
           \/ \E o \in Co \cup Udata \cup Str : NewOther(o)
           \/ \E c \in Lcl, th \in Thread : NewClosure(c, th)
  BY <1>8 DEF NewTable, NewOther, NewClosure, luaC_newobj
<1>9. CASE \/ \E s \in Str : internshrstr(s)
           \/ \E th \in Thread : luaF_close(th)
  BY <1>9 DEF internshrstr, luaF_close, NotHurt, listVars
<1>10. ASSUME NEW v \in Obj \cup {Nil},
              \/ \E t \in Tab, k \in Obj : SetTable(t, k, v)
              \/ \E u \in Udata : SetUservalue(u, v)
              \/ \E c \in Lcl : SetUpval(c, v)
              \/ \E th \in Thread : \E i \in Slot(th) : SetSlot(th, i, v)
       PROVE  tofinalize' = tofinalize
  BY <1>10 DEF SetTable, SetUservalue, SetUpval, SetSlot, NotHurt, listVars
<1>. QED  BY <1>1, <1>2, <1>3, <1>4, <1>5, <1>6, <1>7, <1>8, <1>9, <1>10 DEF Next, Collector, Program

\* No step frees an object whose finalizer has not been called (udata2finalize
\* makes it a normal object first).
THEOREM GcFinalizedFirst == Spec => FinalizedFirst
<1>1. ASSUME GcInv, [Next]_vars  PROVE [\A o \in tofinalize : marked'[o] # "free"]_vars
  <2>. SUFFICES ASSUME Next, NEW o \in tofinalize  PROVE marked'[o] # "free"
    BY <1>1
  <2>1. GcInv'
    BY <1>1, GcStep
  <2>2. o \in tofinalize' \cup ToSet(allgc')
    BY <1>1, FinalizedMoves
  <2>3. ListsOK'
    BY <2>1 DEF GcInv
  <2>4. o \in Live'
    BY <2>2, <2>3 DEF ListsOK, Live
  <2>. QED  BY <2>3, <2>4 DEF ListsOK
<1>. QED  BY <1>1, GcInvariant, PTL DEF Spec, FinalizedFirst

\* lgc.h: all objects are white again when the sweep ends.  Not so the rest of tobefnz,
\* and that stays as it was until the next cycle.
WhiteAgain ==
  /\ gcstate = "swpend" => \A o \in Live \ {Main} : marked[o] = currentwhite \/ o \in ToSet(tobefnz)
  /\ gcstate \in {"callfin", "pause"} => \A o \in Live \ unswept : marked[o] = currentwhite

\* Whatever the program made, moved to finobj or finalized while the sweep went on,
\* nothing is left with an old colour in allgc or finobj (sweeplist,
\* luaC_checkfinalizer, udata2finalize): only objects whose finalizers were still to
\* be called can be missed.
THEOREM GcWhiteAgain == Spec => []WhiteAgain
<1>1. ASSUME GcInv  PROVE WhiteAgain
  <2>1. SweptOK
    BY <1>1 DEF GcInv
  <2>2. ASSUME gcstate = "swpend", NEW o \in Live \ {Main}
        PROVE  marked[o] = currentwhite \/ o \in ToSet(tobefnz)
    BY <2>1, <2>2 DEF SweptOK, clean, Live
  <2>. QED  BY <2>1, <2>2 DEF WhiteAgain, SweptOK, clean
<1>. QED  BY <1>1, GcInvariant, PTL
=============================================================================
