------------------------------ MODULE LuaTable ------------------------------
(***************************************************************************)
(* The tables of the Lua interpreter (ltable.c): an array part and a hash  *)
(* part with chained scatter and Brent's variation, resized when the hash  *)
(* part has no free place left.                                            *)
(*                                                                         *)
(* Keys are the integers 1..MaxInt and other keys with a hash value.  A    *)
(* node is named by its index, and 'next' is the index of the next node,   *)
(* None at the end of the chain.                                           *)
(***************************************************************************)
EXTENDS Integers, Sequences, FiniteSets, SequencesExt, FiniteSetsExt

CONSTANTS
  MaxInt,      \* integer keys are 1..MaxInt
  Other,       \* keys of other types, collectable
  MAX_INT,     \* the largest int of C; integer keys are wider
  Hash,        \* [Other -> Nat]
  Value, Nil,
  MaxSet       \* bound: assignments

Int1 == 1..MaxInt
Key == Int1 \cup Other
None == -1

ASSUME TableAssumption ==
  /\ MaxInt \in Nat /\ MaxSet \in Nat /\ MAX_INT \in Nat
  /\ Hash \in [Other -> Nat]
  /\ Nil \notin Value

VARIABLES
  t,           \* the table
  at,          \* key of the traversal, Nil before and after
  visited,     \* keys it has returned
  stored,      \* history: what the program has assigned, [Key -> Value \cup {Nil}]
  sets

vars == <<t, at, visited, stored, sets>>

-----------------------------------------------------------------------------
(* Nodes and chains. *)

sizenode(x) == Cardinality(DOMAIN x.node)
EmptyNode == [key |-> Nil, dead |-> FALSE, val |-> Nil, next |-> None]

\* Integers and strings hash by a power of two.
mainposition(x, k) == (IF k \in Int1 THEN k ELSE Hash[k]) % sizenode(x)

\* The nodes from index i on.
Chain(x, i) ==
  LET from[n \in 0..sizenode(x)] ==
        IF n = 0 THEN <<i>>
        ELSE LET c == from[n - 1]
             IN IF x.node[Last(c)].next = None THEN c ELSE Append(c, x.node[Last(c)].next)
  IN from[sizenode(x)]

\* The first node of k's chain that passes the test, or None.
First(x, k, Test(_)) ==
  LET c == Chain(x, mainposition(x, k))
      i == SelectInSeq(c, LAMBDA n : Test(x.node[n]))
  IN IF i = 0 THEN None ELSE c[i]

\* The node that has key k, or None.
Find(x, k) == First(x, k, LAMBDA n : n.key = k /\ ~n.dead)

InArray(x, k) == k \in Int1 /\ k <= Len(x.array)

luaH_get(x, k) ==
  IF InArray(x, k) THEN x.array[k]
  ELSE IF Find(x, k) = None THEN Nil ELSE x.node[Find(x, k)].val

\* Mutant: a node without a value counts as free, whatever its key.
FreeBelowLoose(x) == {i \in 0..(x.lastfree - 1) : x.node[i].val = Nil}

\* Free places below lastfree: nodes that never had a key.
FreeBelow(x) == {i \in 0..(x.lastfree - 1) : x.node[i].key = Nil}

\* luaH_newkey when there is a place for the key: its main position, or the last
\* free one.  A node that is there out of its own main position moves away.
\* Where the main position is taken, lastfree has come down to the free place.
newkey(x, k, v) ==
  LET mp == mainposition(x, k)
      f == Max(FreeBelow(x))
      other == mainposition(x, x.node[mp].key)
      prev == CHOOSE p \in ToSet(Chain(x, other)) : x.node[p].next = mp
      new == [EmptyNode EXCEPT !.key = k, !.val = v]
  IN IF x.node[mp].val = Nil /\ ~x.dummy
     THEN [x EXCEPT !.node[mp] = [new EXCEPT !.next = x.node[mp].next]]
     ELSE IF other # mp
     THEN [x EXCEPT !.node[prev].next = f, !.node[f] = x.node[mp], !.node[mp] = new, !.lastfree = f]
     ELSE [x EXCEPT !.node[f] = [new EXCEPT !.next = x.node[mp].next], !.node[mp].next = f, !.lastfree = f]

NoPlace(x, k) ==
  /\ ~InArray(x, k) /\ Find(x, k) = None
  /\ x.dummy \/ x.node[mainposition(x, k)].val # Nil
  /\ x.dummy \/ FreeBelow(x) = {}

\* luaH_set and the assignment, where no new place is needed.
SetIn(x, k, v) ==
  IF InArray(x, k) THEN [x EXCEPT !.array[k] = v]
  ELSE IF Find(x, k) # None THEN [x EXCEPT !.node[Find(x, k)].val = v]
  ELSE newkey(x, k, v)

-----------------------------------------------------------------------------
(* Rehash. *)

luaO_ceillog2(n) == CHOOSE l \in 0..n : 2^l >= n /\ (l = 0 \/ 2^(l - 1) < n)

\* The greatest power of two such that more than half of the places would be
\* used; a slice without keys ends no candidate.
computesizes(ks) ==
  LET upto(n) == Cardinality({k \in ks : k <= n})
      slice(i) == upto(2^i) - (IF i = 0 THEN 0 ELSE upto(2^(i - 1)))
      good(i) == slice(i) > 0 /\ upto(2^i) > 2^i \div 2
  IN Max({0} \cup {2^i : i \in {j \in 0..MaxInt : Cardinality(ks) > 2^j \div 2 /\ good(j)}})

setnodevector(n) ==
  IF n = 0 THEN [node |-> [i \in {0} |-> EmptyNode], lastfree |-> 0, dummy |-> TRUE]
  ELSE LET size == 2^luaO_ceillog2(n)
       IN [node |-> [i \in 0..(size - 1) |-> EmptyNode], lastfree |-> size, dummy |-> FALSE]

\* Elements of the array part beyond its new size.
Vanishing(x, na) ==
  SelectSeq([i \in 1..(Len(x.array) - na) |-> <<na + i, x.array[na + i]>>], LAMBDA e : e[2] # Nil)

\* luaH_resize: the vanishing slice of the array, then the old nodes from the
\* last to the first, are put in again.
luaH_resize(x, na, nh) ==
  LET old == Len(x.array)
      hash == setnodevector(nh)
      empty == [array |-> [i \in 1..na |-> IF i <= old THEN x.array[i] ELSE Nil],
                node |-> hash.node, lastfree |-> hash.lastfree, dummy |-> hash.dummy]
      n == sizenode(x)
      nodes == [j \in 1..n |-> <<x.node[n - j].key, x.node[n - j].val>>]
      kept == SelectSeq(nodes, LAMBDA e : e[2] # Nil)
  IN FoldLeft(LAMBDA y, e : SetIn(y, e[1], e[2]), empty,
              (IF na < old THEN Vanishing(x, na) ELSE <<>>) \o kept)

\* Keys with a value, in the array and in the hash part.
Used(x) == {k \in Int1 : InArray(x, k) /\ x.array[k] # Nil}
           \cup {x.node[i].key : i \in {j \in DOMAIN x.node : x.node[j].val # Nil}}

\* The extra key k is counted too.
rehash(x, k) ==
  LET used == Used(x)
      ints == (used \cup {k}) \cap Int1
      asize == computesizes(ints)
      na == Cardinality({i \in ints : i <= asize})
  IN luaH_resize(x, asize, Cardinality(used) + 1 - na)

luaH_set(x, k, v) == IF NoPlace(x, k) THEN SetIn(rehash(x, k), k, v) ELSE SetIn(x, k, v)

-----------------------------------------------------------------------------
(* Traversal and length. *)

\* Mutant: a dead key is not recognised.
IsKeyLive(n, k) == n.key = k /\ ~n.dead

\* The key of the traversal may be dead already.
IsKey(n, k) == n.key = k

\* The position of key k: array elements first, then nodes from 1 on.
findindex(x, k) ==
  IF k = Nil THEN 0
  ELSE IF InArray(x, k) THEN k
  ELSE LET i == First(x, k, LAMBDA n : IsKey(n, k)) IN IF i = None THEN None ELSE Len(x.array) + 1 + i

\* Positions with a value.
Filled(x) == {i \in 1..Len(x.array) : x.array[i] # Nil}
             \cup {Len(x.array) + 1 + i : i \in {j \in DOMAIN x.node : x.node[j].val # Nil}}
KeyAt(x, p) == IF p <= Len(x.array) THEN p ELSE x.node[p - Len(x.array) - 1].key

\* The key after k, Nil at the end; the key k has been found.
luaH_next(x, k) ==
  LET rest == {p \in Filled(x) : p > findindex(x, k)}
  IN IF rest = {} THEN Nil ELSE KeyAt(x, Min(rest))

\* Binary search between i, in S or zero, and j, not in S.
Between(i, j, S) ==
  LET search[a \in 0..j, b \in 0..j] ==
        IF b - a <= 1 THEN a
        ELSE LET m == (a + b) \div 2 IN IF m \in S THEN search[m, b] ELSE search[a, m]
  IN search[i, j]

Present(x, i) == i \in Int1 /\ luaH_get(x, i) # Nil

\* Mutant: i, not i - 1.
LinearSearchPast(x) == Min({i \in 1..(MaxInt + 1) : ~Present(x, i)})

\* Index by index from 1 on, up to the first that is absent.
LinearSearch(x) == Min({i \in 0..MaxInt : ~Present(x, i + 1)})

\* j doubles until it is absent, or too large to be doubled once more.
unbound_search(x, j) ==
  LET double[i \in 0..(2 * MaxInt), n \in 0..(4 * MaxInt + 2)] ==
        IF ~Present(x, n) THEN Between(i, n, {m \in i..n : Present(x, m)})
        ELSE IF n > MAX_INT \div 2 THEN LinearSearch(x)
        ELSE double[n, 2 * n]
  IN double[j, j + 1]

luaH_getn(x) ==
  LET j == Len(x.array)
  IN IF j > 0 /\ x.array[j] = Nil THEN Between(0, j, {m \in 1..j : x.array[m] # Nil})
     ELSE IF x.dummy THEN j ELSE unbound_search(x, j)

-----------------------------------------------------------------------------
\* A new table, with the sizes OP_NEWTABLE and lua_createtable ask for.
luaH_new(n, h) == luaH_resize([array |-> <<>>] @@ setnodevector(0), n, h)

Init ==
  /\ \E n \in 0..2, h \in 0..2 : t = luaH_new(n, h)
  /\ at = Nil /\ visited = {} /\ sets = 0
  /\ stored = [k \in Key |-> Nil]

\* During a traversal a program may only assign to fields that exist.
Set(k, v) ==
  /\ sets < MaxSet /\ sets' = sets + 1
  /\ visited # {} => stored[k] # Nil
  /\ t' = luaH_set(t, k, v)
  /\ stored' = [stored EXCEPT ![k] = v]
  /\ UNCHANGED <<at, visited>>

\* OP_SETLIST needs an array part of n elements; the hash part keeps its size.
luaH_resizearray(n) ==
  /\ sets < MaxSet /\ sets' = sets + 1
  /\ visited = {} /\ n > Len(t.array)
  /\ t' = luaH_resize(t, n, IF t.dummy THEN 0 ELSE sizenode(t))
  /\ UNCHANGED <<at, visited, stored>>

\* The collector finds a key unmarked in an entry without a value.
GcRemovesKey(i) ==
  /\ t.node[i].key \in Other /\ t.node[i].val = Nil /\ ~t.node[i].dead
  /\ t' = [t EXCEPT !.node[i].dead = TRUE]
  /\ UNCHANGED <<at, visited, stored, sets>>

\* One step of a traversal; the error "invalid key to 'next'" ends it too.
Step ==
  LET k == IF findindex(t, at) = None THEN Nil ELSE luaH_next(t, at)
  IN /\ at' = k
     /\ visited' = IF k = Nil THEN {} ELSE visited \cup {k}
     /\ UNCHANGED <<t, stored, sets>>

Next ==
  \/ \E k \in Key, v \in Value \cup {Nil} : Set(k, v)
  \/ \E n \in 1..MaxInt : luaH_resizearray(n)
  \/ \E i \in DOMAIN t.node : GcRemovesKey(i)
  \/ Step

Spec == Init /\ [][Next]_vars

-----------------------------------------------------------------------------
(* Properties. *)

\* However keys collide, move and are put in again by a rehash, a key has the
\* value of its last assignment.
GetsWhatWasSet == \A k \in Key : luaH_get(t, k) = stored[k]

Dict == INSTANCE LuaDict WITH dict <- stored, walking <- visited # {}

\* A traversal visits every key that has a value once before it ends, though
\* fields are cleared and their keys collected under it: it never ends early with
\* the error "invalid key to 'next'".
ImplementsDict == Dict!Spec

\* luaH_getn returns a boundary, wherever the elements are, whatever holes there
\* are, and also for a table whose indices are too far apart for the doubling.
GetnIsBoundary ==
  LET n == luaH_getn(t)
  IN /\ n = 0 \/ Present(t, n)
     /\ ~Present(t, n + 1)
=============================================================================
