--------------------------- MODULE WeaveIpamProofs ---------------------------
(***************************************************************************)
(* For every number of containers, calls and failures: the containers of a *)
(* cluster have distinct weave addresses as long as no increment is lost,  *)
(* and no more addresses are shared than increments were lost.             *)
(***************************************************************************)
EXTENDS WeaveIpam, FiniteSetTheorems, TLAPS

\* get_ip gives different indices different addresses, beyond 65535 too.
LEMMA AddressInjective ==
  ASSUME NEW i \in Nat, NEW j \in Nat, Address(i) = Address(j)
  PROVE  i = j
<1>1. (2 * i) \div 256 = (2 * j) \div 256 /\ (2 * i) % 256 = (2 * j) % 256
  BY DEF Address
<1> QED BY <1>1

\* An address is a pair, the second octet below 256, and not the mark of none.
LEMMA AddressType ==
  ASSUME NEW i \in Nat
  PROVE  Address(i) \in Nat \X (0..255) /\ Address(i) # NoAddress
BY DEF Address, NoAddress

Inv == TypeOK /\ IndexInv /\ DistinctAddresses

\* Every variable keeps its type; only a crash needs to know that what is on
\* the disk is not ahead of the file.
LEMMA TypeStep == TypeOK /\ durable <= counter /\ [Next]_vars => TypeOK'
<1> SUFFICES ASSUME TypeOK, durable <= counter, [Next]_vars PROVE TypeOK'
  OBVIOUS
<1> USE DEF TypeOK
<1>1. ASSUME NEW c \in Container, Call(c) PROVE TypeOK'
  BY <1>1, WeaveAssumption DEF WeaveAssumption, Call, Script
<1>2. ASSUME NEW c \in Container, Disconnect(c) PROVE TypeOK'
  BY <1>2 DEF Disconnect, None
<1>3. ASSUME NEW s \in Script, Read(s) PROVE TypeOK'
  BY <1>3 DEF Read
<1>4. ASSUME NEW s \in Script, Write(s) PROVE TypeOK'
  BY <1>4 DEF Write
<1>5. ASSUME NEW s \in Script, WriteFails(s) PROVE TypeOK'
  BY <1>5, WeaveAssumption DEF WeaveAssumption, WriteFails
<1>6. ASSUME NEW s \in Script, Close(s) PROVE TypeOK'
  BY <1>6 DEF Close, None
<1>7. ASSUME NEW s \in Script, Answer(s) PROVE TypeOK'
  <2>1. Address(index[s]) \in Nat \X (0..255) BY AddressType
  <2> QED BY <1>7, <2>1 DEF Answer, None
<1>8. ASSUME NEW s \in Script, Killed(s) PROVE TypeOK'
  BY <1>8 DEF Killed, None
<1>9. CASE WriteBack
  BY <1>9 DEF WriteBack
<1>10. CASE Crash
  <2>1. counter - durable \in Nat OBVIOUS
  <2>2. lost' \in Nat BY <1>10, <2>1 DEF Crash
  <2>3. pc' \in [Script -> {"none", "flock", "write", "close", "answer", "dead"}]
    BY <1>10 DEF Crash
  <2>4. failures' \in 0..MaxFailures
    BY <1>10, WeaveAssumption DEF WeaveAssumption, Crash
  <2> QED BY <1>10, <2>2, <2>3, <2>4 DEF Crash, None
<1>11. CASE UNCHANGED vars
  BY <1>11 DEF vars
<1> QED
  BY <1>1, <1>2, <1>3, <1>4, <1>5, <1>6, <1>7, <1>8, <1>9, <1>10, <1>11
  DEF Next, Runs, NoOutput

\* The step lemma of the invariant, one action at a time.
LEMMA InvStep == Inv /\ [Next]_vars => Inv'
<1> SUFFICES ASSUME Inv, [Next]_vars PROVE Inv'
  OBVIOUS
<1> USE DEF Inv
<1>t. TypeOK'
  BY TypeStep DEF IndexInv
<1> SUFFICES IndexInv' /\ DistinctAddresses'
  BY <1>t
<1>1. ASSUME NEW c \in Container, Call(c) PROVE IndexInv' /\ DistinctAddresses'
  <2>1. calls + 1 \in Script /\ pc[calls + 1] = "none"
    BY <1>1, WeaveAssumption DEF WeaveAssumption, Call, Script, IndexInv, TypeOK
  <2>2. \A s \in Script : pc'[s] = IF s = calls + 1 THEN "flock" ELSE pc[s]
    BY <1>1 DEF Call, TypeOK
  <2>3. \A d \in Container : waits'[d] = IF d = c THEN calls + 1 ELSE waits[d]
    BY <1>1 DEF Call, TypeOK
  <2>4. UNCHANGED <<counter, durable, flock, index, addr, lost>> /\ calls' = calls + 1
    BY <1>1 DEF Call
  <2> HIDE DEF Script
  <2>5. calls \in Nat /\ \A s \in Script : s \in Nat
    BY WeaveAssumption DEF WeaveAssumption, TypeOK, Script
  <2>6. \A d \in Container : waits[d] \in Nat
    BY <2>5 DEF TypeOK, None
  <2>7. DistinctAddresses'
    BY <2>4 DEF DistinctAddresses, HasAddress
  <2>8. \A d \in Container : waits[d] <= calls /\ waits[d] # calls + 1
    BY <2>5, <2>6 DEF IndexInv
  <2>9. \A s \in Script : pc'[s] = "none" <=> s > calls'
    BY <2>1, <2>2, <2>4, <2>5 DEF IndexInv
  <2>10. \A d \in Container : waits'[d] <= calls'
    BY <2>3, <2>4, <2>5, <2>6, <2>8
  <2>11. \A d, e \in Container : waits'[d] = waits'[e] /\ waits'[d] # None => d = e
    BY <2>3, <2>8 DEF IndexInv
  <2>12. \A s \in Script : pc'[s] \in {"write", "close"} <=> flock' = s
    BY <2>1, <2>2, <2>4 DEF IndexInv
  <2> QED
    BY <2>1, <2>2, <2>4, <2>7, <2>9, <2>10, <2>11, <2>12 DEF IndexInv, HasAddress
<1>2. ASSUME NEW c \in Container, Disconnect(c) PROVE IndexInv' /\ DistinctAddresses'
  <2>1. calls \in Nat BY DEF TypeOK
  <2> QED BY <1>2, <2>1 DEF Disconnect, IndexInv, DistinctAddresses, HasAddress, TypeOK, None
<1>3. ASSUME NEW s \in Script, Read(s) PROVE IndexInv' /\ DistinctAddresses'
  <2>1. \A t \in Script : t # None BY DEF Script, None
  <2>2. \A t \in Script : /\ pc'[t] = IF t = s THEN "write" ELSE pc[t]
                          /\ index'[t] = IF t = s THEN counter ELSE index[t]
    BY <1>3 DEF Read, TypeOK
  <2>3. /\ pc[s] = "flock" /\ flock = None /\ flock' = s
        /\ UNCHANGED <<counter, durable, waits, addr, calls, lost>>
    BY <1>3 DEF Read
  <2>4. DistinctAddresses'
    BY <2>3 DEF DistinctAddresses, HasAddress
  <2> QED BY <2>1, <2>2, <2>3, <2>4 DEF IndexInv, HasAddress
<1>4. ASSUME NEW s \in Script, Write(s) PROVE IndexInv' /\ DistinctAddresses'
  <2>1. DistinctAddresses'
    BY <1>4 DEF Write, DistinctAddresses, HasAddress
  <2>2. ASSUME lost = 0, NEW c \in HasAddress
        PROVE  \E i \in First..counter' - 1 :
                 /\ addr[c] = Address(i)
                 /\ \A t \in Script : pc'[t] \in {"close", "answer"} => index[t] # i
    <3>1. PICK i \in First..counter - 1 :
            /\ addr[c] = Address(i)
            /\ \A t \in Script : pc[t] \in {"close", "answer"} => index[t] # i
      BY <2>2 DEF IndexInv
    <3>2. index[s] = counter /\ counter' = counter + 1 /\ counter \in Nat
      BY <1>4, <2>2 DEF Write, IndexInv, TypeOK
    <3> QED BY <1>4, <3>1, <3>2, WeaveAssumption DEF WeaveAssumption, Write, TypeOK
  <2>3. index[s] = counter
    BY <1>4 DEF Write, IndexInv
  <2>4. \A t \in Script : t # s => pc[t] \notin {"write", "close"}
    BY <1>4 DEF Write, IndexInv
  <2>5. \A t \in Script : pc'[t] = IF t = s THEN "close" ELSE pc[t]
    BY <1>4 DEF Write, TypeOK
  <2>6. /\ pc[s] = "write" /\ counter' = index[s] + 1
        /\ UNCHANGED <<durable, flock, index, waits, addr, calls, lost>>
    BY <1>4 DEF Write
  <2>7. index[s] \in Nat /\ counter \in Nat /\ durable \in Nat
    BY DEF TypeOK
  <2>8. durable' <= counter'
    BY <2>3, <2>6, <2>7 DEF IndexInv
  <2> QED
    BY <2>1, <2>2, <2>3, <2>4, <2>5, <2>6, <2>7, <2>8, WeaveAssumption
    DEF WeaveAssumption, IndexInv, HasAddress
<1>5. ASSUME NEW s \in Script, WriteFails(s) PROVE IndexInv' /\ DistinctAddresses'
  <2>1. lost' # 0 BY <1>5 DEF WriteFails, TypeOK
  <2> QED BY <1>5, <2>1 DEF WriteFails, IndexInv, DistinctAddresses, TypeOK
<1>6. ASSUME NEW s \in Script, Close(s) PROVE IndexInv' /\ DistinctAddresses'
  <2>1. s # None BY DEF Script, None
  <2>2. DistinctAddresses'
    BY <1>6 DEF Close, DistinctAddresses, HasAddress
  <2>3. \A t \in Script : pc'[t] = IF t = s THEN "answer" ELSE pc[t]
    BY <1>6 DEF Close, TypeOK
  <2>4. pc[s] = "close" /\ flock' = None /\ UNCHANGED <<counter, durable, index, waits, addr, calls, lost>>
    BY <1>6 DEF Close
  <2>5. \A t \in Script : t # None BY DEF Script, None
  <2> QED BY <2>1, <2>2, <2>3, <2>4, <2>5 DEF IndexInv, HasAddress
<1>7. ASSUME NEW s \in Script, Answer(s) PROVE IndexInv' /\ DistinctAddresses'
  <2>1. \A t \in Script : pc'[t] = IF t = s THEN "dead" ELSE pc[t]
    BY <1>7 DEF Answer, TypeOK
  <2>2. pc[s] = "answer" /\ UNCHANGED <<counter, durable, flock, index, calls, lost>>
    BY <1>7 DEF Answer
  <2>3. \A c \in Container :
          /\ addr'[c] = IF waits[c] = s THEN Address(index[s]) ELSE addr[c]
          /\ waits'[c] = IF waits[c] = s THEN None ELSE waits[c]
    BY <1>7 DEF Answer
  <2>4. s # None /\ index[s] \in Nat BY DEF Script, None, TypeOK
  <2>5. ASSUME lost = 0, NEW c \in Container, addr'[c] # NoAddress
        PROVE  \E i \in First..counter - 1 :
                 /\ addr'[c] = Address(i)
                 /\ \A t \in Script : pc'[t] \in {"close", "answer"} => index[t] # i
    <3>1. CASE waits[c] = s
      <4>2. index[s] \in First..counter - 1
        BY <2>2, <2>5 DEF IndexInv
      <4>3. \A t \in Script : pc'[t] \in {"close", "answer"} => index[t] # index[s]
        BY <2>1, <2>2, <2>5 DEF IndexInv
      <4> QED BY <3>1, <4>2, <4>3, <2>3
    <3>2. CASE waits[c] # s
      BY <3>2, <2>1, <2>2, <2>3, <2>5 DEF IndexInv, HasAddress
    <3> QED BY <3>1, <3>2
  <2>6. DistinctAddresses'
    <3> SUFFICES ASSUME lost = 0, NEW c \in Container, NEW d \in Container,
                        addr'[c] # NoAddress, addr'[d] # NoAddress, addr'[c] = addr'[d]
                 PROVE  c = d
      BY <2>2 DEF DistinctAddresses, HasAddress
    <3>1. CASE waits[c] = s /\ waits[d] = s
      BY <3>1, <2>4 DEF IndexInv
    <3>2. CASE waits[c] # s /\ waits[d] # s
      BY <3>2, <2>3 DEF DistinctAddresses, HasAddress
    <3>3. ASSUME NEW e \in Container, waits[e] # s, addr[e] # NoAddress
          PROVE  addr[e] # Address(index[s])
      <4>1. PICK i \in First..counter - 1 :
              /\ addr[e] = Address(i)
              /\ \A t \in Script : pc[t] \in {"close", "answer"} => index[t] # i
        BY <3>3 DEF IndexInv, HasAddress
      <4>2. i \in Nat
        BY WeaveAssumption DEF WeaveAssumption, TypeOK
      <4> QED BY <4>1, <4>2, <2>2, <2>4, AddressInjective
    <3> QED BY <3>1, <3>2, <3>3, <2>3
  <2>7. calls \in Nat BY DEF TypeOK
  <2> QED BY <2>1, <2>2, <2>3, <2>4, <2>5, <2>6, <2>7 DEF IndexInv, HasAddress, None
<1>8. ASSUME NEW s \in Script, Killed(s) PROVE IndexInv' /\ DistinctAddresses'
  <2>1. \A t \in Script : pc'[t] = IF t = s THEN "dead" ELSE pc[t]
    BY <1>8 DEF Killed, TypeOK
  <2>2. pc[s] # "none" /\ UNCHANGED <<counter, durable, index, waits, addr, calls, lost>>
    BY <1>8 DEF Killed
  <2>3. flock' = IF flock = s THEN None ELSE flock
    BY <1>8 DEF Killed
  <2>4. \A t \in Script : t # None BY DEF Script, None
  <2>5. DistinctAddresses'
    BY <2>2 DEF DistinctAddresses, HasAddress
  <2> QED BY <2>1, <2>2, <2>3, <2>4, <2>5 DEF IndexInv, HasAddress
<1>9. CASE WriteBack
  <2>1. durable' = counter
    BY <1>9 DEF WriteBack
  <2>2. UNCHANGED <<counter, flock, pc, index, waits, addr, calls, lost>>
    BY <1>9 DEF WriteBack
  <2>3. DistinctAddresses'
    BY <2>2 DEF DistinctAddresses, HasAddress
  <2>4. First <= counter /\ counter <= counter
    BY WeaveAssumption DEF WeaveAssumption, IndexInv, TypeOK
  <2> QED BY <2>1, <2>2, <2>3, <2>4 DEF IndexInv, HasAddress
<1>10. CASE Crash
  <2>1. lost' = 0 => lost = 0 /\ counter' = counter
    BY <1>10 DEF Crash, IndexInv, TypeOK
  <2>2. \A t \in Script : pc'[t] = IF pc[t] = "none" THEN "none" ELSE "dead"
    BY <1>10 DEF Crash
  <2>3. counter' = durable /\ flock' = None /\ UNCHANGED <<durable, index, waits, addr, calls>>
    BY <1>10 DEF Crash
  <2>4. \A t \in Script : t # None BY DEF Script, None
  <2>5. DistinctAddresses'
    BY <2>1, <2>3 DEF DistinctAddresses, HasAddress
  <2>6. durable \in Nat BY DEF TypeOK
  <2> QED BY <2>1, <2>2, <2>3, <2>4, <2>5, <2>6 DEF IndexInv, HasAddress
<1>11. CASE UNCHANGED vars
  BY <1>11 DEF vars, IndexInv, DistinctAddresses, HasAddress
<1> QED
  BY <1>1, <1>2, <1>3, <1>4, <1>5, <1>6, <1>7, <1>8, <1>9, <1>10, <1>11
  DEF Next, Runs, NoOutput

\* The inductive invariant holds of every behaviour of get_ip.rb and its callers.
THEOREM InvHolds == Spec => []Inv
<1>1. Init => Inv
  BY WeaveAssumption
  DEF WeaveAssumption, Init, Inv, TypeOK, IndexInv, DistinctAddresses, HasAddress,
      Script, None, NoAddress
<1> QED BY <1>1, InvStep, PTL DEF Spec

\* The type invariant of WeaveIpam.
THEOREM WeaveTypeCorrect == Spec => []TypeOK
BY InvHolds, PTL DEF Inv

\* As long as no increment of the counter is lost, no two containers of the
\* cluster have one weave address (get_ip.rb under its flock).
THEOREM AddressesAreDistinct == Spec => []DistinctAddresses
BY InvHolds, PTL DEF Inv

-----------------------------------------------------------------------------
(* What a lost increment costs.  The containers with an address and the    *)
(* scripts that are about to print one hold the indices that were given.   *)
(* All of them but the lost ones have an index of their own below the      *)
(* counter: an index at or above it will be given once more.               *)

Writers == {s \in Script : pc[s] \in {"close", "answer"}}
Given(i) == (\E s \in Writers : index[s] = i) \/ (\E c \in HasAddress : addr[c] = Address(i))
Below == {i \in 0..counter - 1 : Given(i)}

SharedInv ==
  /\ IsFiniteSet(HasAddress)
  /\ Cardinality(HasAddress) + Cardinality(Writers) <= Cardinality(Below) + lost

\* The three sets are finite: there are as many scripts as calls, and indices below the counter.
LEMMA Finite ==
  ASSUME counter \in Nat
  PROVE  /\ IsFiniteSet(Writers) /\ Cardinality(Writers) \in Nat
         /\ IsFiniteSet(Below) /\ Cardinality(Below) \in Nat
<1>1. IsFiniteSet(Script) /\ IsFiniteSet(0..counter - 1)
  BY FS_Interval, WeaveAssumption DEF WeaveAssumption, Script
<1>2. Writers \in SUBSET Script /\ Below \in SUBSET (0..counter - 1)
  BY DEF Writers, Below
<1>. QED
  BY <1>1, <1>2, FS_Subset, FS_CardinalityType

\* A finite set that is covered by another and one element more has one more at most.
LEMMA OneMore ==
  ASSUME NEW S, NEW T, NEW x, IsFiniteSet(T), S \subseteq T \cup {x}
  PROVE  IsFiniteSet(S) /\ Cardinality(S) \in Nat /\ Cardinality(T) \in Nat /\ Cardinality(S) <= Cardinality(T) + 1
<1>1. IsFiniteSet(T \cup {x}) /\ Cardinality(T \cup {x}) \in {Cardinality(T), Cardinality(T) + 1}
  BY FS_AddElement
<1>2. IsFiniteSet(S) /\ Cardinality(S) <= Cardinality(T \cup {x})
  BY <1>1, FS_Subset
<1>3. Cardinality(S) \in Nat /\ Cardinality(T) \in Nat
  BY <1>2, FS_CardinalityType
<1>. QED
  BY <1>1, <1>2, <1>3

\* There are no more indices than scripts that have them.
LEMMA Indices ==
  ASSUME NEW W, IsFiniteSet(W)
  PROVE  LET T == {index[s] : s \in W}
         IN  IsFiniteSet(T) /\ Cardinality(T) \in Nat /\ Cardinality(T) <= Cardinality(W)
<1>. DEFINE T == {index[s] : s \in W}
            f == [s \in W |-> index[s]]
<1>1. f \in Surjection(W, T)
  BY DEF Surjection
<1>. QED
  BY <1>1, FS_Surjection, FS_CardinalityType

\* The union of two finite sets.
LEMMA UnionBound ==
  ASSUME NEW S, NEW T, NEW U, IsFiniteSet(T), IsFiniteSet(U), S \subseteq T \cup U
  PROVE  Cardinality(S) \in Nat /\ Cardinality(S) <= Cardinality(T) + Cardinality(U)
<1>1. IsFiniteSet(T \cup U) /\ Cardinality(T \cup U) = Cardinality(T) + Cardinality(U) - Cardinality(T \cap U)
  BY FS_Union
<1>2. IsFiniteSet(S) /\ Cardinality(S) <= Cardinality(T \cup U)
  BY <1>1, FS_Subset
<1>3. IsFiniteSet(T \cap U)
  BY FS_Subset
<1>4. Cardinality(S) \in Nat /\ Cardinality(T) \in Nat /\ Cardinality(U) \in Nat /\ Cardinality(T \cap U) \in Nat
  BY <1>2, <1>3, FS_CardinalityType
<1>. QED
  BY <1>1, <1>2, <1>4

\* The steps that give no index and take none back.
LEMMA SameHolders ==
  ASSUME SharedInv, UNCHANGED <<counter, addr, lost>>, Writers' = Writers,
         \A s \in Writers : index'[s] = index[s]
  PROVE  SharedInv'
<1>1. HasAddress' = HasAddress
  BY DEF HasAddress
<1>2. Below' = Below
  BY <1>1 DEF Below, Given
<1>. QED
  BY <1>1, <1>2 DEF SharedInv

\* The script writes the next index: its own is one more below the counter.
LEMMA SharedWrite ==
  ASSUME TypeOK, IndexInv, SharedInv, NEW s \in Script, Write(s)
  PROVE  SharedInv'
<1>1. /\ index[s] = counter /\ counter' = counter + 1 /\ counter \in Nat /\ lost \in Nat
      /\ UNCHANGED <<index, addr, lost>>
  BY DEF Write, IndexInv, TypeOK
<1>2. Writers' = Writers \cup {s} /\ s \notin Writers
  BY DEF Write, Writers, TypeOK
<1>3. HasAddress' = HasAddress
  BY <1>1 DEF HasAddress
<1>4. Below' = Below \cup {counter} /\ counter \notin Below
  <2>1. \A i : Given(i)' <=> Given(i) \/ i = counter
    BY <1>1, <1>2, <1>3 DEF Given
  <2>. QED
    BY <1>1, <2>1 DEF Below
<1>5. Cardinality(Writers') = Cardinality(Writers) + 1 /\ Cardinality(Below') = Cardinality(Below) + 1
  BY <1>1, <1>2, <1>4, Finite, FS_AddElement
<1>6. Cardinality(Writers) \in Nat /\ Cardinality(Below) \in Nat /\ Cardinality(HasAddress) \in Nat
  BY <1>1, Finite, FS_CardinalityType DEF SharedInv
<1>. QED
  BY <1>1, <1>3, <1>5, <1>6 DEF SharedInv

\* The write fails: the index will be given again, and this is what was lost.
LEMMA SharedWriteFails ==
  ASSUME TypeOK, IndexInv, SharedInv, NEW s \in Script, WriteFails(s)
  PROVE  SharedInv'
<1>1. /\ index[s] = counter /\ lost' = lost + 1 /\ counter \in Nat /\ lost \in Nat
      /\ UNCHANGED <<counter, index, addr>>
  BY DEF WriteFails, IndexInv, TypeOK
<1>2. Writers' = Writers \cup {s} /\ s \notin Writers
  BY DEF WriteFails, Writers, TypeOK
<1>3. HasAddress' = HasAddress
  BY <1>1 DEF HasAddress
<1>4. Below' = Below
  <2>1. \A i : Given(i)' <=> Given(i) \/ i = counter
    BY <1>1, <1>2, <1>3 DEF Given
  <2>. QED
    BY <1>1, <2>1 DEF Below
<1>5. Cardinality(Writers') = Cardinality(Writers) + 1
  BY <1>1, <1>2, Finite, FS_AddElement
<1>6. Cardinality(Writers) \in Nat /\ Cardinality(Below) \in Nat /\ Cardinality(HasAddress) \in Nat
  BY <1>1, Finite, FS_CardinalityType DEF SharedInv
<1>. QED
  BY <1>1, <1>3, <1>4, <1>5, <1>6 DEF SharedInv

\* A script that is killed takes an index with it at most.
LEMMA SharedKilled ==
  ASSUME TypeOK, SharedInv, NEW s \in Script, Killed(s)
  PROVE  SharedInv'
<1>1. UNCHANGED <<counter, index, addr, lost>> /\ counter \in Nat /\ lost \in Nat
  BY DEF Killed, TypeOK
<1>2. Writers' = Writers \ {s}
  BY DEF Killed, Writers, TypeOK
<1>3. HasAddress' = HasAddress
  BY <1>1 DEF HasAddress
<1>4. CASE s \in Writers
  <2>1. Below \subseteq Below' \cup {index[s]}
    BY <1>1, <1>2, <1>3 DEF Below, Given
  <2>2. IsFiniteSet(Below')
    <3>1. IsFiniteSet(0..counter - 1) /\ Below' \in SUBSET (0..counter - 1)
      BY <1>1, FS_Interval DEF Below
    <3>. QED
      BY <3>1, FS_Subset
  <2>3. Cardinality(Below) \in Nat /\ Cardinality(Below') \in Nat /\ Cardinality(Below) <= Cardinality(Below') + 1
    BY <2>1, <2>2, OneMore
  <2>4. Cardinality(Writers') = Cardinality(Writers) - 1
    BY <1>1, <1>2, <1>4, Finite, FS_RemoveElement
  <2>5. Cardinality(Writers) \in Nat /\ Cardinality(HasAddress) \in Nat
    BY <1>1, Finite, FS_CardinalityType DEF SharedInv
  <2>. QED
    BY <1>1, <1>3, <2>3, <2>4, <2>5 DEF SharedInv
<1>5. CASE s \notin Writers
  BY <1>1, <1>2, <1>5, SameHolders
<1>. QED
  BY <1>4, <1>5

\* The caller has its address: the index goes from the script to the container,
\* whose old address, if it has one, is nobody's any more.  Nobody may wait.
LEMMA SharedAnswer ==
  ASSUME TypeOK, IndexInv, SharedInv, NEW s \in Script, Answer(s)
  PROVE  SharedInv'
<1>1. UNCHANGED <<counter, index, lost>> /\ counter \in Nat /\ lost \in Nat /\ index[s] \in Nat
  BY DEF Answer, TypeOK
<1>2. Writers' = Writers \ {s} /\ s \in Writers
  BY DEF Answer, Writers, TypeOK
<1>3. Cardinality(Writers') = Cardinality(Writers) - 1
  BY <1>1, <1>2, Finite, FS_RemoveElement
<1>4. Cardinality(Writers) \in Nat /\ Cardinality(HasAddress) \in Nat
  BY <1>1, Finite, FS_CardinalityType DEF SharedInv
<1>5. IsFiniteSet(Below')
  <2>1. IsFiniteSet(0..counter - 1) /\ Below' \in SUBSET (0..counter - 1)
    BY <1>1, FS_Interval DEF Below
  <2>. QED
    BY <2>1, FS_Subset
<1>6. CASE \A c \in Container : waits[c] # s
  <2>1. HasAddress' = HasAddress /\ \A c \in HasAddress : addr'[c] = addr[c]
    BY <1>6 DEF Answer, HasAddress
  <2>2. Below \subseteq Below' \cup {index[s]}
    BY <1>1, <1>2, <2>1 DEF Below, Given
  <2>3. Cardinality(Below) \in Nat /\ Cardinality(Below') \in Nat /\ Cardinality(Below) <= Cardinality(Below') + 1
    BY <1>5, <2>2, OneMore
  <2>. QED
    BY <1>1, <1>3, <1>4, <2>1, <2>3 DEF SharedInv
<1>7. ASSUME NEW c \in Container, waits[c] = s
      PROVE  SharedInv'
  <2>1. \A d \in Container : addr'[d] = IF d = c THEN Address(index[s]) ELSE addr[d]
    <3>1. s # None
      BY DEF Script, None
    <3>2. \A d \in Container : waits[d] = s => d = c
      BY <1>7, <3>1 DEF IndexInv
    <3>. QED
      BY <1>7, <3>2 DEF Answer
  <2>2. Address(index[s]) # NoAddress
    BY <1>1, AddressType
  <2>3. HasAddress' = HasAddress \cup {c}
    BY <2>1, <2>2 DEF HasAddress
  <2>4. IsFiniteSet(HasAddress') /\ Cardinality(HasAddress') = IF c \in HasAddress THEN Cardinality(HasAddress) ELSE Cardinality(HasAddress) + 1
    BY <2>3, FS_AddElement DEF SharedInv
  <2>5. Given(index[s])'
    BY <1>1, <2>1, <2>3 DEF Given
  <2>6. CASE c \notin HasAddress
    <3>1. Below \subseteq Below'
      BY <1>1, <1>2, <2>1, <2>3, <2>5, <2>6 DEF Below, Given, HasAddress
    <3>2. Cardinality(Below) <= Cardinality(Below') /\ Cardinality(Below) \in Nat /\ Cardinality(Below') \in Nat
      BY <1>1, <1>5, <3>1, FS_Subset, FS_CardinalityType, Finite
    <3>. QED
      BY <1>1, <1>3, <1>4, <2>4, <2>6, <3>2 DEF SharedInv
  <2>7. CASE c \in HasAddress
    <3>1. \E x : Below \subseteq Below' \cup {x}
      <4>1. CASE \E j \in Nat : addr[c] = Address(j)
        <5>1. PICK j \in Nat : addr[c] = Address(j)
          BY <4>1
        <5>2. \A i \in Nat : addr[c] = Address(i) => i = j
          BY <5>1, AddressInjective
        <5>3. Below \subseteq Below' \cup {j}
          BY <1>1, <1>2, <2>1, <2>3, <2>5, <5>2 DEF Below, Given, HasAddress
        <5>. QED
          BY <5>3
      <4>2. CASE ~\E j \in Nat : addr[c] = Address(j)
        <5>1. Below \subseteq Below' \cup {0}
          BY <1>1, <1>2, <2>1, <2>3, <2>5, <4>2 DEF Below, Given, HasAddress
        <5>. QED
          BY <5>1
      <4>. QED
        BY <4>1, <4>2
    <3>2. Cardinality(Below) \in Nat /\ Cardinality(Below') \in Nat /\ Cardinality(Below) <= Cardinality(Below') + 1
      BY <1>5, <3>1, OneMore
    <3>. QED
      BY <1>1, <1>3, <1>4, <2>4, <2>7, <3>2 DEF SharedInv
  <2>. QED
    BY <2>6, <2>7
<1>. QED
  BY <1>6, <1>7

\* A crash takes the scripts, and as many indices as increments were not on the disk.
LEMMA SharedCrash ==
  ASSUME TypeOK, IndexInv, SharedInv, Crash
  PROVE  SharedInv'
<1>1. /\ counter \in Nat /\ durable \in Nat /\ durable <= counter /\ lost \in Nat
      /\ counter' = durable /\ lost' = lost + (counter - durable) /\ UNCHANGED <<index, addr>>
  BY DEF Crash, IndexInv, TypeOK
<1>2. Writers' = {}
  BY DEF Crash, Writers
<1>3. HasAddress' = HasAddress
  BY <1>1 DEF HasAddress
<1>. DEFINE T == {index[s] : s \in Writers}
            D == durable..counter - 1
<1>4. IsFiniteSet(T) /\ Cardinality(T) <= Cardinality(Writers) /\ Cardinality(T) \in Nat
  BY <1>1, Finite, Indices
<1>5. IsFiniteSet(D) /\ Cardinality(D) = counter - durable
  <2>1. counter - 1 \in Int /\ durable \in Int
    BY <1>1
  <2>2. IsFiniteSet(D) /\ Cardinality(D) = IF durable > counter - 1 THEN 0 ELSE counter - 1 - durable + 1
    BY <2>1, FS_Interval
  <2>. QED
    BY <1>1, <2>2
<1>6. IsFiniteSet(Below') /\ Cardinality(Below') \in Nat
  <2>1. IsFiniteSet(0..durable - 1) /\ Below' \in SUBSET (0..durable - 1)
    BY <1>1, FS_Interval DEF Below
  <2>. QED
    BY <2>1, FS_Subset, FS_CardinalityType
<1>7. Below \subseteq (Below' \cup D) \cup T
  BY <1>1, <1>2, <1>3 DEF Below, Given
<1>. HIDE DEF T, D
<1>8. IsFiniteSet(Below' \cup D) /\ Cardinality(Below' \cup D) \in Nat /\ Cardinality(Below' \cup D) <= Cardinality(Below') + Cardinality(D)
  <2>1. IsFiniteSet(Below' \cup D)
    BY <1>5, <1>6, FS_Union
  <2>. QED
    BY <1>5, <1>6, <2>1, UnionBound
<1>9. Cardinality(Below) <= Cardinality(Below' \cup D) + Cardinality(T)
  BY <1>4, <1>7, <1>8, UnionBound
<1>10. Cardinality(Writers') = 0
  BY <1>2, FS_EmptySet
<1>11. Cardinality(Writers) \in Nat /\ Cardinality(Below) \in Nat /\ Cardinality(HasAddress) \in Nat
  BY <1>1, Finite, FS_CardinalityType DEF SharedInv
<1>. QED
  BY <1>1, <1>3, <1>4, <1>5, <1>6, <1>8, <1>9, <1>10, <1>11 DEF SharedInv

\* Every step keeps the account of the indices.
LEMMA SharedStep == Inv /\ SharedInv /\ [Next]_vars => SharedInv'
<1>. SUFFICES ASSUME TypeOK, IndexInv, SharedInv, [Next]_vars PROVE SharedInv'
  BY DEF Inv
<1>1. ASSUME NEW c \in Container, Call(c) PROVE SharedInv'
  <2>1. calls + 1 \in Script /\ pc[calls + 1] = "none"
    BY <1>1, WeaveAssumption DEF WeaveAssumption, Call, Script, IndexInv, TypeOK
  <2>2. Writers' = Writers
    BY <1>1, <2>1 DEF Call, Writers, TypeOK
  <2>. QED
    BY <1>1, <2>2, SameHolders DEF Call
<1>2. ASSUME NEW c \in Container, Disconnect(c) PROVE SharedInv'
  BY <1>2, SameHolders DEF Disconnect, Writers
<1>3. ASSUME NEW s \in Script, Read(s) PROVE SharedInv'
  <2>1. Writers' = Writers /\ \A t \in Writers : index'[t] = index[t]
    BY <1>3 DEF Read, Writers, TypeOK
  <2>. QED
    BY <1>3, <2>1, SameHolders DEF Read
<1>4. ASSUME NEW s \in Script, Close(s) PROVE SharedInv'
  <2>1. Writers' = Writers
    BY <1>4 DEF Close, Writers, TypeOK
  <2>. QED
    BY <1>4, <2>1, SameHolders DEF Close
<1>5. CASE WriteBack \/ UNCHANGED vars
  BY <1>5, SameHolders DEF WriteBack, vars, Writers
<1>. QED
  BY <1>1, <1>2, <1>3, <1>4, <1>5, SharedWrite, SharedWriteFails, SharedKilled, SharedAnswer, SharedCrash
  DEF Next, Runs, NoOutput

\* The containers with an address hold as many of the indices below the counter
\* as they have different addresses.
LEMMA SharedIsLost == Inv /\ SharedInv => SharedOnlyIfLost
<1>. SUFFICES ASSUME TypeOK, SharedInv PROVE SharedOnlyIfLost
  BY DEF Inv
<1>. DEFINE A == {addr[c] : c \in HasAddress}
            T == {index[s] : s \in Writers}
            B == {i \in 0..counter - 1 : \E c \in HasAddress : addr[c] = Address(i)}
            f == [c \in HasAddress |-> addr[c]]
            g == [i \in B |-> Address(i)]
<1>1. counter \in Nat /\ lost \in Nat
  BY DEF TypeOK
<1>2. IsFiniteSet(A) /\ Cardinality(A) \in Nat
  <2>1. f \in Surjection(HasAddress, A)
    BY DEF Surjection
  <2>. QED
    BY <2>1, FS_Surjection, FS_CardinalityType DEF SharedInv
<1>3. IsFiniteSet(B) /\ Cardinality(B) \in Nat /\ Cardinality(B) <= Cardinality(A)
  <2>1. g \in Injection(B, A)
    <3>1. \A i, j \in B : Address(i) = Address(j) => i = j
      BY <1>1, AddressInjective
    <3>2. g \in [B -> A]
      OBVIOUS
    <3>3. \A i, j \in DOMAIN g : g[i] = g[j] => i = j
      BY <3>1
    <3>. QED
      BY <3>2, <3>3 DEF Injection, IsInjective
  <2>. QED
    BY <1>2, <2>1, FS_Injection, FS_CardinalityType
<1>4. IsFiniteSet(T) /\ Cardinality(T) \in Nat /\ Cardinality(T) <= Cardinality(Writers)
  BY <1>1, Finite, Indices
<1>5. Below \subseteq B \cup T
  BY DEF Below, Given
<1>. HIDE DEF A, B, T
<1>6. Cardinality(Below) \in Nat /\ Cardinality(Below) <= Cardinality(B) + Cardinality(T)
  BY <1>3, <1>4, <1>5, UnionBound
<1>7. Cardinality(Writers) \in Nat /\ Cardinality(HasAddress) \in Nat
  BY <1>1, Finite, FS_CardinalityType DEF SharedInv
<1>8. Cardinality(HasAddress) <= Cardinality(A) + lost
  BY <1>1, <1>2, <1>3, <1>4, <1>6, <1>7 DEF SharedInv
<1>. QED
  BY <1>8 DEF SharedOnlyIfLost, A

\* An index up to 32767 makes two octets.
LEMMA OctetsFit == Inv => OctetsUntilExhausted
<1>. SUFFICES ASSUME TypeOK, IndexInv, counter <= 32768, lost = 0, NEW c \in HasAddress
              PROVE  addr[c][1] <= 255 /\ addr[c][2] <= 255
  BY DEF Inv, OctetsUntilExhausted
<1>1. PICK i \in First..counter - 1 : addr[c] = Address(i)
  BY DEF IndexInv
<1>2. i \in Nat /\ i <= 32767
  BY <1>1, WeaveAssumption DEF WeaveAssumption, TypeOK
<1>3. (2 * i) \div 256 <= 255 /\ (2 * i) % 256 <= 255
  BY <1>2
<1>. QED
  BY <1>1, <1>3 DEF Address

\* Whatever writes fail and whenever the coordinator crashes, no more addresses are
\* shared than increments of the counter were lost; and every address that get_ip.rb
\* gives below the limit of 32767 is one.
THEOREM AddressesAreAccounted == Spec => []AddressesAccounted
<1>1. Init => SharedInv
  <2>. SUFFICES ASSUME Init PROVE SharedInv
    OBVIOUS
  <2>1. HasAddress = {} /\ Writers = {} /\ lost = 0 /\ counter \in Nat
    BY WeaveAssumption DEF WeaveAssumption, Init, HasAddress, Writers, Script
  <2>2. Cardinality(Below) \in Nat
    BY <2>1, Finite
  <2>. QED
    BY <2>1, <2>2, FS_EmptySet DEF SharedInv
<1>2. Inv /\ SharedInv => AddressesAccounted
  BY SharedIsLost, OctetsFit DEF AddressesAccounted
<1>. QED
  BY <1>1, <1>2, InvHolds, SharedStep, PTL DEF Spec
=============================================================================
