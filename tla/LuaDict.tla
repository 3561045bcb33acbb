------------------------------ MODULE LuaDict ------------------------------
(***************************************************************************)
(* What a Lua table promises: an assignment changes the value of one key,  *)
(* and a traversal visits every key that has a value from its beginning    *)
(* to its end, once, though fields are cleared meanwhile.                  *)
(***************************************************************************)
EXTENDS Naturals

CONSTANTS Key, Value, Nil

VARIABLES
  dict,        \* [Key -> Value \cup {Nil}]
  visited,     \* keys the traversal has returned
  walking      \* a traversal is in progress

vars == <<dict, visited, walking>>

Init ==
  /\ dict = [k \in Key |-> Nil]
  /\ visited = {} /\ walking = FALSE

\* A key without a value may be given one only outside a traversal.
Set(k, v) ==
  /\ walking /\ dict[k] = Nil => v = Nil
  /\ dict' = [dict EXCEPT ![k] = v]
  /\ UNCHANGED <<visited, walking>>

Visit(k) ==
  /\ dict[k] # Nil /\ k \notin visited
  /\ visited' = visited \cup {k}
  /\ walking' = TRUE
  /\ UNCHANGED dict

\* The end: nothing is left to visit.
End ==
  /\ \A k \in Key \ visited : dict[k] = Nil
  /\ visited' = {} /\ walking' = FALSE
  /\ UNCHANGED dict

Next == End \/ \E k \in Key : Visit(k) \/ \E v \in Value \cup {Nil} : Set(k, v)

Spec == Init /\ [][Next]_vars
=============================================================================
