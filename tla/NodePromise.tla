----------------------------- MODULE NodePromise -----------------------------
(***************************************************************************)
(* What the provisioning of a node promises, without containers, units or  *)
(* files: a node is marked provisioned only when every framework container *)
(* is ready, and nothing makes a container unready while the mark is set.  *)
(***************************************************************************)
CONSTANT Container

VARIABLES
  ready,         \* the containers that are ready to serve
  provisioned,   \* the mark
  hasHadoop      \* does this node carry the framework containers at all

promiseVars == <<ready, provisioned, hasHadoop>>

Init ==
  /\ ready = {}
  /\ provisioned = FALSE
  /\ hasHadoop \in BOOLEAN

Prepare(c) ==
  /\ ~provisioned
  /\ ready' = ready \cup {c}
  /\ UNCHANGED <<provisioned, hasHadoop>>

Spoil(c) ==
  /\ ~provisioned
  /\ ready' = ready \ {c}
  /\ UNCHANGED <<provisioned, hasHadoop>>

Commit ==
  /\ hasHadoop => ready = Container
  /\ provisioned' = TRUE
  /\ UNCHANGED <<ready, hasHadoop>>

Withdraw ==
  /\ provisioned' = FALSE
  /\ UNCHANGED <<ready, hasHadoop>>

Next ==
  \/ \E c \in Container : Prepare(c) \/ Spoil(c)
  \/ Commit
  \/ Withdraw

Spec == Init /\ [][Next]_promiseVars
=============================================================================
