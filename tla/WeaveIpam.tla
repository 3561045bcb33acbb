------------------------------ MODULE WeaveIpam ------------------------------
(***************************************************************************)
(* The addresses of the containers of an AWS cluster on the weave network. *)
(* A node that creates a container runs get_ip.rb on the coordinator over  *)
(* ssh (get_weave_address, docker_utils.rb); the script takes a file lock, *)
(* reads the counter, prints the address of that index and writes the next *)
(* index back.  Callers give up, scripts are killed, writes fail, and the  *)
(* coordinator crashes with the last writes still in its page cache.       *)
(***************************************************************************)
EXTENDS Naturals, FiniteSets

CONSTANTS
  Container,    \* the containers of the cluster, on all its nodes
  First,        \* the counter to begin with; create_counter writes 1
  MaxCalls,     \* bound: how many calls of get_ip.rb there are
  MaxFailures   \* bound: how many writes fail and how often the coordinator crashes

ASSUME WeaveAssumption ==
  /\ First \in Nat
  /\ MaxCalls \in Nat
  /\ MaxFailures \in Nat

Script == 1..MaxCalls
None == 0               \* no script
NoAddress == <<>>

VARIABLES
  counter,   \* what /home/vagrant/counter holds
  durable,   \* what of it is on the disk
  flock,     \* the script that has the exclusive lock, or None
  pc,        \* pc[s]: where script s stands
  index,     \* index[s]: what it has read
  waits,     \* waits[c]: the script whose output the creator of c waits for
  addr,      \* addr[c]: WEAVE_CIDR of container c
  calls,     \* how many scripts were started
  failures,  \* how many failures there were
  lost       \* history: how many increments of the counter never took effect

vars == <<counter, durable, flock, pc, index, waits, addr, calls, failures, lost>>

\* get_ip: the last two octets of the address of an index.
Address(i) == <<(2 * i) \div 256, (2 * i) % 256>>

TypeOK ==
  /\ counter \in Nat /\ durable \in Nat
  /\ flock \in Script \cup {None}
  /\ pc \in [Script -> {"none", "flock", "write", "close", "answer", "dead"}]
  /\ index \in [Script -> Nat]
  /\ waits \in [Container -> Script \cup {None}]
  /\ addr \in [Container -> {NoAddress} \cup (Nat \X (0..255))]
  /\ calls \in 0..MaxCalls
  /\ failures \in 0..MaxFailures
  /\ lost \in Nat

Init ==
  /\ counter = First /\ durable = First
  /\ flock = None
  /\ pc = [s \in Script |-> "none"]
  /\ index = [s \in Script |-> 0]
  /\ waits = [c \in Container |-> None]
  /\ addr = [c \in Container |-> NoAddress]
  /\ calls = 0
  /\ failures = 0
  /\ lost = 0

-----------------------------------------------------------------------------
(* The node: get_weave_address. *)

\* A container is about to be created, for the first time or once more: the
\* old one keeps its address until the new one has its own.
Call(c) ==
  /\ waits[c] = None
  /\ calls < MaxCalls
  /\ calls' = calls + 1
  /\ pc' = [pc EXCEPT ![calls + 1] = "flock"]
  /\ waits' = [waits EXCEPT ![c] = calls + 1]
  /\ UNCHANGED <<counter, durable, flock, index, addr, failures, lost>>

\* The ssh session breaks or the node goes down; the script is not told.
Disconnect(c) ==
  /\ waits[c] # None
  /\ waits' = [waits EXCEPT ![c] = None]
  /\ UNCHANGED <<counter, durable, flock, pc, index, addr, calls, failures, lost>>

\* No output: "Can't get ip" is raised and nothing is created.
NoOutput(c) ==
  /\ waits[c] # None
  /\ pc[waits[c]] = "dead"
  /\ Disconnect(c)

-----------------------------------------------------------------------------
(* The coordinator: get_ip.rb. *)

\* Mutant: the flock is lost.
ReadUnlocked(s) ==
  /\ pc[s] = "flock"
  /\ index' = [index EXCEPT ![s] = counter]
  /\ pc' = [pc EXCEPT ![s] = "write"]
  /\ UNCHANGED <<counter, durable, flock, waits, addr, calls, failures, lost>>

Read(s) ==
  /\ pc[s] = "flock"
  /\ flock = None
  /\ flock' = s
  /\ index' = [index EXCEPT ![s] = counter]
  /\ pc' = [pc EXCEPT ![s] = "write"]
  /\ UNCHANGED <<counter, durable, waits, addr, calls, failures, lost>>

\* Rewind, write, flush and truncate.  flush hands the text to the kernel,
\* it is not an fsync; a cut between flush and truncate leaves at most a
\* newline, which strip takes away.
Write(s) ==
  /\ pc[s] = "write"
  /\ counter' = index[s] + 1
  /\ pc' = [pc EXCEPT ![s] = "close"]
  /\ UNCHANGED <<durable, flock, index, waits, addr, calls, failures, lost>>

\* The write raises.  The file is closed and the address, which "puts" has
\* in the buffer of the standard output, is printed all the same.
WriteFails(s) ==
  /\ pc[s] = "write"
  /\ failures < MaxFailures
  /\ failures' = failures + 1
  /\ lost' = lost + 1
  /\ pc' = [pc EXCEPT ![s] = "close"]
  /\ UNCHANGED <<counter, durable, flock, index, waits, addr, calls>>

\* The end of the File.open block.
Close(s) ==
  /\ pc[s] = "close"
  /\ flock' = None
  /\ pc' = [pc EXCEPT ![s] = "answer"]
  /\ UNCHANGED <<counter, durable, index, waits, addr, calls, failures, lost>>

\* The end of the script: its standard output is flushed, and a caller that
\* still waits takes any output for an address, whatever the exit status.
Answer(s) ==
  /\ pc[s] = "answer"
  /\ addr' = [c \in Container |-> IF waits[c] = s THEN Address(index[s]) ELSE addr[c]]
  /\ waits' = [c \in Container |-> IF waits[c] = s THEN None ELSE waits[c]]
  /\ pc' = [pc EXCEPT ![s] = "dead"]
  /\ UNCHANGED <<counter, durable, flock, index, calls, failures, lost>>

\* Mutant: a lock file, which outlives its owner, in place of flock(2).
KilledLeavingLock(s) ==
  /\ pc[s] \in {"flock", "write", "close", "answer"}
  /\ pc' = [pc EXCEPT ![s] = "dead"]
  /\ UNCHANGED <<counter, durable, flock, index, waits, addr, calls, failures, lost>>

\* A killed script prints nothing; the kernel drops its lock.
Killed(s) ==
  /\ pc[s] \in {"flock", "write", "close", "answer"}
  /\ flock' = IF flock = s THEN None ELSE flock
  /\ pc' = [pc EXCEPT ![s] = "dead"]
  /\ UNCHANGED <<counter, durable, index, waits, addr, calls, failures, lost>>

\* The kernel writes the page back.
WriteBack ==
  /\ durable # counter
  /\ durable' = counter
  /\ UNCHANGED <<counter, flock, pc, index, waits, addr, calls, failures, lost>>

\* The coordinator crashes and comes back with what was on its disk.
Crash ==
  /\ failures < MaxFailures
  /\ failures' = failures + 1
  /\ counter' = durable
  /\ lost' = lost + (counter - durable)
  /\ flock' = None
  /\ pc' = [s \in Script |-> IF pc[s] = "none" THEN "none" ELSE "dead"]
  /\ UNCHANGED <<durable, index, waits, addr, calls>>

Runs(s) == Read(s) \/ Write(s) \/ Close(s) \/ Answer(s)

Next ==
  \/ \E c \in Container : Call(c) \/ Disconnect(c) \/ NoOutput(c)
  \/ \E s \in Script : Runs(s) \/ WriteFails(s) \/ Killed(s)
  \/ WriteBack
  \/ Crash

\* A script that runs goes on, and a caller sees the end of its script.
Fairness ==
  /\ \A s \in Script : WF_vars(Runs(s))
  /\ \A c \in Container : WF_vars(NoOutput(c))

Spec == Init /\ [][Next]_vars

FairSpec == Spec /\ Fairness

-----------------------------------------------------------------------------
(* Properties. *)

HasAddress == {c \in Container : addr[c] # NoAddress}

\* As long as every increment reached the disk no two containers of the
\* cluster have one address, whoever gave up, was killed or asked again in
\* between.
DistinctAddresses ==
  lost = 0 => \A c, d \in HasAddress : addr[c] = addr[d] => c = d

\* A lost increment costs at most one address: get_ip.rb prints before it
\* writes and its caller does not look at its status, so a failed write, or a
\* crash before the write is on the disk, makes two containers share one,
\* but never more than were lost.
SharedOnlyIfLost ==
  Cardinality(HasAddress) <= Cardinality({addr[c] : c \in HasAddress}) + lost

\* Both octets are octets until 32767 addresses were given; nothing in
\* get_ip.rb notices when they are used up.
OctetsUntilExhausted ==
  counter <= 32768 /\ lost = 0 =>
    \A c \in HasAddress : addr[c][1] <= 255 /\ addr[c][2] <= 255

\* Addresses are accounted for, at the limits of get_ip.rb too: every address that
\* is shared was lost by a write, and every one below the limit is an address.
AddressesAccounted == SharedOnlyIfLost /\ OctetsUntilExhausted

\* The lock is never left behind: a caller gets its address or its error.
CallReturns == \A c \in Container : waits[c] # None ~> waits[c] = None

\* Why addresses are distinct: an index that was read is below the counter
\* except for the script that is about to write, and no index is in two
\* places.  Indices in containers are told by their address.
IndexInv ==
  /\ First <= durable /\ durable <= counter
  /\ \A s \in Script : pc[s] \in {"write", "close"} <=> flock = s
  /\ \A s \in Script : pc[s] = "none" <=> s > calls
  /\ \A s \in Script : pc[s] = "write" => index[s] = counter
  /\ lost = 0 =>
       /\ \A s \in Script : pc[s] \in {"close", "answer"} => index[s] \in First..counter - 1
       /\ \A s, t \in Script :
            pc[s] \in {"close", "answer"} /\ pc[t] \in {"close", "answer"}
              /\ index[s] = index[t] => s = t
       /\ \A c \in HasAddress : \E i \in First..counter - 1 :
            /\ addr[c] = Address(i)
            /\ \A s \in Script : pc[s] \in {"close", "answer"} => index[s] # i
  /\ \A c \in Container : waits[c] <= calls
  /\ \A c, d \in Container : waits[c] = waits[d] /\ waits[c] # None => c = d
=============================================================================
