--------------------------- MODULE IdleContainers ---------------------------
(***************************************************************************)
(* The rake tasks of master/Rakefile that save memory on a master host.    *)
(* Each cluster has two containers there, hadoop-master-<id> and           *)
(* hue-master-<id>, with a unit of systemd each.  mark_idle leaves a file  *)
(* hadoop-master-<id>.disabled for a cluster nobody uses, cron runs        *)
(* stop_idle every five minutes (config/schedule.rb), start_containers and *)
(* stop_containers are run by hand.  A task reads the directory once and   *)
(* goes through what it has read, while the others do the same.            *)
(***************************************************************************)
EXTENDS Naturals

CONSTANTS
  Cluster,
  MaxMarks,     \* bound: how often mark_idle is run
  MaxHand,      \* bound: how often a task is run by hand
  MaxReboots    \* bound: how often the host reboots

ASSUME IdleAssumption ==
  /\ MaxMarks \in Nat
  /\ MaxHand \in Nat
  /\ MaxReboots \in Nat

Kind == {"hadoop", "hue"}
Task == {"stop_idle", "mark_idle", "start_containers", "stop_containers"}
File == Cluster \X Kind
None == <<>>

VARIABLES
  exists,    \* the clusters whose service files exist
  settled,   \* those whose service files are older than 300 seconds
  busy,      \* the clusters in use: clients in /etc/hosts, live data nodes
  up,        \* up[c]: which containers of c run
  mark,      \* mark[c]: the .disabled file, "old" after 3600 seconds
  seen,      \* history: the clusters that looked idle at some time since they settled
  todo,      \* todo[t]: the files task t has read and not yet come to
  step,      \* step[t]: what t does next
  cur,       \* cur[t]: the file it works on
  marks, hand, reboots

hostVars == <<exists, settled, busy, up, mark>>
taskVars == <<todo, step, cur>>
boundVars == <<marks, hand, reboots>>
vars == <<hostVars, taskVars, boundVars, seen>>

\* Every variable has its type, and only clusters that exist have containers
\* that run: a task that goes through an old reading of the directory starts
\* nothing of a cluster removed since.
TypeOK ==
  /\ exists \subseteq Cluster
  /\ settled \subseteq exists
  /\ busy \subseteq Cluster
  /\ up \in [Cluster -> SUBSET Kind]
  /\ \A c \in Cluster : up[c] # {} => c \in exists
  /\ mark \in [Cluster -> {"none", "fresh", "old"}]
  /\ seen \subseteq Cluster
  /\ todo \in [Task -> SUBSET File]
  /\ step \in [Task -> {"idle", "next", "first", "second", "hosts", "mark",
                       "live", "mark_again"}]
  /\ cur \in [Task -> File \cup {None}]
  /\ marks \in 0..MaxMarks /\ hand \in 0..MaxHand /\ reboots \in 0..MaxReboots

Init ==
  /\ exists = Cluster
  /\ settled = {}
  /\ busy \in SUBSET Cluster
  /\ up = [c \in Cluster |-> Kind]
  /\ mark = [c \in Cluster |-> "none"]
  /\ seen = {}
  /\ todo = [t \in Task |-> {}]
  /\ step = [t \in Task |-> "idle"]
  /\ cur = [t \in Task |-> None]
  /\ marks = 0 /\ hand = 0 /\ reboots = 0

\* systemctl start, which refuses a unit that has no file.
Start(f) == up' = [up EXCEPT ![f[1]] = IF f[1] \in exists THEN @ \cup {f[2]} ELSE @]

Stop(f) == up' = [up EXCEPT ![f[1]] = @ \ {f[2]}]

Hue(f) == <<f[1], "hue">>

-----------------------------------------------------------------------------
(* A task: read the directory, then take file after file. *)

Begin(t, files) ==
  /\ step[t] = "idle"
  /\ todo' = [todo EXCEPT ![t] = files]
  /\ step' = [step EXCEPT ![t] = "next"]
  /\ UNCHANGED <<hostVars, cur>>

Take(t, f, to) ==
  /\ step[t] = "next"
  /\ f \in todo[t]
  /\ todo' = [todo EXCEPT ![t] = @ \ {f}]
  /\ cur' = [cur EXCEPT ![t] = IF to = "next" THEN None ELSE f]
  /\ step' = [step EXCEPT ![t] = to]

Go(t, from, to) ==
  /\ step[t] = from
  /\ step' = [step EXCEPT ![t] = to]
  /\ cur' = IF to = "next" THEN [cur EXCEPT ![t] = None] ELSE cur
  /\ UNCHANGED todo

\* The task has gone through its files.
Finish(t) ==
  /\ todo[t] = {}
  /\ Go(t, "next", "idle")
  /\ UNCHANGED <<hostVars, boundVars>>

\* File.ctime of a file that is gone raises, and the task is over.
Abort(t, f) ==
  /\ step[t] = "next"
  /\ f \in todo[t]
  /\ todo' = [todo EXCEPT ![t] = {}]
  /\ step' = [step EXCEPT ![t] = "idle"]
  /\ UNCHANGED <<cur, hostVars, boundVars>>

Marked == {c \in Cluster : mark[c] # "none"}

\* stop_idle
StopIdle ==
  /\ Begin("stop_idle", Marked \X {"hadoop"})
  /\ UNCHANGED boundVars

StopIdleTakes(f) ==
  \/ /\ mark[f[1]] = "none"
     /\ Abort("stop_idle", f)
  \/ /\ mark[f[1]] # "none"
     /\ Take("stop_idle", f, IF mark[f[1]] = "old" THEN "first" ELSE "next")
     /\ UNCHANGED <<hostVars, boundVars>>

\* Mutant: name.sub! comes before the first "systemctl stop".
StopFirstRenamed ==
  /\ Go("stop_idle", "first", "second")
  /\ Stop(Hue(cur["stop_idle"]))
  /\ UNCHANGED <<exists, settled, busy, mark, boundVars>>

StopFirst ==
  /\ Go("stop_idle", "first", "second")
  /\ Stop(cur["stop_idle"])
  /\ UNCHANGED <<exists, settled, busy, mark, boundVars>>

\* The unit of hue, here and in stop_containers.
StopSecond(t) ==
  /\ Go(t, "second", "next")
  /\ Stop(Hue(cur[t]))
  /\ UNCHANGED <<exists, settled, busy, mark, boundVars>>

\* mark_idle
MarkIdle ==
  /\ marks < MaxMarks
  /\ marks' = marks + 1
  /\ Begin("mark_idle", exists \X {"hadoop"})
  /\ UNCHANGED <<hand, reboots>>

\* Mutant: the age of the service file is not looked at.
MarkIdleTakesNew(f) ==
  \/ /\ f[1] \notin exists
     /\ Abort("mark_idle", f)
  \/ /\ f[1] \in exists
     /\ Take("mark_idle", f, "hosts")
     /\ UNCHANGED <<hostVars, boundVars>>

MarkIdleTakes(f) ==
  \/ /\ f[1] \notin exists
     /\ Abort("mark_idle", f)
  \/ /\ f[1] \in exists
     /\ Take("mark_idle", f, IF f[1] \in settled THEN "hosts" ELSE "next")
     /\ UNCHANGED <<hostVars, boundVars>>

\* A "docker exec" in a container that does not run prints nothing either.
LooksIdle(c) == c \notin busy \/ "hadoop" \notin up[c]

\* The two questions to the container, each followed by its touch.
MarkIdleAsks ==
  /\ LET idle == LooksIdle(cur["mark_idle"][1])
     IN \/ Go("mark_idle", "hosts", IF idle THEN "mark" ELSE "live")
        \/ Go("mark_idle", "live", IF idle THEN "mark_again" ELSE "next")
  /\ UNCHANGED <<hostVars, boundVars>>

\* touch: the file is there, and its ctime is now.
Touch ==
  /\ \/ Go("mark_idle", "mark", "live")
     \/ Go("mark_idle", "mark_again", "next")
  /\ mark' = [mark EXCEPT ![cur["mark_idle"][1]] = "fresh"]
  /\ UNCHANGED <<exists, settled, busy, up, boundVars>>

\* start_containers and stop_containers, which read the files of both kinds.
ByHand(t) ==
  /\ t \in {"start_containers", "stop_containers"}
  /\ hand < MaxHand
  /\ hand' = hand + 1
  /\ Begin(t, exists \X Kind)
  /\ UNCHANGED <<marks, reboots>>

\* "unless" a .disabled file of this name exists; hue has none, ever.
StartTakes(f) ==
  /\ Take("start_containers", f, IF f[2] = "hadoop" THEN "second" ELSE "next")
  /\ IF f[2] = "hadoop" /\ mark[f[1]] # "none" THEN UNCHANGED up ELSE Start(f)
  /\ UNCHANGED <<exists, settled, busy, mark, boundVars>>

\* sub! has changed name itself: the file that is looked for is the one of
\* hue, which is never there.
StartSecond ==
  /\ Go("start_containers", "second", "next")
  /\ Start(Hue(cur["start_containers"]))
  /\ UNCHANGED <<exists, settled, busy, mark, boundVars>>

StopTakes(f) ==
  /\ Take("stop_containers", f, IF f[2] = "hadoop" THEN "second" ELSE "next")
  /\ Stop(f)
  /\ UNCHANGED <<exists, settled, busy, mark, boundVars>>

-----------------------------------------------------------------------------
(* The host and its clusters. *)

\* 300 seconds after the service file was written.
Settle(c) ==
  /\ c \in exists \ settled
  /\ settled' = settled \cup {c}
  /\ UNCHANGED <<exists, busy, up, mark, taskVars, boundVars>>

\* 3600 seconds after the touch: the service file is older than that, too.
MarkAges(c) ==
  /\ mark[c] = "fresh"
  /\ c \in exists => c \in settled
  /\ mark' = [mark EXCEPT ![c] = "old"]
  /\ UNCHANGED <<exists, settled, busy, up, taskVars, boundVars>>

\* Clients come, or leave.
Use(c) ==
  /\ busy' = IF c \in busy THEN busy \ {c} ELSE busy \cup {c}
  /\ c \in exists
  /\ UNCHANGED <<exists, settled, up, mark, taskVars, boundVars>>

\* ddestroy of both containers; cluster ids are not used again.
Remove(c) ==
  /\ c \in exists
  /\ exists' = exists \ {c}
  /\ settled' = settled \ {c}
  /\ busy' = busy \ {c}
  /\ up' = [up EXCEPT ![c] = {}]
  /\ mark' = [mark EXCEPT ![c] = "none"]
  /\ UNCHANGED <<taskVars, boundVars>>

\* systemd starts every enabled unit; the tasks are gone, the files stay.
Reboot ==
  /\ reboots < MaxReboots
  /\ reboots' = reboots + 1
  /\ up' = [c \in Cluster |-> IF c \in exists THEN Kind ELSE {}]
  /\ todo' = [t \in Task |-> {}]
  /\ step' = [t \in Task |-> "idle"]
  /\ cur' = [t \in Task |-> None]
  /\ UNCHANGED <<exists, settled, busy, mark, marks, hand>>

StopIdleStep ==
  \/ \E f \in File : StopIdleTakes(f)
  \/ StopFirst \/ StopSecond("stop_idle") \/ Finish("stop_idle")

OtherStep ==
  \/ \E f \in File : MarkIdleTakes(f) \/ StartTakes(f) \/ StopTakes(f)
  \/ MarkIdleAsks \/ Touch \/ StartSecond \/ StopSecond("stop_containers")
  \/ \E t \in Task \ {"stop_idle"} : Finish(t)

Step ==
  \/ StopIdle \/ StopIdleStep \/ OtherStep
  \/ MarkIdle
  \/ \E t \in Task : ByHand(t)
  \/ \E c \in Cluster : Settle(c) \/ MarkAges(c) \/ Use(c) \/ Remove(c)
  \/ Reboot

\* What mark_idle would have found, had it asked after the step.
Next == Step /\ seen' = seen \cup {c \in Cluster : c \in settled' /\ LooksIdle(c)'}

\* cron runs stop_idle every five minutes, and time passes.  Nobody has to
\* run the other tasks, nor to let them end.
Fairness ==
  /\ WF_vars(StopIdle /\ Next) /\ WF_vars(StopIdleStep /\ Next)
  /\ \A c \in Cluster : WF_vars(Settle(c) /\ Next) /\ WF_vars(MarkAges(c) /\ Next)

Spec == Init /\ [][Next]_vars

FairSpec == Spec /\ Fairness

-----------------------------------------------------------------------------
(* Properties. *)

Steps(t) == reboots' = reboots /\ <<step[t], todo[t]>> # <<step'[t], todo'[t]>>

\* A container that stop_idle stops belongs to a cluster that was out of use
\* at some time after its first 300 seconds: the containers of a new cluster
\* have no clients yet, mark_idle must not take them for idle ones (Rakefile
\* 99), and stop_idle, which knows the mark alone, comes an hour later, when
\* the cluster may never have been idle, whatever reboots, removals and other
\* tasks came between.
StopsOnceIdle ==
  [][\A c \in exists : Steps("stop_idle") /\ ~(up[c] \subseteq up'[c]) => c \in seen]_vars

\* When nobody runs tasks by hand any more and the host stays up, both
\* containers of every marked cluster come to a stop for good, although
\* reboots, start_containers and a stop_idle that aborts have come in between.
IdleStops == \A c \in Cluster : <>[](mark[c] # "none" => up[c] = {})

\* desc "Stop idle containers" (Rakefile 81): a cluster that stop_idle decides
\* to stop is not in use.
StopsIdleOnly ==
  [][step["stop_idle"] = "next" /\ step'["stop_idle"] = "first" => cur'["stop_idle"][1] \notin busy]_vars

\* desc "Start non-idle containers" (Rakefile 119): a container that
\* start_containers starts is one of a cluster without a mark.
StartsNonIdleOnly ==
  [][\A c \in Cluster :
       Steps("start_containers") /\ up'[c] # up[c] => mark[c] = "none"]_vars
=============================================================================
