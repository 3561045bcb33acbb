------------------------ MODULE IdleContainersProofs ------------------------
(***************************************************************************)
(* Proofs about IdleContainers: the types, and that stop_idle stops        *)
(* clusters only that were out of use once after their first 300 seconds,  *)
(* for every number of clusters, runs of the tasks and reboots.            *)
(***************************************************************************)
EXTENDS IdleContainers, TLAPS

-----------------------------------------------------------------------------
(* The inductive invariant. *)

\* A task that works on a file has one.
Working == \A t \in Task : step[t] \notin {"idle", "next"} => cur[t] \in File

\* Whatever will stop the containers of c goes back to a time when c looked idle: its
\* mark, what stop_idle has read and works on, and the touch mark_idle is about to do;
\* and mark_idle asks about clusters only that have settled.
Earned(c) ==
  /\ mark[c] # "none" => c \in seen
  /\ \A f \in todo["stop_idle"] : f[1] = c => c \in seen
  /\ step["stop_idle"] \in {"first", "second"} /\ cur["stop_idle"][1] = c => c \in seen
  /\ step["mark_idle"] \in {"mark", "mark_again"} /\ cur["mark_idle"][1] = c => c \in seen
  /\ step["mark_idle"] \notin {"idle", "next"} /\ cur["mark_idle"][1] = c => c \in settled

IdleInv == TypeOK /\ Working /\ \A c \in exists : Earned(c)

\* Tasks and the steps they go through.
LEMMA Names ==
  /\ {"stop_idle", "mark_idle", "start_containers", "stop_containers"} = Task
  /\ \A f \in File : f[1] \in Cluster /\ f[2] \in Kind /\ Hue(f) \in File /\ Hue(f)[1] = f[1] /\ f # None
BY DEF Task, File, Kind, Hue, None

-----------------------------------------------------------------------------
(* The types. *)

\* "systemctl start" and "systemctl stop" keep the types.
LEMMA UnitsTyped ==
  ASSUME TypeOK, NEW f \in File
  PROVE  /\ Start(f) => up' \in [Cluster -> SUBSET Kind] /\ \A c \in Cluster : up'[c] # {} => c \in exists
         /\ Stop(f) => up' \in [Cluster -> SUBSET Kind] /\ \A c \in Cluster : up'[c] # {} => c \in exists
BY Names DEF TypeOK, Start, Stop

\* One step of a task, whatever the task does to the host.
LEMMA TakeTyped ==
  ASSUME TypeOK, Working, NEW t \in Task, NEW f \in File,
         NEW to \in {"next", "first", "second", "hosts"}, Take(t, f, to)
  PROVE  /\ todo' \in [Task -> SUBSET File]
         /\ step' \in [Task -> {"idle", "next", "first", "second", "hosts", "mark", "live", "mark_again"}]
         /\ cur' \in [Task -> File \cup {None}] /\ Working'
BY DEF TypeOK, Working, Take

\* A step of a task on the file it has.
LEMMA GoTyped ==
  ASSUME TypeOK, Working, NEW t \in Task, NEW from, NEW to, Go(t, from, to),
         from \notin {"idle", "next"} \/ to \in {"idle", "next"},
         to \in {"idle", "next", "first", "second", "hosts", "mark", "live", "mark_again"}
  PROVE  /\ todo' \in [Task -> SUBSET File]
         /\ step' \in [Task -> {"idle", "next", "first", "second", "hosts", "mark", "live", "mark_again"}]
         /\ cur' \in [Task -> File \cup {None}] /\ Working'
BY DEF TypeOK, Working, Go

\* The start of a task: the directory is read.
LEMMA BeginTyped ==
  ASSUME TypeOK, Working, NEW t \in Task, NEW files \in SUBSET File, Begin(t, files)
  PROVE  /\ UNCHANGED hostVars /\ todo' \in [Task -> SUBSET File]
         /\ step' \in [Task -> {"idle", "next", "first", "second", "hosts", "mark", "live", "mark_again"}]
         /\ cur' \in [Task -> File \cup {None}] /\ Working'
BY DEF TypeOK, Working, Begin

\* The types hold when the rake tasks are installed.
LEMMA TypeInit == Init => TypeOK /\ Working
BY IdleAssumption DEF Init, TypeOK, Working

\* Every step keeps them; a task that stops or starts a unit has a file.
LEMMA TypeNext ==
  ASSUME TypeOK, Working, [Next]_vars
  PROVE  TypeOK' /\ Working'
<1>. USE DEF hostVars, taskVars, boundVars
<1>0. seen' \subseteq Cluster
  BY DEF Next, vars, TypeOK
<1>1. CASE StopIdle
  <2>1. Marked \X {"hadoop"} \in SUBSET File
    BY DEF Marked, File, Kind
  <2>. QED
    BY <1>0, <1>1, <2>1, BeginTyped, Names DEF StopIdle, TypeOK, Begin
<1>2. CASE MarkIdle
  <2>1. exists \X {"hadoop"} \in SUBSET File
    BY DEF TypeOK, File, Kind
  <2>2. /\ UNCHANGED hostVars /\ todo' \in [Task -> SUBSET File]
        /\ step' \in [Task -> {"idle", "next", "first", "second", "hosts", "mark", "live", "mark_again"}]
        /\ cur' \in [Task -> File \cup {None}] /\ Working'
    BY <1>2, <2>1, BeginTyped, Names DEF MarkIdle
  <2>. QED
    BY <1>0, <1>2, <2>1, <2>2, IdleAssumption DEF MarkIdle, TypeOK
<1>3. ASSUME NEW t \in Task, ByHand(t) PROVE TypeOK' /\ Working'
  <2>1. exists \X Kind \in SUBSET File
    BY DEF TypeOK, File
  <2>2. /\ UNCHANGED hostVars /\ todo' \in [Task -> SUBSET File]
        /\ step' \in [Task -> {"idle", "next", "first", "second", "hosts", "mark", "live", "mark_again"}]
        /\ cur' \in [Task -> File \cup {None}] /\ Working'
    BY <1>3, <2>1, BeginTyped, Names DEF ByHand
  <2>. QED
    BY <1>0, <1>3, <2>1, <2>2, IdleAssumption DEF ByHand, TypeOK
<1>4. ASSUME NEW t \in Task, NEW f \in File, Abort(t, f) PROVE TypeOK' /\ Working'
  BY <1>0, <1>4 DEF Abort, TypeOK, Working
<1>5. ASSUME NEW t \in Task, Finish(t) PROVE TypeOK' /\ Working'
  BY <1>0, <1>5, GoTyped DEF Finish, TypeOK
<1>6. ASSUME NEW f \in File, StopIdleTakes(f) PROVE TypeOK' /\ Working'
  <2>1. CASE Abort("stop_idle", f)
    BY <2>1, <1>4, Names
  <2>2. CASE /\ Take("stop_idle", f, IF mark[f[1]] = "old" THEN "first" ELSE "next")
             /\ UNCHANGED <<hostVars, boundVars>>
    BY <1>0, <2>2, TakeTyped, Names DEF TypeOK
  <2>. QED
    BY <1>6, <2>1, <2>2 DEF StopIdleTakes
<1>7. CASE StopFirst
  <2>1. cur["stop_idle"] \in File
    BY <1>7, Names DEF Working, StopFirst, Go
  <2>. QED
    BY <1>0, <1>7, <2>1, GoTyped, UnitsTyped, Names DEF StopFirst, TypeOK
<1>8. ASSUME NEW t \in Task, StopSecond(t) PROVE TypeOK' /\ Working'
  <2>1. cur[t] \in File /\ Hue(cur[t]) \in File
    BY <1>8, Names DEF Working, StopSecond, Go
  <2>. QED
    BY <1>0, <1>8, <2>1, GoTyped, UnitsTyped, Names DEF StopSecond, TypeOK
<1>9. ASSUME NEW f \in File, MarkIdleTakes(f) PROVE TypeOK' /\ Working'
  <2>1. CASE Abort("mark_idle", f)
    BY <2>1, <1>4, Names
  <2>2. CASE /\ Take("mark_idle", f, IF f[1] \in settled THEN "hosts" ELSE "next")
             /\ UNCHANGED <<hostVars, boundVars>>
    BY <1>0, <2>2, TakeTyped, Names DEF TypeOK
  <2>. QED
    BY <1>9, <2>1, <2>2 DEF MarkIdleTakes
<1>10. ASSUME NEW f \in File, StartTakes(f) PROVE TypeOK' /\ Working'
  <2>1. /\ up' \in [Cluster -> SUBSET Kind]
        /\ \A c \in Cluster : up'[c] # {} => c \in exists
    BY <1>0, <1>10, UnitsTyped DEF StartTakes, TypeOK
  <2>. QED
    BY <1>0, <1>10, <2>1, TakeTyped, Names DEF StartTakes, TypeOK
<1>11. ASSUME NEW f \in File, StopTakes(f) PROVE TypeOK' /\ Working'
  BY <1>0, <1>11, UnitsTyped, TakeTyped, Names DEF StopTakes, TypeOK
<1>12. CASE MarkIdleAsks
  BY <1>0, <1>12, GoTyped, Names DEF MarkIdleAsks, TypeOK
<1>13. CASE Touch
  BY <1>0, <1>13, GoTyped, Names DEF Touch, TypeOK
<1>14. CASE StartSecond
  <2>1. Hue(cur["start_containers"]) \in File
    BY <1>14, Names DEF Working, StartSecond, Go
  <2>. QED
    BY <1>0, <1>14, <2>1, GoTyped, UnitsTyped, Names DEF StartSecond, TypeOK
<1>15. ASSUME NEW c \in Cluster, Settle(c) \/ MarkAges(c) \/ Use(c) \/ Remove(c)
       PROVE  TypeOK' /\ Working'
  BY <1>0, <1>15 DEF Settle, MarkAges, Use, Remove, TypeOK, Working
<1>16. CASE Reboot
  BY <1>0, <1>16, IdleAssumption DEF Reboot, TypeOK, Working
<1>17. CASE UNCHANGED vars
  BY <1>0, <1>17 DEF vars, TypeOK, Working
<1>. QED
  BY <1>1, <1>2, <1>3, <1>5, <1>6, <1>7, <1>8, <1>9, <1>10, <1>11, <1>12, <1>13, <1>14, <1>15, <1>16, <1>17, Names
     DEF Next, Step, StopIdleStep, OtherStep

-----------------------------------------------------------------------------
(* Marks. *)

\* No cluster has a mark at first, and no task runs.
LEMMA EarnedInit == Init => \A c \in exists : Earned(c)
BY Names DEF Init, Earned

\* Clusters come to no new life, and what has settled or looked idle has done so.
LEMMA Grows ==
  ASSUME IdleInv, [Next]_vars
  PROVE  /\ exists' \subseteq exists /\ seen \subseteq seen'
         /\ \A c \in exists' : c \in settled => c \in settled'
<1>. USE DEF hostVars, taskVars, boundVars
<1>1. seen \subseteq seen'
  BY DEF Next, vars
<1>2. exists' \subseteq exists /\ \A c \in exists' : c \in settled => c \in settled'
  BY DEF Next, Step, vars, StopIdle, MarkIdle, ByHand, Begin, StopIdleStep, OtherStep, StopIdleTakes, Abort, Take,
     StopFirst, StopSecond, Go, Finish, MarkIdleTakes, StartTakes, StopTakes, MarkIdleAsks, Touch, StartSecond,
     Settle, MarkAges, Use, Remove, Reboot
<1>. QED
  BY <1>1, <1>2

\* The question of mark_idle leaves a trace: what looks idle to it is in seen.
LEMMA AskSees ==
  ASSUME IdleInv, Next, MarkIdleAsks, NEW c \in settled, LooksIdle(c)
  PROVE  c \in seen'
BY DEF Next, MarkIdleAsks, hostVars, LooksIdle, IdleInv, TypeOK

\* mark_idle gives a mark to what has settled and looked idle, and stop_idle goes by the
\* marks it has read.
LEMMA EarnedNext ==
  ASSUME IdleInv, [Next]_vars
  PROVE  (\A c \in exists : Earned(c))'
<1>. SUFFICES ASSUME NEW c \in exists' PROVE Earned(c)'
  OBVIOUS
<1>. USE DEF hostVars, taskVars, boundVars
<1>1. Earned(c) /\ c \in Cluster /\ TypeOK /\ Working
  BY Grows DEF IdleInv, TypeOK
<1>2. /\ c \in exists /\ (c \in seen => c \in seen')
      /\ (c \in settled => c \in settled')
  BY Grows
<1>3. CASE StopIdle
  <2>1. todo'["stop_idle"] = Marked \X {"hadoop"} /\ step'["stop_idle"] = "next"
    BY <1>1, <1>3, Names DEF StopIdle, Begin, TypeOK
  <2>2. c \in Marked => c \in seen
    BY <1>1 DEF Earned, Marked
  <2>. QED
    BY <1>1, <1>2, <1>3, <2>1, <2>2, Names DEF StopIdle, Begin, TypeOK, Earned
<1>4. CASE MarkIdle
  BY <1>1, <1>2, <1>4, Names DEF MarkIdle, Begin, TypeOK, Earned
<1>5. ASSUME NEW t \in Task, ByHand(t) PROVE Earned(c)'
  BY <1>1, <1>2, <1>5, Names DEF ByHand, Begin, TypeOK, Earned
<1>6. ASSUME NEW t \in Task, NEW f \in File, Abort(t, f) PROVE Earned(c)'
  BY <1>1, <1>2, <1>6, Names DEF Abort, TypeOK, Earned
<1>7. ASSUME NEW t \in Task, Finish(t) PROVE Earned(c)'
  BY <1>1, <1>2, <1>7, Names DEF Finish, Go, TypeOK, Earned
<1>8. ASSUME NEW f \in File, StopIdleTakes(f) PROVE Earned(c)'
  <2>1. CASE Abort("stop_idle", f)
    BY <2>1, <1>6, Names
  <2>2. CASE /\ Take("stop_idle", f, IF mark[f[1]] = "old" THEN "first" ELSE "next")
             /\ UNCHANGED <<hostVars, boundVars>>
    BY <1>1, <1>2, <2>2, Names DEF Take, TypeOK, Earned
  <2>. QED
    BY <1>8, <2>1, <2>2 DEF StopIdleTakes
<1>9. CASE StopFirst
  BY <1>1, <1>2, <1>9, Names DEF StopFirst, Go, TypeOK, Earned
<1>10. ASSUME NEW t \in Task, StopSecond(t) PROVE Earned(c)'
  BY <1>1, <1>2, <1>10, Names DEF StopSecond, Go, TypeOK, Earned
<1>11. ASSUME NEW f \in File, MarkIdleTakes(f) PROVE Earned(c)'
  <2>1. CASE Abort("mark_idle", f)
    BY <2>1, <1>6, Names
  <2>2. CASE /\ Take("mark_idle", f, IF f[1] \in settled THEN "hosts" ELSE "next")
             /\ UNCHANGED <<hostVars, boundVars>>
    BY <1>1, <1>2, <2>2, Names DEF Take, TypeOK, Earned
  <2>. QED
    BY <1>11, <2>1, <2>2 DEF MarkIdleTakes
<1>12. ASSUME NEW f \in File, StartTakes(f) \/ StopTakes(f) PROVE Earned(c)'
  BY <1>1, <1>2, <1>12, Names DEF StartTakes, StopTakes, Take, TypeOK, Earned
<1>13. CASE MarkIdleAsks /\ Next
  <2>1. cur' = cur \/ step'["mark_idle"] = "next"
    BY <1>1, <1>13, Names DEF MarkIdleAsks, Go, TypeOK
  <2>2. step'["mark_idle"] \in {"mark", "mark_again"} /\ cur["mark_idle"][1] = c => c \in seen'
    <3>1. step'["mark_idle"] \in {"mark", "mark_again"} => LooksIdle(cur["mark_idle"][1])
      BY <1>1, <1>13, Names DEF MarkIdleAsks, Go, TypeOK
    <3>2. cur["mark_idle"][1] = c => c \in settled
      BY <1>1, <1>13, Names DEF MarkIdleAsks, Go, TypeOK, Earned
    <3>. QED
      BY <1>13, <3>1, <3>2, AskSees
  <2>3. step'["mark_idle"] \notin {"idle", "next"} /\ cur'["mark_idle"][1] = c => c \in settled'
    BY <1>1, <1>2, <1>13, <2>1, Names DEF MarkIdleAsks, Go, TypeOK, Earned
  <2>4. /\ mark' = mark /\ todo' = todo /\ step'["stop_idle"] = step["stop_idle"]
        /\ cur'["stop_idle"] = cur["stop_idle"]
    BY <1>1, <1>13, Names DEF MarkIdleAsks, Go, TypeOK
  <2>. QED
    BY <1>1, <1>2, <2>1, <2>2, <2>3, <2>4 DEF Earned
<1>14. CASE Touch
  <2>1. cur["mark_idle"] \in File /\ (cur["mark_idle"][1] = c => c \in seen)
    BY <1>1, <1>14, Names DEF Touch, Go, Working, Earned
  <2>. QED
    BY <1>1, <1>2, <1>14, <2>1, Names DEF Touch, Go, TypeOK, Earned
<1>15. CASE StartSecond
  BY <1>1, <1>2, <1>15, Names DEF StartSecond, Go, TypeOK, Earned
<1>16. ASSUME NEW d \in Cluster, Settle(d) \/ MarkAges(d) \/ Use(d) \/ Remove(d) PROVE Earned(c)'
  BY <1>1, <1>2, <1>16 DEF Settle, MarkAges, Use, Remove, TypeOK, Earned
<1>17. CASE Reboot
  BY <1>1, <1>2, <1>17, Names DEF Reboot, Earned
<1>18. CASE UNCHANGED vars
  BY <1>1, <1>18 DEF vars, Earned
<1>. QED
  BY <1>3, <1>4, <1>5, <1>7, <1>8, <1>9, <1>10, <1>11, <1>12, <1>13, <1>14, <1>15, <1>16, <1>17, <1>18, Names
     DEF Next, Step, StopIdleStep, OtherStep

-----------------------------------------------------------------------------
(* The theorems. *)

\* The types, and that only clusters that exist have containers that run: no task starts
\* a unit of a cluster that was removed while it went through its files (systemctl start).
THEOREM IdleTypeCorrect == Spec => []TypeOK
<1>1. TypeOK /\ Working /\ [Next]_vars => TypeOK' /\ Working'
  BY TypeNext
<1>. QED
  BY <1>1, TypeInit, PTL DEF Spec

\* The inductive invariant of the tasks: every mark, and every step that will act upon
\* one, goes back to a cluster that settled and then looked idle.
THEOREM IdleInvariance == Spec => []IdleInv
<1>1. Init => IdleInv
  BY TypeInit, EarnedInit DEF IdleInv
<1>2. IdleInv /\ [Next]_vars => IdleInv'
  BY TypeNext, EarnedNext DEF IdleInv
<1>. QED
  BY <1>1, <1>2, PTL DEF Spec

\* One step of anything, seen from a cluster of which it stops a container.
LEMMA StopStep ==
  ASSUME IdleInv, [Next]_vars, NEW c \in exists, Steps("stop_idle"), ~(up[c] \subseteq up'[c])
  PROVE  c \in seen
<1>. USE DEF hostVars, taskVars, boundVars
<1>1. Earned(c) /\ c \in Cluster /\ TypeOK /\ Working
  BY DEF IdleInv, TypeOK
<1>2. up' # up /\ reboots' = reboots /\ <<step["stop_idle"], todo["stop_idle"]>> # <<step'["stop_idle"], todo'["stop_idle"]>>
  BY <1>1 DEF Steps, TypeOK
<1>3. ASSUME NEW f \in File, Stop(f) PROVE f[1] = c
  BY <1>1, <1>3, Names DEF Stop, TypeOK
<1>4. CASE StopFirst
  <2>1. cur["stop_idle"] \in File /\ (cur["stop_idle"][1] = c => c \in seen)
    BY <1>1, <1>4, Names DEF StopFirst, Go, Working, Earned
  <2>. QED
    BY <1>3, <1>4, <2>1 DEF StopFirst
<1>5. CASE StopSecond("stop_idle")
  <2>1. /\ Hue(cur["stop_idle"]) \in File /\ Hue(cur["stop_idle"])[1] = cur["stop_idle"][1]
        /\ (cur["stop_idle"][1] = c => c \in seen)
    BY <1>1, <1>5, Names DEF StopSecond, Go, Working, Earned
  <2>. QED
    BY <1>3, <1>5, <2>1 DEF StopSecond
<1>6. ASSUME NEW t \in Task \ {"stop_idle"}, NEW from, NEW to, Go(t, from, to) PROVE FALSE
  BY <1>1, <1>2, <1>6 DEF Go, TypeOK
<1>7. ASSUME NEW t \in Task \ {"stop_idle"}, NEW f, NEW to, Take(t, f, to) PROVE FALSE
  BY <1>1, <1>2, <1>7 DEF Take, TypeOK
<1>8. ASSUME NEW d \in Cluster, Settle(d) \/ MarkAges(d) \/ Use(d) \/ Remove(d) PROVE FALSE
  BY <1>2, <1>8 DEF Settle, MarkAges, Use, Remove
<1>9. CASE Reboot
  BY <1>1, <1>2, <1>9 DEF Reboot, TypeOK
<1>10. ASSUME NEW f \in File, StartTakes(f) \/ StopTakes(f) PROVE FALSE
  BY <1>7, <1>10, Names DEF StartTakes, StopTakes
<1>11. CASE StartSecond \/ StopSecond("stop_containers")
  BY <1>6, <1>11, Names DEF StartSecond, StopSecond
<1>. QED
  BY <1>2, <1>4, <1>5, <1>8, <1>9, <1>10, <1>11
     DEF Next, Step, vars, StopIdle, MarkIdle, ByHand, Begin, StopIdleStep, OtherStep, StopIdleTakes, Abort,
       Finish, MarkIdleTakes, MarkIdleAsks, Touch

\* A cluster of which stop_idle stops a container was out of use once after its first 300
\* seconds (Rakefile 99): no order of cron, mark_idle, removals, reboots and tasks by hand
\* lets the age of a mark (Rakefile 85) stand in for the age of the cluster.
THEOREM StoppedOnceIdle == Spec => StopsOnceIdle
<1>1. IdleInv /\ [Next]_vars =>
        [\A c \in exists : Steps("stop_idle") /\ ~(up[c] \subseteq up'[c]) => c \in seen]_vars
  BY StopStep
<1>. QED
  BY <1>1, IdleInvariance, PTL DEF Spec, StopsOnceIdle
=============================================================================
