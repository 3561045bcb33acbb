----------------------------- MODULE AppProvision -----------------------------
(***************************************************************************)
(* run_container.rb and remove_container.rb: the application containers of *)
(* a node, each created, configured and started by a process of its own,   *)
(* created anew by a later one, and removed, while docker, systemd, the    *)
(* bootstrap scripts, failures and reboots take their own steps.           *)
(*                                                                         *)
(* Each run finds out what it has to do: an application of the hub, whose  *)
(* image has a main process of its own, is only started; any other gets    *)
(* /etc/bootstrap for its main process and, when the run finds templates   *)
(* for it in git or in the image, these, under /INIT_LOCK; when it finds   *)
(* none, because there are none or because git could not be reached, its   *)
(* script /opt/gex/configure.sh is run, without a lock.                    *)
(***************************************************************************)
EXTENDS ContainerBoot

CONSTANTS
  Iterations,   \* iterator_exec's parameter
  MaxRuns,      \* bound: how often run_container.rb is started for a container
  MaxFaults     \* bound: how many failures the environment injects

ASSUME AppAssumption ==
  /\ Iterations \in Nat
  /\ MaxRuns \in Nat
  /\ MaxFaults \in Nat

VARIABLES
  way,       \* way[c]: what the last run has found out about c
  main,      \* main[c]: the main process c was last created with
  pc,        \* pc[c]: where the process that works on c stands
  tries,     \* tries[c]: i of its iterator_exec
  outcome,   \* outcome[c]: how the last run_container.rb for c ended
  runs,      \* runs[c]: how often run_container.rb was started for c
  faults     \* how many failures there were

appVars == <<aws, way, main, pc, tries, outcome, runs, faults>>
vars == <<containerVars, appVars>>

\* The steps of a run and, after "drop", those of remove_container.rb.
Steps == {"uninstall", "remove", "create", "pull", "lock", "start", "wait_boot", "configure",
          "unlock", "check", "svc_stop", "svc_start", "svc_wait", "vpn", "wait",
          "drop", "drop_box"}

ProcessTypeOK ==
  /\ way \in [Container -> {"none", "hub", "open", "templates", "script"}]
  /\ main \in [Container -> {"own", "bootstrap"}]
  /\ pc \in [Container -> Steps \cup {"idle"}]
  /\ tries \in [Container -> 0..Iterations + 1]
  /\ outcome \in [Container -> {"none", "ok", "failed"}]
  /\ runs \in [Container -> 0..MaxRuns]
  /\ faults \in 0..MaxFaults

TypeOK == ContainerTypeOK /\ ProcessTypeOK

Init ==
  /\ ContainerInit
  /\ way = [c \in Container |-> "none"]
  /\ main = [c \in Container |-> "own"]
  /\ pc = [c \in Container |-> "idle"]
  /\ tries = [c \in Container |-> 0]
  /\ outcome = [c \in Container |-> "none"]
  /\ runs = [c \in Container |-> 0]
  /\ faults = 0

\* c's process goes from one step to another and does nothing else of its own.
Move(c, from, to) ==
  /\ pc[c] = from
  /\ pc' = [pc EXCEPT ![c] = to]
  /\ UNCHANGED <<aws, way, main, tries, outcome, runs, faults>>

\* c's process ends.
End(c, how) ==
  /\ pc' = [pc EXCEPT ![c] = "idle"]
  /\ outcome' = [outcome EXCEPT ![c] = how]
  /\ UNCHANGED <<aws, way, main, tries, runs>>

Fault ==
  /\ faults < MaxFaults
  /\ faults' = faults + 1

-----------------------------------------------------------------------------
(* run_container.rb *)

\* The configuration of the application says whether it is one of the hub
\* (is_apphub).
StartRun(c) ==
  /\ pc[c] = "idle"
  /\ runs[c] < MaxRuns
  /\ runs' = [runs EXCEPT ![c] = @ + 1]
  /\ outcome' = [outcome EXCEPT ![c] = "none"]
  /\ tries' = [tries EXCEPT ![c] = 0]
  /\ \/ way' = [way EXCEPT ![c] = "hub"]  /\ pc' = [pc EXCEPT ![c] = "uninstall"]
     \/ way' = [way EXCEPT ![c] = "open"] /\ pc' = [pc EXCEPT ![c] = "remove"]
  /\ UNCHANGED <<containerVars, aws, main, faults>>

\* install_container: ddestroy disables the service and removes its file, but
\* does not stop it, and removes the container.
Uninstall(c) ==
  /\ Move(c, "uninstall", "remove")
  /\ RmContainer(c)
  /\ enabled' = [enabled EXCEPT ![c] = FALSE]
  /\ UNCHANGED <<unit, job>>

RemoveOld(c) ==
  /\ Move(c, "remove", "create")
  /\ DockerRm(c)

CreateNew(c) ==
  /\ pc[c] = "create"
  /\ DockerCreate(c, FALSE)
  /\ pc' = [pc EXCEPT ![c] = IF way[c] = "hub" THEN "start" ELSE "pull"]
  /\ main' = [main EXCEPT ![c] = IF way[c] = "hub" THEN "own" ELSE "bootstrap"]
  /\ UNCHANGED <<aws, way, tries, outcome, runs, faults>>

\* Mutant: templates are applied without create_init_lock.
PullUnlocked(c) ==
  /\ pc[c] = "pull"
  /\ \E w \in {"templates", "script"} : way' = [way EXCEPT ![c] = w]
  /\ pc' = [pc EXCEPT ![c] = "start"]
  /\ UNCHANGED <<containerVars, aws, main, tries, outcome, runs, faults>>

\* The clone in git is brought up to date and looked into, and /templates/create
\* is copied from the image; both are rescued, so a run that cannot get at the
\* templates goes on as if there were none.
Pull(c) ==
  /\ pc[c] = "pull"
  /\ \/ way' = [way EXCEPT ![c] = "templates"] /\ pc' = [pc EXCEPT ![c] = "lock"]
     \/ way' = [way EXCEPT ![c] = "script"]    /\ pc' = [pc EXCEPT ![c] = "start"]
  /\ UNCHANGED <<containerVars, aws, main, tries, outcome, runs, faults>>

Lock(c) ==
  /\ Move(c, "lock", "start")
  /\ CreateInitLock(c)

\* dstart: "docker start", which does nothing to a container that runs.
DStart(c) ==
  /\ Move(c, "start", IF way[c] = "hub" THEN "svc_stop" ELSE "wait_boot")
  /\ docker[c] # "absent"
  /\ IF docker[c] = "running" THEN UNCHANGED mainVars ELSE StartMain(c, FALSE)
  /\ UNCHANGED <<fileVars, unitVars>>

WaitBoot(c) ==
  /\ Move(c, "wait_boot", "configure")
  /\ docker[c] = "running"
  /\ UNCHANGED containerVars

\* process_template_trees, or /opt/gex/configure.sh.
Configure(c) ==
  /\ Move(c, "configure", IF way[c] = "templates" THEN "unlock" ELSE "svc_stop")
  /\ docker[c] = "running"
  /\ PushTree(c, IF way[c] = "templates" THEN "full" ELSE "script")

Unlock(c) ==
  /\ Move(c, "unlock", "check")
  /\ CanRemoveInitLock(c)
  /\ RemoveInitLock(c)

\* assert_drunning, the end of provision_and_start_created_container.
Check(c) ==
  /\ Move(c, "check", "svc_stop")
  /\ docker[c] = "running"
  /\ UNCHANGED containerVars

StopService(c) ==
  /\ Move(c, "svc_stop", "svc_start")
  /\ UnitStopDisable(c)

StartService(c) ==
  /\ Move(c, "svc_start", "svc_wait")
  /\ UnitEnableStart(c)

ServiceStarted(c) ==
  /\ Move(c, "svc_wait", "vpn")
  /\ job[c] = "ok"
  /\ UNCHANGED containerVars

RetryService(c) ==
  /\ pc[c] = "svc_wait"
  /\ job[c] = "failed"
  /\ tries[c] <= Iterations
  /\ pc' = [pc EXCEPT ![c] = "svc_stop"]
  /\ tries' = [tries EXCEPT ![c] = @ + 1]
  /\ UNCHANGED <<containerVars, aws, way, main, outcome, runs, faults>>

InstallVpn(c) ==
  /\ Move(c, "vpn", "wait")
  /\ docker[c] = "running"
  /\ UNCHANGED containerVars

WaitUntilRunning(c) ==
  /\ pc[c] = "wait"
  /\ docker[c] = "running"
  /\ End(c, "ok")
  /\ UNCHANGED <<containerVars, faults>>

\* A command that needs what is not there fails and the run is over; nothing
\* of what it has done is undone.
StepRefused(c) ==
  /\ \/ pc[c] = "start" /\ docker[c] = "absent"
     \/ pc[c] \in {"configure", "check", "vpn"} /\ docker[c] # "running"
     \/ pc[c] = "unlock" /\ ~CanRemoveInitLock(c)
     \/ pc[c] = "svc_wait" /\ job[c] = "failed" /\ tries[c] > Iterations
  /\ End(c, "failed")
  /\ UNCHANGED <<containerVars, faults>>

-----------------------------------------------------------------------------
(* remove_container.rb *)

StartRemove(c) ==
  /\ Move(c, "idle", "drop")
  /\ runs[c] > 0
  /\ UNCHANGED containerVars

\* disable_and_stop_container_service: the unit is forgotten, its main
\* process goes on.
DropService(c) ==
  /\ Move(c, "drop", "drop_box")
  /\ unit' = [unit EXCEPT ![c] = "none"]
  /\ enabled' = [enabled EXCEPT ![c] = FALSE]
  /\ job' = [job EXCEPT ![c] = "none"]
  /\ UNCHANGED <<mainVars, fileVars>>

DropContainer(c) ==
  /\ pc[c] = "drop_box"
  /\ DockerRm(c)
  /\ End(c, "none")
  /\ UNCHANGED faults

Works(c) ==
  \/ Uninstall(c) \/ RemoveOld(c) \/ CreateNew(c) \/ Pull(c) \/ Lock(c) \/ DStart(c) \/ WaitBoot(c)
  \/ Configure(c) \/ Unlock(c) \/ Check(c) \/ StopService(c) \/ StartService(c)
  \/ ServiceStarted(c) \/ RetryService(c) \/ InstallVpn(c) \/ WaitUntilRunning(c)
  \/ StepRefused(c) \/ DropService(c) \/ DropContainer(c)

-----------------------------------------------------------------------------
(* What may go wrong, MaxFaults times. *)

\* Any command of the process fails, or the process is killed.
RunFails(c) ==
  /\ pc[c] # "idle"
  /\ Fault
  /\ End(c, "failed")
  /\ UNCHANGED containerVars

StartScriptFault(c) ==
  /\ Fault
  /\ StartScriptFails(c)
  /\ UNCHANGED <<aws, way, main, pc, tries, outcome, runs>>

ContainerFault(c) ==
  /\ Fault
  /\ ContainerDies(c)
  /\ UNCHANGED <<aws, way, main, pc, tries, outcome, runs>>

Reboot ==
  /\ Fault
  /\ NodeReboots
  /\ pc' = [c \in Container |-> "idle"]
  /\ outcome' = [c \in Container |-> IF pc[c] = "idle" THEN outcome[c] ELSE "failed"]
  /\ UNCHANGED <<aws, way, main, tries, runs>>

Boots(c) == BootStep(c) /\ main[c] = "bootstrap" /\ UNCHANGED appVars

Systemd(c) == UnitStep(c) /\ UNCHANGED appVars

Next ==
  \/ \E c \in Container :
       \/ StartRun(c) \/ StartRemove(c) \/ Works(c)
       \/ Boots(c) \/ Systemd(c)
       \/ RunFails(c) \/ StartScriptFault(c) \/ ContainerFault(c)
  \/ Reboot

\* A process that was started goes on, so do the shells of the containers and
\* systemd; nobody has to start a run or to remove a container.
Fairness ==
  \A c \in Container : WF_vars(Works(c)) /\ WF_vars(Boots(c)) /\ WF_vars(Systemd(c))

Spec == Init /\ [][Next]_vars

FairSpec == Spec /\ Fairness

-----------------------------------------------------------------------------
(* Properties. *)

\* What a caller of run_container.rb can rely on when it ended well: the
\* container exists, what the run found to configure it with has been applied
\* to it, it is not held back, and systemd starts it at every boot, whatever
\* happened to it since.
SuccessMeansConfigured ==
  \A c \in Container :
    outcome[c] = "ok" /\ pc[c] = "idle" =>
      /\ docker[c] # "absent"
      /\ way[c] = "templates" => templates[c] = "full"
      /\ way[c] = "script" => templates[c] = "script"
      /\ ~initLock[c]
      /\ enabled[c] /\ unit[c] # "none"

\* /INIT_LOCK is left in a container only by a run that failed and said so.
LockLeftOnlyByFailure ==
  \A c \in Container : initLock[c] /\ pc[c] = "idle" => outcome[c] = "failed"

\* In the first run for an application, if it has found templates, /etc/init.sh
\* is not sourced before they are in the container.  (In a later run systemd may
\* have started the new container before the lock is in it, and where a run
\* found no templates nothing holds back /etc/init.sh.)
FirstAppRunGated ==
  \A c \in Container :
    way[c] = "templates" /\ runs[c] <= 1 /\ boot[c] = "init" => templates[c] = "full"

\* What a run of run_container.rb leaves can be told from its exit status and
\* from /INIT_LOCK, and the lock gates /etc/init.sh of a new application.
OutcomeTells == SuccessMeansConfigured /\ LockLeftOnlyByFailure /\ FirstAppRunGated

\* After a run that ended well an application with the bootstrap script gets
\* through it, whatever dies or reboots, unless it is created anew or removed,
\* or waits for its address on AWS.
AppServes ==
  \A c \in Container :
    outcome[c] = "ok" /\ main[c] = "bootstrap" ~>
      boot[c] = "init" \/ outcome[c] # "ok" \/ pc[c] # "idle" \/ WaitsForAddress(c)

\* A run that was started ends, although neither wait_until_running nor
\* "systemctl start" has a limit.  It may wait for ever in two cases only: for
\* a container that has ended before any unit of systemd is there to start it
\* again, and for one that has ended before its start script on AWS has found
\* its address.
RunEnds ==
  \A c \in Container :
    pc[c] # "idle" ~>
      \/ pc[c] = "idle"
      \/ pc[c] = "wait_boot" /\ docker[c] = "exited" /\ unit[c] \in {"none", "inactive"}
      \/ pc[c] \in {"wait_boot", "svc_wait", "wait"} /\ WaitsForAddress(c)

\* Runs of run_container.rb end, but for these two cases, and an application whose
\* run ended well serves (wait_until_running, Restart=always of its unit).
AppEndsAndServes == RunEnds /\ AppServes
=============================================================================
