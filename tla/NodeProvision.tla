---------------------------- MODULE NodeProvision ----------------------------
(***************************************************************************)
(* slaveplaybook.rb: the provisioning of a node and of its framework       *)
(* containers (FRAMEWORKS, hadoop and hue), run again and again until the  *)
(* node carries the PROVISIONED mark, while docker, systemd, the bootstrap *)
(* scripts of the containers, failures and reboots take their own steps.   *)
(***************************************************************************)
EXTENDS ContainerBoot

CONSTANTS
  N,               \* the number of framework containers; c is the c-th of FRAMEWORKS
  StartUnchecked,  \* those whose "systemctl start" may fail unnoticed on AWS (hue)
  Iterations,      \* iterator_exec's parameter
  MaxRuns,         \* bound: how often the playbook is started
  MaxFaults        \* bound: how many failures the environment injects

ASSUME NodeAssumption ==
  /\ N \in Nat \ {0}
  /\ Container = 1..N
  /\ StartUnchecked \subseteq Container
  /\ Iterations \in Nat
  /\ MaxRuns \in Nat
  /\ MaxFaults \in Nat

VARIABLES
  pc,           \* where the playbook stands
  k,            \* the framework it works on
  tries,        \* i of iterator_exec
  hasHadoop,    \* node_data['hadoop_app_id'] is set
  provisioned,  \* the file PROVISIONED exists
  runs,         \* how often the playbook was started
  faults        \* how many failures there were

runVars == <<aws, pc, k, tries, hasHadoop, provisioned, runs, faults>>
vars == <<containerVars, runVars>>

\* The steps of setup_framework, in their order, and the end of the script.
Steps == {"remove", "create", "lock", "svc_stop", "svc_start", "svc_wait",
          "vpn", "wait", "common", "app", "unlock", "finish"}

TypeOK ==
  /\ ContainerTypeOK
  /\ pc \in Steps \cup {"idle"}
  /\ k \in 1..N
  /\ tries \in 0..Iterations + 1
  /\ hasHadoop \in BOOLEAN
  /\ provisioned \in BOOLEAN
  /\ runs \in 0..MaxRuns
  /\ faults \in 0..MaxFaults

Init ==
  /\ ContainerInit
  /\ pc = "idle"
  /\ k = 1
  /\ tries = 0
  /\ hasHadoop \in BOOLEAN
  /\ provisioned = FALSE
  /\ runs = 0
  /\ faults = 0

Goto(l) ==
  /\ pc' = l
  /\ UNCHANGED <<k, tries, aws, hasHadoop, provisioned, runs, faults>>

Fault ==
  /\ faults < MaxFaults
  /\ faults' = faults + 1

-----------------------------------------------------------------------------
(* The playbook. *)

\* Mutant: "exit(0) if provisioned?" is lost.
StartRunAlways ==
  /\ pc = "idle"
  /\ hasHadoop
  /\ runs < MaxRuns
  /\ runs' = runs + 1
  /\ pc' = "remove"
  /\ k' = 1
  /\ UNCHANGED <<containerVars, tries, aws, hasHadoop, provisioned, faults>>

\* A run on a node with frameworks; one on a provisioned node exits at once.
StartRun ==
  /\ pc = "idle"
  /\ ~provisioned
  /\ hasHadoop
  /\ runs < MaxRuns
  /\ runs' = runs + 1
  /\ pc' = "remove"
  /\ k' = 1
  /\ UNCHANGED <<containerVars, tries, aws, hasHadoop, provisioned, faults>>

\* A run on a node for applications only: it sets the mark and exits.
AppOnlyRun ==
  /\ pc = "idle"
  /\ ~provisioned
  /\ ~hasHadoop
  /\ runs < MaxRuns
  /\ runs' = runs + 1
  /\ provisioned' = TRUE
  /\ UNCHANGED <<containerVars, pc, k, tries, aws, hasHadoop, faults>>

RemoveOld ==
  /\ pc = "remove"
  /\ DockerRm(k)
  /\ Goto("create")

CreateNew ==
  /\ pc = "create"
  /\ DockerCreate(k, TRUE)
  /\ Goto("lock")

Lock ==
  /\ pc = "lock"
  /\ CreateInitLock(k)
  /\ pc' = "svc_stop"
  /\ tries' = 0
  /\ UNCHANGED <<k, aws, hasHadoop, provisioned, runs, faults>>

\* enable_and_start_service: stop, disable, enable, start, under
\* iterator_exec, which begins again while i <= iterations.
StopService ==
  /\ pc = "svc_stop"
  /\ UnitStopDisable(k)
  /\ Goto("svc_start")

StartService ==
  /\ pc = "svc_start"
  /\ UnitEnableStart(k)
  /\ Goto("svc_wait")

Unchecked == aws /\ k \in StartUnchecked

ServiceStarted ==
  /\ pc = "svc_wait"
  /\ job[k] = "ok" \/ (job[k] = "failed" /\ Unchecked)
  /\ Goto("vpn")
  /\ UNCHANGED containerVars

RetryService ==
  /\ pc = "svc_wait"
  /\ job[k] = "failed" /\ ~Unchecked
  /\ tries <= Iterations
  /\ pc' = "svc_stop"
  /\ tries' = tries + 1
  /\ UNCHANGED <<containerVars, k, aws, hasHadoop, provisioned, runs, faults>>

GiveUpService ==
  /\ pc = "svc_wait"
  /\ job[k] = "failed" /\ ~Unchecked
  /\ tries > Iterations
  /\ Goto("idle")
  /\ UNCHANGED containerVars

\* The "docker exec"s that put OpenVPN in the container.
InstallVpn ==
  /\ pc = "vpn"
  /\ docker[k] = "running"
  /\ Goto("wait")
  /\ UNCHANGED containerVars

\* wait_until_running: its retry count is compared, never lowered, so it
\* waits for as long as it takes.
WaitUntilRunning ==
  /\ pc = "wait"
  /\ docker[k] = "running"
  /\ Goto("common")
  /\ UNCHANGED containerVars

PushCommonTree ==
  /\ pc = "common"
  /\ docker[k] = "running"
  /\ PushTree(k, "partial")
  /\ Goto("app")

PushFrameworkTree ==
  /\ pc = "app"
  /\ docker[k] = "running"
  /\ PushTree(k, "full")
  /\ Goto("unlock")

Unlock ==
  /\ pc = "unlock"
  /\ CanRemoveInitLock(k)
  /\ RemoveInitLock(k)
  /\ IF k < N THEN pc' = "remove" /\ k' = k + 1
              ELSE pc' = "finish" /\ k' = k
  /\ UNCHANGED <<tries, aws, hasHadoop, provisioned, runs, faults>>

\* A "docker exec" in a container that does not run: texec throws and the
\* run ends with what it has done so far left as it is.
StepRefused ==
  /\ \/ pc \in {"vpn", "common", "app"} /\ docker[k] # "running"
     \/ pc = "unlock" /\ ~CanRemoveInitLock(k)
  /\ Goto("idle")
  /\ UNCHANGED containerVars

SetProvisioned ==
  /\ pc = "finish"
  /\ provisioned' = TRUE
  /\ pc' = "idle"
  /\ UNCHANGED <<containerVars, k, tries, aws, hasHadoop, runs, faults>>

\* update_gexnode.rb removes the mark before it installs a new package.
UpdateNode ==
  /\ provisioned
  /\ provisioned' = FALSE
  /\ UNCHANGED <<containerVars, pc, k, tries, aws, hasHadoop, runs, faults>>

RunStep ==
  \/ RemoveOld \/ CreateNew \/ Lock
  \/ StopService \/ StartService \/ ServiceStarted \/ RetryService \/ GiveUpService
  \/ InstallVpn \/ WaitUntilRunning \/ PushCommonTree \/ PushFrameworkTree
  \/ Unlock \/ StepRefused \/ SetProvisioned

-----------------------------------------------------------------------------
(* What may go wrong, MaxFaults times. *)

\* Any command of the run fails: safe_exec reports it and the run is over.
RunFails ==
  /\ pc # "idle"
  /\ Fault
  /\ pc' = "idle"
  /\ UNCHANGED <<containerVars, k, tries, aws, hasHadoop, provisioned, runs>>

\* A command of runslavedocker.bash fails (pipework, the API call, avahi).
StartScriptFault(c) ==
  /\ Fault
  /\ StartScriptFails(c)
  /\ UNCHANGED <<pc, k, tries, aws, hasHadoop, provisioned, runs>>

ContainerFault(c) ==
  /\ Fault
  /\ ContainerDies(c)
  /\ UNCHANGED <<pc, k, tries, aws, hasHadoop, provisioned, runs>>

Reboot ==
  /\ Fault
  /\ NodeReboots
  /\ pc' = "idle"
  /\ UNCHANGED <<k, tries, aws, hasHadoop, provisioned, runs>>

Boots(c) == BootStep(c) /\ UNCHANGED runVars

Systemd(c) == UnitStep(c) /\ UNCHANGED runVars

Next ==
  \/ StartRun \/ AppOnlyRun \/ UpdateNode
  \/ RunStep
  \/ \E c \in Container : Boots(c) \/ Systemd(c)
  \/ \E c \in Container : StartScriptFault(c) \/ ContainerFault(c)
  \/ RunFails \/ Reboot

\* A run that was started goes on, so do the shells of the containers and
\* systemd.  Nothing says that a run is started, that the node is updated or
\* that anything fails.
Fairness ==
  /\ WF_vars(RunStep)
  /\ \A c \in Container : WF_vars(Boots(c)) /\ WF_vars(Systemd(c))

Spec == Init /\ [][Next]_vars

FairSpec == Spec /\ Fairness

-----------------------------------------------------------------------------
(* Properties. *)

\* A container that can serve: configured, not held back, and started by
\* systemd at every boot.
Ready(c) ==
  /\ docker[c] # "absent"
  /\ templates[c] = "full"
  /\ ~initLock[c]
  /\ enabled[c] /\ unit[c] # "none"

\* The mark set_provisioned leaves says the truth: whatever failed, died or
\* rebooted in whichever run, on a node marked PROVISIONED every framework
\* container has all its templates, no init lock and an enabled unit, so
\* that "exit(0) if provisioned?" skips no work.
ProvisionedMeansReady == provisioned /\ hasHadoop => \A c \in Container : Ready(c)

\* The init lock does its work: from the moment the service is started until
\* the lock is removed, across restarts of the unit and deaths of the
\* container, /etc/init.sh has not been sourced in the container whose
\* templates are being written.
NoInitDuringTemplates ==
  pc \in {"svc_wait", "vpn", "wait", "common", "app", "unlock"} => boot[k] # "init"

\* Why the two hold: what the run has achieved for the framework it works on,
\* at each of its steps, and for those before it.  This is inductive.
ProvisionInv ==
  /\ provisioned => pc = "idle" /\ (hasHadoop => \A c \in Container : Ready(c))
  /\ pc # "idle" => \A c \in 1..k - 1 : Ready(c)
  /\ pc = "finish" => \A c \in Container : Ready(c)
  /\ pc \in Steps \ {"remove", "create", "finish"} => docker[k] # "absent"
  /\ pc \in Steps \ {"remove", "create", "lock", "finish"} => initLock[k]
  /\ pc \in {"svc_wait", "vpn", "wait", "common", "app", "unlock"} =>
       enabled[k] /\ unit[k] # "none" /\ boot[k] # "init"
  /\ pc = "unlock" => templates[k] = "full"

\* In the first run on a node, however it ends, no container sources
\* /etc/init.sh before it has all its templates.  (In a later run systemd may
\* restart the unit of the earlier run between "docker create" and
\* create_init_lock.)
FirstRunGated ==
  runs <= 1 => \A c \in Container : boot[c] = "init" => templates[c] = "full"

\* /INIT_LOCK gates /etc/init.sh: never while the templates of a container are
\* written (create_init_lock to remove_init_lock), and in the first run never
\* before they are all there.
InitGated == NoInitDuringTemplates /\ FirstRunGated

\* Why that holds: in the first run a container has no unit before it has its
\* lock, so nothing but the run's own service start can start it.
FirstRunInv ==
  /\ runs = 0 => pc = "idle" /\ \A c \in Container : unit[c] = "none"
  /\ runs <= 1 =>
       /\ pc # "idle" => \A c \in k + 1..N : unit[c] = "none"
       /\ pc \in {"remove", "create", "lock"} => unit[k] = "none"
       /\ \A c \in Container :
            /\ unit[c] = "none" => boot[c] = "down"
            /\ unit[c] # "none" => initLock[c] \/ templates[c] = "full"
            /\ boot[c] = "init" => templates[c] = "full"

\* erase_volumes erases nothing that was there: once /etc/first_run.sh has
\* been run and removed from a container's /etc volume it never comes back,
\* however often dcreate_container makes the container anew.
FirstRunNeverAgain ==
  [][\A c \in Container :
       etcVolume[c] /\ "first_run" \notin scripts[c] => "first_run" \notin scripts'[c]]_vars

\* A run ends, although wait_until_running and "systemctl start" have no
\* time limit: systemd brings the container up, or the run fails.  One case is
\* left, on AWS: the container has ended before its start script found its
\* address, and nothing ends the script.
RunEnds == pc # "idle" ~> pc = "idle" \/ (pc \in {"svc_wait", "wait"} /\ WaitsForAddress(k))

\* After a run that set the mark every framework container gets through its
\* bootstrap script to /etc/init.sh, whatever died or rebooted, unless the
\* mark is taken away again; but for the same case.
ProvisionedServes ==
  provisioned /\ hasHadoop ~>
    ~provisioned \/ \A c \in Container : boot[c] = "init" \/ WaitsForAddress(c)

\* Runs of slaveplaybook.rb end, and what a run marked PROVISIONED serves, with
\* nothing but Restart=always of the unit to bring it back; the only exception
\* is the address loop of runslavedocker.bash.
NodeServes == RunEnds /\ ProvisionedServes

\* The playbook, docker and systemd together keep the promise of NodePromise.
Promise == INSTANCE NodePromise WITH ready <- {c \in Container : Ready(c)}

KeepsPromise == Promise!Spec
=============================================================================
