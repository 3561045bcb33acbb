------------------------- MODULE AppProvisionProofs -------------------------
(***************************************************************************)
(* Theorems about AppProvision, for every number of applications, runs,    *)
(* retries and faults: what a run leaves can be told from its exit status, *)
(* and a new application does not source /etc/init.sh before its templates *)
(* are there.                                                              *)
(***************************************************************************)
EXTENDS AppProvision, TLAPS

-----------------------------------------------------------------------------
(* Types. *)

\* The steps of a run and of a removal keep the types.
LEMMA WorksType ==
  ASSUME TypeOK, NEW c \in Container, Works(c)
  PROVE  TypeOK'
<1>. USE AppAssumption DEF AppAssumption, TypeOK, ContainerTypeOK, ProcessTypeOK, Move, End, Steps
<1>1. CASE Uninstall(c)
  BY <1>1 DEF Uninstall, RmContainer
<1>2. CASE RemoveOld(c)
  BY <1>2 DEF RemoveOld, DockerRm, RmContainer, mainVars, unitVars
<1>3. CASE CreateNew(c)
  <2>1. ContainerTypeOK'
    BY <1>3 DEF CreateNew, DockerCreate, mainVars, unitVars, OneShot
  <2>2. ProcessTypeOK'
    BY <1>3 DEF CreateNew, DockerCreate, mainVars, unitVars, OneShot
  <2>. QED
    BY <2>1, <2>2
<1>4. CASE Lock(c)
  BY <1>4 DEF Lock, CreateInitLock, mainVars, unitVars
<1>14. CASE Pull(c)
  BY <1>14 DEF Pull, containerVars
<1>5. CASE DStart(c)
  <2>1. docker' \in [Container -> {"absent", "created", "running", "exited"}]
    BY <1>5 DEF DStart, StartMain, mainVars
  <2>2. boot' \in [Container -> {"down", "after_create", "first_run", "lock_wait", "init"}]
    BY <1>5 DEF DStart, StartMain, mainVars
  <2>3. attached' \in [Container -> BOOLEAN]
    BY <1>5 DEF DStart, StartMain, mainVars
  <2>4. ContainerTypeOK'
    BY <1>5, <2>1, <2>2, <2>3 DEF DStart, fileVars, unitVars
  <2>5. ProcessTypeOK'
    BY <1>5 DEF DStart, fileVars, unitVars
  <2>. QED
    BY <2>4, <2>5
<1>6. CASE WaitBoot(c) \/ Check(c) \/ ServiceStarted(c) \/ InstallVpn(c) \/ WaitUntilRunning(c) \/ StepRefused(c)
  BY <1>6 DEF WaitBoot, Check, ServiceStarted, InstallVpn, WaitUntilRunning, StepRefused, containerVars
<1>7. CASE Configure(c)
  BY <1>7 DEF Configure, PushTree, mainVars, unitVars
<1>8. CASE Unlock(c)
  <2>1. ContainerTypeOK'
    BY <1>8 DEF Unlock, RemoveInitLock, mainVars, unitVars
  <2>2. ProcessTypeOK'
    BY <1>8 DEF Unlock, RemoveInitLock, mainVars, unitVars
  <2>. QED
    BY <2>1, <2>2
<1>9. CASE StopService(c)
  <2>1. docker' \in [Container -> {"absent", "created", "running", "exited"}]
    BY <1>9 DEF StopService, UnitStopDisable, StopMain, mainVars
  <2>2. boot' \in [Container -> {"down", "after_create", "first_run", "lock_wait", "init"}]
    BY <1>9 DEF StopService, UnitStopDisable, StopMain, mainVars
  <2>3. attached' \in [Container -> BOOLEAN]
    BY <1>9 DEF StopService, UnitStopDisable, StopMain, mainVars
  <2>4. ContainerTypeOK'
    BY <1>9, <2>1, <2>2, <2>3 DEF StopService, UnitStopDisable, fileVars
  <2>5. ProcessTypeOK'
    BY <1>9 DEF StopService, UnitStopDisable, fileVars
  <2>. QED
    BY <2>4, <2>5
<1>10. CASE StartService(c)
  <2>1. docker' \in [Container -> {"absent", "created", "running", "exited"}]
    BY <1>10 DEF StartService, UnitEnableStart, RunSlaveDocker, StartMain, mainVars
  <2>2. boot' \in [Container -> {"down", "after_create", "first_run", "lock_wait", "init"}]
    BY <1>10 DEF StartService, UnitEnableStart, RunSlaveDocker, StartMain, mainVars
  <2>3. attached' \in [Container -> BOOLEAN]
    BY <1>10 DEF StartService, UnitEnableStart, RunSlaveDocker, StartMain, mainVars
  <2>4. ContainerTypeOK'
    BY <1>10, <2>1, <2>2, <2>3 DEF StartService, UnitEnableStart, RunSlaveDocker, fileVars
  <2>5. ProcessTypeOK'
    BY <1>10 DEF StartService, UnitEnableStart, RunSlaveDocker, fileVars
  <2>. QED
    BY <2>4, <2>5
<1>11. CASE RetryService(c)
  BY <1>11 DEF RetryService, containerVars
<1>12. CASE DropService(c)
  BY <1>12 DEF DropService, mainVars, fileVars
<1>13. CASE DropContainer(c)
  BY <1>13 DEF DropContainer, DockerRm, RmContainer, mainVars, unitVars
<1>. QED
  BY <1>1, <1>2, <1>3, <1>4, <1>5, <1>6, <1>7, <1>8, <1>9, <1>10, <1>11, <1>12, <1>13, <1>14 DEF Works

\* So do the shells of the containers, systemd and the faults.
LEMMA OthersType ==
  ASSUME TypeOK, NEW c \in Container,
         StartRun(c) \/ StartRemove(c) \/ Boots(c) \/ Systemd(c) \/ RunFails(c)
         \/ StartScriptFault(c) \/ ContainerFault(c)
  PROVE  TypeOK'
<1>. USE AppAssumption DEF AppAssumption, TypeOK, ContainerTypeOK, ProcessTypeOK, Move, End, Steps, Fault, appVars
<1>1. CASE StartRun(c) \/ StartRemove(c) \/ RunFails(c)
  <2>1. ContainerTypeOK'
    BY <1>1 DEF StartRun, StartRemove, RunFails, containerVars
  <2>2. CASE StartRun(c)
    <3>1. ProcessTypeOK'
      BY <2>2 DEF StartRun
    <3>. QED
      BY <2>1, <3>1
  <2>3. CASE StartRemove(c)
    <3>1. ProcessTypeOK'
      BY <2>3 DEF StartRemove
    <3>. QED
      BY <2>1, <3>1
  <2>4. CASE RunFails(c)
    <3>1. ProcessTypeOK'
      BY <2>4 DEF RunFails
    <3>. QED
      BY <2>1, <3>1
  <2>. QED
    BY <1>1, <2>2, <2>3, <2>4
<1>2. CASE Boots(c)
  BY <1>2 DEF Boots, BootStep, BootAfterCreate, BootFirstRun, BootSourceInit, mainVars, fileVars, unitVars
<1>3. CASE (UnitUp(c) \/ AddressKnown(c)) /\ UNCHANGED appVars
  BY <1>3 DEF UnitUp, AddressKnown, mainVars, fileVars
<1>4. CASE UnitStartFails(c) /\ UNCHANGED appVars
  BY <1>4 DEF UnitStartFails, StartScriptFails, StopMain, mainVars, fileVars
<1>5. CASE UnitLosesMain(c) /\ UNCHANGED appVars
  <2>1. ContainerTypeOK'
    BY <1>5 DEF UnitLosesMain, StopMain, mainVars, fileVars
  <2>2. ProcessTypeOK'
    BY <1>5 DEF UnitLosesMain, StopMain, mainVars, fileVars
  <2>. QED
    BY <2>1, <2>2
<1>6. CASE UnitRestarts(c) /\ UNCHANGED appVars
  <2>1. docker' \in [Container -> {"absent", "created", "running", "exited"}]
    BY <1>6 DEF UnitRestarts, RunSlaveDocker, StartMain, mainVars
  <2>2. boot' \in [Container -> {"down", "after_create", "first_run", "lock_wait", "init"}]
    BY <1>6 DEF UnitRestarts, RunSlaveDocker, StartMain, mainVars
  <2>3. attached' \in [Container -> BOOLEAN]
    BY <1>6 DEF UnitRestarts, RunSlaveDocker, StartMain, mainVars
  <2>4. ContainerTypeOK'
    BY <1>6, <2>1, <2>2, <2>3 DEF UnitRestarts, RunSlaveDocker, fileVars
  <2>5. ProcessTypeOK'
    BY <1>6 DEF UnitRestarts, RunSlaveDocker, fileVars
  <2>. QED
    BY <2>4, <2>5
<1>7. CASE StartScriptFault(c)
  BY <1>7 DEF StartScriptFault, StartScriptFails, StopMain, mainVars, fileVars
<1>8. CASE ContainerFault(c)
  BY <1>8 DEF ContainerFault, ContainerDies, StopMain, mainVars, fileVars, unitVars
<1>. QED
  BY <1>1, <1>2, <1>3, <1>4, <1>5, <1>6, <1>7, <1>8 DEF Systemd, UnitStep

\* The type invariant of run_container.rb and of the containers it works on.
THEOREM AppTypeCorrect == Spec => []TypeOK
<1>1. Init => TypeOK
  BY AppAssumption DEF AppAssumption, Init, ContainerInit, TypeOK, ContainerTypeOK, ProcessTypeOK, OneShot
<1>2. TypeOK /\ UNCHANGED vars => TypeOK'
  BY DEF vars, containerVars, appVars, TypeOK, ContainerTypeOK, ProcessTypeOK
<1>3. TypeOK /\ Reboot => TypeOK'
  BY AppAssumption DEF AppAssumption, Reboot, Fault, NodeReboots, mainVars, fileVars, TypeOK, ContainerTypeOK, ProcessTypeOK
<1>4. TypeOK /\ [Next]_vars => TypeOK'
  BY <1>2, <1>3, WorksType, OthersType DEF Next
<1>. QED
  BY <1>1, <1>4, PTL DEF Spec

-----------------------------------------------------------------------------
(* The inductive invariant, for one application. *)

Served == {"svc_stop", "svc_start", "svc_wait", "vpn", "wait"}
Held == {"start", "wait_boot", "configure"}

\* What a run has done for c when it is at a step, or has yet to do.
Progress(c) ==
  /\ pc[c] \in {"lock", "unlock", "check"} => way[c] = "templates"
  /\ pc[c] \in {"remove", "create"} => way[c] \in {"hub", "open"}
  /\ pc[c] = "pull" => way[c] = "open"
  /\ pc[c] \in {"start"} \cup Served => way[c] \in {"hub", "templates", "script"}
  /\ pc[c] \in {"wait_boot", "configure"} => way[c] \in {"templates", "script"}
  /\ pc[c] = "uninstall" => way[c] = "hub"
  /\ pc[c] \in {"pull", "lock", "unlock", "check"} \cup Held \cup Served => docker[c] # "absent"
  /\ pc[c] \in {"unlock", "check"} \cup Served /\ way[c] = "templates" => templates[c] = "full"
  /\ pc[c] \in Served /\ way[c] = "script" => templates[c] = "script"
  /\ pc[c] \in {"svc_wait", "vpn", "wait"} => enabled[c] /\ unit[c] # "none"
  /\ pc[c] = "drop_box" => unit[c] = "none"

\* Where /INIT_LOCK is: it is there from create_init_lock to remove_init_lock
\* and else only where a run has failed.
Locking(c) ==
  /\ pc[c] \in {"create", "pull", "lock", "check"} \cup Served => ~initLock[c]
  /\ pc[c] \in Held => (initLock[c] <=> way[c] = "templates")
  /\ pc[c] = "idle" /\ initLock[c] => outcome[c] = "failed"

\* Nobody has worked on c.
Fresh(c) ==
  runs[c] = 0 =>
    pc[c] = "idle" /\ docker[c] = "absent" /\ boot[c] = "down" /\ unit[c] = "none"

\* In the first run for an application that may have templates these, the lock,
\* or that neither docker nor systemd starts it, keep it from /etc/init.sh.
Gated(c) ==
  way[c] \in {"open", "templates"} /\ runs[c] <= 1 =>
    /\ pc[c] \in {"remove", "create", "pull", "lock"} => unit[c] = "none"
    /\ \/ way[c] = "templates" /\ templates[c] = "full"
       \/ way[c] = "templates" /\ initLock[c] /\ boot[c] # "init"
       \/ unit[c] = "none" /\ docker[c] \in {"absent", "created"} /\ boot[c] = "down"

\* What SuccessMeansConfigured says of c.
Configured(c) ==
  outcome[c] = "ok" /\ pc[c] = "idle" =>
    /\ docker[c] # "absent"
    /\ way[c] = "templates" => templates[c] = "full"
    /\ way[c] = "script" => templates[c] = "script"
    /\ ~initLock[c]
    /\ enabled[c] /\ unit[c] # "none"

AppInv(c) == Progress(c) /\ Locking(c) /\ Fresh(c) /\ Gated(c) /\ Configured(c)


\* A step of a run or of a removal keeps it, for the application it is about and for the others.
LEMMA WorksStep ==
  ASSUME TypeOK, NEW c \in Container, Works(c), NEW d \in Container, AppInv(d)
  PROVE  AppInv(d)'
<1>. USE AppAssumption DEF AppAssumption, TypeOK, ContainerTypeOK, ProcessTypeOK, Move, End, Steps,
       AppInv, Progress, Locking, Fresh, Gated, Configured, Served, Held
<1>1. CASE Uninstall(c)
  BY <1>1 DEF Uninstall, RmContainer
<1>2. CASE RemoveOld(c)
  BY <1>2 DEF RemoveOld, DockerRm, RmContainer, mainVars, unitVars
<1>3. CASE CreateNew(c)
  <2>1. Progress(d)'
    BY <1>3 DEF CreateNew, DockerCreate, mainVars, unitVars, OneShot
  <2>2. Locking(d)'
    BY <1>3 DEF CreateNew, DockerCreate, mainVars, unitVars, OneShot
  <2>3. Fresh(d)'
    BY <1>3 DEF CreateNew, DockerCreate, mainVars, unitVars, OneShot
  <2>4. Gated(d)'
    BY <1>3 DEF CreateNew, DockerCreate, mainVars, unitVars, OneShot
  <2>5. Configured(d)'
    BY <1>3 DEF CreateNew, DockerCreate, mainVars, unitVars, OneShot
  <2>. QED
    BY <2>1, <2>2, <2>3, <2>4, <2>5
<1>4. CASE Lock(c)
  BY <1>4 DEF Lock, CreateInitLock, mainVars, unitVars
<1>19. CASE Pull(c)
  BY <1>19 DEF Pull, containerVars
<1>5. CASE DStart(c)
  BY <1>5 DEF DStart, StartMain, mainVars, fileVars, unitVars
<1>6. CASE WaitBoot(c)
  BY <1>6 DEF WaitBoot, containerVars
<1>7. CASE Configure(c)
  BY <1>7 DEF Configure, PushTree, mainVars, unitVars
<1>8. CASE Unlock(c)
  BY <1>8 DEF Unlock, RemoveInitLock, CanRemoveInitLock, mainVars, unitVars
<1>9. CASE Check(c)
  BY <1>9 DEF Check, containerVars
<1>10. CASE StopService(c)
  <2>1. Progress(d)'
    BY <1>10 DEF StopService, UnitStopDisable, StopMain, mainVars, fileVars
  <2>2. Locking(d)'
    BY <1>10 DEF StopService, UnitStopDisable, StopMain, mainVars, fileVars
  <2>3. Fresh(d)'
    BY <1>10 DEF StopService, UnitStopDisable, StopMain, mainVars, fileVars
  <2>4. Gated(d)'
    <3>1. CASE d = c
      BY <1>10, <3>1 DEF StopService, UnitStopDisable, StopMain, mainVars, fileVars
    <3>2. CASE d # c
      BY <1>10, <3>2 DEF StopService, UnitStopDisable, StopMain, mainVars, fileVars
    <3>. QED
      BY <3>1, <3>2
  <2>5. Configured(d)'
    BY <1>10 DEF StopService, UnitStopDisable, StopMain, mainVars, fileVars
  <2>. QED
    BY <2>1, <2>2, <2>3, <2>4, <2>5
<1>11. CASE StartService(c)
  <2>1. Progress(d)'
    BY <1>11 DEF StartService, UnitEnableStart, RunSlaveDocker, StartMain, mainVars, fileVars
  <2>2. Locking(d)'
    BY <1>11 DEF StartService, UnitEnableStart, RunSlaveDocker, StartMain, mainVars, fileVars
  <2>3. Fresh(d)'
    BY <1>11 DEF StartService, UnitEnableStart, RunSlaveDocker, StartMain, mainVars, fileVars
  <2>4. Gated(d)'
    <3>1. CASE d = c
      BY <1>11, <3>1 DEF StartService, UnitEnableStart, RunSlaveDocker, StartMain, mainVars, fileVars
    <3>2. CASE d # c
      BY <1>11, <3>2 DEF StartService, UnitEnableStart, RunSlaveDocker, StartMain, mainVars, fileVars
    <3>. QED
      BY <3>1, <3>2
  <2>5. Configured(d)'
    BY <1>11 DEF StartService, UnitEnableStart, RunSlaveDocker, StartMain, mainVars, fileVars
  <2>. QED
    BY <2>1, <2>2, <2>3, <2>4, <2>5
<1>12. CASE ServiceStarted(c)
  BY <1>12 DEF ServiceStarted, containerVars
<1>13. CASE RetryService(c)
  BY <1>13 DEF RetryService, containerVars
<1>14. CASE InstallVpn(c)
  BY <1>14 DEF InstallVpn, containerVars
<1>15. CASE WaitUntilRunning(c)
  BY <1>15 DEF WaitUntilRunning, containerVars
<1>16. CASE StepRefused(c)
  BY <1>16 DEF StepRefused, containerVars
<1>17. CASE DropService(c)
  BY <1>17 DEF DropService, mainVars, fileVars
<1>18. CASE DropContainer(c)
  BY <1>18 DEF DropContainer, DockerRm, RmContainer, mainVars, unitVars
<1>. QED
  BY <1>1, <1>2, <1>3, <1>4, <1>5, <1>6, <1>7, <1>8, <1>9, <1>10, <1>11, <1>12, <1>13, <1>14, <1>15, <1>16, <1>17, <1>18, <1>19 DEF Works

\* So do the start of a run and of a removal, and a run that fails or is killed.
LEMMA ProcessStep ==
  ASSUME TypeOK, NEW c \in Container, StartRun(c) \/ StartRemove(c) \/ RunFails(c),
         NEW d \in Container, AppInv(d)
  PROVE  AppInv(d)'
<1>. USE AppAssumption DEF AppAssumption, TypeOK, ContainerTypeOK, ProcessTypeOK, Move, End, Steps, Fault, containerVars,
       AppInv, Progress, Locking, Fresh, Gated, Configured, Served, Held
<1>1. CASE StartRun(c)
  BY <1>1 DEF StartRun
<1>2. CASE StartRemove(c)
  BY <1>2 DEF StartRemove
<1>3. CASE RunFails(c)
  BY <1>3 DEF RunFails
<1>. QED
  BY <1>1, <1>2, <1>3

\* What the containers, systemd and the environment do on their own.
LEMMA BackgroundStep ==
  ASSUME TypeOK, NEW c \in Container, Boots(c) \/ Systemd(c) \/ StartScriptFault(c) \/ ContainerFault(c),
         NEW d \in Container, AppInv(d)
  PROVE  AppInv(d)'
<1>. USE AppAssumption DEF AppAssumption, TypeOK, ContainerTypeOK, ProcessTypeOK, Fault, appVars, mainVars, fileVars, unitVars,
       AppInv, Progress, Locking, Fresh, Gated, Configured, Served, Held
<1>1. CASE BootAfterCreate(c) /\ UNCHANGED appVars
  BY <1>1 DEF BootAfterCreate
<1>2. CASE BootFirstRun(c) /\ UNCHANGED appVars
  BY <1>2 DEF BootFirstRun
<1>3. CASE BootSourceInit(c) /\ UNCHANGED appVars
  BY <1>3 DEF BootSourceInit
<1>4. CASE (UnitUp(c) \/ AddressKnown(c)) /\ UNCHANGED appVars
  BY <1>4 DEF UnitUp, AddressKnown
<1>5. CASE UnitStartFails(c) /\ UNCHANGED appVars
  BY <1>5 DEF UnitStartFails, StartScriptFails, StopMain
<1>6. CASE UnitLosesMain(c) /\ UNCHANGED appVars
  BY <1>6 DEF UnitLosesMain, StopMain
<1>7. CASE UnitRestarts(c) /\ UNCHANGED appVars
  BY <1>7 DEF UnitRestarts, RunSlaveDocker, StartMain
<1>8. CASE StartScriptFault(c)
  BY <1>8 DEF StartScriptFault, StartScriptFails, StopMain
<1>9. CASE ContainerFault(c)
  BY <1>9 DEF ContainerFault, ContainerDies, StopMain
<1>. QED
  BY <1>1, <1>2, <1>3, <1>4, <1>5, <1>6, <1>7, <1>8, <1>9 DEF Boots, BootStep, Systemd, UnitStep

\* A reboot ends every process, and systemd starts what is enabled.
LEMMA RebootStep ==
  ASSUME TypeOK, Reboot, NEW d \in Container, AppInv(d)
  PROVE  AppInv(d)'
BY DEF Reboot, NodeReboots, Fault, mainVars, fileVars, TypeOK, ContainerTypeOK, ProcessTypeOK,
       AppInv, Progress, Locking, Fresh, Gated, Configured, Served, Held

\* The inductive invariant holds of every behaviour.
THEOREM AppInvariance == Spec => [](\A c \in Container : AppInv(c))
<1>. DEFINE All == \A c \in Container : AppInv(c)
<1>1. Init => All
  <2>. SUFFICES ASSUME Init, NEW c \in Container PROVE AppInv(c)
    OBVIOUS
  <2>1. /\ docker[c] = "absent" /\ boot[c] = "down" /\ ~initLock[c] /\ unit[c] = "none"
        /\ pc[c] = "idle" /\ outcome[c] = "none" /\ runs[c] = 0
    BY DEF Init, ContainerInit
  <2>. QED
    BY <2>1 DEF AppInv, Progress, Locking, Fresh, Gated, Configured, Served, Held
<1>2. TypeOK /\ All /\ [Next]_vars => All'
  <2>. SUFFICES ASSUME TypeOK, All, [Next]_vars, NEW d \in Container PROVE AppInv(d)'
    OBVIOUS
  <2>1. CASE UNCHANGED vars
    BY <2>1 DEF vars, containerVars, appVars, AppInv, Progress, Locking, Fresh, Gated, Configured
  <2>. QED
    BY <2>1, WorksStep, ProcessStep, BackgroundStep, RebootStep DEF Next
<1>. QED
  BY <1>1, <1>2, AppTypeCorrect, PTL DEF Spec

\* A run of run_container.rb that ended well leaves the application there,
\* configured, not held back and enabled, whatever dies, reboots or fails later;
\* /INIT_LOCK is left only by a run that says it failed; and in the first run of
\* an application with templates /etc/init.sh waits for them.
THEOREM OutcomeIsTold == Spec => []OutcomeTells
<1>. DEFINE All == \A c \in Container : AppInv(c)
<1>1. TypeOK /\ All => OutcomeTells
  BY DEF TypeOK, ContainerTypeOK, ProcessTypeOK, AppInv, Locking, Gated, Configured,
         OutcomeTells, SuccessMeansConfigured, LockLeftOnlyByFailure, FirstAppRunGated
<1>. QED
  BY <1>1, AppInvariance, AppTypeCorrect, PTL
=============================================================================
