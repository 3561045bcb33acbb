------------------------- MODULE NodeProvisionProofs -------------------------
(***************************************************************************)
(* Theorems about NodeProvision, for every number of frameworks, runs and  *)
(* faults.                                                                 *)
(***************************************************************************)
EXTENDS NodeProvision, TLAPS

\* The type invariant of the playbook and the containers it works on.
THEOREM TypeCorrect == Spec => []TypeOK
<1> USE NodeAssumption DEF NodeAssumption
<1>1. Init => TypeOK
  <2>1. ContainerInit => ContainerTypeOK
    BY DEF ContainerInit, ContainerTypeOK
  <2>2. ASSUME Init PROVE ContainerTypeOK /\ hasHadoop \in BOOLEAN /\ provisioned \in BOOLEAN
    BY <2>1, <2>2 DEF Init
  <2>3. ASSUME Init PROVE pc \in Steps \cup {"idle"} /\ k \in 1..N /\ tries \in 0..Iterations + 1
    BY <2>3 DEF Init
  <2>4. ASSUME Init PROVE runs \in 0..MaxRuns /\ faults \in 0..MaxFaults
    BY <2>4 DEF Init
  <2> QED
    BY <2>2, <2>3, <2>4 DEF TypeOK
<1>2. TypeOK /\ [Next]_vars => TypeOK'
  <2> SUFFICES ASSUME TypeOK, [Next]_vars PROVE TypeOK'
    OBVIOUS
  <2> USE DEF TypeOK, ContainerTypeOK
  <2>1. CASE StartRun
    BY <2>1 DEF StartRun, containerVars, Steps
  <2>2. CASE AppOnlyRun
    BY <2>2 DEF AppOnlyRun, containerVars
  <2>3. CASE UpdateNode
    BY <2>3 DEF UpdateNode, containerVars
  <2>4. CASE RunStep
    <3> USE DEF Goto, Steps
    <3>1. CASE RemoveOld
      BY <3>1 DEF RemoveOld, DockerRm, RmContainer, mainVars, unitVars
    <3>2. CASE CreateNew
      BY <3>2 DEF CreateNew, DockerCreate, mainVars, unitVars, OneShot
    <3>3. CASE Lock
      BY <3>3 DEF Lock, CreateInitLock, mainVars, unitVars
    <3>4. CASE StopService
      BY <3>4 DEF StopService, UnitStopDisable, StopMain, mainVars, fileVars
    <3>5. CASE StartService
      BY <3>5 DEF StartService, UnitEnableStart, RunSlaveDocker, StartMain, mainVars, fileVars
    <3>6. CASE ServiceStarted \/ GiveUpService \/ InstallVpn \/ WaitUntilRunning
                 \/ StepRefused
      BY <3>6 DEF ServiceStarted, GiveUpService, InstallVpn, WaitUntilRunning,
                  StepRefused, containerVars
    <3>7. CASE RetryService
      BY <3>7 DEF RetryService, containerVars
    <3>8. CASE PushCommonTree \/ PushFrameworkTree
      BY <3>8 DEF PushCommonTree, PushFrameworkTree, PushTree, mainVars, unitVars
    <3>9. CASE Unlock
      BY <3>9 DEF Unlock, RemoveInitLock, mainVars, unitVars
    <3>10. CASE SetProvisioned
      BY <3>10 DEF SetProvisioned, containerVars
    <3> QED
      BY <2>4, <3>1, <3>2, <3>3, <3>4, <3>5, <3>6, <3>7, <3>8, <3>9, <3>10 DEF RunStep
  <2>5. ASSUME NEW c \in Container, Boots(c) PROVE TypeOK'
    <3>1. CASE BootAfterCreate(c)
      BY <2>5, <3>1 DEF Boots, BootAfterCreate, runVars, mainVars, unitVars
    <3>2. CASE BootFirstRun(c)
      BY <2>5, <3>2 DEF Boots, BootFirstRun, runVars, mainVars, unitVars
    <3>3. CASE BootSourceInit(c)
      BY <2>5, <3>3 DEF Boots, BootSourceInit, runVars, mainVars, fileVars, unitVars
    <3> QED
      BY <2>5, <3>1, <3>2, <3>3 DEF Boots, BootStep
  <2>6. ASSUME NEW c \in Container, Systemd(c) PROVE TypeOK'
    <3>1. CASE UnitUp(c)
      BY <2>6, <3>1 DEF Systemd, UnitUp, runVars, mainVars, fileVars
    <3>5. CASE AddressKnown(c)
      BY <2>6, <3>5 DEF Systemd, AddressKnown, runVars, mainVars, fileVars
    <3>2. CASE UnitStartFails(c)
      BY <2>6, <3>2 DEF Systemd, UnitStartFails, StartScriptFails, StopMain, runVars,
                        mainVars, fileVars
    <3>3. CASE UnitLosesMain(c)
      BY <2>6, <3>3 DEF Systemd, UnitLosesMain, StopMain, runVars, mainVars, fileVars
    <3>4. CASE UnitRestarts(c)
      BY <2>6, <3>4 DEF Systemd, UnitRestarts, RunSlaveDocker, StartMain, runVars,
                        mainVars, fileVars
    <3> QED
      BY <2>6, <3>1, <3>2, <3>3, <3>4, <3>5 DEF Systemd, UnitStep
  <2>7. ASSUME NEW c \in Container, StartScriptFault(c) PROVE TypeOK'
    BY <2>7 DEF StartScriptFault, Fault, StartScriptFails, StopMain, mainVars, fileVars
  <2>8. ASSUME NEW c \in Container, ContainerFault(c) PROVE TypeOK'
    BY <2>8 DEF ContainerFault, Fault, ContainerDies, StopMain, mainVars, fileVars, unitVars
  <2>9. CASE RunFails
    BY <2>9 DEF RunFails, Fault, containerVars
  <2>10. CASE Reboot
    BY <2>10 DEF Reboot, Fault, NodeReboots, mainVars, fileVars
  <2>11. CASE UNCHANGED vars
    BY <2>11 DEF vars, containerVars, runVars
  <2> QED
    BY <2>1, <2>2, <2>3, <2>4, <2>5, <2>6, <2>7, <2>8, <2>9, <2>10, <2>11 DEF Next
<1> QED
  BY <1>1, <1>2, PTL DEF Spec

-----------------------------------------------------------------------------
\* What the containers, systemd and the environment do on their own leaves
\* every ready container ready, removes no container, touches no lock, no
\* template and no enablement, and lets no container past its lock.
LEMMA BackgroundStep ==
  ASSUME TypeOK,
         NEW c \in Container,
         Boots(c) \/ Systemd(c) \/ StartScriptFault(c) \/ ContainerFault(c) \/ Reboot
  PROVE  /\ UNCHANGED <<initLock, templates, enabled, k, hasHadoop, provisioned, runs>>
         /\ pc' = pc \/ pc' = "idle"
         /\ \A d \in Container : (docker[d] = "absent") = (docker'[d] = "absent")
         /\ \A d \in Container : (unit[d] = "none") = (unit'[d] = "none")
         /\ \A d \in Container :
              boot'[d] = "init" => boot[d] = "init" \/ (boot[d] # "down" /\ ~initLock[d])
<1> USE DEF TypeOK, ContainerTypeOK, runVars, mainVars, fileVars, unitVars
<1>1. CASE BootAfterCreate(c) /\ UNCHANGED runVars
  BY <1>1 DEF BootAfterCreate
<1>2. CASE BootFirstRun(c) /\ UNCHANGED runVars
  BY <1>2 DEF BootFirstRun
<1>3. CASE BootSourceInit(c) /\ UNCHANGED runVars
  BY <1>3 DEF BootSourceInit
<1>4. CASE (UnitUp(c) \/ AddressKnown(c)) /\ UNCHANGED runVars
  BY <1>4 DEF UnitUp, AddressKnown
<1>5. CASE UnitStartFails(c) /\ UNCHANGED runVars
  BY <1>5 DEF UnitStartFails, StartScriptFails, StopMain
<1>6. CASE UnitLosesMain(c) /\ UNCHANGED runVars
  BY <1>6 DEF UnitLosesMain, StopMain
<1>7. CASE UnitRestarts(c) /\ UNCHANGED runVars
  BY <1>7 DEF UnitRestarts, RunSlaveDocker, StartMain
<1>8. CASE StartScriptFault(c)
  BY <1>8 DEF StartScriptFault, Fault, StartScriptFails, StopMain
<1>9. CASE ContainerFault(c)
  BY <1>9 DEF ContainerFault, Fault, ContainerDies, StopMain
<1>10. CASE Reboot
  BY <1>10 DEF Reboot, Fault, NodeReboots
<1> QED
  BY <1>1, <1>2, <1>3, <1>4, <1>5, <1>6, <1>7, <1>8, <1>9, <1>10
     DEF Boots, BootStep, Systemd, UnitStep

\* A container without a unit starts no process in the background.
LEMMA BootNeedsUnit ==
  ASSUME TypeOK,
         NEW c \in Container,
         Boots(c) \/ Systemd(c) \/ StartScriptFault(c) \/ ContainerFault(c) \/ Reboot,
         NEW d \in Container, unit[d] = "none", boot[d] = "down"
  PROVE  boot'[d] = "down"
<1> USE DEF TypeOK, ContainerTypeOK
<1>1. CASE Boots(c)
  BY <1>1 DEF Boots, BootStep, BootAfterCreate, BootFirstRun, BootSourceInit
<1>2. CASE UnitRestarts(c)
  BY <1>2 DEF UnitRestarts, RunSlaveDocker, StartMain, mainVars
<1>5. CASE Systemd(c) /\ ~UnitRestarts(c)
  BY <1>5 DEF Systemd, UnitStep, AddressKnown, UnitUp, UnitStartFails, StartScriptFails, StopMain,
              UnitLosesMain, mainVars
<1>3. CASE StartScriptFault(c) \/ ContainerFault(c)
  BY <1>3 DEF StartScriptFault, StartScriptFails, ContainerFault, ContainerDies, StopMain
<1>4. CASE Reboot
  BY <1>4 DEF Reboot, NodeReboots
<1> QED
  BY <1>1, <1>2, <1>3, <1>4, <1>5 DEF Systemd

\* One step of the playbook or of anything else keeps what ProvisionInv says.
LEMMA ProvisionStep == TypeOK /\ ProvisionInv /\ [Next]_vars => ProvisionInv'
<1> SUFFICES ASSUME TypeOK, ProvisionInv, [Next]_vars
             PROVE  ProvisionInv'
  OBVIOUS
<1> USE NodeAssumption DEF NodeAssumption
<1>1. CASE StartRun \/ AppOnlyRun
  BY <1>1 DEF StartRun, AppOnlyRun, ProvisionInv, Ready, TypeOK, Steps, containerVars
<1>2. CASE UpdateNode
  BY <1>2 DEF UpdateNode, ProvisionInv, Ready, TypeOK, containerVars
<1>3. CASE RunStep
  <2> USE DEF Goto, Steps, ProvisionInv, Ready, TypeOK, ContainerTypeOK
  <2>1. CASE RemoveOld
    BY <1>3, <2>1 DEF RemoveOld, DockerRm, RmContainer, mainVars, unitVars
  <2>2. CASE CreateNew
    BY <2>2 DEF CreateNew, DockerCreate, mainVars, unitVars
  <2>3. CASE Lock
    BY <2>3 DEF Lock, CreateInitLock, mainVars, unitVars
  <2>4. CASE StopService
    BY <2>4 DEF StopService, UnitStopDisable, StopMain, mainVars, fileVars
  <2>5. CASE StartService
    BY <2>5 DEF StartService, UnitEnableStart, RunSlaveDocker, StartMain, mainVars, fileVars
  <2>6. CASE ServiceStarted \/ GiveUpService \/ InstallVpn \/ WaitUntilRunning
               \/ StepRefused
    BY <2>6 DEF ServiceStarted, GiveUpService, InstallVpn, WaitUntilRunning,
                StepRefused, containerVars
  <2>7. CASE RetryService
    BY <2>7 DEF RetryService, containerVars
  <2>8. CASE PushCommonTree \/ PushFrameworkTree
    BY <2>8 DEF PushCommonTree, PushFrameworkTree, PushTree, mainVars, unitVars
  <2>9. CASE Unlock
    BY <2>9 DEF Unlock, RemoveInitLock, mainVars, unitVars
  <2>10. CASE SetProvisioned
    BY <2>10 DEF SetProvisioned, containerVars
  <2> QED
    BY <1>3, <2>1, <2>2, <2>3, <2>4, <2>5, <2>6, <2>7, <2>8, <2>9, <2>10 DEF RunStep
<1>4. ASSUME NEW c \in Container,
             Boots(c) \/ Systemd(c) \/ StartScriptFault(c) \/ ContainerFault(c) \/ Reboot
      PROVE  ProvisionInv'
  <2>1. \A d \in Container : Ready(d) => Ready(d)'
    BY <1>4, BackgroundStep DEF Ready
  <2> QED
    BY <1>4, <2>1, BackgroundStep DEF ProvisionInv, TypeOK, Steps
<1>5. CASE RunFails
  BY <1>5 DEF RunFails, Fault, ProvisionInv, Ready, Steps, containerVars
<1>6. CASE UNCHANGED vars
  BY <1>6 DEF vars, containerVars, runVars, ProvisionInv, Ready
<1>7. 1 \in Container
  OBVIOUS
<1> QED
  BY <1>1, <1>2, <1>3, <1>4, <1>5, <1>6, <1>7 DEF Next

LEMMA ProvisionInvHolds == Spec => []ProvisionInv
<1>1. Init => ProvisionInv
  BY NodeAssumption DEF Init, ProvisionInv, Steps
<1> QED
  BY <1>1, ProvisionStep, TypeCorrect, PTL DEF Spec

\* The mark PROVISIONED tells the truth on every node, for every number of
\* frameworks, runs and faults.
THEOREM ProvisionedIsReady == Spec => []ProvisionedMeansReady
<1>1. ProvisionInv => ProvisionedMeansReady
  BY DEF ProvisionInv, ProvisionedMeansReady
<1> QED
  BY <1>1, ProvisionInvHolds, PTL

\* No container sources /etc/init.sh while its templates are being written.
THEOREM InitWaitsForTemplates == Spec => []NoInitDuringTemplates
<1>1. ProvisionInv => NoInitDuringTemplates
  BY DEF ProvisionInv, NoInitDuringTemplates
<1> QED
  BY <1>1, ProvisionInvHolds, PTL

-----------------------------------------------------------------------------
LEMMA FirstRunStep ==
  TypeOK /\ ProvisionInv /\ FirstRunInv /\ [Next]_vars => FirstRunInv'
<1> SUFFICES ASSUME TypeOK, ProvisionInv, FirstRunInv, [Next]_vars
             PROVE  FirstRunInv'
  OBVIOUS
<1> USE NodeAssumption DEF NodeAssumption
<1>1. CASE StartRun \/ AppOnlyRun
  BY <1>1 DEF StartRun, AppOnlyRun, FirstRunInv, TypeOK, containerVars
<1>2. CASE UpdateNode
  BY <1>2 DEF UpdateNode, FirstRunInv, containerVars
<1>3. CASE RunStep
  <2> USE DEF Goto, Steps, FirstRunInv, ProvisionInv, TypeOK, ContainerTypeOK
  <2>1. CASE RemoveOld
    BY <2>1 DEF RemoveOld, DockerRm, RmContainer, mainVars, unitVars
  <2>2. CASE CreateNew
    BY <2>2 DEF CreateNew, DockerCreate, mainVars, unitVars
  <2>3. CASE Lock
    BY <2>3 DEF Lock, CreateInitLock, mainVars, unitVars
  <2>4. CASE StopService
    BY <2>4 DEF StopService, UnitStopDisable, StopMain, mainVars, fileVars
  <2>5. CASE StartService
    BY <2>5 DEF StartService, UnitEnableStart, RunSlaveDocker, StartMain, mainVars, fileVars
  <2>6. CASE ServiceStarted \/ GiveUpService \/ InstallVpn \/ WaitUntilRunning
               \/ StepRefused
    BY <2>6 DEF ServiceStarted, GiveUpService, InstallVpn, WaitUntilRunning,
                StepRefused, containerVars
  <2>7. CASE RetryService
    BY <2>7 DEF RetryService, containerVars
  <2>8. CASE PushCommonTree \/ PushFrameworkTree
    BY <2>8 DEF PushCommonTree, PushFrameworkTree, PushTree, mainVars, unitVars
  <2>9. CASE Unlock
    BY <2>9 DEF Unlock, RemoveInitLock, mainVars, unitVars
  <2>10. CASE SetProvisioned
    BY <2>10 DEF SetProvisioned, containerVars
  <2> QED
    BY <1>3, <2>1, <2>2, <2>3, <2>4, <2>5, <2>6, <2>7, <2>8, <2>9, <2>10 DEF RunStep
<1>4. ASSUME NEW c \in Container,
             Boots(c) \/ Systemd(c) \/ StartScriptFault(c) \/ ContainerFault(c) \/ Reboot
      PROVE  FirstRunInv'
  <2>1. ASSUME NEW d \in Container, unit[d] = "none", boot[d] = "down"
        PROVE  boot'[d] = "down"
    BY <1>4, <2>1, BootNeedsUnit
  <2> QED
    BY <1>4, <2>1, BackgroundStep DEF FirstRunInv, TypeOK
<1>5. CASE RunFails
  BY <1>5 DEF RunFails, Fault, FirstRunInv, containerVars
<1>6. CASE UNCHANGED vars
  BY <1>6 DEF vars, containerVars, runVars, FirstRunInv
<1>7. 1 \in Container
  OBVIOUS
<1> QED
  BY <1>1, <1>2, <1>3, <1>4, <1>5, <1>6, <1>7 DEF Next

\* However the first run on a node ends, no container has sourced
\* /etc/init.sh without all of its templates.
THEOREM FirstRunIsGated == Spec => []FirstRunGated
<1>1. Init => FirstRunInv
  BY NodeAssumption DEF NodeAssumption, Init, ContainerInit, FirstRunInv
<1>2. FirstRunInv => FirstRunGated
  BY DEF FirstRunInv, FirstRunGated
<1> QED
  BY <1>1, <1>2, FirstRunStep, TypeCorrect, ProvisionInvHolds, PTL DEF Spec

-----------------------------------------------------------------------------
\* A step of the run other than the last one changes nothing but the
\* framework it works on, and leaves the mark alone.
LEMMA RunStepIsLocal ==
  ASSUME TypeOK, RunStep, ~SetProvisioned
  PROVE  /\ UNCHANGED <<hasHadoop, provisioned>>
         /\ \A d \in Container : d # k => Ready(d)' = Ready(d)
         /\ pc # "idle"
<1> USE DEF Goto, Ready, TypeOK, ContainerTypeOK
<1>1. CASE RemoveOld
  BY <1>1 DEF RemoveOld, DockerRm, RmContainer, mainVars, unitVars
<1>2. CASE CreateNew
  BY <1>2 DEF CreateNew, DockerCreate, mainVars, unitVars
<1>3. CASE Lock
  BY <1>3 DEF Lock, CreateInitLock, mainVars, unitVars
<1>4. CASE StopService
  BY <1>4 DEF StopService, UnitStopDisable, StopMain, mainVars, fileVars
<1>5. CASE StartService
  BY <1>5 DEF StartService, UnitEnableStart, RunSlaveDocker, StartMain, mainVars, fileVars
<1>6. CASE ServiceStarted \/ GiveUpService \/ InstallVpn \/ WaitUntilRunning
             \/ StepRefused \/ RetryService
  BY <1>6 DEF ServiceStarted, GiveUpService, InstallVpn, WaitUntilRunning,
              StepRefused, RetryService, containerVars
<1>7. CASE PushCommonTree \/ PushFrameworkTree
  BY <1>7 DEF PushCommonTree, PushFrameworkTree, PushTree, mainVars, unitVars
<1>8. CASE Unlock
  BY <1>8 DEF Unlock, RemoveInitLock, mainVars, unitVars
<1> QED
  BY <1>1, <1>2, <1>3, <1>4, <1>5, <1>6, <1>7, <1>8 DEF RunStep

\* /INIT_LOCK gates /etc/init.sh, by the two results above.
THEOREM InitIsGated == Spec => []InitGated
BY InitWaitsForTemplates, FirstRunIsGated, PTL DEF InitGated

\* The playbook with docker and systemd implements NodePromise: every step is
\* a step of the promise for the containers that are ready, or none.
THEOREM NodeKeepsPromise == Spec => KeepsPromise
<1> DEFINE S == {c \in Container : Ready(c)}
<1>1. Init => Promise!Init
  BY DEF Init, ContainerInit, Ready, Promise!Init
<1>2. ASSUME TypeOK, ProvisionInv, [Next]_vars
      PROVE  [Promise!Next]_(Promise!promiseVars)
  <2> USE <1>2
  <2>1. CASE StartRun
    BY <2>1 DEF StartRun, containerVars, Ready, Promise!promiseVars
  <2>2. CASE AppOnlyRun
    BY <2>2 DEF AppOnlyRun, containerVars, Ready, Promise!Next, Promise!Commit
  <2>3. CASE UpdateNode
    BY <2>3 DEF UpdateNode, containerVars, Ready, Promise!Next, Promise!Withdraw
  <2>4. CASE RunStep /\ ~SetProvisioned
    <3>1. k \in Container /\ ~provisioned
      BY <2>4, RunStepIsLocal, NodeAssumption DEF NodeAssumption, TypeOK, ProvisionInv
    <3>2. S' = S \/ S' = S \cup {k} \/ S' = S \ {k}
      BY <2>4, <3>1, RunStepIsLocal
    <3>3. UNCHANGED <<hasHadoop, provisioned>>
      BY <2>4, RunStepIsLocal
    <3> QED
      BY <3>1, <3>2, <3>3 DEF Promise!Next, Promise!Prepare, Promise!Spoil,
                              Promise!promiseVars
  <2>5. CASE SetProvisioned
    <3>1. S = Container
      BY <2>5 DEF SetProvisioned, ProvisionInv
    <3> QED
      BY <2>5, <3>1 DEF SetProvisioned, containerVars, Ready, Promise!Next, Promise!Commit
  <2>6. ASSUME NEW c \in Container,
               Boots(c) \/ Systemd(c) \/ StartScriptFault(c) \/ ContainerFault(c) \/ Reboot
        PROVE  UNCHANGED Promise!promiseVars
    <3>1. \A d \in Container : Ready(d)' = Ready(d)
      BY <2>6, BackgroundStep DEF Ready
    <3>2. UNCHANGED <<hasHadoop, provisioned>>
      BY <2>6, BackgroundStep
    <3> QED
      BY <3>1, <3>2 DEF Promise!promiseVars
  <2>7. CASE RunFails
    BY <2>7 DEF RunFails, containerVars, Ready, Promise!promiseVars
  <2>8. CASE UNCHANGED vars
    BY <2>8 DEF vars, containerVars, runVars, Ready, Promise!promiseVars
  <2>9. 1 \in Container
    BY NodeAssumption DEF NodeAssumption
  <2> QED
    BY <2>1, <2>2, <2>3, <2>4, <2>5, <2>6, <2>7, <2>8, <2>9 DEF Next
<1> QED
  BY <1>1, <1>2, TypeCorrect, ProvisionInvHolds, PTL DEF Spec, KeepsPromise, Promise!Spec

-----------------------------------------------------------------------------
\* Only four operations touch the one-shot scripts of a container: its removal
\* keeps what is in the volume, its creation adds to a volume that was there
\* nothing but /after-create, and the bootstrap script only removes.
LEMMA ScriptsKept ==
  ASSUME TypeOK, [Next]_vars, NEW c \in Container, etcVolume[c], "first_run" \notin scripts[c]
  PROVE  "first_run" \notin scripts'[c]
<1> USE NodeAssumption DEF NodeAssumption, TypeOK, ContainerTypeOK
<1>1. CASE RemoveOld
  <2>1. scripts'[c] = scripts[c] \/ scripts'[c] = scripts[c] \ {"after_create"}
    BY <1>1 DEF RemoveOld, DockerRm, RmContainer
  <2> QED BY <2>1
<1>2. CASE CreateNew
  <2>1. scripts'[c] = scripts[c] \/ scripts'[c] = scripts[c] \cup {"after_create"}
    BY <1>2 DEF CreateNew, DockerCreate
  <2> QED BY <2>1
<1>3. CASE RunStep /\ ~RemoveOld /\ ~CreateNew
  BY <1>3 DEF RunStep, Lock, CreateInitLock, StopService, UnitStopDisable, StartService,
       UnitEnableStart, RunSlaveDocker, ServiceStarted, RetryService, GiveUpService,
       InstallVpn, WaitUntilRunning, PushCommonTree, PushFrameworkTree, PushTree,
       Unlock, RemoveInitLock, StepRefused, SetProvisioned, mainVars, fileVars, containerVars
<1>4. ASSUME NEW d \in Container, Boots(d) PROVE "first_run" \notin scripts'[c]
  <2>1. scripts'[c] \subseteq scripts[c]
    BY <1>4 DEF Boots, BootStep, BootAfterCreate, BootFirstRun, BootSourceInit, mainVars, fileVars
  <2> QED BY <2>1
<1>5. CASE StartRun \/ AppOnlyRun \/ UpdateNode \/ RunFails \/ Reboot \/ UNCHANGED vars
  BY <1>5 DEF StartRun, AppOnlyRun, UpdateNode, RunFails, Reboot, NodeReboots, mainVars, fileVars,
       containerVars, vars
<1>6. ASSUME NEW d \in Container, Systemd(d) \/ StartScriptFault(d) \/ ContainerFault(d)
      PROVE  "first_run" \notin scripts'[c]
  BY <1>6 DEF Systemd, UnitStep, AddressKnown, UnitUp, UnitStartFails, UnitLosesMain, UnitRestarts,
       StartScriptFault, StartScriptFails, ContainerFault, ContainerDies, RunSlaveDocker,
       mainVars, fileVars
<1> QED
  BY <1>1, <1>2, <1>3, <1>4, <1>5, <1>6 DEF Next

\* /etc/first_run.sh, once run and removed from the /etc volume of a container,
\* is never there again, whatever removes and creates the container.
THEOREM FirstRunStaysDone == Spec => FirstRunNeverAgain
<1>1. TypeOK /\ [Next]_vars =>
        [\A c \in Container :
           etcVolume[c] /\ "first_run" \notin scripts[c] => "first_run" \notin scripts'[c]]_vars
  BY ScriptsKept
<1> QED
  BY <1>1, TypeCorrect, PTL DEF Spec, FirstRunNeverAgain
=============================================================================
