---------------------------- MODULE ContainerBoot ----------------------------
(***************************************************************************)
(* One GEX container on a node: what docker keeps of it, the bootstrap     *)
(* script that is its main process (docker_utils.rb, BOOTSTRAP_FILE_       *)
(* CONTENTS), the /INIT_LOCK file by which a provisioner holds it back,    *)
(* and the systemd unit that starts and restarts it (app.service.erb,      *)
(* runslavedocker.bash).                                                   *)
(*                                                                         *)
(* The module gives the shared state and one operator per operation; the   *)
(* provisioners that call them are in NodeProvision and AppProvision.      *)
(***************************************************************************)
EXTENDS Naturals

CONSTANT Container      \* the containers of one node

VARIABLES
  aws,        \* is this node on AWS (CLOUD_TYPE); the same for ever
  docker,     \* docker[c]: does the container exist, does it run
  boot,       \* boot[c]: where its bootstrap script stands
  scripts,    \* scripts[c]: the one-shot scripts still in its file systems
  etcVolume,  \* etcVolume[c]: its named /etc volume exists
  initLock,   \* initLock[c]: /INIT_LOCK is in its own file system
  templates,  \* templates[c]: how much of its template trees is applied
  unit,       \* unit[c]: its systemd unit, <c>.service
  attached,   \* attached[c]: the main process of the unit, its own "docker
              \* start -a" of c, lives
  enabled,    \* enabled[c]: the unit starts when the node boots
  job         \* job[c]: the outcome of the last "systemctl start"

mainVars  == <<docker, boot, attached>>
fileVars  == <<scripts, etcVolume, initLock, templates>>
unitVars  == <<unit, enabled, job>>
containerVars == <<docker, boot, attached, scripts, etcVolume, initLock,
                   templates, unit, enabled, job>>

OneShot == {"after_create", "first_run"}   \* /after-create, /etc/first_run.sh

ContainerTypeOK ==
  /\ aws \in BOOLEAN
  /\ docker    \in [Container -> {"absent", "created", "running", "exited"}]
  /\ boot      \in [Container -> {"down", "after_create", "first_run",
                                  "lock_wait", "init"}]
  /\ scripts   \in [Container -> SUBSET OneShot]
  /\ etcVolume \in [Container -> BOOLEAN]
  /\ initLock  \in [Container -> BOOLEAN]
  /\ templates \in [Container -> {"none", "partial", "full", "script"}]
  /\ unit      \in [Container -> {"none", "inactive", "starting", "addressed",
                                  "active", "restarting"}]
  /\ attached  \in [Container -> BOOLEAN]
  /\ enabled   \in [Container -> BOOLEAN]
  /\ job       \in [Container -> {"none", "waiting", "ok", "failed"}]

ContainerInit ==
  /\ aws \in BOOLEAN
  /\ docker    = [c \in Container |-> "absent"]
  /\ boot      = [c \in Container |-> "down"]
  /\ scripts   = [c \in Container |-> {}]
  /\ etcVolume = [c \in Container |-> FALSE]
  /\ initLock  = [c \in Container |-> FALSE]
  /\ templates = [c \in Container |-> "none"]
  /\ unit      = [c \in Container |-> "none"]
  /\ attached  = [c \in Container |-> FALSE]
  /\ enabled   = [c \in Container |-> FALSE]
  /\ job       = [c \in Container |-> "none"]

-----------------------------------------------------------------------------
(* What docker does. *)

\* The main process of c is (again) at the first line of the bootstrap
\* script: "docker start" of a container that exists, by its unit or not.
StartMain(c, byUnit) ==
  IF docker[c] = "absent"
    THEN UNCHANGED mainVars
    ELSE /\ docker'   = [docker EXCEPT ![c] = "running"]
         /\ boot'     = [boot EXCEPT ![c] = "after_create"]
         /\ attached' = [attached EXCEPT ![c] = byUnit]

\* "docker stop", and any other end of the main process, which a "docker
\* start -a" of it does not outlive.
StopMain(c) ==
  /\ docker'   = [docker EXCEPT ![c] = IF @ = "running" THEN "exited" ELSE @]
  /\ boot'     = [boot EXCEPT ![c] = "down"]
  /\ attached' = [attached EXCEPT ![c] = FALSE]

\* "docker rm -f": the container and its own file system go, the named
\* volumes stay with what they hold.
RmContainer(c) ==
  /\ docker'    = [docker EXCEPT ![c] = "absent"]
  /\ boot'      = [boot EXCEPT ![c] = "down"]
  /\ attached'  = [attached EXCEPT ![c] = FALSE]
  /\ initLock'  = [initLock EXCEPT ![c] = FALSE]
  /\ templates' = [templates EXCEPT ![c] = "none"]
  /\ scripts'   = [scripts EXCEPT ![c] = IF etcVolume[c] THEN @ \ {"after_create"}
                                                         ELSE {}]
  /\ UNCHANGED etcVolume

DockerRm(c) == RmContainer(c) /\ UNCHANGED unitVars

\* Mutant: erase_volumes comes before the create and does erase.
DockerCreateErasing(c, withVolumes) ==
  /\ docker'    = [docker EXCEPT ![c] = "created"]
  /\ etcVolume' = [etcVolume EXCEPT ![c] = @ \/ withVolumes]
  /\ scripts'   = [scripts EXCEPT ![c] = OneShot]
  /\ UNCHANGED <<boot, attached, initLock, templates, unitVars>>

\* "docker create" and the file work after it.  The image carries both
\* one-shot scripts; /after-create is in the container's file system, but
\* /etc/first_run.sh is in the /etc volume when there is one, and docker
\* fills a volume from the image only when the volume is new.  erase_volumes
\* comes after the create, when the volumes are in use, so "docker volume
\* rm -f" fails, its status is not looked at, and a volume that was there
\* keeps what it held.
DockerCreate(c, withVolumes) ==
  /\ docker'    = [docker EXCEPT ![c] = "created"]
  /\ etcVolume' = [etcVolume EXCEPT ![c] = @ \/ withVolumes]
  /\ scripts'   = [scripts EXCEPT ![c] =
                     IF withVolumes /\ etcVolume[c] THEN @ \cup {"after_create"}
                                                    ELSE OneShot]
  /\ UNCHANGED <<boot, attached, initLock, templates, unitVars>>

\* create_init_lock: "docker cp" works on a container that does not run.
CreateInitLock(c) ==
  /\ initLock' = [initLock EXCEPT ![c] = TRUE]
  /\ UNCHANGED <<mainVars, scripts, etcVolume, templates, unitVars>>

\* remove_init_lock: assert_dpath ("docker exec stat") needs the container
\* running and the file there, then the file is removed.
CanRemoveInitLock(c) == docker[c] = "running" /\ initLock[c]

\* Mutant: another file is removed.
RemoveNothing(c) == UNCHANGED containerVars

RemoveInitLock(c) ==
  /\ initLock' = [initLock EXCEPT ![c] = FALSE]
  /\ UNCHANGED <<mainVars, scripts, etcVolume, templates, unitVars>>

\* One template tree pushed into the container (process_template_tree).
PushTree(c, upTo) ==
  /\ templates' = [templates EXCEPT ![c] = upTo]
  /\ UNCHANGED <<mainVars, scripts, etcVolume, initLock, unitVars>>

-----------------------------------------------------------------------------
(* The bootstrap script, line by line: it runs and removes the one-shot     *)
(* scripts it finds, waits while /INIT_LOCK is there, and only then sources *)
(* /etc/init.sh and sleeps for ever.  A stop between sourcing a one-shot    *)
(* script and removing it leaves the script, as a stop before it does.      *)

BootAfterCreate(c) ==
  /\ docker[c] = "running" /\ boot[c] = "after_create"
  /\ scripts' = [scripts EXCEPT ![c] = @ \ {"after_create"}]
  /\ boot' = [boot EXCEPT ![c] = "first_run"]
  /\ UNCHANGED <<docker, attached, etcVolume, initLock, templates, unitVars>>

BootFirstRun(c) ==
  /\ docker[c] = "running" /\ boot[c] = "first_run"
  /\ scripts' = [scripts EXCEPT ![c] = @ \ {"first_run"}]
  /\ boot' = [boot EXCEPT ![c] = "lock_wait"]
  /\ UNCHANGED <<docker, attached, etcVolume, initLock, templates, unitVars>>

\* Mutant: the loop "while [ -f /INIT_LOCK ]" is lost.
BootSourceInitUngated(c) ==
  /\ docker[c] = "running" /\ boot[c] = "lock_wait"
  /\ boot' = [boot EXCEPT ![c] = "init"]
  /\ UNCHANGED <<docker, attached, fileVars, unitVars>>

BootSourceInit(c) ==
  /\ docker[c] = "running" /\ boot[c] = "lock_wait"
  /\ ~initLock[c]
  /\ boot' = [boot EXCEPT ![c] = "init"]
  /\ UNCHANGED <<docker, attached, fileVars, unitVars>>

BootStep(c) == BootAfterCreate(c) \/ BootFirstRun(c) \/ BootSourceInit(c)

-----------------------------------------------------------------------------
(* The unit.  runslavedocker.bash stops the container, starts it again in   *)
(* the background, finds its address and then its name.  Where the          *)
(* container does not run this fails (set -e), except for the address of a  *)
(* container on AWS: the loop asks for it every five seconds, for ever, and *)
(* no TimeoutSec ends the script.                                           *)

RunSlaveDocker(c) ==
  /\ unit' = [unit EXCEPT ![c] = "starting"]
  /\ StartMain(c, TRUE)
  /\ UNCHANGED fileVars

\* "systemctl stop" and "systemctl disable".  ExecStop and ExecStopPost run
\* only for a unit that has started.
UnitStopDisable(c) ==
  /\ IF unit[c] \in {"starting", "addressed", "active"} THEN StopMain(c)
                                                        ELSE UNCHANGED mainVars
  /\ unit'    = [unit EXCEPT ![c] = "inactive"]
  /\ enabled' = [enabled EXCEPT ![c] = FALSE]
  /\ job'     = [job EXCEPT ![c] = "none"]
  /\ UNCHANGED fileVars

\* Mutant: the unit is started, not enabled.
UnitStartOnly(c) ==
  /\ RunSlaveDocker(c)
  /\ job' = [job EXCEPT ![c] = "waiting"]
  /\ UNCHANGED enabled

\* "systemctl enable" and "systemctl start"; the second returns when the
\* script has ended.
UnitEnableStart(c) ==
  /\ RunSlaveDocker(c)
  /\ enabled' = [enabled EXCEPT ![c] = TRUE]
  /\ job'     = [job EXCEPT ![c] = "waiting"]

\* pipework and "ip addr" have worked, or weave has given the container its
\* address.
AddressKnown(c) ==
  /\ unit[c] = "starting" /\ docker[c] = "running"
  /\ unit' = [unit EXCEPT ![c] = "addressed"]
  /\ UNCHANGED <<mainVars, fileVars, enabled, job>>

\* The script has come to its end, the container runs, and the process of the
\* PIDFile lives.
UnitUp(c) ==
  /\ unit[c] = "addressed" /\ docker[c] = "running" /\ attached[c]
  /\ unit' = [unit EXCEPT ![c] = "active"]
  /\ job'  = [job EXCEPT ![c] = IF @ = "waiting" THEN "ok" ELSE @]
  /\ UNCHANGED <<mainVars, fileVars, enabled>>

\* The start of the unit failed: ExecStopPost stops the container, Restart=always
\* schedules the next try in RestartSec.
StartScriptFails(c) ==
  /\ unit[c] \in {"starting", "addressed"}
  /\ StopMain(c)
  /\ unit' = [unit EXCEPT ![c] = "restarting"]
  /\ job'  = [job EXCEPT ![c] = IF @ = "waiting" THEN "failed" ELSE @]
  /\ UNCHANGED <<fileVars, enabled>>

\* ... because the container is not there or has ended, or runs again without
\* the process of the PIDFile.
UnitStartFails(c) ==
  /\ \/ unit[c] = "starting" /\ docker[c] # "running" /\ ~aws
     \/ unit[c] = "addressed" /\ ~attached[c]
  /\ StartScriptFails(c)

\* On AWS the start script waits for an address the container cannot get.
WaitsForAddress(c) == aws /\ unit[c] = "starting" /\ docker[c] # "running"

\* Mutant: Restart=no.
UnitGivesUp(c) ==
  /\ unit[c] = "active" /\ ~attached[c]
  /\ StopMain(c)
  /\ unit' = [unit EXCEPT ![c] = "inactive"]
  /\ UNCHANGED <<fileVars, enabled, job>>

\* The main process of an active unit has ended: ExecStopPost stops the
\* container, which somebody may have started again, and Restart follows.
UnitLosesMain(c) ==
  /\ unit[c] = "active" /\ ~attached[c]
  /\ StopMain(c)
  /\ unit' = [unit EXCEPT ![c] = "restarting"]
  /\ UNCHANGED <<fileVars, enabled, job>>

\* RestartSec has passed.
UnitRestarts(c) ==
  /\ unit[c] = "restarting"
  /\ RunSlaveDocker(c)
  /\ UNCHANGED <<enabled, job>>

UnitStep(c) ==
  AddressKnown(c) \/ UnitUp(c) \/ UnitStartFails(c) \/ UnitLosesMain(c) \/ UnitRestarts(c)

-----------------------------------------------------------------------------
(* What may happen to a container or to its node at any time.               *)

ContainerDies(c) ==
  /\ docker[c] = "running"
  /\ StopMain(c)
  /\ UNCHANGED <<fileVars, unitVars>>

\* The node reboots: no process survives; systemd starts the enabled units.
NodeReboots ==
  /\ docker' = [c \in Container |-> IF docker[c] = "running" THEN "exited"
                                                             ELSE docker[c]]
  /\ boot' = [c \in Container |-> "down"]
  /\ attached' = [c \in Container |-> FALSE]
  /\ unit' = [c \in Container |-> IF unit[c] = "none" THEN "none"
                                  ELSE IF enabled[c] THEN "restarting"
                                  ELSE "inactive"]
  /\ job'  = [c \in Container |-> "none"]
  /\ UNCHANGED <<fileVars, enabled>>
=============================================================================
