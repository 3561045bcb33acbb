# gexcloud in TLA+

gexcloud creates and runs clusters of docker containers on the nodes of its
customers (virtual machines, bare metal, AWS instances): Ruby scripts on the
nodes and in the cloud, shell scripts in the containers, systemd units that tie
them together, and rake tasks that publish what the nodes install.  Hardly any
of that holds its state in memory.  The state is files, containers, units,
images and counters, changed by short-lived scripts that fail, are killed, run
again and meet each other.  Beside the scripts the repository keeps the sources
of two C programs it builds into its images: an OpenSSH server with a changed
authentication (`base/ssh`), and the Lua interpreter of the web proxy
(`webproxy_aws/temp/lua-5.3.2`).  This project models all three, checks the
models with TLC and proves the main results about the scripts, sshd and Lua's
calls with TLAPS.

Paths below are relative to the repository; `ruby_scripts/` is
`base/ruby_scripts/`, `create_ami/` is `cloud/create_ami/`, and the C files of
Lua are in `webproxy_aws/temp/lua-5.3.2/src/`.

## Inventory

| component | state | operations | interacts with | what makes it correct |
|---|---|---|---|---|
| container lifecycle: `docker_utils.rb`, `service_utils.rb`, `container_service.rb`, `base/common/runslavedocker.bash`, `app.service.erb` | the container, its bootstrap script, its one-shot scripts, `/INIT_LOCK`, its volumes, its unit | `dcreate_container`, `drm`, `dstart`, `create_init_lock`, `remove_init_lock`, `enable_and_start_service`, the script, restarts by systemd | called by both provisioners; restarted by systemd at any time | `/etc/init.sh` waits for the templates; one-shot scripts stay one-shot; an enabled unit brings the container back |
| node provisioning: `slaveplaybook.rb`, `node_utils.rb`, `update_gexnode.rb` | the mark `PROVISIONED`, where the run stands | a run of the playbook, an update | container lifecycle, consul, templates | the mark says the truth after any number of failed runs; runs end |
| application containers: `run_container.rb`, `remove_container.rb`, `gexcloud_container_utils.rb` | where a run stands, its exit status | create, create anew, remove, as each run finds the application | container lifecycle | a run that ends well leaves a configured container that serves; what a failed run leaves can be told |
| container addresses on AWS: `create_ami/files/get_ip.rb`, `get_weave_address` | a counter file with a lock, the addresses in use | get an address over ssh | every creation of a container on an AWS node | no two containers of a cluster have one address |
| image publishing: `create_ami/main.rb`, `gex_aws_ami.rb` | images at AWS, S3 objects that name them, instances, threads | `rake create_images` | AWS, readers of the S3 objects | a task that ends well has published every image, the old image goes only for a new one |
| artifact publishing: `base/ruby/deploy.rb`, `base/Rakefile` | debs, boxes and the version files that name them | deploy | `update_gexnode.rb`, box downloads | a version file names what can be downloaded |
| template and file editing: `template_utils.rb`, `edit_utils.rb`, `file_utils.rb` | temporary files, open editors | pull, edit, push | both provisioners | no edit is lost |
| registry and ports: `consul_utils.rb`, `zookeeper_utils.rb`, `network_utils.rb`, `exception_utils.rb` | keys, a cached connection, a read cache, a lock | get, put, lock, ports of a cluster | every script | ports of clusters differ; the lock is released |
| idle containers: `master/Rakefile`, `master/config/schedule.rb` | `.disabled` files, units | mark, stop, start | cron, systemd | what is in use is not stopped |
| chef recipes of the node: `base/chef_scripts/gex/cookbooks/gex` | as the provisioners | container_install, node_install | container lifecycle | as the provisioners |
| virtual machines: `god.conf`, `run_vm.rb` | vagrant machines | watch | god | a stopped machine is started |
| sshd with PAM: `base/ssh/auth-pam_next.c`, `12/auth1.c`, `12/auth2.c` | the PAM handle, account status, session and credentials; the PAM process, two sockets | a request, a query, a response, account, session, cleanup | the client, PAM, signals | only who was accepted by a method and by the account gets in; nobody is left waiting; all is closed |
| Lua collector: `lgc.c`, `lstring.c`, `lfunc.c` | colours, gray lists, lists of objects, the state of the cycle | a step, a full collection, barriers, allocation, `__gc` | the running program between any two steps | nothing in use is freed, everything else is, finalizers first |
| Lua tables: `ltable.c` | array and hash part, the last free position | get, set, next, length, rehash | the collector (dead keys) | a table is a finite map |
| Lua calls: `ldo.c`, `lcorolib.c` | call information of each coroutine, the C stack | call, pcall, yield, resume, error | the program | control comes back to where it can go on, with the right handler |
| Lua compiler and machine: `llex.c`, `lparser.c`, `lcode.c`, `lvm.c`, `ldump.c`, `lundump.c` | the buffer, scopes, pending jumps, registers | scan, parse, generate, execute, dump, load | each other | the code does what the manual says of its text |
| Lua libraries: `lstrlib.c`, `ltablib.c`, `lbitlib.c`, `lutf8lib.c`, `lmathlib.c`, `lvm.c` (numbers) | none between calls | pack, find, gsub, sort, move, insert, shift, extract, codepoint, offset, floor, random | the program | as the manual |
| monitoring, web proxy, roles and playbooks, other vendored code | | | | not part of the core logic |

What is hard here, line by line, is the list `hazards` of `PROJECT.json`: the
interleaving of a provisioner with systemd and with the bootstrap script, runs
that stop half-way and are run again, `flush` without `fsync`, output that is
sent before the write it announces, waits without a limit, threads nobody
joins; a PAM process that dies under sshd; a program that runs between the
steps of its collector; errors and yields that leave many frames at once; and
the ends of ranges.

Further hazards of the scripts, for which there is no model yet: every process
that loads `docker_utils.rb` rewrites `/tmp/gex_etc_bootstrap_sh` (line 76)
while another may be copying it; `get_tmp_name` (`file_utils.rb:40`) has no
process id; two runs of `run_container.rb` pull in one git directory
(`gexcloud_container_utils.rb:76`); `send_exception_to_slack` may raise before
the consul lock is deleted (`exception_utils.rb:39`); the port ranges of consul
and zookeeper overlap from cluster 4001 on (`consul_utils.rb:9`); `zget`
answers from a cache no write clears (`zookeeper_utils.rb:84`); of two editors
of a file the second push overwrites the first (`template_utils.rb:18`); the
version file is published before the deb it names (`base/ruby/deploy.rb:175`),
and `curl` without `--fail` takes an error page for it
(`update_gexnode.rb:58`); units that start at once edit the hosts files
(`runslavedocker.bash:71`); the chef recipe starts a service before its
templates are there and takes no lock (`container_install.rb:48`).

## Modules

`ContainerBoot` is the base: the state of the containers of one node and one
operator per operation on it, without a specification of its own.

* `docker`, `boot`, `scripts`, `etcVolume`, `initLock`, `templates` are what
  docker and the file systems hold.  `boot` is the position in the bootstrap
  script (`BOOTSTRAP_FILE_CONTENTS`, `docker_utils.rb:20-68`).  One-shot scripts
  are in the container's file system, except `/etc/first_run.sh`, which is in
  the `/etc` volume when the container has one: this is why `RmContainer` and
  `DockerCreate` treat the two differently.
* `unit`, `enabled`, `job` are what systemd holds: the state of `<c>.service`,
  whether it starts at boot, and how the last `systemctl start` ended.
  `RunSlaveDocker` is the start of `runslavedocker.bash`, `AddressKnown` the
  middle, `UnitUp` the end.  "docker start -a" runs in its background, so the
  bootstrap script runs while the unit is still starting; `attached` says that
  this process lives, which systemd takes for the main one of the unit
  (`PIDFile`).
* `aws` is the kind of the node.  Elsewhere the start script fails when it looks
  for the address of a container that does not run.  On AWS it asks again every
  five seconds and never ends (`runslavedocker.bash:84-89`): with `TimeoutSec=0`
  the unit stays in its start, and `Restart=always` never applies.  This is
  `WaitsForAddress`; only a stop of the unit, a start of the container by
  somebody else, or a reboot ends it.

`NodeProvision` EXTENDS it with `slaveplaybook.rb`: `pc` is the step of
`setup_framework`, `k` the framework, `tries` the counter of `iterator_exec`.
Every command may fail (`RunFails`), a start script may fail, a container may
die and the node may reboot, at any time and `MaxFaults` times.  On AWS the
status of hue's `systemctl start` is not looked at (`service_utils.rb:31`):
`StartUnchecked`.

`NodePromise` is the abstract specification: a set of ready containers, and a
mark that can be set only when all are ready and protects them while it is
set.  `NodeProvision!Promise` is the refinement mapping: `ready` is the set of
containers that exist with all their templates, no lock and an enabled unit.

`AppProvision` EXTENDS `ContainerBoot` with `run_container.rb` and
`remove_container.rb`, a process per container.  `way[c]` is what the present
run has found out: a box of the application hub, whose image has a main process
of its own (`main[c]`), or an image, and then templates or the script
`/opt/gex/configure.sh`.  A clone, a pull or a copy of templates that fails is
rescued (`run_container.rb:127-143`), so `Pull` may come to either, for an
application that has templates too, and the run goes on without them and
without `/INIT_LOCK`.  A later run of the same container may find something
else.

`WeaveIpam` models `get_ip.rb` line by line on the coordinator and its callers
on the nodes.  `counter` is the file as processes see it, `durable` as the disk
has it.  `use_container` (`docker_utils.rb:4-17`) forgets the cached weave
options, so every creation of a container is a call of its own.  `lost` counts
the increments that never took effect.

`AmiPublish` models `create_images`: the main thread and its joins, a thread
per image, a thread per image and region, and AWS, which takes its time to
finish an image.  Images are named by the run that made them
(`@ami_version` is the time of the run).

`IdleContainers` models the four rake tasks of `master/Rakefile` that stop and
start the containers of clusters on a master host, one per file of the
directory they have read (`todo`, `cur`), while the others, cron, removals and
reboots go on.  `mark` is the `.disabled` file with its age.  A start of a unit
without a file is refused, and a question to a container that does not run is
answered as that to an idle one (`LooksIdle`): "docker exec" prints nothing.
`seen` is a history variable: the clusters that looked idle at some time after
their first 300 seconds.

`SshAuth` models one connection to the patched sshd.  `state` is where sshd
stands, `thread` where the PAM process does (`pthread_create` forks,
`UNSUPPORTED_POSIX_THREADS_HACK` is off), `psock` and `csock` are the two ends
of their socket pair, `sigchld` the disposition of the signal, `copy` the
variables the process has of its own since the fork: an account status found
there comes back only in the last message (`Imported`).  PAM answers as it
likes; the process may be killed, the client may hang up and the grace alarm
may fire at any point.  `proved` is a history variable.

`LuaGc` models the cycle of `lgc.c` state by state, `atomic` included, which is
split where it calls `propagateall`; `Op` are the operations of a program, which
may come between any two steps of the collector, each with the barrier it has in
the code.  Objects are on the lists `allgc`, `finobj`, `tobefnz` and swept one
by one; tables and userdata can have finalizers (`lua_setmetatable`).
`luaC_fullgc` and emergency collections set a `goal`.  `Init` starts from any heap of `Start` that a program may have built before the first cycle
(`HeapOK`).  `unswept` is a history variable: the objects that the last sweep did
not come to (see the findings).

`LuaDict` says what a table promises, and `LuaTable` (nodes with `next`
offsets, main positions, the free pointer, `rehash` with `computesizes`, dead
keys left by the collector, `luaH_next`) is shown to implement it.

`LuaCall` keeps, for each coroutine, its list of `CallInfo` with the
continuation, `CIST_YPCALL` and the handlers, and one C stack for all of them:
what `luaD_rawrunprotected`, `lua_resume` and C functions put on it.  An error
or a yield is `thrown` and unwinds it activation by activation.

`LuaScope` compiles programs it chooses statement by statement: blocks, local
variables, functions, upvalues, loops, `goto`, labels and `break`, with the
pending gotos and active labels of `Dyndata`; of an instruction it keeps the
target of a jump and the level it closes.  Where control should go from a label
is not read from the compiler's record: the program's structure gives it
(`marks`: the block a label is in, and where that block's next statement begins
or, at its end, what follows it).

The rest of Lua has no state between calls and is written as operators, each
file beside a definition of what it should return: `LuaNumber` (integers of W
bits and floats with a mantissa of NBM bits), `LuaPack`, `LuaPattern`,
`LuaTabLib`, `LuaBits` (`lbitlib.c`), `LuaUtf8` (`lutf8lib.c`), `LuaMath`
(`lmathlib.c`), `LuaExpr` (from tokens to instructions to their effect),
`LuaDump`, `LuaLex`.  `LuaLib` makes each of them a call with arguments.
`LuaSteps` names the result of one statement of a C function for the next.
In `LuaExpr` the productions of the grammar call one another through `parse`.

The theorems are in eight modules, each named for the module it is about:
`NodeProvisionProofs`, `AppProvisionProofs`, `WeaveIpamProofs`,
`AmiPublishProofs`, `IdleContainersProofs`, `SshAuthProofs`, `LuaGcProofs`, and
`LuaStackProofs` for `LuaCall`.
The `MC` modules give TLC the sequences, functions and inputs a cfg cannot
write.

## Runs

| run | what it asks | bounds, and why they are enough |
|---|---|---|
| `node` | two runs of the playbook with two failures: mark, lock, first run, one-shot scripts, refinement, and that runs end and containers serve | on AWS or elsewhere, as `Init` chooses; two frameworks as in `FRAMEWORKS`, one with an unchecked start; two runs, so that the second meets whatever the first left; two failures, so that one may hit the recovery from the other; `Iterations = 0` still retries once, with the same off-by-one as 5 |
| `app` | what the exit status of a run says about the container it leaves, and where a run may wait for ever | one container (containers of different applications share only reboots), on AWS or elsewhere, three runs with removals between, each of which finds out what it is, two failures |
| `weave` | who shares an address and when | two containers, three calls (two callers and a call given up), two failures; the counter starts at 32766, so that the last octets are used up within the run |
| `ami` | what a task leaves in the regions when it ends, and what a failed one takes away | two builders, one region besides the default, two runs, one failed call: the second run meets what the first left |
| `ami_all` | is every image published when the task ends well? | one run, three builders, no failure; it is violated, see below |
| `idle` | was a cluster that is stopped ever idle, and are marked clusters stopped for good? | one cluster with its two containers; two runs of `mark_idle` (the second refreshes a mark or leaves one behind a removal), two tasks by hand, so that a start and a stop overlap, two reboots |
| `ssh` | who is let in, what is left open, and does every wait end? | root and another user, so that the rules for root and a change of user happen; two failures allowed and three requests, so that the limit is passed; conversations of two messages, both protocols and every setting of `PermitRootLogin` and `PermitEmptyPasswords` |
| `lua_gc` | is anything freed too early, or never? | one object of each type, two operations of the program between the steps of one or more cycles, from heaps that already hold what takes longer to build: a finalizer under each weak mode, a table and a userdata with finalizers at once (two are what the finding below takes), a weak table that only a userdata reaches, a closure over a variable of a coroutine |
| `lua_table` | does a table behave as a map, and does a traversal see all of it? | integer keys to 5 and three others that collide in every size, six assignments: enough for three rehashes, moves between the parts and keys removed and set again; the largest `int` is 5 as well (`MAX_INT`), so the search for the length doubles until the next step would overflow and then goes one by one |
| `lua_call` | can every resume go on, with which handler, and how deep? | two coroutines, four frames in all, a limit of four C calls, so that it is reached in a coroutine of a coroutine; an eighth of it is 0, so the room for errors beyond the limit is in the theorem only |
| `lua_scope` | do names, gotos and closing jumps mean what scopes say? | five budgets: a closure with a block, a jump and a label, with a loop, a jump and a label, and with a block in a loop (or a loop in a block) and a jump; two functions with shadowing; two gotos through nested blocks and loops |
| `lua_lib` | does each function return what the manual defines? | all integers of 4 bits and floats of 2 (every boundary of the wider types is a boundary of these), two-byte integers for pack, words of four bits in unsigned integers of six for the bit library, bytes at both ends of the ranges of the Unicode table for utf8, random numbers of one bit, three captures, a `)` among the characters of subjects and patterns, arrays to six elements, moves from and to every integer of 4 bits (the largest is 7, so counts and targets wrap around), a byte of 3 bits for chunks, so that each size form and each limit is crossed |

Every property states a sentence one could dispute in a review; the comment
above each one says what it is about.  `TypeOK` is proved for the eight
modules with a proof module (of `LuaCall` it is part of `StackInv`); those of the
other modules hold in TLC and are not part of a run.  `TypeOK` of `NodeProvision`
and `AppProvision` also bounds the retries of `iterator_exec`: `iterations + 2`
attempts.  TLC agreed with the inductive invariants of the proofs before they
were proved.

`CHECK_DEADLOCK FALSE` is there, except for `IdleContainers`, `SshAuth` and
`LuaGc`, because starts, operations and failures are bounded: after the last of
them the system rightly stops.

### Fairness

`FairSpec` assumes weak fairness of steps that a running process takes by
itself: the next command of a script or thread that has been started, the shell
of a container, systemd's reaction to a unit, AWS finishing an image.  A process
that is runnable is scheduled, and `Restart=always` with `RestartSec=30` is the
promise of systemd.  Nothing is assumed about the start of a run, an update, a
removal, or a failure, nor about the tasks that are run by hand; `stop_idle` is
run by cron (`schedule.rb:22`).  In `SshAuth` the steps of sshd and of the PAM
process are fair, those of the client are not: a client may never answer, and
then the grace alarm may or may not fire.  In `LuaGc` the steps of the collector
are fair, which is what `luaC_condGC` gives as long as the program allocates.  A script that
waits for the flock is granted it because calls are bounded and locks are released; the model assumes no order.  Of the
address loop on AWS nothing is assumed but that it asks again: it gets an answer
when the container runs.

### What the runs show

* The mark `PROVISIONED` never lies, and `exit(0) if provisioned?` skips no
  work, through failures and reboots: `ProvisionedMeansReady`, `KeepsPromise`.
* From the start of a service to the removal of its lock, `/etc/init.sh` has
  not been sourced (`InitGated`).  In later runs there is a window
  before: the unit of the run before is still enabled, and systemd may start
  the new container between `docker create` and `create_init_lock`.
  `InitGated` and, for applications, `OutcomeTells` say exactly how far the gate
  reaches.
* `erase_volumes` erases nothing (`FirstRunNeverAgain`): it comes after the
  create, when the volumes are in use, so a new container with the old name
  does not run `/etc/first_run.sh` again.
* Runs end (`NodeServes`, `AppEndsAndServes`) although `wait_until_running` has no limit
  (`docker_utils.rb:432` compares where it should subtract), because systemd
  brings the container up or gives up.  The properties name two exceptions.  In
  `AppProvision` a container that ended before it had a unit is waited for for
  ever.  On AWS so is one that ended before its start script had its address: the
  script loops, "systemctl start" does not return, and neither a container that a
  marked node relies on nor one that is being made comes back by itself.
* A run of `run_container.rb` that could not reach git ends well with the script
  in place of the templates.  `OutcomeTells` says what is certain all the same:
  what the run found is applied in full, no lock is left behind, and
  `/etc/init.sh` waited for the templates if the run had any.
* Addresses are distinct as long as no increment is lost, and every address
  shared costs a lost increment: a write that failed after the address was
  printed, or a crash before it reached the disk.  From index 32768 on the
  third octet is no octet (`AddressesAccounted`).
* A task that ended well has published what it joins.  A task that failed
  has never withdrawn an image it had no successor for, but the successor may
  be unpublished: between `clean_old_ami` and `set_ami_public` a region has no
  usable image, and a run that fails there leaves it so.
* On a master host a cluster that `stop_idle` stops was out of use at some time
  after its first five minutes (`StopsOnceIdle`): `stop_idle` goes by a mark
  alone, set an hour before by another task, and it is the test of the age in
  `mark_idle` (`master/Rakefile:99`) that keeps the mark from a new cluster, which
  has no clients yet.  What is marked is stopped for good in the end (`IdleStops`),
  whatever reboots and manual starts come between.
* sshd lets nobody in whom PAM did not accept in that very attempt, a denied
  account stays denied although its status is cached, and a query of the PAM
  process always comes back: when the process is gone the read ends at the end
  of file, when sshd is gone the process's does.  Whenever sshd ends, no session is open
  and no credentials are left (`NothingLeftOpen`), also in the one ending that
  cleans nothing up: `sigdie` in the handler of SIGCHLD (`auth-pam_next.c:163-166`)
  ends in `_exit`.  That this is harmless needs the process of a failed
  conversation to be gone, and the handler with it, before another method lets
  anybody in.
* No step of the collector frees what the program or a pending finalizer can
  reach, a thread in the list of those with open upvalues, or what is in the
  entries of a weak table (`NothingInUseFreed`), with the exception in the
  findings.  The collector keeps its colours through every interleaving, a string found
  again in the string table is brought back before it is swept, weak values of
  objects to be finalized are gone before the finalizer runs, and garbage goes.
  Outside the marking black objects may refer to white ones, and do: the
  barriers are quiet in the sweep because what they would protect is already
  on the side of the new white (`SweptOK`).
* A yield passes only C frames that left a continuation; an error meets the
  handler in force also after a yield; a coroutine closes the upvalues it
  leaves.  `CStackBounded` is one-sided: when `lua_resume` refuses a coroutine that is
  not suspended, `nCcalls` of that coroutine stays at the value it has set
  (`ldo.c:654`), so the count may be too high, never too low.  One that has ended
  and has nothing on its stack is refused before that, by `auxresume`
  (`lcorolib.c:34`).
* The scanner agrees with the grammar in every locale; `tonumber` reads only a
  point, since `luaO_str2num` alone does not try the locale's.

### Findings

`ami_all`: "Create all AMI's parallel" (`create_ami/Rakefile:7`) starts three
threads and joins two.  `node_cdh_thread_prod` has no join, so when the other
two are done the process ends and kills it, possibly after it has
deregistered the old image.  The task ends well with every call successful.

The other disagreements are named exceptions in properties of runs that pass: no
run lists them as violations, and without the exception TLC finds each of them.

`ContainerBoot` (exception `WaitsForAddress` of `NodeServes` and
`AppEndsAndServes`): the unit says `Restart=always` (`app.service.erb`), but on AWS
its start script loops for ever when the container has ended
(`runslavedocker.bash:84-89`; the status of the pipe is that of `awk`), and with
`TimeoutSec=0` nothing ends the script, so the unit never restarts.

`LuaGc` (exception `unswept` of `NothingInUseFreed` and `TriColour`): "The
invariant is restored when sweep ends and all objects are white
again" (`lgc.h:57`), and a finalizer can break that.  `luaC_step` calls
finalizers between the steps of the sweep.  When `sweepgc` points at the `next`
field of the first object of `tobefnz`, `udata2finalize` (`lgc.c:790`) moves that
object to the front of `allgc`, and the sweep goes on from there: it sweeps `allgc`
again and never comes to what is left of `tobefnz`, which stays black.  In the
next cycle `markbeingfnz` takes a black object for one that has been marked, and
what only it refers to is freed before its finalizer runs.  Two objects with
finalizers, tables or userdata, are enough, and the C program does it (with
100000 tables that have finalizers, and a few thousand
objects besides, most of them are black when the cycle is over).  The run has two
such objects; `NothingInUseFreed` excepts what only objects of `unswept`
refer to, and nothing else: what can be reached without them is never freed.
`GcWhiteAgain` states the comment of `lgc.h` with the same exception.

`LuaScope` (exception `behind` of `GotoReachesLabel`): when a `then` part begins
with a `goto` or a `break`, `test_then_block` (`lparser.c:1389-1399`) skips the
statements that do nothing, labels among them, before it compiles the jump over
the part.  In `if c then goto X ::l:: S end` the label `l` gets the place of that
jump, so a later `goto l` leaves the block and `S` is not executed; in
`if c then goto X ::l:: else E end` it executes `E`.  Section 3.3.4 of the manual: a
label is visible in the block where it is defined, and goto "transfers the program
control to a label".

`LuaPattern` (`ClosesNothing` in `FindsFirst`): `SPECIALS` (`lstrlib.c:249`) lacks
`)`, so `string.find` takes a pattern whose only magic character is a `)` for plain
text and returns a position or nil.  Section 6.4.1 of the manual counts `)`
among the magic characters, and `string.match` raises an error for the same pattern.
The property asks for the plain search of `find` and for the error of `match`.

Two definitions of `IdleContainers` that no run lists state what the
descriptions of the tasks say; TLC refutes both:

* `StopsIdleOnly`: "Stop idle containers" (`master/Rakefile:81`) goes by the
  mark alone, and no task removes a mark: a cluster that was idle once and is in
  use again is stopped while it is used, and after every start again.
* `StartsNonIdleOnly`: "Start non-idle containers" (`master/Rakefile:119`)
  starts the hue container of an idle cluster.  `name.sub!` (line 124) changes
  `name` itself, so line 125 looks for a `.disabled` file of hue, which nothing
  ever writes; and the same loop comes to the `hue-` file as such.  `stop_idle`
  takes hue down again.

## Proofs

| theorem | states | argument |
|---|---|---|
| `NodeProvisionProofs`: `TypeCorrect` | `TypeOK` | action by action |
| `ProvisionedIsReady`, `InitWaitsForTemplates` | `ProvisionedMeansReady`, `NoInitDuringTemplates` | `ProvisionInv`: what the run has achieved for framework `k` at each step, and for those before it; `BackgroundStep` shows that docker, systemd and the bootstrap script never take it away |
| `FirstRunIsGated`, `InitIsGated` | `FirstRunGated`, and both gates as the run checks them: `InitGated` | `FirstRunInv`: in the first run a container has no unit before it has its lock, and without a unit its script is not started |
| `FirstRunStaysDone` | the action property `FirstRunNeverAgain` | `ScriptsKept`: of the steps, only removal, creation and the bootstrap script touch the one-shot scripts, and none of the three brings one back into a volume |
| `NodeKeepsPromise` | `KeepsPromise` | each step maps to a step of `NodePromise` or a stutter; `RunStepIsLocal` shows that a step touches one container |
| `AppProvisionProofs`: `AppTypeCorrect`, `OutcomeIsTold` | `TypeOK`, `OutcomeTells` | `AppInv(c)`, a conjunction per container: how far the run has come (`Progress`), who may hold the lock (`Locking`), what a first run has not started yet (`Fresh`), what `/etc/init.sh` waits for (`Gated`), what a run that ended well leaves (`Configured`) |
| `WeaveIpamProofs`: `WeaveTypeCorrect`, `AddressesAreDistinct` | `TypeOK`, `DistinctAddresses` | `IndexInv`: indices in scripts and containers are below the counter and no index is in two places; `AddressInjective`: different indices give different addresses |
| `AddressesAreAccounted` | `AddressesAccounted` | `SharedInv`: containers with an address and scripts about to print one are no more than the different indices they hold below the counter, and the lost increments |
| `AmiPublishProofs`: `AmiTypeCorrect`, `FinishedIsPublished`, `CopiesReadyImages` | `TypeOK`, `FinishedMeansPublished`, `CopiesAreOfReadyImages` | `PublishInv`: what each thread has reached where it stands |
| `WithdrawnForSuccessor` | the action property `WithdrawnOnlyForSuccessor` | `SuccessorInv`: a thread before `clean_old_ami` has made its image, one before `save_ami_id` has it still, unless the S3 object names it already |
| `IdleContainersProofs`: `IdleTypeCorrect`, `StoppedOnceIdle` | `TypeOK`, the action property `StopsOnceIdle` | `IdleInv`: a mark, a file on `stop_idle`'s list and the cluster it is at have all been found idle since they settled (`Earned`), and `mark_idle` asks about clusters only that have settled |
| `SshAuthProofs`: `TypeCorrect` | `TypeOK`, with the lengths of both sockets | part of `IInv` |
| `SuccessIsEarned`, `NothingIsLeftOpen` | `SuccessEarned`, `NothingLeftOpen` | `IInv`: every report of success, in the socket, read or about to be sent, is of the attempt that PAM accepted; a prompt is in one place at a time; `Kept`: what is established belongs to a connection on which no conversation is linked any more |
| `DenialIsFinal` | the action property `DeniedForGood` | the same invariant: no conversation goes on with a denied account (`Undenied`), so no import of a status overwrites it |
| `LuaStackProofs`: `CallsAreCounted`, `CStackIsBounded` | `CStackBounded` | `CountInv`: the count of the running thread covers the activations on the C stack, and so does every count that a protected call or a resume will restore for the part of the stack it restores it to |
| `StackIsSound`, `UpvaluesAreLive` | `UpvaluesLive` | `StackInv`: activations belong to the thread that ran when they were made, go up with its `CallInfo` and stay inside it, what forbids yields is counted in `nny`, a thread is resumed once (`Stacked`); and each thread keeps its upvalues inside its frames (`Live`) |
| `CallersGoOn`, `HandlerIsInForce` | `Continuable`, `HandlerInForce` | `ContInv` on top of `StackInv`, for every thread that is not dead (`Keeps`): who goes on with each of its callers (`GoesOn`), that a call lets yields pass only for a caller that can do without it (`Yieldable`), that all below a recovery point can (`Recoverable`), and whose handler is in force and will be restored, at each level (`Handlers`) |
| `LuaGcProofs`: `GcTypeCorrect`, `GcListsCorrect` | `TypeOK`, `ListsOK` | `GcInv`; the lemmas on `Cut`, `Before` and `After` say what a sweep step, a new object and an object moved do to a list and to what `sweepgc` has in front of it |
| `GcInvariant` | `GcInv` | one lemma per action; steps that mark are one relation (`MarkAnd` makes objects darker and leaves no black object with a white reference), operations of the program another (they tint one object at most) |
| `GcTriColour` | `TriColour` | `ColoursOK`, with what a black object may refer to spelled out for each type (`BlackOK`) |
| `GcWhiteAgain` | `WhiteAgain`: what the sweep has come to is white again when it is over (`lgc.h:56-57`) | `SweptOK` at the end of the sweep |
| `GcFinalizedFirst` | the action property `FinalizedFirst` | `ListsOK` in the next state: what leaves `tofinalize` is in `allgc` (`FinalizedMoves`), and what is in a list is not free |

None of the invariants is inductive as it stands: that a marked node is ready
says nothing of a run half-way, from which the mark is set; that addresses in
use are distinct says nothing of the index a script has read and not yet
answered; that sshd has only let in who was accepted says nothing of the "ok"
that is still in the socket; that the C stack is short says nothing of the
count a jump will restore.  The inductive invariants say what the intermediate
states owe.  `StackInv` has no shorter form for `UpvaluesLive`: an error cuts
the list of `CallInfo` where an activation says, so the place an activation
names has to be known of all activations at all times, and a yield cuts the C
stack without looking at it, so what it may cut has to be known too.  `ContInv`
has to speak of coroutines that do not run, of functions that have just thrown
and of handlers saved twice, in an activation and in a `CallInfo`
(`old_errfunc`): a yield drops the activations of a coroutine, and from there on
its recovery and its returns go by the `CallInfo` alone, which by then must
agree with what the dropped activations would have done.  That it can be dropped is
`nny` = 0, so the second layer needs the count that the first one proves.
`TriColour` speaks of the marking alone and cannot be inductive: that nothing is
black when the marking starts is the work of the sweep before it.  So `GcInv`
follows the whole cycle: what `sweepgc` has passed has the present white
(`SweptOK`), an object of the other white is in the part of `allgc` that is still
to be swept (`DeadOK`), what is to be finalized has been marked and the main
thread is gray to the end of the marking (`MarkedOK`).  A closure over an open
upvalue may be black with a white value; that it is safe rests on threads, which are never
black.

The theorems hold for every value of the constants that satisfies the
assumption of its module: naturals for the bounds, `Container = 1..N`, a non-empty
sequence of joins, a default region that is not in the list of the others
(`NodeAssumption`, `AppAssumption`, `WeaveAssumption`, `AmiAssumption`,
`IdleAssumption`); one user is root and `"NULL"` is nobody's name
(`SshAssumption`); the main thread is no coroutine, `"nobody"` is no thread and
`LUAI_MAXCCALLS` is not 0 (`CallAssumption`); the types of objects have no names in
common and the heaps of `Start` are heaps (`GcAssumption`).  The bounds on runs, retries,
calls, failures, messages and frames are any natural numbers, so the results do
not depend on them, and there may be any number of containers, clusters,
builders, regions, coroutines and objects.

Only model-checked:

* liveness (`NodeServes`, `AppEndsAndServes`, `CallReturns`, `IdleStops`,
  `ConversationEnds`, `Collected`), which is out of the prover's reach;
* what the Lua functions compute (`lua_lib`): recursion over their inputs;
* `LuaTable` and its refinement of `LuaDict`: the nodes of a chain are found by
  recursion over `next`;
* `NothingInUseFreed` and `WeakValuesCleared` of `LuaGc`: what the program can
  reach is a recursive function (`TriColour`, `WhiteAgain` and `FinalizedFirst` are
  what is proved of it);
* the safety properties of `LuaScope`: a variable is looked for by recursion over
  the enclosing functions, and gotos are matched by folds over the pending ones.

## What is abstracted

Names, addresses of the overlay network, environment variables, templates and
their text, hosts, resolv and avahi files, the VPN unit of a container, the
download of images and debs, the provisioning inside an EC2 instance: none of
the properties tells one value of these from another, and each of these steps
may fail, which `RunFails`, `StartScriptFault` and `BuilderRaises` cover.  What git does is
one step that finds templates or does not.  A
template tree is applied in one step; that it may be half applied is the value
`partial` between the two trees of a framework, and a run that fails in between.
The use of a cluster is one flag, which both questions of `mark_idle` read: the
clients in `/etc/hosts` and the live data nodes are not told apart.
`docker` and systemd are modelled from how the scripts use them.

In sshd the packets, the banner, the environment PAM exports and the methods
other than password and keyboard-interactive are left out (those others are one
method that accepts or not), and privilege separation is off.  In Lua the
amounts of work and memory that pace the collector are left out (it may run at
any time), as are strings' contents in `LuaGc`, values in `LuaCall` and
expressions in `LuaScope`.  Arithmetic in `LuaExpr` builds terms, so that two
programs agree only when they apply the same operations to the same values.
Inputs whose effect C does not define are left out: the least integer as a
displacement in the bit library, which negates it.  A byte that announces more
than four bytes of UTF-8 is refused at once, as the code does after reading them.

## Not modelled

The `io`, `os` and `debug` libraries of Lua, its auxiliary library, its loader of
C libraries and its two programs: they pass arguments to the C library or to the
functions above; so do the functions of `lmathlib.c` that call C's `math.h`
(`sin`, `exp`, `log`, `sqrt`, `pow`, ...).  Of `lvm.c`, metamethods and the
generic `for`; of `ldo.c`, hooks (so `allowhook`, which a recovery restores
beside the handler, too) and the reallocation of the stack; of `lparser.c`, the
levels of nesting that count as C calls (`enterlevel`); of
`lstrlib.c`, `string.format`.  Of the repository's own code: publishing of
debs and boxes, template editors, registry and ports, the chef recipes, the
watching of virtual machines, the handlers of sensu, and what is configuration
(roles, playbooks) or third-party (docker cookbook, nginx-jwt).

## Plan

Done, in this order: `ContainerBoot`, `NodeProvision` with `NodePromise`,
`WeaveIpam`, `AmiPublish`, `AppProvision`, `IdleContainers`; `SshAuth`; the Lua
interpreter, from the collector to the scanner and the libraries without state
of their own; the theorems above: every safety and action property of the
scripts, of sshd and of `LuaCall`; the colours and lists of `LuaGc`.

Next, theorems: `NamesResolve` of `LuaScope`, and of `LuaGc` that a white object
a sweep frees is referred to by no object that is left, but for `unswept` ones.

Models that would follow: `ArtifactPublish` (`deploy.rb` with the readers of
version files), `TemplateTree` (temporary files and editors of two runs),
`SafeExec` with the consul lock, `ClusterPorts`, `AvahiHosts`, and the chef
recipes as a second client of `ContainerBoot`.
