------------------------------ MODULE AmiPublish ------------------------------
(***************************************************************************)
(* "rake create_images" of cloud/create_ami: one thread per machine image  *)
(* builds the image on an EC2 instance, publishes it in the default region *)
(* and then, with a thread per region, copies and publishes it everywhere. *)
(* To publish (configure_ami) is to deregister the image that the S3       *)
(* object of the region names, to overwrite the object with the new id and *)
(* to make the new image public, in this order.  The main thread joins the *)
(* builders of JoinOrder; when it ends the process ends, and every thread. *)
(***************************************************************************)
EXTENDS Naturals, Sequences

CONSTANTS
  Builder,      \* the images: coordinator_ami, main_node_ami_cdh, prod_node_ami_cdh
  JoinOrder,    \* the builders main.rb joins, in order
  RegionOrder,  \* AWS_REGIONS, in order
  Default,      \* DEFAULT_REGION, which is not one of them
  MaxRuns,      \* bound: how often the task is run
  MaxFaults     \* bound: how many calls fail

Others == {RegionOrder[i] : i \in DOMAIN RegionOrder}
Region == Others \cup {Default}
Run == 0..MaxRuns       \* a run names the images it makes; 0 is the release before

ASSUME AmiAssumption ==
  /\ JoinOrder \in Seq(Builder) /\ JoinOrder # <<>>
  /\ Default \notin Others
  /\ MaxRuns \in Nat
  /\ MaxFaults \in Nat

VARIABLES
  run,        \* the current run
  main,       \* the main thread
  joinAt,     \* the position in JoinOrder where it waits
  builder,    \* builder[b]: the thread that makes image b
  thread,     \* thread[b][r]: where b's publishing in region r stands
  image,      \* image[b][r][n]: the state of run n's image at AWS
  published,  \* published[b][r]: the run whose image the S3 object names
  instances,  \* instances[b]: the runs whose EC2 instance is up
  faults      \* how many calls failed

vars == <<run, main, joinAt, builder, thread, image, published, instances, faults>>

TypeOK ==
  /\ run \in Run
  /\ main \in {"idle", "join", "done", "raised"}
  /\ joinAt \in 1..Len(JoinOrder)
  /\ builder \in [Builder -> {"off", "setup", "prime", "configure", "join",
                              "terminate", "done", "raised", "killed"}]
  /\ thread \in [Builder -> [Region -> {"off", "copy", "clean", "save", "public",
                                        "done", "raised", "killed"}]]
  /\ image \in [Builder -> [Region -> [Run -> {"none", "pending", "available", "public"}]]]
  /\ published \in [Builder -> [Region -> Run]]
  /\ instances \in [Builder -> SUBSET Run]
  /\ faults \in 0..MaxFaults

\* A release is out in every region.
Init ==
  /\ run = 0
  /\ main = "idle"
  /\ joinAt = 1
  /\ builder = [b \in Builder |-> "off"]
  /\ thread = [b \in Builder |-> [r \in Region |-> "off"]]
  /\ image = [b \in Builder |-> [r \in Region |->
                [n \in Run |-> IF n = 0 THEN "public" ELSE "none"]]]
  /\ published = [b \in Builder |-> [r \in Region |-> 0]]
  /\ instances = [b \in Builder |-> {}]
  /\ faults = 0

SetImage(b, r, n, state) == image' = [image EXCEPT ![b][r][n] = state]

Step(b, to) == builder' = [builder EXCEPT ![b] = to]

ThreadStep(b, r, to) == thread' = [thread EXCEPT ![b][r] = to]

Fault == faults < MaxFaults /\ faults' = faults + 1

-----------------------------------------------------------------------------
(* The main thread. *)

StartRake ==
  /\ main # "join"
  /\ run < MaxRuns
  /\ run' = run + 1
  /\ main' = "join"
  /\ joinAt' = 1
  /\ builder' = [b \in Builder |-> "setup"]
  /\ thread' = [b \in Builder |-> [r \in Region |-> "off"]]
  /\ UNCHANGED <<image, published, instances, faults>>

\* The process is over: whatever thread had not ended is no more.
ProcessEnds(how) ==
  /\ main' = how
  /\ builder' = [b \in Builder |-> IF builder[b] \in {"done", "raised"}
                                     THEN builder[b] ELSE "killed"]
  /\ thread' = [b \in Builder |-> [r \in Region |->
                  IF thread[b][r] \in {"off", "done", "raised"}
                    THEN thread[b][r] ELSE "killed"]]
  /\ UNCHANGED <<run, joinAt, image, published, instances>>

JoinNext ==
  /\ main = "join"
  /\ builder[JoinOrder[joinAt]] = "done"
  /\ joinAt < Len(JoinOrder)
  /\ joinAt' = joinAt + 1
  /\ UNCHANGED <<run, main, builder, thread, image, published, instances, faults>>

JoinLast ==
  /\ main = "join"
  /\ builder[JoinOrder[joinAt]] = "done"
  /\ joinAt = Len(JoinOrder)
  /\ ProcessEnds("done")
  /\ UNCHANGED faults

\* join raises what its thread has raised, and nobody rescues it.
JoinRaises ==
  /\ main = "join"
  /\ builder[JoinOrder[joinAt]] = "raised"
  /\ ProcessEnds("raised")
  /\ UNCHANGED faults

Interrupted ==
  /\ main = "join"
  /\ Fault
  /\ ProcessEnds("raised")

-----------------------------------------------------------------------------
(* A builder. *)

\* start, run_install, and create_counter or speed_up.
Setup(b) ==
  /\ builder[b] = "setup"
  /\ instances' = [instances EXCEPT ![b] = @ \cup {run}]
  /\ Step(b, "prime")
  /\ UNCHANGED <<run, main, joinAt, thread, image, published, faults>>

\* Mutant: the old image is deregistered before the new one is made.
DeletePrimeFirst(b) ==
  /\ builder[b] = "prime"
  /\ IF image[b][Default][published[b][Default]] # "none"
       THEN SetImage(b, Default, published[b][Default], "none") /\ UNCHANGED <<thread, builder>>
       ELSE SetImage(b, Default, run, "pending") /\ ThreadStep(b, Default, "clean")
            /\ Step(b, "configure")
  /\ UNCHANGED <<run, main, joinAt, published, instances, faults>>

\* create_prime_ami, and on to configure_ami in the builder's own thread.
CreatePrime(b) ==
  /\ builder[b] = "prime"
  /\ SetImage(b, Default, run, "pending")
  /\ ThreadStep(b, Default, "clean")
  /\ Step(b, "configure")
  /\ UNCHANGED <<run, main, joinAt, published, instances, faults>>

\* Mutant: the region threads are started before configure_ami of the default region.
ForkEarly(b) ==
  /\ builder[b] = "configure"
  /\ thread' = [thread EXCEPT ![b] = [r \in Region |-> IF r = Default THEN @[r] ELSE "copy"]]
  /\ Step(b, "join")
  /\ UNCHANGED <<run, main, joinAt, image, published, instances, faults>>

Fork(b) ==
  /\ builder[b] = "configure"
  /\ thread[b][Default] = "done"
  /\ thread' = [thread EXCEPT ![b] = [r \in Region |-> IF r = Default THEN @[r] ELSE "copy"]]
  /\ Step(b, "join")
  /\ UNCHANGED <<run, main, joinAt, image, published, instances, faults>>

\* Mutant: the region threads are not joined.
JoinNoRegion(b) ==
  /\ builder[b] = "join"
  /\ Step(b, "terminate")
  /\ UNCHANGED <<run, main, joinAt, thread, image, published, instances, faults>>

JoinRegions(b) ==
  /\ builder[b] = "join"
  /\ \A r \in Others : thread[b][r] = "done"
  /\ Step(b, "terminate")
  /\ UNCHANGED <<run, main, joinAt, thread, image, published, instances, faults>>

\* Threads are joined in order, so a failure is seen when those before it
\* have ended; those after it go on.
JoinRegionRaises(b) ==
  /\ builder[b] = "join"
  /\ \E i \in DOMAIN RegionOrder :
       /\ thread[b][RegionOrder[i]] = "raised"
       /\ \A j \in 1..i - 1 : thread[b][RegionOrder[j]] = "done"
  /\ Step(b, "raised")
  /\ UNCHANGED <<run, main, joinAt, thread, image, published, instances, faults>>

Terminate(b) ==
  /\ builder[b] = "terminate"
  /\ instances' = [instances EXCEPT ![b] = @ \ {run}]
  /\ Step(b, "done")
  /\ UNCHANGED <<run, main, joinAt, thread, image, published, faults>>

\* A call of the builder fails outside configure_ami.
BuilderRaises(b) ==
  /\ builder[b] \in {"setup", "prime", "terminate"}
  /\ Fault
  /\ \/ builder[b] = "setup" /\ instances' = [instances EXCEPT ![b] = @ \cup {run}]
     \/ UNCHANGED instances
  /\ Step(b, "raised")
  /\ UNCHANGED <<run, main, joinAt, thread, image, published>>

-----------------------------------------------------------------------------
(* Publishing in one region. *)

Copy(b, r) ==
  /\ thread[b][r] = "copy"
  /\ SetImage(b, r, run, "pending")
  /\ ThreadStep(b, r, "clean")
  /\ UNCHANGED <<run, main, joinAt, builder, published, instances, faults>>

\* clean_old_ami.
Clean(b, r) ==
  /\ thread[b][r] = "clean"
  /\ SetImage(b, r, published[b][r], "none")
  /\ ThreadStep(b, r, "save")
  /\ UNCHANGED <<run, main, joinAt, builder, published, instances, faults>>

\* get_last_image_id or delete_image rescues an exception and goes on.
CleanFails(b, r) ==
  /\ thread[b][r] = "clean"
  /\ Fault
  /\ ThreadStep(b, r, "save")
  /\ UNCHANGED <<run, main, joinAt, builder, image, published, instances>>

Save(b, r) ==
  /\ thread[b][r] = "save"
  /\ published' = [published EXCEPT ![b][r] = run]
  /\ ThreadStep(b, r, "public")
  /\ UNCHANGED <<run, main, joinAt, builder, image, instances, faults>>

\* set_ami_public retries until AWS has the image.
MakePublic(b, r) ==
  /\ thread[b][r] = "public"
  /\ image[b][r][run] = "available"
  /\ SetImage(b, r, run, "public")
  /\ ThreadStep(b, r, "done")
  /\ UNCHANGED <<run, main, joinAt, builder, published, instances, faults>>

\* copy_ami or save_ami_id raises; in the default region that is the builder's own thread.
ThreadRaises(b, r) ==
  /\ thread[b][r] \in {"copy", "save"}
  /\ Fault
  /\ ThreadStep(b, r, "raised")
  /\ IF r = Default THEN Step(b, "raised") ELSE UNCHANGED builder
  /\ UNCHANGED <<run, main, joinAt, image, published, instances>>

\* AWS has finished an image.
ImageReady(b, r) ==
  /\ \E n \in Run : image[b][r][n] = "pending" /\ SetImage(b, r, n, "available")
  /\ UNCHANGED <<run, main, joinAt, builder, thread, published, instances, faults>>

MainStep == JoinNext \/ JoinLast \/ JoinRaises

BuilderStep(b) ==
  Setup(b) \/ CreatePrime(b) \/ Fork(b) \/ JoinRegions(b) \/ JoinRegionRaises(b) \/ Terminate(b)

RegionStep(b, r) == Copy(b, r) \/ Clean(b, r) \/ Save(b, r) \/ MakePublic(b, r)

Next ==
  \/ StartRake \/ MainStep \/ Interrupted
  \/ \E b \in Builder :
       \/ BuilderStep(b) \/ BuilderRaises(b)
       \/ \E r \in Region :
            RegionStep(b, r) \/ CleanFails(b, r) \/ ThreadRaises(b, r) \/ ImageReady(b, r)

\* Threads that can go on do, and AWS finishes every image in the end.
Fairness ==
  /\ WF_vars(MainStep)
  /\ \A b \in Builder :
       /\ WF_vars(BuilderStep(b))
       /\ \A r \in Region : WF_vars(RegionStep(b, r)) /\ WF_vars(ImageReady(b, r))

Spec == Init /\ [][Next]_vars

FairSpec == Spec /\ Fairness

-----------------------------------------------------------------------------
(* Properties. *)

Joined == {JoinOrder[i] : i \in DOMAIN JoinOrder}

\* What the S3 object of a region names can be launched by everyone.
Usable(b, r) == image[b][r][published[b][r]] = "public"

\* When the task has ended well, the images of the builders it joins are the
\* ones of this run in every region, public, and their instances are gone,
\* whatever an earlier run left behind.
FinishedMeansPublished ==
  main = "done" =>
    \A b \in Joined :
      /\ run \notin instances[b]
      /\ \A r \in Region : published[b][r] = run /\ Usable(b, r)

\* An image is copied only after AWS has it ready: copy_image of a pending
\* image would fail.
CopiesAreOfReadyImages ==
  \A b \in Builder, r \in Others :
    thread[b][r] = "copy" => image[b][Default][run] = "public"

\* A published image is taken away only when its successor has been made:
\* a run that fails before that leaves the release of the region as it was.
WithdrawnOnlyForSuccessor ==
  [][\A b \in Builder, r \in Region :
       Usable(b, r) /\ ~Usable(b, r)' => image[b][r][run] # "none"]_vars

\* Why these hold: what every thread has reached when it stands where it
\* stands.  This is inductive.
PublishInv ==
  /\ \A b \in Builder, r \in Region :
       /\ thread[b][r] \in {"public", "done"} => published[b][r] = run
       /\ thread[b][r] = "done" => image[b][r][run] = "public"
  /\ \A b \in Builder :
       /\ builder[b] \in {"off", "setup", "prime"} => \A r \in Region : thread[b][r] = "off"
       /\ builder[b] \in {"join", "terminate", "done"} => thread[b][Default] = "done"
       /\ builder[b] \in {"terminate", "done"} => \A r \in Others : thread[b][r] = "done"
       /\ thread[b][Default] # "done" => \A r \in Others : thread[b][r] = "off"
       /\ builder[b] = "done" => run \notin instances[b]
  /\ main = "join" => \A i \in 1..joinAt - 1 : builder[JoinOrder[i]] = "done"
  /\ main = "done" => \A b \in Joined : builder[b] = "done"

\* "Create all AMI's parallel": when the task has ended well, all images are
\* the ones of this run.
AllPublished ==
  main = "done" => \A b \in Builder, r \in Region : published[b][r] = run /\ Usable(b, r)
=============================================================================
