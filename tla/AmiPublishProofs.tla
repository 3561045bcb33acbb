--------------------------- MODULE AmiPublishProofs ---------------------------
(***************************************************************************)
(* For every set of builders and of regions, every join order and every    *)
(* number of runs and failures: when "rake create_images" has ended well,  *)
(* the builders it joins have published their images everywhere.           *)
(***************************************************************************)
EXTENDS AmiPublish, TLAPS

BuilderState == {"off", "setup", "prime", "configure", "join",
                 "terminate", "done", "raised", "killed"}
ThreadState == {"off", "copy", "clean", "save", "public", "done", "raised", "killed"}
ImageState == {"none", "pending", "available", "public"}

\* TypeOK with its three sets of states named.
LEMMA TypeNamed ==
  TypeOK <=>
  /\ run \in Run
  /\ main \in {"idle", "join", "done", "raised"}
  /\ joinAt \in 1..Len(JoinOrder)
  /\ builder \in [Builder -> BuilderState]
  /\ thread \in [Builder -> [Region -> ThreadState]]
  /\ image \in [Builder -> [Region -> [Run -> ImageState]]]
  /\ published \in [Builder -> [Region -> Run]]
  /\ instances \in [Builder -> SUBSET Run]
  /\ faults \in 0..MaxFaults
BY DEF TypeOK, BuilderState, ThreadState, ImageState

LEMMA Positions == Len(JoinOrder) \in Nat \ {0} /\ DOMAIN JoinOrder = 1..Len(JoinOrder)
BY AmiAssumption DEF AmiAssumption

\* Updating one entry of a function, or of a table of functions, keeps its type.
LEMMA BuilderTyped ==
  ASSUME builder \in [Builder -> BuilderState], NEW b \in Builder,
         NEW to \in BuilderState, Step(b, to)
  PROVE  builder' \in [Builder -> BuilderState]
BY DEF Step

LEMMA ThreadTyped ==
  ASSUME thread \in [Builder -> [Region -> ThreadState]], NEW b \in Builder,
         NEW r \in Region, NEW to \in ThreadState, ThreadStep(b, r, to)
  PROVE  thread' \in [Builder -> [Region -> ThreadState]]
BY DEF ThreadStep

LEMMA ImageTyped ==
  ASSUME image \in [Builder -> [Region -> [Run -> ImageState]]], NEW b \in Builder,
         NEW r \in Region, NEW n \in Run, NEW state \in ImageState, SetImage(b, r, n, state)
  PROVE  image' \in [Builder -> [Region -> [Run -> ImageState]]]
BY DEF SetImage

LEMMA FaultTyped == faults \in 0..MaxFaults /\ Fault => faults' \in 0..MaxFaults
BY AmiAssumption DEF AmiAssumption, Fault

LEMMA EndTyped ==
  ASSUME TypeOK, NEW how \in {"done", "raised"}, ProcessEnds(how),
         faults' \in 0..MaxFaults
  PROVE  TypeOK'
<1>1. builder' \in [Builder -> BuilderState]
  BY TypeNamed DEF ProcessEnds, BuilderState
<1>2. thread' \in [Builder -> [Region -> ThreadState]]
  <2>1. \A b \in Builder, r \in Region : thread[b][r] \in ThreadState
    BY TypeNamed
  <2> QED BY <2>1 DEF ProcessEnds, ThreadState
<1>3. UNCHANGED <<run, joinAt, image, published, instances>> /\ main' = how
  BY DEF ProcessEnds
<1> QED BY <1>1, <1>2, <1>3, TypeNamed DEF TypeOK, BuilderState, ThreadState

LEMMA RegionOfDefault == Default \in Region /\ Others \subseteq Region
BY DEF Region

LEMMA TypeStep == TypeOK /\ [Next]_vars => TypeOK'
<1> SUFFICES ASSUME TypeOK, [Next]_vars PROVE TypeOK'
  OBVIOUS
<1>n. /\ run \in Run
      /\ main \in {"idle", "join", "done", "raised"}
      /\ joinAt \in 1..Len(JoinOrder)
      /\ builder \in [Builder -> BuilderState]
      /\ thread \in [Builder -> [Region -> ThreadState]]
      /\ image \in [Builder -> [Region -> [Run -> ImageState]]]
      /\ published \in [Builder -> [Region -> Run]]
      /\ instances \in [Builder -> SUBSET Run]
      /\ faults \in 0..MaxFaults
  BY TypeNamed
<1>s. /\ {"setup", "prime", "configure", "join", "terminate", "done", "raised"} \subseteq BuilderState
      /\ {"off", "copy", "clean", "save", "public", "done", "raised"} \subseteq ThreadState
      /\ {"none", "pending", "available", "public"} \subseteq ImageState
  BY DEF BuilderState, ThreadState, ImageState
<1>d. Default \in Region
  BY RegionOfDefault
<1> DEFINE Typed ==
      /\ run' \in Run
      /\ main' \in {"idle", "join", "done", "raised"}
      /\ joinAt' \in 1..Len(JoinOrder)
      /\ builder' \in [Builder -> BuilderState]
      /\ thread' \in [Builder -> [Region -> ThreadState]]
      /\ image' \in [Builder -> [Region -> [Run -> ImageState]]]
      /\ published' \in [Builder -> [Region -> Run]]
      /\ instances' \in [Builder -> SUBSET Run]
      /\ faults' \in 0..MaxFaults
<1>t. Typed => TypeOK'
  BY DEF TypeOK, BuilderState, ThreadState, ImageState
<1> HIDE DEF Typed
<1>1. CASE StartRake
  <2>1. run' \in Run
    BY <1>1, <1>n, AmiAssumption DEF AmiAssumption, StartRake, Run
  <2>2. joinAt' \in 1..Len(JoinOrder)
    BY <1>1, Positions DEF StartRake
  <2>3. builder' \in [Builder -> BuilderState] /\ thread' \in [Builder -> [Region -> ThreadState]]
    BY <1>1, <1>s DEF StartRake
  <2> QED BY <1>1, <1>n, <1>t, <2>1, <2>2, <2>3 DEF StartRake, Typed
<1>2. CASE JoinNext
  BY <1>2, <1>n, <1>t, Positions DEF JoinNext, Typed
<1>3. CASE JoinLast \/ JoinRaises
  BY <1>3, <1>n, EndTyped DEF JoinLast, JoinRaises
<1>4. CASE Interrupted
  BY <1>4, <1>n, EndTyped, FaultTyped DEF Interrupted
<1>5. ASSUME NEW b \in Builder, BuilderStep(b) \/ BuilderRaises(b) PROVE TypeOK'
  <2>1. CASE Setup(b)
    BY <2>1, <1>n, <1>s, <1>t, BuilderTyped DEF Setup, Typed
  <2>2. CASE CreatePrime(b)
    BY <2>2, <1>n, <1>s, <1>d, <1>t, BuilderTyped, ThreadTyped, ImageTyped DEF CreatePrime, Typed
  <2>3. CASE Fork(b)
    <3>1. thread' \in [Builder -> [Region -> ThreadState]]
      BY <2>3, <1>n, <1>s DEF Fork
    <3> QED BY <2>3, <3>1, <1>n, <1>s, <1>t, BuilderTyped DEF Fork, Typed
  <2>4. CASE JoinRegions(b)
    BY <2>4, <1>n, <1>s, <1>t, BuilderTyped DEF JoinRegions, Typed
  <2>5. CASE JoinRegionRaises(b)
    BY <2>5, <1>n, <1>s, <1>t, BuilderTyped DEF JoinRegionRaises, Typed
  <2>6. CASE Terminate(b)
    BY <2>6, <1>n, <1>s, <1>t, BuilderTyped DEF Terminate, Typed
  <2>7. CASE BuilderRaises(b)
    BY <2>7, <1>n, <1>s, <1>t, BuilderTyped, FaultTyped DEF BuilderRaises, Typed
  <2> QED BY <1>5, <2>1, <2>2, <2>3, <2>4, <2>5, <2>6, <2>7 DEF BuilderStep
<1>6. ASSUME NEW b \in Builder, NEW r \in Region,
             RegionStep(b, r) \/ CleanFails(b, r) \/ ThreadRaises(b, r) \/ ImageReady(b, r)
      PROVE  TypeOK'
  <2>1. CASE Copy(b, r)
    BY <2>1, <1>n, <1>s, <1>t, ThreadTyped, ImageTyped DEF Copy, Typed
  <2>2. CASE Clean(b, r)
    BY <2>2, <1>n, <1>s, <1>t, ThreadTyped, ImageTyped DEF Clean, Typed
  <2>3. CASE Save(b, r)
    BY <2>3, <1>n, <1>s, <1>t, ThreadTyped DEF Save, Typed
  <2>4. CASE MakePublic(b, r)
    BY <2>4, <1>n, <1>s, <1>t, ThreadTyped, ImageTyped DEF MakePublic, Typed
  <2>5. CASE CleanFails(b, r)
    BY <2>5, <1>n, <1>s, <1>t, ThreadTyped, FaultTyped DEF CleanFails, Typed
  <2>6. CASE ThreadRaises(b, r)
    BY <2>6, <1>n, <1>s, <1>t, ThreadTyped, BuilderTyped, FaultTyped DEF ThreadRaises, Typed
  <2>7. CASE ImageReady(b, r)
    BY <2>7, <1>n, <1>s, <1>t, ImageTyped DEF ImageReady, Typed
  <2> QED BY <1>6, <2>1, <2>2, <2>3, <2>4, <2>5, <2>6, <2>7 DEF RegionStep
<1>7. CASE UNCHANGED vars
  BY <1>7, <1>n, <1>t DEF vars, Typed
<1> QED BY <1>1, <1>2, <1>3, <1>4, <1>5, <1>6, <1>7 DEF Next, MainStep

\* The part of PublishInv about one builder, and the part about one region of it.
BuilderPart(b) ==
  /\ builder[b] \in {"off", "setup", "prime"} => \A r \in Region : thread[b][r] = "off"
  /\ builder[b] \in {"join", "terminate", "done"} => thread[b][Default] = "done"
  /\ builder[b] \in {"terminate", "done"} => \A r \in Others : thread[b][r] = "done"
  /\ thread[b][Default] # "done" => \A r \in Others : thread[b][r] = "off"
  /\ builder[b] = "done" => run \notin instances[b]

RegionPart(b, r) ==
  /\ thread[b][r] \in {"public", "done"} => published[b][r] = run
  /\ thread[b][r] = "done" => image[b][r][run] = "public"

MainPart ==
  /\ main = "join" => \A i \in 1..joinAt - 1 : builder[JoinOrder[i]] = "done"
  /\ main = "done" => \A b \in Joined : builder[b] = "done"

LEMMA Parts ==
  PublishInv <=> /\ \A b \in Builder, r \in Region : RegionPart(b, r)
                 /\ \A b \in Builder : BuilderPart(b)
                 /\ MainPart
BY DEF PublishInv, BuilderPart, RegionPart, MainPart

\* The builders that are joined are builders.
LEMMA JoinedAreBuilders ==
  /\ \A i \in 1..Len(JoinOrder) : JoinOrder[i] \in Builder
  /\ Joined = {JoinOrder[i] : i \in 1..Len(JoinOrder)}
  /\ Joined \subseteq Builder
BY Positions, AmiAssumption DEF AmiAssumption, Joined

\* A step of one builder that was not done leaves the main thread's part alone.
LEMMA MainPartKept ==
  ASSUME TypeOK, MainPart, UNCHANGED <<main, joinAt>>,
         \A b \in Builder : builder[b] = "done" => builder'[b] = "done"
  PROVE  MainPart'
<1>1. \A i \in 1..joinAt - 1 : JoinOrder[i] \in Builder
  BY JoinedAreBuilders, Positions DEF TypeOK
<1> QED BY <1>1, JoinedAreBuilders DEF MainPart

\* What one step of a builder, or of its thread in region r, leaves alone.
LEMMA PartsOfOthers ==
  ASSUME PublishInv, NEW b \in Builder, UNCHANGED run,
         \A a \in Builder \ {b} :
           /\ builder'[a] = builder[a] /\ thread'[a] = thread[a] /\ image'[a] = image[a]
           /\ published'[a] = published[a] /\ instances'[a] = instances[a]
  PROVE  \A a \in Builder \ {b} : BuilderPart(a)' /\ \A r \in Region : RegionPart(a, r)'
BY Parts DEF BuilderPart, RegionPart

\* The end of the process leaves done what was done and off what was off.
LEMMA EndKeepsParts ==
  ASSUME TypeOK, PublishInv, NEW how \in {"done", "raised"}, ProcessEnds(how),
         how = "done" => \A b \in Joined : builder[b] = "done"
  PROVE  PublishInv'
<1>1. \A b \in Builder :
        builder'[b] = IF builder[b] \in {"done", "raised"} THEN builder[b] ELSE "killed"
  BY DEF ProcessEnds
<1>2. \A b \in Builder, r \in Region :
        thread'[b][r] = IF thread[b][r] \in {"off", "done", "raised"}
                          THEN thread[b][r] ELSE "killed"
  BY DEF ProcessEnds
<1>3. main' = how /\ UNCHANGED <<run, joinAt, image, published, instances>>
  BY DEF ProcessEnds
<1>4. \A b \in Builder, r \in Region : RegionPart(b, r)'
  BY <1>2, <1>3, Parts DEF RegionPart
<1>5. \A b \in Builder : BuilderPart(b)'
  BY <1>1, <1>2, <1>3, Parts, RegionOfDefault DEF BuilderPart
<1>6. MainPart'
  BY <1>1, <1>3, JoinedAreBuilders DEF MainPart
<1> QED BY <1>4, <1>5, <1>6, Parts DEF PublishInv, BuilderPart, RegionPart, MainPart

LEMMA PublishStep == TypeOK /\ PublishInv /\ [Next]_vars => PublishInv'
<1> SUFFICES ASSUME TypeOK, PublishInv, [Next]_vars PROVE PublishInv'
  OBVIOUS
<1>p. (\A b \in Builder, r \in Region : RegionPart(b, r))' /\ (\A b \in Builder : BuilderPart(b))'
        /\ MainPart' => PublishInv'
  BY DEF PublishInv, BuilderPart, RegionPart, MainPart
<1>i. /\ \A b \in Builder, r \in Region : RegionPart(b, r)
      /\ \A b \in Builder : BuilderPart(b)
      /\ MainPart
  BY Parts
<1>d. Default \in Region /\ Others \subseteq Region /\ Default \notin Others
      /\ \A r \in Region : r # Default => r \in Others
  BY AmiAssumption DEF AmiAssumption, Region
<1>f. /\ builder \in [Builder -> BuilderState]
      /\ thread \in [Builder -> [Region -> ThreadState]]
      /\ image \in [Builder -> [Region -> [Run -> ImageState]]]
      /\ published \in [Builder -> [Region -> Run]]
      /\ instances \in [Builder -> SUBSET Run]
      /\ run \in Run
  BY TypeNamed
<1>1. CASE StartRake
  <2>1. \A b \in Builder : builder'[b] = "setup" /\ \A r \in Region : thread'[b][r] = "off"
    BY <1>1 DEF StartRake
  <2>2. main' = "join" /\ joinAt' = 1
    BY <1>1 DEF StartRake
  <2>3. MainPart'
    BY <2>2 DEF MainPart
  <2>4. \A b \in Builder : BuilderPart(b)'
    BY <2>1, <1>d DEF BuilderPart
  <2>5. \A b \in Builder, r \in Region : RegionPart(b, r)'
    BY <2>1 DEF RegionPart
  <2> QED BY <2>3, <2>4, <2>5, <1>p
<1>2. CASE JoinNext
  <2>1. \A i \in 1..joinAt' - 1 : builder'[JoinOrder[i]] = "done"
    <3>1. joinAt \in Nat /\ joinAt' = joinAt + 1 /\ builder' = builder
          /\ builder[JoinOrder[joinAt]] = "done"
          /\ \A i \in 1..joinAt - 1 : builder[JoinOrder[i]] = "done"
      BY <1>2, <1>i, Positions DEF JoinNext, MainPart, TypeOK
    <3> QED BY <3>1
  <2>2. MainPart'
    BY <1>2, <2>1 DEF JoinNext, MainPart
  <2>3. \A b \in Builder : BuilderPart(b)'
    BY <1>2, <1>i DEF JoinNext, BuilderPart
  <2>4. \A b \in Builder, r \in Region : RegionPart(b, r)'
    BY <1>2, <1>i DEF JoinNext, RegionPart
  <2> QED BY <2>2, <2>3, <2>4, <1>p
<1>3. CASE JoinLast
  <2>1. \A i \in 1..Len(JoinOrder) : builder[JoinOrder[i]] = "done"
    <3>1. joinAt = Len(JoinOrder) /\ builder[JoinOrder[joinAt]] = "done"
          /\ \A i \in 1..joinAt - 1 : builder[JoinOrder[i]] = "done"
      BY <1>3, <1>i DEF JoinLast, MainPart
    <3> QED BY <3>1, Positions
  <2>2. \A b \in Joined : builder[b] = "done"
    BY <2>1, JoinedAreBuilders
  <2> QED BY <1>3, <2>2, EndKeepsParts DEF JoinLast
<1>4. CASE JoinRaises \/ Interrupted
  BY <1>4, EndKeepsParts DEF JoinRaises, Interrupted
<1>5. ASSUME NEW b \in Builder, BuilderStep(b) \/ BuilderRaises(b) PROVE PublishInv'
  <2>1. builder[b] # "done" /\ UNCHANGED <<run, main, joinAt, published>>
        /\ \E to \in BuilderState : Step(b, to)
    BY <1>5 DEF BuilderStep, Setup, CreatePrime, Fork, JoinRegions, JoinRegionRaises,
                Terminate, BuilderRaises, BuilderState
  <2>2. \A a \in Builder : builder[a] = "done" => builder'[a] = "done"
    BY <2>1, <1>f DEF Step
  <2>3. MainPart'
    BY <2>1, <2>2, <1>i, MainPartKept
  <2>4. \A a \in Builder \ {b} :
          /\ builder'[a] = builder[a] /\ thread'[a] = thread[a] /\ image'[a] = image[a]
          /\ published'[a] = published[a] /\ instances'[a] = instances[a]
    BY <1>5, <1>f
    DEF BuilderStep, Setup, CreatePrime, Fork, JoinRegions, JoinRegionRaises, Terminate,
        BuilderRaises, Step, ThreadStep, SetImage
  <2>5. \A a \in Builder \ {b} : BuilderPart(a)' /\ \A r \in Region : RegionPart(a, r)'
    BY <2>1, <2>4, PartsOfOthers
  <2>6. BuilderPart(b)' /\ \A r \in Region : RegionPart(b, r)'
    <3>1. CASE Setup(b)
      BY <3>1, <1>i, <1>f DEF Setup, Step, BuilderPart, RegionPart
    <3>2. CASE CreatePrime(b)
      <4>1. builder'[b] = "configure" /\ builder[b] = "prime" /\ run' = run
        BY <3>2, <1>f DEF CreatePrime, Step
      <4>2. \A r \in Region : thread'[b][r] = IF r = Default THEN "clean" ELSE thread[b][r]
        BY <3>2, <1>f DEF CreatePrime, ThreadStep
      <4>3. \A r \in Region : thread[b][r] = "off"
        BY <4>1, <1>i DEF BuilderPart
      <4> QED BY <4>1, <4>2, <4>3, <1>d DEF BuilderPart, RegionPart
    <3>3. CASE Fork(b)
      <4>1. builder'[b] = "join" /\ thread[b][Default] = "done"
            /\ UNCHANGED <<run, image, published, instances>>
        BY <3>3, <1>f DEF Fork, Step
      <4>2. \A r \in Region : thread'[b][r] = IF r = Default THEN thread[b][r] ELSE "copy"
        BY <3>3, <1>f DEF Fork
      <4> QED BY <4>1, <4>2, <1>d, <1>i DEF BuilderPart, RegionPart
    <3>4. CASE JoinRegions(b)
      BY <3>4, <1>i, <1>f DEF JoinRegions, Step, BuilderPart, RegionPart
    <3>5. CASE JoinRegionRaises(b)
      BY <3>5, <1>i, <1>f DEF JoinRegionRaises, Step, BuilderPart, RegionPart
    <3>6. CASE Terminate(b)
      BY <3>6, <1>i, <1>f DEF Terminate, Step, BuilderPart, RegionPart
    <3>7. CASE BuilderRaises(b)
      BY <3>7, <1>i, <1>f DEF BuilderRaises, Step, BuilderPart, RegionPart
    <3> QED BY <1>5, <3>1, <3>2, <3>3, <3>4, <3>5, <3>6, <3>7 DEF BuilderStep
  <2> QED BY <2>3, <2>5, <2>6, <1>p
<1>6. ASSUME NEW b \in Builder, NEW r \in Region,
             RegionStep(b, r) \/ CleanFails(b, r) \/ ThreadRaises(b, r)
      PROVE  PublishInv'
  <2>1. /\ thread[b][r] \in {"copy", "clean", "save", "public"}
        /\ UNCHANGED <<run, main, joinAt, instances>>
    BY <1>6 DEF RegionStep, Copy, Clean, Save, MakePublic, CleanFails, ThreadRaises
  <2>2. builder[b] # "done" /\ (r = Default => builder[b] \notin {"off", "setup", "prime",
                                                "join", "terminate", "done"})
    BY <2>1, <1>i, <1>d DEF BuilderPart
  <2>3. \A a \in Builder : builder'[a] = IF a = b /\ r = Default /\ ThreadRaises(b, r)
                                            THEN "raised" ELSE builder[a]
    BY <1>6, <1>f DEF RegionStep, Copy, Clean, Save, MakePublic, CleanFails, ThreadRaises, Step
  <2>4. MainPart'
    BY <2>1, <2>2, <2>3, <1>i, MainPartKept
  <2>5. \A a \in Builder \ {b} :
          /\ builder'[a] = builder[a] /\ thread'[a] = thread[a] /\ image'[a] = image[a]
          /\ published'[a] = published[a] /\ instances'[a] = instances[a]
    BY <1>6, <1>f
    DEF RegionStep, Copy, Clean, Save, MakePublic, CleanFails, ThreadRaises,
        Step, ThreadStep, SetImage
  <2>6. \A a \in Builder \ {b} : BuilderPart(a)' /\ \A q \in Region : RegionPart(a, q)'
    BY <2>1, <2>5, PartsOfOthers
  <2>7. \A q \in Region \ {r} :
          thread'[b][q] = thread[b][q] /\ image'[b][q] = image[b][q]
            /\ published'[b][q] = published[b][q]
    BY <1>6, <1>f
    DEF RegionStep, Copy, Clean, Save, MakePublic, CleanFails, ThreadRaises,
        ThreadStep, SetImage
  <2>8. \A q \in Region \ {r} : RegionPart(b, q)'
    BY <2>1, <2>7, <1>i DEF RegionPart
  <2>9. /\ RegionPart(b, r)' /\ thread'[b][r] # "off"
        /\ r = Default /\ thread'[b][r] = "done" => thread[b][r] = "public"
    <3>1. CASE Copy(b, r)
      BY <3>1, <1>f DEF Copy, ThreadStep, RegionPart
    <3>2. CASE Clean(b, r)
      BY <3>2, <1>f DEF Clean, ThreadStep, RegionPart
    <3>3. CASE Save(b, r)
      BY <3>3, <1>f DEF Save, ThreadStep, RegionPart
    <3>4. CASE MakePublic(b, r)
      BY <3>4, <1>f, <1>i DEF MakePublic, ThreadStep, SetImage, RegionPart
    <3>5. CASE CleanFails(b, r)
      BY <3>5, <1>f DEF CleanFails, ThreadStep, RegionPart
    <3>6. CASE ThreadRaises(b, r)
      BY <3>6, <1>f DEF ThreadRaises, ThreadStep, RegionPart
    <3> QED BY <1>6, <3>1, <3>2, <3>3, <3>4, <3>5, <3>6 DEF RegionStep
  <2>10. BuilderPart(b)'
    <3>1. builder'[b] \in {builder[b], "raised"} /\ run' = run /\ instances' = instances
      BY <2>1, <2>3
    <3>2. CASE r = Default
      BY <3>1, <3>2, <2>1, <2>2, <2>7, <1>i, <1>d DEF BuilderPart
    <3>3. CASE r # Default
      <4>1. thread'[b][Default] = thread[b][Default]
        BY <3>3, <2>7, <1>d
      <4>2. thread[b][Default] = "done"
        BY <2>1, <3>3, <1>i, <1>d DEF BuilderPart
      <4>3. builder[b] \notin {"off", "setup", "prime", "terminate", "done"}
        BY <2>1, <3>3, <1>i, <1>d DEF BuilderPart
      <4> QED BY <3>1, <4>1, <4>2, <4>3 DEF BuilderPart
    <3> QED BY <3>2, <3>3
  <2> QED BY <2>4, <2>6, <2>8, <2>9, <2>10, <1>p
<1>7. ASSUME NEW b \in Builder, NEW r \in Region, ImageReady(b, r) PROVE PublishInv'
  <2>1. UNCHANGED <<run, main, joinAt, builder, thread, published, instances>>
    BY <1>7 DEF ImageReady
  <2>2. \A a \in Builder, q \in Region :
          image[a][q][run] = "public" => image'[a][q][run] = "public"
    BY <1>7, <1>f DEF ImageReady, SetImage
  <2>3. \A a \in Builder, q \in Region : RegionPart(a, q)'
    BY <2>1, <2>2, <1>i DEF RegionPart
  <2>4. MainPart' /\ \A a \in Builder : BuilderPart(a)'
    BY <2>1, <1>i DEF MainPart, BuilderPart
  <2> QED BY <2>3, <2>4, <1>p
<1>8. CASE UNCHANGED vars
  <2>1. \A a \in Builder : BuilderPart(a)' /\ \A q \in Region : RegionPart(a, q)'
    BY <1>8, <1>i DEF vars, BuilderPart, RegionPart
  <2>2. MainPart'
    BY <1>8, <1>i DEF vars, MainPart
  <2> QED BY <2>1, <2>2, <1>p
<1> QED BY <1>1, <1>2, <1>3, <1>4, <1>5, <1>6, <1>7, <1>8 DEF Next, MainStep

THEOREM PublishInvHolds == Spec => [](TypeOK /\ PublishInv)
<1>1. Init => TypeOK /\ PublishInv
  <2>1. Init => TypeOK
    BY Positions, AmiAssumption DEF AmiAssumption, Init, TypeOK, Run
  <2>2. Init => PublishInv
    BY Positions, RegionOfDefault DEF Init, PublishInv
  <2> QED BY <2>1, <2>2
<1> QED BY <1>1, TypeStep, PublishStep, PTL DEF Spec

\* The type invariant of AmiPublish.
THEOREM AmiTypeCorrect == Spec => []TypeOK
BY PublishInvHolds, PTL

\* When main.rb has ended well, the builders it joins have this run's image
\* published and public in every region and have destroyed their instances.
THEOREM FinishedIsPublished == Spec => []FinishedMeansPublished
<1>1. TypeOK /\ PublishInv => FinishedMeansPublished
  <2> SUFFICES ASSUME TypeOK, PublishInv, main = "done", NEW b \in Joined
               PROVE  /\ run \notin instances[b]
                      /\ \A r \in Region : published[b][r] = run /\ Usable(b, r)
    BY DEF FinishedMeansPublished
  <2>1. b \in Builder /\ builder[b] = "done"
    BY JoinedAreBuilders DEF PublishInv
  <2>2. run \notin instances[b] /\ \A r \in Region : thread[b][r] = "done"
    BY <2>1 DEF PublishInv, Region
  <2> QED BY <2>1, <2>2 DEF PublishInv, Usable
<1> QED BY <1>1, PublishInvHolds, PTL

\* create_amis asks AWS to copy an image only when the image is ready, and
\* public, in the default region.
THEOREM CopiesReadyImages == Spec => []CopiesAreOfReadyImages
<1>1. TypeOK /\ PublishInv => CopiesAreOfReadyImages
  BY RegionOfDefault DEF PublishInv, CopiesAreOfReadyImages
<1> QED BY <1>1, PublishInvHolds, PTL

-----------------------------------------------------------------------------
\* Where clean_old_ami is about to run there is a successor, and where the S3
\* object is about to be overwritten there is one too, unless the object
\* already names it.  This is inductive.
SuccessorPart(b, r) ==
  /\ thread[b][r] = "clean" => image[b][r][run] # "none"
  /\ thread[b][r] = "save" => image[b][r][run] # "none" \/ published[b][r] = run

SuccessorInv == \A b \in Builder, r \in Region : SuccessorPart(b, r)

\* What a step of thread b in region r leaves alone elsewhere.
LEMMA ElsewhereKept ==
  ASSUME TypeOK, NEW b \in Builder, NEW r \in Region,
         RegionStep(b, r) \/ CleanFails(b, r) \/ ThreadRaises(b, r) \/ ImageReady(b, r)
  PROVE  /\ run' = run
         /\ \A a \in Builder, q \in Region : a # b \/ q # r =>
              /\ thread'[a][q] = thread[a][q] /\ image'[a][q] = image[a][q]
              /\ published'[a][q] = published[a][q]
BY TypeNamed
DEF RegionStep, Copy, Clean, Save, MakePublic, CleanFails, ThreadRaises, ImageReady,
    ThreadStep, SetImage

\* A step of a builder touches its thread and image of the default region, or
\* starts the others at "copy".
LEMMA BuilderTouches ==
  ASSUME TypeOK, PublishInv, NEW b \in Builder, BuilderStep(b) \/ BuilderRaises(b)
  PROVE  /\ UNCHANGED <<run, published>>
         /\ \A a \in Builder, q \in Region :
              \/ thread'[a][q] \in {thread[a][q], "copy"} /\ image'[a][q] = image[a][q]
              \/ /\ thread'[a][q] = "clean"
                 /\ image'[a][q] = [image[a][q] EXCEPT ![run] = "pending"]
<1>f. /\ thread \in [Builder -> [Region -> ThreadState]]
      /\ image \in [Builder -> [Region -> [Run -> ImageState]]]
      /\ run \in Run
  BY TypeNamed
<1>1. CASE CreatePrime(b)
  BY <1>1, <1>f, RegionOfDefault DEF CreatePrime, ThreadStep, SetImage
<1>2. CASE Fork(b)
  BY <1>2, <1>f DEF Fork
<1> QED
  BY <1>1, <1>2 DEF BuilderStep, Setup, JoinRegions, JoinRegionRaises, Terminate, BuilderRaises

LEMMA SuccessorStep == TypeOK /\ PublishInv /\ SuccessorInv /\ [Next]_vars => SuccessorInv'
<1> SUFFICES ASSUME TypeOK, PublishInv, SuccessorInv, [Next]_vars,
                    NEW a \in Builder, NEW q \in Region
             PROVE  SuccessorPart(a, q)'
  BY DEF SuccessorInv
<1>i. SuccessorPart(a, q)
  BY DEF SuccessorInv
<1>f. /\ thread \in [Builder -> [Region -> ThreadState]]
      /\ image \in [Builder -> [Region -> [Run -> ImageState]]]
      /\ published \in [Builder -> [Region -> Run]]
      /\ run \in Run
  BY TypeNamed
<1>1. CASE StartRake
  BY <1>1 DEF StartRake, SuccessorPart
<1>2. CASE MainStep \/ Interrupted
  <2>1. UNCHANGED <<run, image, published>> /\ thread'[a][q] \in {thread[a][q], "killed"}
    BY <1>2, <1>f DEF MainStep, JoinNext, JoinLast, JoinRaises, Interrupted, ProcessEnds
  <2> QED BY <2>1, <1>i DEF SuccessorPart
<1>3. ASSUME NEW b \in Builder, BuilderStep(b) \/ BuilderRaises(b) PROVE SuccessorPart(a, q)'
  <2>1. CASE thread'[a][q] \in {thread[a][q], "copy"} /\ image'[a][q] = image[a][q]
    BY <2>1, <1>3, <1>i, BuilderTouches DEF SuccessorPart
  <2>2. CASE /\ thread'[a][q] = "clean"
             /\ image'[a][q] = [image[a][q] EXCEPT ![run] = "pending"]
    <3>1. run' = run
      BY <1>3, BuilderTouches
    <3>2. image[a][q] \in [Run -> ImageState]
      BY <1>f
    <3> QED BY <2>2, <1>f, <3>1, <3>2 DEF SuccessorPart
  <2> QED BY <2>1, <2>2, <1>3, BuilderTouches
<1>4. ASSUME NEW b \in Builder, NEW r \in Region,
             RegionStep(b, r) \/ CleanFails(b, r) \/ ThreadRaises(b, r) \/ ImageReady(b, r)
      PROVE  SuccessorPart(a, q)'
  <2>1. run' = run
    BY <1>4, ElsewhereKept
  <2>2. CASE a # b \/ q # r
    BY <1>4, <2>2, <1>i, ElsewhereKept DEF SuccessorPart
  <2>3. CASE a = b /\ q = r
    <3>1. CASE Copy(a, q)
      BY <3>1, <1>f DEF Copy, ThreadStep, SetImage, SuccessorPart
    <3>2. CASE Clean(a, q)
      BY <3>2, <1>f, <1>i DEF Clean, ThreadStep, SetImage, SuccessorPart
    <3>3. CASE Save(a, q) \/ MakePublic(a, q)
      BY <3>3, <1>f, <1>i DEF Save, MakePublic, ThreadStep, SuccessorPart
    <3>4. CASE CleanFails(a, q) \/ ThreadRaises(a, q)
      BY <3>4, <1>f, <1>i DEF CleanFails, ThreadRaises, ThreadStep, SuccessorPart
    <3>5. CASE ImageReady(a, q)
      BY <3>5, <1>f, <1>i DEF ImageReady, SetImage, SuccessorPart
    <3> QED BY <1>4, <2>3, <3>1, <3>2, <3>3, <3>4, <3>5 DEF RegionStep
  <2> QED BY <2>2, <2>3
<1>5. CASE UNCHANGED vars
  BY <1>5, <1>i DEF vars, SuccessorPart
<1> QED BY <1>1, <1>2, <1>3, <1>4, <1>5 DEF Next

\* What a region offers is withdrawn by a step only if the image of this run
\* has been made there.
LEMMA WithdrawStep ==
  ASSUME TypeOK, PublishInv, SuccessorInv, [Next]_vars, NEW a \in Builder, NEW q \in Region,
         Usable(a, q), ~Usable(a, q)'
  PROVE  image[a][q][run] # "none"
<1>i. SuccessorPart(a, q)
  BY DEF SuccessorInv
<1>f. /\ thread \in [Builder -> [Region -> ThreadState]]
      /\ image \in [Builder -> [Region -> [Run -> ImageState]]]
      /\ published \in [Builder -> [Region -> Run]]
      /\ run \in Run
  BY TypeNamed
<1>u. /\ image[a][q][published[a][q]] = "public"
      /\ image'[a][q][published'[a][q]] # "public"
  BY DEF Usable
<1>1. CASE StartRake \/ MainStep \/ Interrupted \/ UNCHANGED vars
  BY <1>1, <1>u DEF StartRake, MainStep, JoinNext, JoinLast, JoinRaises, Interrupted,
     ProcessEnds, vars
<1>2. ASSUME NEW b \in Builder, BuilderStep(b) \/ BuilderRaises(b)
      PROVE  image[a][q][run] # "none"
  <2>1. published' = published
    BY <1>2, BuilderTouches
  <2>2. CASE image'[a][q] = image[a][q]
    BY <2>1, <2>2, <1>u
  <2>3. CASE image'[a][q] = [image[a][q] EXCEPT ![run] = "pending"]
    <3>1. published[a][q] \in Run /\ image[a][q] \in [Run -> ImageState]
      BY <1>f
    <3>2. published[a][q] = run
      BY <2>1, <2>3, <3>1, <1>u
    <3> QED BY <3>2, <1>u
  <2> QED BY <2>2, <2>3, <1>2, BuilderTouches
<1>3. ASSUME NEW b \in Builder, NEW r \in Region,
             RegionStep(b, r) \/ CleanFails(b, r) \/ ThreadRaises(b, r) \/ ImageReady(b, r)
      PROVE  image[a][q][run] # "none"
  <2>1. CASE a # b \/ q # r
    BY <1>3, <2>1, <1>u, ElsewhereKept
  <2>2. CASE a = b /\ q = r
    <3> DEFINE p == published[a][q]
    <3>p. p \in Run
      BY <1>f
    <3>1. CASE Copy(a, q)
      BY <3>1, <3>p, <1>f, <1>u DEF Copy, SetImage
    <3>2. CASE Clean(a, q)
      BY <3>2, <1>i DEF Clean, SuccessorPart
    <3>3. CASE Save(a, q)
      BY <3>3, <1>i, <1>u DEF Save, SuccessorPart
    <3>4. CASE MakePublic(a, q)
      BY <3>4 DEF MakePublic
    <3>5. CASE CleanFails(a, q) \/ ThreadRaises(a, q)
      BY <3>5, <1>u DEF CleanFails, ThreadRaises
    <3>6. CASE ImageReady(a, q)
      BY <3>6, <3>p, <1>f, <1>u DEF ImageReady, SetImage
    <3> QED BY <1>3, <2>2, <3>1, <3>2, <3>3, <3>4, <3>5, <3>6 DEF RegionStep
  <2> QED BY <2>1, <2>2
<1> QED BY <1>1, <1>2, <1>3 DEF Next

\* clean_old_ami and save_ami_id take the release of a region away only after
\* the image that is to follow it has been made.
THEOREM WithdrawnForSuccessor == Spec => WithdrawnOnlyForSuccessor
<1>1. Init => SuccessorInv
  BY DEF Init, SuccessorInv, SuccessorPart
<1>2. TypeOK /\ PublishInv /\ SuccessorInv /\ [Next]_vars =>
        [\A b \in Builder, r \in Region :
           Usable(b, r) /\ ~Usable(b, r)' => image[b][r][run] # "none"]_vars
  BY WithdrawStep
<1> QED
  BY <1>1, <1>2, SuccessorStep, PublishInvHolds, PTL DEF Spec, WithdrawnOnlyForSuccessor
===============================================================================
