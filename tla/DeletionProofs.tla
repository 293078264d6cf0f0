---------------------------- MODULE DeletionProofs ----------------------------
(* What is proved of Deletion: types, that it implements DependencyOrder, and  *)
(* what a run does where nothing fails.                                        *)
EXTENDS Deletion, TLAPS

USE DEF At, Goto

Phase == Discovery \cup {"idle", "delete"}

-------------------------------------------------------------------------------
(* Types                                                                       *)

LEMMA DefaultSpcType == DefaultSpcRef \subseteq ClResource
  BY DefaultSpcAssumption DEF DefaultSpcRef

LEMMA TypeInit == Init => TypeOK
  BY BoundAssumption DEF Init, TypeOK, Nothing

(* The memory of the processes.                                                *)
LocalType ==
    /\ pc \in [Session -> Phase]
    /\ DOMAIN args = Session
    /\ \A s \in Session : args[s] \in Arguments[s] \cup {NoArguments}
    /\ typed \in [Session -> SUBSET Extension]
    /\ plan \in [Session -> SUBSET Resource]
    /\ todo \in [Session -> SUBSET Resource]
    /\ waiting \in [Session -> SUBSET Resource]
    /\ failed \in [Session -> SUBSET Resource]

LEMMA FinishType ==
  ASSUME LocalType, NEW s \in Session, Finish(s)
  PROVE  LocalType'
  BY DEF LocalType, Finish, Phase

LEMMA DiscoverType ==
  ASSUME TypeOK, LocalType, NEW s \in Session, Discover(s)
  PROVE  TypeOK' /\ LocalType'
  <1> USE FinishType, DefaultSpcType DEF Reads, NoFault, Fault, Found
  <1>1. ASSUME NEW found \in SUBSET Resource, NEW next \in Phase, Found(s, found, next)
        PROVE  /\ pc' \in [Session -> Phase] /\ plan' \in [Session -> SUBSET Resource]
               /\ UNCHANGED <<args, todo, waiting, failed>>
    BY <1>1 DEF LocalType
  <1>2. /\ TypeOK /\ LocalType' /\ UNCHANGED <<present, deleting, deploys>>
        /\ faults' \in 0 .. MaxFaults
        => TypeOK'
    BY DEF TypeOK, LocalType, Phase
  <1>3. Discover(s) => /\ UNCHANGED <<present, deleting, deploys>>
                       /\ faults' \in 0 .. MaxFaults
    BY BoundAssumption DEF Discover, FindInstance, FindExtensions, FindCustomLocation,
          FindInstanceOnCl, FindRules, Sweep, Prompt, TypeOK
  <1>4. ASSUME NEW found \in SUBSET Resource, NEW next \in Phase, Found(s, found, next),
               typed' \in [Session -> SUBSET Extension]
        PROVE  LocalType'
    BY <1>1, <1>4 DEF LocalType
  <1>5. CASE FindInstance(s)
    <2>1. {"instance", "customLocation"} \cup DefaultSpcRef \in SUBSET Resource
      BY DEF Resource, Scoped
    <2> QED BY <1>5, <2>1, <1>2, <1>3, <1>4 DEF FindInstance, LocalType, Phase, Discovery
  <1>6. CASE FindExtensions(s)
    <2>1. typed' \in [Session -> SUBSET Extension]
      BY <1>6 DEF FindExtensions, LocalType
    <2> QED BY <1>6, <2>1, <1>2, <1>3, <1>4 DEF FindExtensions, Phase, Discovery, TypeOK
  <1>7. CASE FindCustomLocation(s)
    BY <1>7, <1>2, <1>3, <1>4 DEF FindCustomLocation, LocalType, Phase, Discovery, Resource
  <1>8. CASE FindInstanceOnCl(s)
    <2>1. {"instance"} \cup DefaultSpcRef \in SUBSET Resource
      BY DEF Resource, Scoped
    <2> QED BY <1>8, <2>1, <1>2, <1>3, <1>4 DEF FindInstanceOnCl, LocalType, Phase, Discovery
  <1>9. CASE FindRules(s)
    BY <1>9, <1>2, <1>3, <1>4 DEF FindRules, LocalType, TypeOK, Phase, Discovery
  <1>10. CASE Sweep(s)
    <2>1. \A part \in SUBSET (present \cap ClResource) : part \in SUBSET Resource
      BY DEF TypeOK
    <2> QED BY <1>10, <2>1, <1>2, <1>3, <1>4 DEF Sweep, LocalType, TypeOK, Phase, Discovery
  <1>11. CASE Prompt(s)
    <2>1. CASE Finish(s)
      BY <1>11, <2>1, <1>2, <1>3 DEF Discover
    <2>2. CASE ~Finish(s)
      BY <1>11, <2>2, <1>2, <1>3 DEF Prompt, LocalType, Phase, Discovery
    <2> QED BY <2>1, <2>2
  <1> QED BY <1>5, <1>6, <1>7, <1>8, <1>9, <1>10, <1>11 DEF Discover

LEMMA ExecuteType ==
  ASSUME TypeOK, LocalType, NEW s \in Session, Execute(s)
  PROVE  TypeOK' /\ LocalType'
  <1> USE FinishType, BoundAssumption DEF NoFault, Fault, NextBatch
  <1>1. CASE \E r \in Resource : Begin(s, r)
    BY <1>1 DEF Begin, TypeOK, LocalType
  <1>2. CASE Refused(s)
    BY <1>2 DEF Refused, TypeOK, LocalType
  <1>3. CASE Await(s) /\ ~Finish(s)
    BY <1>3 DEF Await, TypeOK, LocalType
  <1>4. CASE TimeOut(s)
    BY <1>4 DEF TimeOut, TypeOK, LocalType
  <1>5. CASE Finish(s) /\ (Await(s) \/ Complete(s))
    BY <1>5 DEF Await, Complete, TypeOK, LocalType, Phase
  <1> QED BY <1>1, <1>2, <1>3, <1>4, <1>5 DEF Execute, Complete

LEMMA ServiceType ==
  ASSUME TypeOK, LocalType, NEW r \in Resource, Service(r) \/ Deploy(r)
  PROVE  TypeOK' /\ LocalType'
  <1> USE BoundAssumption
  <1>1. CASE Deleted(r)
    BY <1>1 DEF Deleted, TypeOK, LocalType, local
  <1>2. CASE DeleteFails(r)
    <2>1. failed' \in [Session -> SUBSET Resource]
      BY <1>2 DEF DeleteFails, TypeOK
    <2> QED BY <1>2, <2>1 DEF DeleteFails, Fault, TypeOK, LocalType
  <1>3. CASE Deploy(r)
    BY <1>3 DEF Deploy, TypeOK, LocalType, local
  <1> QED BY <1>1, <1>2, <1>3 DEF Service

LEMMA TypeStep == TypeOK /\ [Next]_vars => TypeOK'
  <1> SUFFICES ASSUME TypeOK, [Next]_vars PROVE TypeOK'
    OBVIOUS
  <1>1. LocalType
    BY DEF TypeOK, LocalType, Phase
  <1>2. ASSUME NEW s \in Session, Start(s) PROVE TypeOK'
    BY <1>2, ArgumentsAssumption DEF Start, Reads, NoFault, TypeOK, Discovery
  <1>3. ASSUME NEW s \in Session, Abort(s) PROVE TypeOK'
    <2>1. LocalType' BY <1>1, <1>3, FinishType DEF Abort
    <2> QED BY <1>3, <2>1, BoundAssumption DEF Abort, Fault, TypeOK, LocalType, Phase
  <1>4. CASE UNCHANGED vars
    BY <1>4 DEF vars, local, TypeOK
  <1> QED BY <1>1, <1>2, <1>3, <1>4, DiscoverType, ExecuteType, ServiceType DEF Next, Step

(* Every reachable state of deletion is well typed; in particular, the service *)
(* works on no deletion of what is not there.                                  *)
THEOREM DeletionTypeCorrect == Spec => []TypeOK
  BY TypeInit, TypeStep, PTL DEF Spec

-------------------------------------------------------------------------------
(* Deletion implements DependencyOrder                                         *)

Free(r) == \A q \in present : r \notin Needs(q)

Closed == \A r \in present : Needs(r) \subseteq present

(* What a run has discovered before it comes to the prompt.                    *)
Located == {"findRules", "sweep", "prompt"}

(* A run that may delete the IoT Operations extension knows of the instance,   *)
(* or there is none.                                                           *)
InstanceKnown(s) ==
    "instance" \in present =>
       /\ pc[s] \in Located \/ (pc[s] = "findExtensions" /\ args[s].by = "name")
             => "instance" \in plan[s]
       /\ pc[s] = "delete" => "instance" \in todo[s] \cup waiting[s]

(* One that may delete a dependency of the extension knows of the extension.   *)
OpsKnown(s) ==
    "ops" \in present =>
       /\ pc[s] \in Discovery /\ plan[s] \cap Dependency # {} => "ops" \in plan[s]
       /\ pc[s] = "delete" /\ todo[s] \cap Dependency # {}
             => "ops" \in todo[s] \cup waiting[s]

(* A run that waits for one of these two has not been told that it is gone     *)
(* before it is.                                                               *)
Answered(s) ==
    \A r \in waiting[s] \cap {"instance", "ops"} : r \in present => r \in deleting \cup failed[s]

Idle(s) ==
    /\ pc[s] \in {"idle", "findInstance"} => plan[s] = {}
    /\ pc[s] # "delete" => todo[s] = {} /\ waiting[s] = {}

Ordered ==
    /\ TypeOK
    /\ Closed
    /\ \A r \in deleting : Free(r)
    /\ \A s \in Session : InstanceKnown(s) /\ OpsKnown(s) /\ Answered(s) /\ Idle(s)

LEMMA NeedsType == \A r \in Resource : Needs(r) \subseteq Resource
  BY DEF Needs, Resource, Extension, DepExtension

(* What each resource is needed by.                                            *)
LEMMA NeededBy ==
  ASSUME NEW q \in Resource
  PROVE  /\ "instance" \notin Needs(q)
         /\ \A r \in ClResource \cup Rule \cup {Acs} : r \notin Needs(q)
         /\ "ops" \in Needs(q) => q = "instance"
         /\ "customLocation" \in Needs(q) => q \in Scoped
         /\ \A r \in Dependency : r \in Needs(q) => q = "ops"
  BY KindAssumption DEF Needs, Scoped, Resource, Extension, DepExtension

LEMMA OrderedInit == Init => Ordered
  <1> SUFFICES ASSUME Init PROVE Ordered
    OBVIOUS
  <1>1. Closed
    BY NeedsType DEF Init, Closed
  <1> QED BY <1>1, TypeInit DEF Init, Ordered, InstanceKnown, OpsKnown, Answered, Idle, Nothing,
             Located, Discovery

(* Of the deletions in a run's list, the first step's leave nothing behind     *)
(* that needs what they delete.                                                *)
LEMMA BegunIsFree ==
  ASSUME Ordered, NEW s \in Session, NEW r \in Resource, Begin(s, r)
  PROVE  Free(r)
  <1>1. \A q \in todo[s] \cup waiting[s] : Stage(r) <= Stage(q)
    BY DEF Begin, Upcoming, InStage
  <1>2. pc[s] = "delete" /\ r \in todo[s]
    BY DEF Begin, Upcoming
  <1>3. present \subseteq Resource
    BY DEF Ordered, TypeOK
  <1>4. CASE r \in {"instance"} \cup ClResource \cup Rule \cup {Acs}
    BY <1>4, <1>3, NeededBy DEF Free
  <1>5. CASE r = "customLocation"
    BY <1>5, <1>3, NeededBy DEF Free, Begin
  <1>6. CASE r = "ops"
    <2>1. Stage("instance") = 0 /\ Stage("ops") = MaxDepth + 4
      BY KindAssumption DEF Stage
    <2>2. "instance" \notin todo[s] \cup waiting[s]
      BY <1>1, <1>6, <2>1, DepthAssumption
    <2>3. "instance" \notin present
      BY <1>2, <2>2 DEF Ordered, InstanceKnown
    <2> QED BY <1>6, <1>3, <2>3, NeededBy DEF Free
  <1>7. CASE r \in Dependency
    <2>1. Stage("ops") = MaxDepth + 4 /\ Stage(r) = MaxDepth + 5
      BY <1>7, KindAssumption DEF Stage
    <2>2. "ops" \notin todo[s] \cup waiting[s]
      BY <1>1, <2>1, DepthAssumption
    <2>3. "ops" \notin present
      BY <1>2, <1>7, <2>2 DEF Ordered, OpsKnown
    <2> QED BY <1>7, <1>3, <2>3, NeededBy DEF Free
  <1> QED BY <1>4, <1>5, <1>6, <1>7 DEF Resource, Scoped, Extension, DepExtension

(* What a step of one process leaves to the others.                            *)
Others(s) ==
    \A t \in Session \ {s} :
       /\ pc'[t] = pc[t] /\ args'[t] = args[t] /\ plan'[t] = plan[t]
       /\ todo'[t] = todo[t] /\ waiting'[t] = waiting[t] /\ failed'[t] = failed[t]

Known(s) == InstanceKnown(s) /\ OpsKnown(s) /\ Answered(s) /\ Idle(s)

LEMMA OwnStep ==
  ASSUME TypeOK, NEW s \in Session, Start(s) \/ Discover(s) \/ Execute(s) \/ Abort(s)
  PROVE  Others(s) /\ present' = present
  BY DEF TypeOK, Others, Start, Discover, Execute, Abort, Finish, Reads, NextBatch, Found,
         FindInstance, FindExtensions, FindCustomLocation, FindInstanceOnCl, FindRules,
         Sweep, Prompt, Begin, Refused, Await, TimeOut, Complete

LEMMA OthersKnown ==
  ASSUME TypeOK, NEW s \in Session, NEW t \in Session \ {s}, Others(s), Known(t),
         present' = present, deleting \subseteq deleting'
  PROVE  Known(t)'
  BY DEF Others, Known, InstanceKnown, OpsKnown, Answered, Idle, Located, Discovery

LEMMA FinishKnown ==
  ASSUME TypeOK, NEW s \in Session, Finish(s)
  PROVE  Known(s)'
  BY DEF TypeOK, Finish, Known, InstanceKnown, OpsKnown, Answered, Idle, Located, Discovery

LEMMA DiscoverKnown ==
  ASSUME Ordered, NEW s \in Session, Discover(s)
  PROVE  Known(s)'
  <1> USE DEF Reads, Found, Located, Discovery, TypeOK
  <1>0. Known(s) /\ TypeOK
    BY DEF Ordered, Known
  <1>1. present' = present /\ deleting' = deleting
    BY DEF Discover, FindInstance, FindExtensions, FindCustomLocation,
           FindInstanceOnCl, FindRules, Sweep, Prompt
  <1>2. CASE FindInstance(s)
    <2>1. ({"instance", "customLocation"} \cup DefaultSpcRef) \cap Dependency = {}
      BY DefaultSpcType, KindAssumption
    <2> QED BY <1>2, <1>0, <1>1, <2>1, FinishKnown DEF FindInstance, Known, InstanceKnown,
               OpsKnown, Answered, Idle
  <1>3. CASE FindExtensions(s)
    <2>1. "ops" \in present => "ops" \in plan'[s]
      BY <1>3, <1>0 DEF FindExtensions
    <2> QED BY <1>3, <1>0, <1>1, <2>1 DEF FindExtensions, Known, InstanceKnown,
               OpsKnown, Answered, Idle
  <1>4. CASE FindCustomLocation(s)
    <2>1. "instance" \in present => "customLocation" \in present
      BY DEF Ordered, Closed, Needs
    <2>2. "customLocation" \notin Dependency
      BY KindAssumption
    <2> QED BY <1>4, <1>0, <1>1, <2>1, <2>2, FinishKnown DEF FindCustomLocation, Known,
               InstanceKnown, OpsKnown, Answered, Idle
  <1>5. CASE FindInstanceOnCl(s)
    <2>1. ({"instance"} \cup DefaultSpcRef) \cap Dependency = {}
      BY DefaultSpcType, KindAssumption
    <2> QED BY <1>5, <1>0, <1>1, <2>1 DEF FindInstanceOnCl, Known, InstanceKnown,
               OpsKnown, Answered, Idle
  <1>6. CASE FindRules(s)
    <2>1. Rule \cap Dependency = {}
      BY KindAssumption
    <2> QED BY <1>6, <1>0, <1>1, <2>1 DEF FindRules, Known, InstanceKnown,
               OpsKnown, Answered, Idle
  <1>7. CASE Sweep(s)
    <2>1. ClResource \cap Dependency = {}
      BY KindAssumption
    <2> QED BY <1>7, <1>0, <1>1, <2>1 DEF Sweep, Known, InstanceKnown,
               OpsKnown, Answered, Idle
  <1>8. CASE Prompt(s)
    BY <1>8, <1>0, <1>1, FinishKnown DEF Prompt, Known, InstanceKnown,
               OpsKnown, Answered, Idle
  <1> QED BY <1>2, <1>3, <1>4, <1>5, <1>6, <1>7, <1>8 DEF Discover

LEMMA ExecuteKnown ==
  ASSUME Ordered, NEW s \in Session, Execute(s)
  PROVE  Known(s)'
  <1> USE DEF Located, Discovery, TypeOK, NextBatch
  <1>0. Known(s) /\ TypeOK
    BY DEF Ordered, Known
  <1>1. CASE \E r \in Resource : Begin(s, r)
    BY <1>0, <1>1 DEF Begin, Upcoming, Known, InstanceKnown, OpsKnown, Answered, Idle
  <1>2. CASE Refused(s)
    <2>1. "customLocation" \notin Dependency
      BY KindAssumption
    <2> QED BY <1>0, <1>2, <2>1 DEF Refused, Upcoming, Known, InstanceKnown, OpsKnown, Answered,
               Idle
  <1>3. CASE Await(s)
    <2>1. CASE Finish(s)
      BY <2>1, <1>0, FinishKnown
    <2>2. CASE ~Finish(s)
      <3>1. ~Raises(s) /\ Pending(s) = {} /\ NextBatch(s)
            /\ UNCHANGED <<present, deleting>> /\ pc[s] = "delete"
        BY <1>3, <2>2 DEF Await, BatchBegun
      <3>2. \A r \in waiting[s] \cap {"instance", "ops"} : r \notin present
        BY <1>0, <3>1 DEF Raises, Pending, Known, Answered
      <3> QED BY <1>0, <3>1, <3>2 DEF Known, InstanceKnown, OpsKnown, Answered, Idle
    <2> QED BY <2>1, <2>2
  <1>4. CASE TimeOut(s)
    BY <1>0, <1>4 DEF TimeOut, BatchBegun, Known, InstanceKnown, OpsKnown, Answered, Idle
  <1>5. CASE Complete(s)
    BY <1>0, <1>5, FinishKnown DEF Complete
  <1> QED BY <1>1, <1>2, <1>3, <1>4, <1>5 DEF Execute

LEMMA ProcessStep ==
  ASSUME Ordered, NEW s \in Session, Start(s) \/ Discover(s) \/ Execute(s) \/ Abort(s)
  PROVE  /\ Closed' /\ \A r \in deleting' : Free(r)'
         /\ \A t \in Session : Known(t)'
  <1>1. TypeOK /\ \A t \in Session : Known(t)
    BY DEF Ordered, Known
  <1>2. Others(s) /\ present' = present
    BY <1>1, OwnStep
  <1>3. Closed' /\ \A r : Free(r) => Free(r)'
    BY <1>2 DEF Ordered, Closed, Free
  <1>4. deleting' = deleting \/ \E r \in Resource : Begin(s, r)
    BY DEF Start, Discover, Execute, Abort, Reads, FindInstance, FindExtensions,
           FindCustomLocation, FindInstanceOnCl, FindRules, Sweep, Prompt, Refused, Await,
           TimeOut, Complete
  <1>5. \A r \in deleting' : Free(r)
    <2>1. CASE \E r \in Resource : Begin(s, r)
      BY <2>1, BegunIsFree DEF Begin, Ordered
    <2> QED BY <1>4, <2>1 DEF Ordered
  <1>6. deleting \subseteq deleting'
    BY <1>4 DEF Begin
  <1>7. Known(s)'
    <2>1. CASE Start(s)
      BY <2>1, <1>1 DEF Start, Reads, TypeOK, Known, InstanceKnown, OpsKnown, Answered,
             Idle, Located, Discovery
    <2>2. CASE Abort(s)
      BY <2>2, <1>1, FinishKnown DEF Abort
    <2> QED BY <2>1, <2>2, DiscoverKnown, ExecuteKnown
  <1>8. ASSUME NEW t \in Session \ {s} PROVE Known(t)'
    BY <1>1, <1>2, <1>6, <1>8, OthersKnown
  <1> QED BY <1>3, <1>5, <1>7, <1>8

LEMMA ServiceStep ==
  ASSUME Ordered, NEW r \in Resource, Service(r) \/ Deploy(r)
  PROVE  /\ Closed' /\ \A q \in deleting' : Free(q)'
         /\ \A t \in Session : Known(t)'
  <1>1. TypeOK /\ \A t \in Session : Known(t)
    BY DEF Ordered, Known
  <1> USE <1>1 DEF local
  <1>2. CASE Deleted(r)
    <2>1. Free(r) /\ present' = present \ {r} /\ deleting' = deleting \ {r}
      BY <1>2 DEF Deleted, Ordered
    <2>2. Closed'
      BY <2>1 DEF Ordered, Closed, Free
    <2>3. \A q \in deleting' : Free(q)'
      BY <2>1 DEF Ordered, Free
    <2>4. ASSUME NEW t \in Session PROVE Known(t)'
      BY <1>2, <2>1 DEF Deleted, Known, InstanceKnown, OpsKnown, Answered, Idle
    <2> QED BY <2>2, <2>3, <2>4
  <1>3. CASE DeleteFails(r)
    <2>1. Closed' /\ \A q \in deleting' : Free(q)'
      BY <1>3 DEF DeleteFails, Ordered, Closed, Free
    <2>2. ASSUME NEW t \in Session PROVE Known(t)'
      BY <1>3 DEF DeleteFails, Known, InstanceKnown, OpsKnown, Answered, Idle
    <2> QED BY <2>1, <2>2
  <1>4. CASE Deploy(r)
    <2>1. Needs(r) = {"customLocation"}
      BY <1>4, KindAssumption DEF Deploy, Needs
    <2>2. Closed' /\ \A q \in deleting' : Free(q)'
      BY <1>4, <2>1 DEF Deploy, Ordered, Closed, Free
    <2>3. ASSUME NEW t \in Session PROVE Known(t)'
      <3>1. r \notin {"instance", "ops"}
        BY <1>4, KindAssumption DEF Deploy
      <3> QED BY <1>4, <3>1 DEF Deploy, Known, InstanceKnown, OpsKnown, Answered, Idle
    <2> QED BY <2>2, <2>3
  <1> QED BY <1>2, <1>3, <1>4 DEF Service

LEMMA OrderedStep == Ordered /\ [Next]_vars => Ordered'
  <1> SUFFICES ASSUME Ordered, [Next]_vars PROVE Ordered'
    OBVIOUS
  <1>1. TypeOK'
    BY TypeStep DEF Ordered
  <1>2. CASE Next
    BY <1>1, <1>2, ProcessStep, ServiceStep DEF Next, Step, Ordered, Known
  <1>3. CASE UNCHANGED vars
    BY <1>1, <1>3 DEF vars, local, Ordered, Closed, Free, InstanceKnown, OpsKnown, Answered,
           Idle
  <1> QED BY <1>2, <1>3

(* Each step of deletion is a step of DependencyOrder or leaves it alone.      *)
LEMMA OrderStep == Ordered /\ [Next]_vars => [Order!Next]_present
  <1> SUFFICES ASSUME Ordered, Next, present' # present PROVE Order!Next
    BY DEF vars
  <1>1. PICK r \in Resource : Deleted(r) \/ Deploy(r)
    <2>1. ASSUME NEW s \in Session, Start(s) \/ Step(s) \/ Abort(s) PROVE FALSE
      BY <2>1, OwnStep DEF Step, Ordered
    <2> QED BY <2>1 DEF Next, Service, DeleteFails
  <1>2. CASE Deleted(r)
    BY <1>2 DEF Deleted, Ordered, Free, TypeOK, Order!Next, Order!Remove
  <1>3. CASE Deploy(r)
    <2>1. Needs(r) = {"customLocation"}
      BY <1>3, KindAssumption DEF Deploy, Needs
    <2> QED BY <1>3, <2>1 DEF Deploy, Order!Next, Order!Create
  <1> QED BY <1>1, <1>2, <1>3

(* Deletion implements DependencyOrder for every number of runs, resources and *)
(* failures: the service never removes what something else needs, and nothing  *)
(* is created without what it needs.                                           *)
THEOREM DeletionKeepsDependencies == Spec => KeepsDependencies
  <1>1. Init => Order!Init
    BY OrderedInit DEF Ordered, TypeOK, Closed, Order!Init, Order!TypeOK, Order!Closed
  <1> QED BY <1>1, OrderedInit, OrderedStep, OrderStep, PTL DEF Spec, KeepsDependencies, Order!Spec

(* What implements DependencyOrder keeps what it manages closed.               *)
LEMMA OrderKeepsClosed == Order!Spec => [](Order!TypeOK /\ Order!Closed)
  <1>1. Order!Init => Order!TypeOK /\ Order!Closed
    BY DEF Order!Init
  <1>2. (Order!TypeOK /\ Order!Closed) /\ [Order!Next]_present => (Order!TypeOK /\ Order!Closed)'
    <2> SUFFICES ASSUME Order!TypeOK, Order!Closed, [Order!Next]_present
                 PROVE  (Order!TypeOK /\ Order!Closed)'
      OBVIOUS
    <2>1. CASE \E r \in present' \ present : Order!Create(r)
      BY <2>1 DEF Order!Create, Order!TypeOK, Order!Closed
    <2>2. CASE \E r \in present \ present' : Order!Remove(r)
      BY <2>2 DEF Order!Remove, Order!TypeOK, Order!Closed
    <2>3. CASE UNCHANGED present
      BY <2>3 DEF Order!TypeOK, Order!Closed
    <2> QED BY <2>1, <2>2, <2>3 DEF Order!Next
  <1> QED BY <1>1, <1>2, PTL DEF Order!Spec

(* However runs overlap and deletions fail, nothing that is deployed refers to *)
(* something that is gone.                                                     *)
THEOREM DeletionLeavesNothingDangling == Spec => []Order!Closed
  <1> QED BY DeletionKeepsDependencies, OrderKeepsClosed, PTL DEF KeepsDependencies

-------------------------------------------------------------------------------
(* Runs among which nothing fails and nothing is created                       *)

Undisturbed == faults = 0 /\ deploys = 0

(* Once a run has listed the extensions, and what was on the custom location.  *)
Listed == {"findCustomLocation", "findInstanceOnCl"} \cup Located

(* What a run has yet to discover shrinks from step to step, and what it has   *)
(* discovered and still exists it is going to delete or waits for.             *)
Careful(s) ==
    /\ pc[s] = "findExtensions" /\ args[s].by = "name"
          => {"instance", "customLocation"} \subseteq plan[s]
    /\ pc[s] \in Listed => present \cap Asked(s) \cap Extension \subseteq plan[s]
    /\ pc[s] = "findInstanceOnCl" => "customLocation" \in plan[s]
    /\ pc[s] \in Located => present \cap {"instance", "customLocation"} \subseteq plan[s]
    /\ pc[s] \in {"sweep", "prompt"} => present \cap Rule \subseteq plan[s]
    /\ pc[s] = "prompt" => present \cap ClResource \subseteq plan[s]
    /\ pc[s] = "delete" =>
          /\ present \cap Asked(s) \subseteq plan[s]
          /\ present \cap plan[s] \subseteq todo[s] \cup waiting[s]
          /\ present \cap waiting[s] \subseteq deleting
    /\ failed[s] = {}

AllCareful == Undisturbed => \A s \in Session : Careful(s)

LEMMA StageType ==
  /\ \A r \in Resource : Stage(r) \in Nat
  /\ \A r \in Scoped : Stage(r) < Stage("customLocation")
  BY DepthAssumption, KindAssumption DEF Stage, Resource, Scoped, Extension, DepExtension

LEMMA ScopedIsAsked == \A s \in Session : Scoped \subseteq Asked(s)
  BY KindAssumption DEF Scoped, Asked, Resource, DepExtension

(* A run that comes to the custom location has deleted all that is scoped to   *)
(* it: the service has no reason to refuse.                                    *)
LEMMA NotRefused ==
  ASSUME TypeOK, NEW s \in Session, Careful(s), Upcoming(s, "customLocation")
  PROVE  present \cap Scoped = {}
  <1> SUFFICES ASSUME NEW q \in present \cap Scoped PROVE FALSE
    OBVIOUS
  <1>1. q \in todo[s] \cup waiting[s]
    BY ScopedIsAsked DEF Upcoming, Careful
  <1>2. Stage("customLocation") <= Stage(q)
    BY <1>1 DEF Upcoming, InStage
  <1>3. Stage(q) < Stage("customLocation") /\ Stage(q) \in Nat /\ Stage("customLocation") \in Nat
    BY StageType DEF Resource
  <1> QED BY <1>2, <1>3

LEMMA OthersCareful ==
  ASSUME TypeOK, NEW s \in Session, NEW t \in Session \ {s}, Others(s), Careful(t),
         present' = present, deleting \subseteq deleting'
  PROVE  Careful(t)'
  BY DEF Others, Careful, Asked, Listed, Located

LEMMA FinishCareful ==
  ASSUME TypeOK, NEW s \in Session, Finish(s)
  PROVE  Careful(s)'
  BY DEF TypeOK, Finish, Careful, Listed, Located

LEMMA DiscoverCareful ==
  ASSUME Ordered, NEW s \in Session, Careful(s), Discover(s), UNCHANGED faults, faults \in Nat
  PROVE  Careful(s)'
  <1> USE DEF Reads, NoFault, Fault, Found, Listed, Located, Discovery
  <1>0. TypeOK
    BY DEF Ordered
  <1>1. /\ present' = present /\ deleting' = deleting
        /\ Finish(s) \/ (args' = args /\ waiting' = waiting /\ failed' = failed)
    BY DEF Discover, FindInstance, FindExtensions, FindCustomLocation,
           FindInstanceOnCl, FindRules, Sweep, Prompt
  <1>2. CASE Finish(s)
    BY <1>2, <1>0, FinishCareful
  <1>3. CASE FindInstance(s) /\ ~Finish(s)
    BY <1>0, <1>1, <1>3 DEF FindInstance, TypeOK, Careful
  <1>4. CASE FindExtensions(s)
    <2>1. present \cap Asked(s) \cap Extension \subseteq plan'[s]
      BY <1>0, <1>4 DEF FindExtensions, TypeOK, Asked, Extension, DepExtension
    <2>2. Asked(s)' = Asked(s)
      BY <1>4 DEF FindExtensions, Asked
    <2> QED BY <1>0, <1>1, <1>4, <2>1, <2>2 DEF FindExtensions, TypeOK, Careful
  <1>5. CASE FindCustomLocation(s) /\ ~Finish(s)
    <2>1. Asked(s)' = Asked(s)
      BY <1>5 DEF FindCustomLocation, Asked
    <2>2. "customLocation" \notin present => present \cap Scoped = {}
      <3>1. \A q \in Scoped : "customLocation" \in Needs(q)
        BY KindAssumption DEF Needs, Scoped
      <3> QED BY <3>1 DEF Ordered, Closed
    <2>3. CASE "customLocation" \notin present
      <3>1. plan'[s] = plan[s] /\ pc[s] = "findCustomLocation" /\ pc'[s] = "prompt"
            /\ UNCHANGED <<args, failed>>
        BY <1>0, <1>5, <2>3 DEF FindCustomLocation, TypeOK
      <3>2. present \cap ({"instance"} \cup Rule \cup ClResource) = {}
        BY <2>2, <2>3 DEF Scoped
      <3> QED BY <1>1, <2>1, <2>3, <3>1, <3>2 DEF Careful
    <2>4. CASE "customLocation" \in present
      BY <1>0, <1>1, <1>5, <2>1, <2>4 DEF FindCustomLocation, TypeOK, Careful
    <2> QED BY <2>3, <2>4
  <1>6. CASE FindInstanceOnCl(s)
    <2>1. Asked(s)' = Asked(s)
      BY <1>6 DEF FindInstanceOnCl, Asked
    <2> QED BY <1>0, <1>1, <1>6, <2>1 DEF FindInstanceOnCl, TypeOK, Careful
  <1>7. CASE FindRules(s)
    <2>1. Asked(s)' = Asked(s)
      BY <1>7 DEF FindRules, Asked
    <2> QED BY <1>0, <1>1, <1>7, <2>1 DEF FindRules, TypeOK, Careful
  <1>8. CASE Sweep(s)
    <2>1. Asked(s)' = Asked(s)
      BY <1>8 DEF Sweep, Asked
    <2> QED BY <1>0, <1>1, <1>8, <2>1 DEF Sweep, TypeOK, Careful
  <1>9. CASE Prompt(s) /\ ~Finish(s)
    <2>1. Asked(s)' = Asked(s) /\ failed'[s] = failed[s]
      BY <1>1, <1>9 DEF Asked
    <2>2. pc[s] = "prompt" /\ todo'[s] = plan[s] /\ plan' = plan /\ pc'[s] = "delete"
      BY <1>0, <1>9 DEF Prompt, TypeOK
    <2>3. present \cap Asked(s) \subseteq plan[s]
      BY <2>2 DEF Careful, Asked, Resource, Scoped
    <2> QED BY <1>1, <1>9, <2>1, <2>2, <2>3 DEF Careful, Ordered, Idle
  <1> QED BY <1>2, <1>3, <1>4, <1>5, <1>6, <1>7, <1>8, <1>9 DEF Discover

LEMMA ExecuteCareful ==
  ASSUME Ordered, NEW s \in Session, Careful(s), Execute(s), UNCHANGED faults, faults \in Nat
  PROVE  Careful(s)'
  <1>0. TypeOK
    BY DEF Ordered
  <1>1. CASE \E r \in Resource : Begin(s, r)
    <2>1. Asked(s)' = Asked(s)
      BY <1>1 DEF Begin, Asked
    <2> QED BY <1>0, <1>1, <2>1 DEF Begin, Upcoming, TypeOK, Careful, Listed, Located
  <1>2. CASE Refused(s)
    BY <1>0, <1>2, NotRefused DEF Refused, Fault, NoFault
  <1>3. CASE Await(s)
    <2>1. ~Raises(s)
      BY DEF Careful, Raises
    <2>2. Asked(s)' = Asked(s)
      BY <1>3, <2>1 DEF Await, NextBatch, Asked
    <2>3. present \cap waiting[s] = {}
      BY <1>3 DEF Await, BatchBegun, Pending, Careful
    <2> QED BY <1>0, <1>3, <2>1, <2>2, <2>3
            DEF Await, BatchBegun, NextBatch, TypeOK, Careful, Listed, Located
  <1>4. CASE TimeOut(s)
    BY <1>4 DEF TimeOut, Fault
  <1>5. CASE Complete(s)
    BY <1>0, <1>5, FinishCareful DEF Complete
  <1> QED BY <1>1, <1>2, <1>3, <1>4, <1>5 DEF Execute

LEMMA CarefulInit == Init => AllCareful
  BY DEF Init, AllCareful, Careful, Listed, Located, Nothing

LEMMA CarefulStep == Ordered /\ AllCareful /\ [Next]_vars => AllCareful'
  <1> SUFFICES ASSUME Ordered, AllCareful, [Next]_vars, Undisturbed',
                      NEW t \in Session
               PROVE  Careful(t)'
    BY DEF AllCareful
  <1>1. TypeOK
    BY DEF Ordered
  <1>2. faults \in Nat /\ deploys \in Nat
    BY <1>1, BoundAssumption DEF TypeOK
  <1>3. ~Fault
    BY <1>2 DEF Undisturbed, Fault
  <1>4. CASE UNCHANGED vars
    <2>1. Careful(t)
      BY <1>4 DEF vars, AllCareful, Undisturbed
    <2> QED BY <1>4, <2>1 DEF vars, local, Careful, Asked
  <1>5. ASSUME NEW s \in Session, Start(s) \/ Discover(s) \/ Execute(s) \/ Abort(s)
        PROVE  Careful(t)'
    <2>1. UNCHANGED <<faults, deploys>>
      BY <1>3, <1>5 DEF Start, Discover, Execute, Abort, Finish, Reads, NoFault,
           FindInstance, FindExtensions, FindCustomLocation, FindInstanceOnCl, FindRules,
           Sweep, Prompt, Begin, Refused, Await, TimeOut, Complete
    <2>2. \A u \in Session : Careful(u)
      BY <2>1 DEF Undisturbed, AllCareful
    <2>3. Careful(s)'
      <3>1. CASE Start(s)
        BY <3>1, <1>1, <2>2 DEF Start, Reads, TypeOK, Careful, Asked, Listed, Located
      <3>2. ~Abort(s)
        BY <1>3 DEF Abort
      <3> QED BY <1>5, <1>2, <2>1, <2>2, <3>1, <3>2, DiscoverCareful, ExecuteCareful
    <2>4. present' = present /\ Others(s)
      BY <1>1, <1>5, OwnStep
    <2>5. deleting \subseteq deleting'
      BY <1>5 DEF Start, Discover, Execute, Abort, Reads, FindInstance, FindExtensions,
           FindCustomLocation, FindInstanceOnCl, FindRules, Sweep, Prompt, Begin, Refused, Await,
           TimeOut, Complete
    <2> QED BY <1>1, <2>2, <2>3, <2>4, <2>5, OthersCareful
  <1>6. ASSUME NEW r \in Resource, Service(r) \/ Deploy(r)
        PROVE  Careful(t)'
    <2>1. Deleted(r)
      BY <1>2, <1>3, <1>6 DEF Service, DeleteFails, Deploy, Undisturbed
    <2>2. Careful(t) /\ Asked(t)' = Asked(t)
      BY <2>1 DEF Deleted, local, AllCareful, Undisturbed, Asked
    <2> QED BY <2>1, <2>2 DEF Deleted, local, Careful
  <1> QED BY <1>4, <1>5, <1>6 DEF Next, Step

(* The steps that take something off a run's list.                             *)
LEMMA ListStep ==
  ASSUME TypeOK, [Next]_vars, NEW s \in Session, todo'[s] # todo[s]
  PROVE  \/ \E r \in Resource : Begin(s, r)
         \/ Refused(s) \/ Prompt(s) \/ Finish(s)
  <1>1. Next
    BY DEF vars, local
  <1>2. PICK t \in Session : Start(t) \/ Step(t) \/ Abort(t)
    BY <1>1 DEF Next, Service, Deleted, DeleteFails, Deploy, local
  <1>3. t = s
    BY <1>2, OwnStep DEF Step, Others
  <1> QED BY <1>2, <1>3 DEF Step, Start, Discover, Execute, Abort, Found, NextBatch,
             FindInstance, FindExtensions, FindCustomLocation, FindInstanceOnCl, FindRules,
             Sweep, Await, TimeOut, Complete

(* Where nothing failed and nothing was created, for every number of runs side *)
(* by side, no deletion begins while another of an earlier step of its run is  *)
(* under way.                                                                  *)
THEOREM DeletionStrictOrder == Spec => StrictOrder
  <1>1. ASSUME Ordered, AllCareful, [Next]_vars, NEW s \in Session, NEW r \in todo[s] \ todo'[s],
               pc'[s] = "delete", r \in deleting', faults' = 0, deploys = 0,
               NEW q \in plan[s], Stage(q) < Stage(r)
        PROVE  q \notin deleting
    <2>1. TypeOK /\ r \in Resource /\ q \in Resource
      BY <1>1 DEF Ordered, TypeOK
    <2>2. /\ Begin(s, r) \/ Refused(s) \/ Prompt(s)
          /\ Upcoming(s, r) \/ Prompt(s)
      BY <1>1, <2>1, ListStep DEF Begin, Refused, Finish, TypeOK
    <2>3. Upcoming(s, r)
      BY <1>1, <2>2, <2>1 DEF Prompt, Finish, Ordered, Idle, TypeOK
    <2>4. faults = 0
      BY <1>1, <2>1, <2>2, BoundAssumption DEF Begin, Refused, Prompt, NoFault, Fault, TypeOK
    <2>5. Careful(s)
      BY <1>1, <2>4 DEF AllCareful, Undisturbed
    <2>6. SUFFICES ASSUME q \in deleting PROVE FALSE
      OBVIOUS
    <2>7. q \in todo[s] \cup waiting[s]
      BY <2>1, <2>3, <2>5, <2>6 DEF Careful, Upcoming, TypeOK
    <2>8. Stage(r) <= Stage(q)
      BY <2>3, <2>7 DEF Upcoming, InStage
    <2> QED BY <1>1, <2>1, <2>8, StageType
  <1>2. Ordered /\ AllCareful /\ [Next]_vars =>
          [\A s \in Session : \A r \in todo[s] \ todo'[s] :
             pc'[s] = "delete" /\ r \in deleting' /\ faults' = 0 /\ deploys = 0 =>
               \A q \in plan[s] : Stage(q) < Stage(r) => q \notin deleting]_vars
    BY <1>1
  <1> QED BY <1>2, OrderedInit, OrderedStep, CarefulInit, CarefulStep, PTL DEF Spec, StrictOrder

(* A run that deletes to its end undisturbed leaves nothing of what it was     *)
(* asked to remove, beside any number of other runs.                           *)
THEOREM DeletionCompleteLeavesNothing == Spec => CompleteLeavesNothing
  <1>1. ASSUME Ordered, AllCareful, [Next]_vars, NEW s \in Session,
               At(s, "delete"), At(s, "idle")', ~Raises(s), faults' = 0, deploys = 0
        PROVE  present' \cap Asked(s) = {}
    <2>1. TypeOK /\ faults \in Nat
      BY <1>1, BoundAssumption DEF Ordered, TypeOK
    <2>2. Next
      BY <1>1 DEF vars
    <2>3. PICK t \in Session : Start(t) \/ Step(t) \/ Abort(t)
      BY <1>1, <2>2 DEF Next, Service, Deleted, DeleteFails, Deploy, local
    <2>4. t = s /\ present' = present
      BY <1>1, <2>1, <2>3, OwnStep DEF Step, Others
    <2>5. Complete(s)
      BY <1>1, <2>1, <2>3, <2>4 DEF Step, Start, Discover, Execute, Abort, Found, NextBatch,
             FindInstance, FindExtensions, FindCustomLocation, FindInstanceOnCl, FindRules,
             Sweep, Prompt, Begin, Refused, Await, TimeOut, Fault, TypeOK
    <2>6. Careful(s)
      BY <1>1, <2>5 DEF Complete, AllCareful, Undisturbed
    <2> QED BY <2>4, <2>5, <2>6 DEF Complete, Careful
  <1>2. Ordered /\ AllCareful /\ [Next]_vars =>
          [\A s \in Session :
             At(s, "delete") /\ At(s, "idle")' /\ ~Raises(s) /\ faults' = 0 /\ deploys = 0
               => present' \cap Asked(s) = {}]_vars
    BY <1>1
  <1> QED BY <1>2, OrderedInit, OrderedStep, CarefulInit, CarefulStep, PTL
      DEF Spec, CompleteLeavesNothing
===============================================================================
