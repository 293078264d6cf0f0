------------------------------- MODULE Deletion -------------------------------
(***************************************************************************)
(* `az iot ops delete` (providers/orchestration/deletion2.py).             *)
(*                                                                         *)
(* A run discovers what is deployed, from the instance's name or from the  *)
(* cluster's, asks, and deletes what it discovered in a strict order of    *)
(* steps: the instance, the resources on the custom location (deepest      *)
(* first), the resource sync rules, the custom location, the IoT           *)
(* Operations extension, the dependency extensions.  A deletion is a long  *)
(* running operation of the service: begun by the run, completed or failed *)
(* later.  Runs may be killed or fail anywhere and the way on is another   *)
(* run, possibly beside one that has not ended.                            *)
(*                                                                         *)
(* Taken from the service: deleting a custom location is refused while     *)
(* anything is scoped to it (test_deletion2_unit.py:1466, "Conflict:       *)
(* resources still scoped").                                               *)
(***************************************************************************)
EXTENDS Naturals

CONSTANTS
    Session,          \* CLI processes
    Arguments,        \* [Session -> the command lines it may be given]
    ClResource,       \* SecretSync and Device Registry resources on the
                      \* custom location
    Depth,            \* [ClResource -> segments of the resource's id]
    MaxDepth,         \* the deepest of them
    DefaultSpc,       \* the instance's default secret provider class, or None
    Rule,             \* resource sync rules
    Dependency,       \* dependency extensions other than ACS
    Acs,              \* the container storage extension
    LinkedExtension,  \* extensions in the custom location's clusterExtensionIds
    OldVersion,       \* the instance's version is at most
                      \* MAX_INSTANCE_VERSION_ACS_DEPENDENCY
    DefaultNamespace, \* the custom location is in azure-iot-operations
    MaxFaults,        \* bound on failures
    MaxDeploys,       \* bound on resources created meanwhile
    None

ASSUME DepthAssumption ==
    /\ MaxDepth \in Nat
    /\ Depth \in [ClResource -> 0 .. MaxDepth]
ASSUME DefaultSpcAssumption == DefaultSpc \in ClResource \cup {None}
ASSUME ArgumentsAssumption ==
    \A s \in Session : Arguments[s] \subseteq
        [by: {"name", "cluster"}, deps: BOOLEAN, force: BOOLEAN, yes: BOOLEAN]
ASSUME BoundAssumption ==
    MaxFaults \in Nat /\ MaxDeploys \in Nat
ASSUME OptionAssumption == OldVersion \in BOOLEAN /\ DefaultNamespace \in BOOLEAN
ASSUME KindAssumption ==
    /\ LinkedExtension \subseteq {"ops"} \cup Dependency
    /\ Acs \notin Dependency
    /\ (Dependency \cup {Acs}) \cap (ClResource \cup Rule) = {}
    /\ ClResource \cap Rule = {}
    /\ {"instance", "customLocation", "ops"}
         \cap (ClResource \cup Rule \cup Dependency \cup {Acs}) = {}
    /\ None \notin {"instance", "customLocation", "ops"}
                     \cup ClResource \cup Rule \cup Dependency \cup {Acs}

DepExtension == Dependency \cup {Acs}
Extension    == {"ops"} \cup DepExtension
Scoped       == {"instance"} \cup ClResource \cup Rule
Resource     == Scoped \cup {"customLocation"} \cup Extension

VARIABLES
    present,   \* the resources that are deployed
    deleting,  \* those whose deletion the service is working on
    pc,        \* the next step of each CLI process
    args,      \* its arguments
    typed,     \* the extensions it listed
    plan,      \* what it discovered
    todo,      \* what of it is still to be deleted
    waiting,   \* the deletions it waits for
    failed,    \* those of them that ended in failure
    faults,    \* the failures so far
    deploys    \* the resources created so far

local == <<args, typed, plan, todo, waiting, failed>>
vars  == <<present, deleting, pc, local, faults, deploys>>

Discovery == {"findInstance", "findExtensions", "findCustomLocation",
              "findInstanceOnCl", "findRules", "sweep", "prompt"}
NoArguments == [by |-> "name", deps |-> FALSE, force |-> FALSE, yes |-> FALSE]

TypeOK ==
    /\ present \subseteq Resource
    /\ deleting \subseteq present
    /\ pc \in [Session -> Discovery \cup {"idle", "delete"}]
    /\ DOMAIN args = Session
    /\ \A s \in Session : args[s] \in Arguments[s] \cup {NoArguments}
    /\ typed \in [Session -> SUBSET Extension]
    /\ plan \in [Session -> SUBSET Resource]
    /\ todo \in [Session -> SUBSET Resource]
    /\ waiting \in [Session -> SUBSET Resource]
    /\ failed \in [Session -> SUBSET Resource]
    /\ faults \in 0 .. MaxFaults
    /\ deploys \in 0 .. MaxDeploys

Nothing == [s \in Session |-> {}]

Init ==
    /\ present = Resource
    /\ deleting = {}
    /\ pc = [s \in Session |-> "idle"]
    /\ args = [s \in Session |-> NoArguments]
    /\ typed = Nothing /\ plan = Nothing
    /\ todo = Nothing /\ waiting = Nothing /\ failed = Nothing
    /\ faults = 0 /\ deploys = 0

-------------------------------------------------------------------------------
(* Moving from step to step *)

At(s, step) == pc[s] = step

Goto(s, step) == pc' = [pc EXCEPT ![s] = step]

Finish(s) ==
    /\ Goto(s, "idle")
    /\ args' = [args EXCEPT ![s] = NoArguments]
    /\ typed' = [typed EXCEPT ![s] = {}]
    /\ plan' = [plan EXCEPT ![s] = {}]
    /\ todo' = [todo EXCEPT ![s] = {}]
    /\ waiting' = [waiting EXCEPT ![s] = {}]
    /\ failed' = [failed EXCEPT ![s] = {}]

Fault == faults < MaxFaults /\ faults' = faults + 1
NoFault == UNCHANGED faults

(* The process is killed, or a call it does not guard raises; deletions     *)
(* that the service has accepted go on.                                     *)
Abort(s) ==
    /\ pc[s] # "idle"
    /\ Fault
    /\ Finish(s)
    /\ UNCHANGED <<present, deleting, deploys>>

-------------------------------------------------------------------------------
(* Discovery *)

(* Adds to what the process found and moves on.                             *)
Found(s, resources, next) ==
    /\ plan' = [plan EXCEPT ![s] = @ \cup resources]
    /\ Goto(s, next)
    /\ UNCHANGED <<args, todo, waiting, failed>>

Reads == UNCHANGED <<present, deleting, deploys>>

Start(s) ==
    /\ At(s, "idle")
    /\ \E a \in Arguments[s] :
          /\ args' = [args EXCEPT ![s] = a]
          /\ Goto(s, IF a.by = "name" THEN "findInstance" ELSE "findExtensions")
    /\ Reads /\ NoFault
    /\ UNCHANGED <<typed, plan, todo, waiting, failed>>

DefaultSpcRef == {DefaultSpc} \ {None}

(* The instance names its custom location and its default secret provider   *)
(* class.  The custom location leads to the cluster; when that read fails   *)
(* the run goes on without the cluster's extensions.                        *)
FindInstance(s) ==
    /\ At(s, "findInstance")
    /\ IF "instance" \in present
       THEN /\ \/ NoFault /\ Found(s, {"instance", "customLocation"} \cup DefaultSpcRef,
                                   "findExtensions")
               \/ Fault /\ Found(s, {"instance", "customLocation"} \cup DefaultSpcRef,
                                 "findRules")
            /\ UNCHANGED typed
       ELSE NoFault /\ Finish(s)    \* "use --cluster to discover and clean them up"
    /\ Reads

(* ACS is included for old versions only, and the version is read from the  *)
(* IoT Operations extension, or from the instance when that was found.      *)
AcsIncluded(s) ==
    /\ OldVersion
    /\ "ops" \in present \/ "instance" \in plan[s]

FindExtensions(s) ==
    /\ At(s, "findExtensions")
    /\ typed' = [typed EXCEPT ![s] = present \cap Extension]
    /\ LET deps == IF args[s].deps
                   THEN Dependency \cup (IF AcsIncluded(s) THEN {Acs} ELSE {})
                   ELSE {}
       IN Found(s, present \cap ({"ops"} \cup deps),
                IF args[s].by = "name" THEN "findRules" ELSE "findCustomLocation")
    /\ Reads /\ NoFault

(* A custom location on the cluster is taken for that of IoT Operations     *)
(* when it is linked to an extension of a known type, or by its namespace;  *)
(* one that is neither ends the run with an error.                          *)
LinkedOnly(s) ==        \* mutant: the second tier is missing
    LinkedExtension \cap typed[s] # {}

Identified(s) == LinkedExtension \cap typed[s] # {} \/ DefaultNamespace

FindCustomLocation(s) ==
    /\ At(s, "findCustomLocation")
    /\ IF "customLocation" \notin present
       THEN Found(s, {}, "prompt") /\ UNCHANGED typed
       ELSE IF Identified(s)
       THEN Found(s, {"customLocation"}, "findInstanceOnCl") /\ UNCHANGED typed
       ELSE Finish(s)
    /\ Reads /\ NoFault

FindInstanceOnCl(s) ==
    /\ At(s, "findInstanceOnCl")
    /\ Found(s, IF "instance" \in present THEN {"instance"} \cup DefaultSpcRef ELSE {},
             "findRules")
    /\ Reads /\ NoFault /\ UNCHANGED typed

(* A list that fails is a warning.                                          *)
FindRules(s) ==
    /\ At(s, "findRules")
    /\ \/ NoFault /\ Found(s, present \cap Rule, "sweep")
       \/ Fault /\ Found(s, {}, "sweep")
    /\ Reads /\ UNCHANGED typed

(* The Resource Graph query may fail (a warning) or lag behind.             *)
Sweep(s) ==
    /\ At(s, "sweep")
    /\ \/ NoFault /\ Found(s, present \cap ClResource, "prompt")
       \/ /\ Fault
          /\ \E part \in SUBSET (present \cap ClResource) : Found(s, part, "prompt")
    /\ Reads /\ UNCHANGED typed

(* "Nothing to delete", a cluster that is not connected (without --force)   *)
(* and a declined prompt end the run.                                       *)
Prompt(s) ==
    /\ At(s, "prompt")
    /\ \/ /\ plan[s] # {}
          /\ todo' = [todo EXCEPT ![s] = plan[s]]
          /\ Goto(s, "delete")
          /\ UNCHANGED <<args, typed, plan, waiting, failed>>
       \/ /\ plan[s] = {} \/ ~args[s].force \/ ~args[s].yes
          /\ Finish(s)
    /\ Reads /\ NoFault

-------------------------------------------------------------------------------
(* Deletion *)

RulesLast(r) ==      \* mutant: the sync rules come after the custom location
    CASE r = "instance"       -> 0
      [] r \in ClResource     -> 1 + MaxDepth - Depth[r]
      [] r = "customLocation" -> MaxDepth + 2
      [] r \in Rule           -> MaxDepth + 3
      [] r = "ops"            -> MaxDepth + 4
      [] OTHER                -> MaxDepth + 5

(* The step and batch in which a resource is deleted.                       *)
Stage(r) ==
    CASE r = "instance"       -> 0
      [] r \in ClResource     -> 1 + MaxDepth - Depth[r]
      [] r \in Rule           -> MaxDepth + 2
      [] r = "customLocation" -> MaxDepth + 3
      [] r = "ops"            -> MaxDepth + 4
      [] OTHER                -> MaxDepth + 5

InStage(s, r) == \A q \in todo[s] \cup waiting[s] : Stage(r) <= Stage(q)

Upcoming(s, r) == At(s, "delete") /\ r \in todo[s] /\ InStage(s, r)

(* The service accepts the deletion, or answers 404 (already deleted).      *)
Begin(s, r) ==
    /\ Upcoming(s, r)
    /\ r = "customLocation" => present \cap Scoped = {}
    /\ todo' = [todo EXCEPT ![s] = @ \ {r}]
    /\ deleting' = deleting \cup ({r} \cap present)
    /\ waiting' = [waiting EXCEPT ![s] = @ \cup ({r} \cap present)]
    /\ UNCHANGED <<present, pc, args, typed, plan, failed, faults, deploys>>

(* The custom location is the one whose failure does not end the run.       *)
Refused(s) ==
    /\ Upcoming(s, "customLocation")
    /\ \/ present \cap Scoped # {} /\ NoFault
       \/ Fault
    /\ todo' = [todo EXCEPT ![s] = @ \ {"customLocation"}]
    /\ UNCHANGED <<present, deleting, pc, args, typed, plan, waiting, failed,
                   deploys>>

NeverPending(s) == {}          \* mutant: nobody waits
Pending(s) == (waiting[s] \cap deleting) \ failed[s]

(* The result of a deletion is looked at in the steps of one resource only; *)
(* a failure of a batch passes unnoticed (wait_for_terminal_states).        *)
NeverRaises(s) == FALSE       \* mutant: no result is looked at
Raises(s) == failed[s] \cap {"instance", "ops"} # {}

BatchBegun(s) ==
    /\ At(s, "delete")
    /\ waiting[s] # {}
    /\ \A r \in todo[s] : ~InStage(s, r)

NextBatch(s) ==
    /\ waiting' = [waiting EXCEPT ![s] = {}]
    /\ failed' = [failed EXCEPT ![s] = {}]
    /\ UNCHANGED <<pc, args, typed, plan, todo>>

Await(s) ==
    /\ BatchBegun(s)
    /\ Pending(s) = {}
    /\ IF Raises(s) THEN Finish(s) ELSE NextBatch(s)
    /\ UNCHANGED <<present, deleting, faults, deploys>>

(* After POLL_RETRIES polls a batch is given up, a single deletion is not.  *)
TimeOut(s) ==
    /\ BatchBegun(s)
    /\ Pending(s) # {}
    /\ waiting[s] \cap {"instance", "customLocation", "ops"} = {}
    /\ Fault
    /\ NextBatch(s)
    /\ UNCHANGED <<present, deleting, deploys>>

Complete(s) ==
    /\ At(s, "delete")
    /\ todo[s] = {} /\ waiting[s] = {}
    /\ Finish(s)
    /\ UNCHANGED <<present, deleting, faults, deploys>>

-------------------------------------------------------------------------------
(* The service, and other users *)

Deleted(r) ==
    /\ r \in deleting
    /\ deleting' = deleting \ {r}
    /\ present' = present \ {r}
    /\ UNCHANGED <<pc, local, faults, deploys>>

DeleteFails(r) ==
    /\ r \in deleting
    /\ Fault
    /\ deleting' = deleting \ {r}
    /\ failed' = [s \in Session |-> failed[s] \cup ({r} \cap waiting[s])]
    /\ UNCHANGED <<present, pc, args, typed, plan, todo, waiting, deploys>>

(* Someone creates an asset or a secret while a run is under way.           *)
Deploy(r) ==
    /\ r \in ClResource \ present
    /\ "customLocation" \in present \ deleting
    /\ deploys < MaxDeploys
    /\ deploys' = deploys + 1
    /\ present' = present \cup {r}
    /\ UNCHANGED <<deleting, pc, local, faults>>

-------------------------------------------------------------------------------

Discover(s) ==
    \/ FindInstance(s) \/ FindExtensions(s) \/ FindCustomLocation(s)
    \/ FindInstanceOnCl(s) \/ FindRules(s) \/ Sweep(s) \/ Prompt(s)

Execute(s) ==
    \/ \E r \in Resource : Begin(s, r)
    \/ Refused(s) \/ Await(s) \/ TimeOut(s) \/ Complete(s)

Step(s) == Discover(s) \/ Execute(s)

Service(r) == Deleted(r) \/ DeleteFails(r)

Next ==
    \/ \E s \in Session : Start(s) \/ Step(s) \/ Abort(s)
    \/ \E r \in Resource : Service(r) \/ Deploy(r)

Spec == Init /\ [][Next]_vars

(* A run gets on, is started again after it ended, and the service answers. *)
FairSpec == /\ Spec
            /\ \A s \in Session : WF_vars(Step(s)) /\ WF_vars(Start(s))
            /\ \A r \in Resource : WF_vars(Service(r))

-------------------------------------------------------------------------------
(* What deletion promises *)

(* What refers to what.                                                     *)
Needs(r) ==
    CASE r = "instance"             -> {"customLocation", "ops"}
      [] r \in ClResource \cup Rule -> {"customLocation"}
      [] r = "ops"                  -> Dependency
      [] OTHER                      -> {}

Order == INSTANCE DependencyOrder

(* Whatever fails, however many runs overlap, a resource is removed only    *)
(* when nothing needs it any more: the IoT Operations extension outlives    *)
(* the instance and the dependency extensions outlive it.                   *)
KeepsDependencies == Order!Spec

(* No deletion begins while one of an earlier step of the run is under way  *)
(* ("strict step order", deletion2.py:550), unless a deletion failed, was   *)
(* given up, or concerns what was created meanwhile.                        *)
StrictOrder ==
    [][\A s \in Session : \A r \in todo[s] \ todo'[s] :
         pc'[s] = "delete" /\ r \in deleting' /\ faults' = 0 /\ deploys = 0 =>
           \A q \in plan[s] : Stage(q) < Stage(r) => q \notin deleting]_vars

(* What a run was asked to remove.  That container storage goes too depends *)
(* on a version it has yet to find.                                         *)
Asked(s) == Resource \ ({Acs} \cup (IF args[s].deps THEN {} ELSE DepExtension))

(* A run that deletes to its end, where nothing failed and nobody created   *)
(* anything, has left nothing of what it was asked to remove, even beside   *)
(* another run.                                                             *)
CompleteLeavesNothing ==
    [][\A s \in Session :
         At(s, "delete") /\ At(s, "idle")' /\ ~Raises(s)
           /\ faults' = 0 /\ deploys = 0
             => present' \cap Asked(s) = {}]_vars

(* "Full cleanup via cluster name with dependency removal": whatever failed *)
(* in earlier runs and whoever else runs it with other options, running it  *)
(* again and again in the end removes everything, but the container storage *)
(* when the version it depends on was lost with the instance.               *)
Again(s) == /\ Start(s)
            /\ args'[s].by = "cluster" /\ args'[s].deps

FullCleanup ==
    (\E s \in Session : []<><<Again(s)>>_vars) => <>[](present \subseteq {Acs})
===============================================================================
