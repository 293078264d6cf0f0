------------------------------ MODULE Deployment ------------------------------
(***************************************************************************)
(* `az iot ops init` and `az iot ops create`                               *)
(* (providers/orchestration/work.py, targets.py, template.py).             *)
(*                                                                         *)
(* Init deploys the foundation: the secret store extension and, unless     *)
(* trust is the customer's, cert-manager.  Create checks the foundation,   *)
(* refuses a cluster with IoT Operations on it, and deploys in phases: the *)
(* custom location with the foundation only, the IoT Operations extension, *)
(* the custom location again with that extension, the instance, its        *)
(* default resources, a role assignment.  A phase is an ARM deployment: it *)
(* makes its resources in the order of their dependsOn, goes on when the   *)
(* command that began it is killed, and may fail half way.                 *)
(*                                                                         *)
(* Taken from the service: what a template declares as existing, or as the *)
(* parent of a resource, must be there when the resource is made.  Module  *)
(* Deletion models `az iot ops delete`; here it is only what leads back    *)
(* from the refusal, on a cluster where no other command runs.             *)
(***************************************************************************)
EXTENDS Naturals

CONSTANTS
    Session,     \* CLI processes
    Arguments,   \* [Session -> the command lines it may be given]
    Default,     \* the instance's default resources (broker, listener, ...)
    DependsOn,   \* [Default -> what the template makes before it]
    Guided,      \* users know, and may run, what the messages tell them to
    StaleIndex,  \* Azure Resource Graph may lag behind
    MaxFaults    \* bound on failures

Extension == {"certManager", "secretStore", "ops"}
Resource  == Extension \cup {"customLocation", "instance"} \cup Default

ASSUME KindAssumption ==
    Default \cap (Extension \cup {"customLocation", "instance"}) = {}
ASSUME DependsOnAssumption == DependsOn \in [Default -> SUBSET (Default \cup {"instance"})]
ASSUME ArgumentsAssumption ==
    \A s \in Session : Arguments[s] \subseteq
        [cmd: {"init", "create", "delete"}, trust: {"system", "customer"}]
ASSUME OptionAssumption ==
    Guided \in BOOLEAN /\ StaleIndex \in BOOLEAN /\ MaxFaults \in Nat

VARIABLES
    present,     \* the resources that are deployed
    failed,      \* the extensions whose provisioning did not succeed
    links,       \* the custom location's clusterExtensionIds
    trusted,     \* whose trust the IoT Operations extension was given
    pc,          \* the next step of each CLI process
    args,        \* its arguments
    advice,      \* what the user of each process is to run next
    work,        \* what its deployment has still to make
    orphaned,    \* what the deployments of ended commands may still make
    faults       \* the failures so far

cluster == <<present, failed, links, trusted>>
local   == <<pc, args, advice, work>>
vars    == <<cluster, local, orphaned, faults>>

(* The custom location is written by a call of its own.                     *)
Deployable == Resource \ {"customLocation"}

Trust   == {"system", "customer"}
Phase   == {"enablement", "extension", "instance", "resources"}
Step    == {"preflight", "whatIf", "foundation", "detect", "linkDependencies",
            "linkOps", "role", "delete"} \cup Phase
Command == [cmd: {"init", "create", "delete", "none"}, trust: Trust]
NoCommand == [cmd |-> "none", trust |-> "system"]

(* No custom location is linked to cert-manager.                            *)
TypeOK ==
    /\ present \subseteq Resource
    /\ failed \subseteq present \cap Extension
    /\ links \subseteq {"secretStore", "ops"}
    /\ trusted \in Trust \cup {"none"}
    /\ pc \in [Session -> Step \cup {"idle", "done"}]
    /\ args \in [Session -> Command]
    /\ advice \in [Session -> Command]
    /\ work \in [Session -> SUBSET Deployable]
    /\ orphaned \subseteq Deployable \X Trust
    /\ faults \in 0 .. MaxFaults

Init ==
    /\ present = {} /\ failed = {} /\ links = {} /\ trusted = "none"
    /\ pc = [s \in Session |-> "idle"]
    /\ args = [s \in Session |-> NoCommand]
    /\ advice = args
    /\ work = [s \in Session |-> {}]
    /\ orphaned = {} /\ faults = 0

-------------------------------------------------------------------------------
(* The templates *)

(* What a deployment makes.  Begun by the call before the wait: entering a  *)
(* phase and beginning its deployment are one step of the model.            *)
Template(phase, trust) ==
    CASE phase = "enablement" -> {"secretStore"} \cup
                                 (IF trust = "system" THEN {"certManager"} ELSE {})
      [] phase = "extension"  -> {"ops"}
      [] phase = "instance"   -> {"instance"}
      [] phase = "resources"  -> Default
      [] OTHER                -> {}

(* What the template orders before a resource.                              *)
After(r) == IF r = "secretStore" THEN {"certManager"}
            ELSE IF r \in Default THEN DependsOn[r] ELSE {}

(* What it declares as existing, or as the parent of the resource.          *)
Existing(r) ==
    CASE r = "instance" -> {"customLocation", "ops"}
      [] r \in Default  -> {"customLocation", "ops", "instance"} \cup DependsOn[r]
      [] OTHER          -> {}

-------------------------------------------------------------------------------
(* Moving from step to step *)

At(s, step) == pc[s] = step

Goto(s, step) ==
    /\ pc' = [pc EXCEPT ![s] = step]
    /\ work' = [work EXCEPT ![s] = Template(step, args[s].trust)]
    /\ UNCHANGED <<args, advice, orphaned, faults>>

Advise(s, cmd, trust) ==
    advice' = IF Guided THEN [advice EXCEPT ![s] = [cmd |-> cmd, trust |-> trust]]
                        ELSE advice

(* The command ends; what its deployment has begun goes on.                 *)
End(s) ==
    /\ pc' = [pc EXCEPT ![s] = "idle"]
    /\ args' = [args EXCEPT ![s] = NoCommand]
    /\ orphaned' = orphaned \cup (work[s] \X {args[s].trust})
    /\ work' = [work EXCEPT ![s] = {}]

Refuse(s, cmd, trust) ==
    /\ End(s) /\ Advise(s, cmd, trust)
    /\ UNCHANGED <<cluster, faults>>

Fault == faults < MaxFaults /\ faults' = faults + 1

-------------------------------------------------------------------------------
(* The commands *)

(* Any command line, or the one a message asked for.  Until it ends with    *)
(* another message, running it again is what its user is left with.         *)
Begin(s, a) ==
    /\ At(s, "idle")
    /\ args' = [args EXCEPT ![s] = a]
    /\ pc' = [pc EXCEPT ![s] = IF a.cmd = "delete" THEN "delete" ELSE "preflight"]
    /\ Advise(s, a.cmd, a.trust)
    /\ UNCHANGED <<cluster, work, orphaned, faults>>

Start(s) == \E a \in Arguments[s] : Begin(s, a)

FollowAdvice(s) == advice[s].cmd # "none" /\ Begin(s, advice[s])

Preflight(s) ==
    /\ At(s, "preflight")
    /\ Goto(s, IF args[s].cmd = "init" THEN "whatIf" ELSE "foundation")
    /\ UNCHANGED cluster

WhatIf(s) ==
    /\ At(s, "whatIf")
    /\ Goto(s, "enablement")
    /\ UNCHANGED cluster

(* _process_extension_dependencies.  Without cert-manager trust is taken to *)
(* be the customer's.  The message says `az iot ops init` and no more.      *)
AnyFoundation == failed \cap {"certManager", "secretStore"} = {}   \* mutant
FoundationReady ==
    /\ "secretStore" \in present
    /\ failed \cap {"certManager", "secretStore"} = {}

SystemOnly(t) == t = "system" /\ "certManager" \in present   \* mutant: no user trust
AnyTrust(t) == t \in Trust   \* mutant: arguments not compared with the cluster
TrustApplies(t) == (t = "system") <=> ("certManager" \in present)

Other(t) == CHOOSE u \in Trust : u # t

CheckFoundation(s) ==
    /\ At(s, "foundation")
    /\ \/ ~FoundationReady /\ Refuse(s, "init", "system")
       \/ /\ FoundationReady /\ ~TrustApplies(args[s].trust)
          /\ Refuse(s, "create", Other(args[s].trust))
       \/ /\ FoundationReady /\ TrustApplies(args[s].trust)
          /\ Goto(s, "detect") /\ UNCHANGED cluster

(* _raise_if_ops_deployed: is a custom location of this cluster linked to   *)
(* the IoT Operations extension?  Asked of Azure Resource Graph.            *)
NotDetected == {FALSE}   \* mutant: no such check
Detected == {"ops" \in links} \cup (IF StaleIndex THEN BOOLEAN ELSE {})

CheckDeployed(s) ==
    /\ At(s, "detect")
    /\ \/ TRUE \in Detected /\ Refuse(s, "delete", args[s].trust)
       \/ FALSE \in Detected /\ Goto(s, "linkDependencies") /\ UNCHANGED cluster

(* _create_or_update_custom_location replaces the list of extensions.       *)
DependencyIds == {"secretStore"}

Link(ids) ==
    /\ present' = present \cup {"customLocation"}
    /\ links' = ids
    /\ UNCHANGED <<failed, trusted>>

LinkDependencies(s) ==
    /\ At(s, "linkDependencies")
    /\ Link(DependencyIds)
    /\ Goto(s, "extension")

LinkOps(s) ==
    /\ At(s, "linkOps")
    /\ Link(DependencyIds \cup {"ops"})
    /\ Goto(s, "instance")

Following(s) ==
    CASE pc[s] = "enablement" -> "done"
      [] pc[s] = "extension"  -> "linkOps"
      [] pc[s] = "instance"   -> "resources"
      [] pc[s] = "resources"  -> "role"

(* wait_for_terminal_state                                                  *)
NotWaiting(s) == TRUE   \* mutant: the next phase without the result of this
Deployed(s) == work[s] = {}

Await(s) ==
    /\ pc[s] \in Phase
    /\ Deployed(s)
    /\ Goto(s, Following(s))
    /\ UNCHANGED cluster

(* _apply_sr_role_assignment: a failure is a warning.                       *)
AssignRole(s) ==
    /\ At(s, "role")
    /\ Goto(s, "done")
    /\ UNCHANGED cluster

(* The command ends without an error.                                       *)
Done(s) ==
    /\ At(s, "done")
    /\ End(s)
    /\ Advise(s, IF args[s].cmd = "create" THEN "none" ELSE "create", args[s].trust)
    /\ UNCHANGED <<cluster, faults>>

(* A call fails, or the process is killed; the user runs the command again. *)
Fails(s) ==
    /\ pc[s] \notin {"idle", "done"}
    /\ Fault /\ End(s)
    /\ UNCHANGED <<cluster, advice>>

-------------------------------------------------------------------------------
(* The service *)

Made(r, trust) ==
    /\ present' = present \cup {r}
    /\ failed' = failed \ {r}
    /\ trusted' = IF r = "ops" THEN trust ELSE trusted
    /\ UNCHANGED links

(* A deployment makes one of its resources.                                 *)
Deploy(s) ==
    \E r \in work[s] :
        /\ After(r) \cap work[s] = {}
        /\ Existing(r) \subseteq present
        /\ Made(r, args[s].trust)
        /\ work' = [work EXCEPT ![s] = @ \ {r}]
        /\ UNCHANGED <<pc, args, advice, orphaned, faults>>

(* One of them cannot be made: the deployment fails, and the command.  An   *)
(* extension is left behind.                                                *)
DeployFails(s) ==
    \E r \in work[s] :
        /\ After(r) \cap work[s] = {}
        /\ Fault
        /\ present' = present \cup ({r} \cap Extension)
        /\ failed' = failed \cup ({r} \cap Extension)
        /\ trusted' = IF r = "ops" THEN args[s].trust ELSE trusted
        /\ pc' = [pc EXCEPT ![s] = "idle"]
        /\ args' = [args EXCEPT ![s] = NoCommand]
        /\ orphaned' = orphaned \cup
               ({q \in work[s] \ {r} : r \notin After(q)} \X {args[s].trust})
        /\ work' = [work EXCEPT ![s] = {}]
        /\ UNCHANGED <<links, advice>>

(* The deployment of a command that has ended goes on, or stops.            *)
Orphan(made) ==
    \E o \in orphaned :
        /\ orphaned' = orphaned \ {o}
        /\ \/ /\ made
              /\ \A p \in orphaned : p[1] \notin After(o[1])
              /\ Existing(o[1]) \subseteq present
              /\ Made(o[1], o[2])
           \/ ~made /\ UNCHANGED cluster
        /\ UNCHANGED <<local, faults>>

(* `az iot ops delete`, one resource at a time: what refers to nothing that *)
(* is left, the extension after the custom location, the foundation never.  *)
Refers(r) == Existing(r) \cup (IF r = "customLocation" THEN {"ops"} ELSE {})
Removable ==
    {r \in present \ {"certManager", "secretStore"} :
        \A q \in present : r \notin Refers(q)}

Remove(s) ==
    /\ At(s, "delete")
    /\ \E r \in Removable :
         /\ present' = present \ {r}
         /\ failed' = failed \ {r}
         /\ links' = IF r = "customLocation" THEN {} ELSE links
         /\ trusted' = IF r = "ops" THEN "none" ELSE trusted
         /\ orphaned' = {o \in orphaned : r \notin Existing(o[1])}
    /\ UNCHANGED <<local, faults>>

Removed(s) ==
    /\ At(s, "delete")
    /\ present \subseteq {"certManager", "secretStore"}
    /\ Goto(s, "done")
    /\ UNCHANGED cluster

-------------------------------------------------------------------------------
Progress(s) ==
    \/ FollowAdvice(s) \/ Preflight(s) \/ WhatIf(s) \/ CheckFoundation(s)
    \/ CheckDeployed(s) \/ LinkDependencies(s) \/ LinkOps(s) \/ Await(s)
    \/ AssignRole(s) \/ Done(s) \/ Deploy(s) \/ Remove(s) \/ Removed(s)

Next ==
    \/ \E s \in Session : Start(s) \/ Progress(s) \/ Fails(s) \/ DeployFails(s)
    \/ \E made \in BOOLEAN : Orphan(made)

Spec == Init /\ [][Next]_vars

(* A command goes on until it ends, its user then runs what is advised, if  *)
(* nothing else, and deployments end.                                       *)
FairSpec ==
    /\ Spec
    /\ \A s \in Session : WF_vars(Progress(s))
    /\ WF_vars(\E made \in BOOLEAN : Orphan(made))

-------------------------------------------------------------------------------
(* Properties *)

(* The extension refers to the secret store it uses, the custom location to *)
(* the extensions its list begins with, the instance to both, a default     *)
(* resource to what the template says.                                      *)
Needs(r) ==
    CASE r \in {"ops", "customLocation"} -> {"secretStore"}
      [] r = "instance" -> {"customLocation", "ops"}
      [] r \in Default  -> DependsOn[r] \cup {"instance"}
      [] OTHER          -> {}

Order == INSTANCE DependencyOrder

(* However commands overlap, fail and are run again, whatever is deployed   *)
(* stands on what it refers to: nothing of the instance without the secret  *)
(* store that `az iot ops init` should have deployed first.                 *)
KeepsDependencies == Order!Spec

(* IoT Operations given system trust has a cert-manager on its cluster:     *)
(* otherwise its broker waits for certificates nobody issues.               *)
TrustIsBacked == trusted = "system" => "certManager" \in present

(* The custom location an instance is on is linked to IoT Operations.       *)
(* Create links it to the foundation alone in between.                      *)
InstanceLinked == "instance" \in present => "ops" \in links

(* A create that ends without an error leaves everything deployed.          *)
Whole == /\ {"secretStore", "ops", "customLocation", "instance"} \cup Default \subseteq present
         /\ links = {"secretStore", "ops"}
         /\ "ops" \notin failed

CompleteIsWhole ==
    \A s \in Session : At(s, "done") /\ args[s].cmd = "create" => Whole

Follows(s) == At(s, "idle") /\ ~At(s, "idle")' => FollowAdvice(s)

(* Whatever was run before and whatever fails: whoever comes to run only    *)
(* the command each message asks for ends with IoT Operations deployed.     *)
GuidanceConverges ==
    \A s \in Session :
        <>(advice[s].cmd # "none") /\ <>[][Follows(s)]_vars
          => <>[](Whole /\ advice[s].cmd = "none")
===============================================================================
