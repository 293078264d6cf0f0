-------------------------------- MODULE Upgrade --------------------------------
(***************************************************************************)
(* `az iot ops upgrade` (providers/orchestration/upgrade2.py) and the      *)
(* secret sync migration it ends with (migration.py).                      *)
(*                                                                         *)
(* A run reads the instance and, from the Resource Graph, which may lag,   *)
(* the secret sync resources, then the extensions and what else the target *)
(* version requires, makes a plan, asks, and applies the plan in a fixed   *)
(* order: delete the platform extension, create the cert-manager extension *)
(* that takes its place, update the extensions with IoT Operations last,   *)
(* update the instance, create the default registry endpoint and the OPC   *)
(* UA connector template, move the secrets of the OPC UA connector to the  *)
(* default secret provider class.  Every step may fail; the way on is to   *)
(* run the command again.                                                  *)
(*                                                                         *)
(* Versions are generations: a number stands for the versions between two  *)
(* that the code distinguishes.                                            *)
(***************************************************************************)
EXTENDS Naturals, Sequences, Functions

CONSTANTS
    Session,           \* CLI processes
    Workloads,         \* by name: command lines, and what is there before
    Sync,              \* SecretSyncs, each named after the secret it syncs
    OpcuaSync,         \* those of the OPC UA connector
    NewSync,           \* those added meanwhile
    Latest,            \* the version the CLI comes with
    CmMigration,       \* MIN_INSTANCE_VERSION_FOR_CM_MIGRATE
    TemplateBackfill,  \* MIN_INSTANCE_VERSION_FOR_OPCUA_CONNECTOR_TEMPLATE
    Compatible,        \* supported upgrades of IoT Operations
    MaxFaults,         \* bound on failures
    None

Ext == {"cm", "platform", "ssc", "acs", "ops"}
Spc == {"opcua", "default"}

ASSUME VersionAssumption ==
    /\ Latest \in Nat \ {0} /\ CmMigration \in Nat /\ TemplateBackfill \in Nat
    /\ Compatible \subseteq (1 .. Latest) \X (1 .. Latest)

Argument == [yes: BOOLEAN, force: BOOLEAN, noCm: BOOLEAN, ns: BOOLEAN,
             pin: [Ext -> 0 .. Latest]]
Instance == [ns: BOOLEAN, spc: BOOLEAN]
Template == {"none", "failed", "updating", "ok"}

ASSUME WorkloadAssumption ==
    \A w \in DOMAIN Workloads :
       Workloads[w] \in [given: [Session -> SUBSET Argument],
                        clusters: SUBSET [Ext -> 0 .. Latest],
                        instances: SUBSET Instance, classes: SUBSET SUBSET Spc,
                        lag: BOOLEAN, registry: SUBSET BOOLEAN, template: SUBSET Template]
ASSUME SyncAssumption ==
    /\ OpcuaSync \subseteq Sync /\ NewSync \subseteq Sync
    /\ OpcuaSync \cap NewSync = {}
    /\ None \notin Spc
ASSUME BoundAssumption == MaxFaults \in Nat

VARIABLES
    work,       \* the name of the workload
    version,    \* the version of every extension, 0 when it is not installed
    failed,     \* the extensions whose provisioning state is not Succeeded
    instance,   \* its reference to a namespace, and to the default SPC
    registry,   \* the default registry endpoint exists
    template,   \* the OPC UA connector template
    spc,        \* the secret provider classes that exist
    objects,    \* the secrets each of them lists
    uses,       \* the secret provider class of every SecretSync
    pc,         \* the next phase of each CLI process
    args,       \* its arguments
    seen,       \* the instance and secret sync resources it read
    plan,       \* the steps it has still to apply
    rejected,   \* the extensions whose update it will refuse
    faults,     \* the failures so far
    index,      \* the classes and SecretSyncs that the Resource Graph shows
    overlooked  \* the secrets that the reading of a migration overlooked

secrets == <<spc, objects, uses>>
cloud   == <<version, failed, instance, registry, template, secrets>>
local   == <<args, seen, plan, rejected>>
query   == <<index, overlooked>>
vars    == <<cloud, pc, local, faults, query>>

NoArguments == [yes |-> FALSE, force |-> FALSE, noCm |-> FALSE, ns |-> FALSE,
                pin |-> [e \in Ext |-> 0]]
NothingSeen == [instance |-> [ns |-> FALSE, spc |-> FALSE], spc |-> {},
                objects |-> [c \in Spc |-> {}], uses |-> [y \in Sync |-> None]]

Reading  == [instance: Instance, spc: SUBSET Spc, objects: [Spc -> SUBSET Sync],
             uses: [Sync -> Spc \cup {None}]]
View     == [spc: SUBSET Spc, objects: [Spc -> SUBSET Sync],
             uses: [Sync -> Spc \cup {None}]]

(* apply_upgrades: DELETE, CREATE, UPDATE, and what follows them.           *)
ExtensionOrder ==
    << <<"delete", "platform">>, <<"create", "cm">>,
       <<"update", "cm">>, <<"update", "platform">>, <<"update", "ssc">>,
       <<"update", "acs">>, <<"update", "ops">> >>

AuxiliaryOrder ==
    << <<"update", "instance">>, <<"create", "registry">>, <<"create", "template">> >>

DeleteEarly ==       \* mutant: the old class goes before its syncs are moved
    << <<"merge", "spc">>, <<"delete", "spc">>, <<"repoint", "sync">> >>
MigrationOrder ==
    << <<"merge", "spc">>, <<"repoint", "sync">>, <<"delete", "spc">> >>

Order == ExtensionOrder \o AuxiliaryOrder \o MigrationOrder
Apply == Range(Order)

(* What is applied before a step. *)
Earlier ==
    [x \in Apply |-> {y \in Apply : \E i, j \in DOMAIN Order :
                                      i < j /\ Order[i] = y /\ Order[j] = x}]

TypeOK ==
    /\ work \in DOMAIN Workloads
    /\ version \in [Ext -> 0 .. Latest]
    /\ failed \subseteq Ext
    /\ instance \in Instance
    /\ registry \in BOOLEAN
    /\ template \in Template
    /\ spc \subseteq Spc
    /\ objects \in [Spc -> SUBSET Sync]
    /\ uses \in [Sync -> Spc \cup {None}]
    /\ pc \in [Session -> {"idle", "analyze", "apply"}]
    /\ args \in [Session -> Argument]
    /\ seen \in [Session -> Reading]
    /\ plan \in [Session -> SUBSET Apply]
    /\ rejected \in [Session -> SUBSET Ext]
    /\ faults \in 0 .. MaxFaults
    /\ index \in View
    /\ overlooked \subseteq Sync

Current == [spc |-> spc, objects |-> objects, uses |-> uses]

(* What the Resource Graph may still show: resources that are not there yet,*)
(* classes with less in them.                                               *)
Outdated ==
    {v \in View : /\ v.spc \subseteq spc
                  /\ \A c \in Spc : v.objects[c] \subseteq IF c \in v.spc THEN objects[c] ELSE {}
                  /\ \A y \in Sync : v.uses[y] \in {None, uses[y]}}

Init ==
    /\ work \in DOMAIN Workloads
    /\ LET w == Workloads[work]
       IN  /\ version \in w.clusters /\ spc \in w.classes
           /\ registry \in w.registry /\ template \in w.template
    /\ failed = {}
    /\ instance \in {i \in Workloads[work].instances : i.spc => "default" \in spc}
    /\ uses = [y \in Sync |->
                 IF y \in NewSync THEN None
                 ELSE IF y \in OpcuaSync /\ "opcua" \in spc THEN "opcua"
                 ELSE IF y \notin OpcuaSync /\ "default" \in spc THEN "default"
                 ELSE None]
    /\ objects = [c \in Spc |-> {y \in Sync : uses[y] = c}]
    /\ pc = [s \in Session |-> "idle"]
    /\ args = [s \in Session |-> NoArguments]
    /\ seen = [s \in Session |-> NothingSeen]
    /\ plan = [s \in Session |-> {}]
    /\ rejected = [s \in Session |-> {}]
    /\ faults = 0
    /\ index \in IF Workloads[work].lag THEN Outdated ELSE {Current}
    /\ overlooked = {}

-------------------------------------------------------------------------------
(* Moving from step to step *)

Fault   == faults < MaxFaults /\ faults' = faults + 1
NoFault == UNCHANGED faults

Finish(s) ==
    /\ pc' = [pc EXCEPT ![s] = "idle"]
    /\ args' = [args EXCEPT ![s] = NoArguments]
    /\ seen' = [seen EXCEPT ![s] = NothingSeen]
    /\ plan' = [plan EXCEPT ![s] = {}]
    /\ rejected' = [rejected EXCEPT ![s] = {}]

(* The first of the steps that are left. *)
Due(s) == {x \in plan[s] : plan[s] \cap Earlier[x] = {}}

At(s, op, on) == pc[s] = "apply" /\ <<op, on>> \in Due(s)

Advance(s) ==
    /\ plan' = [plan EXCEPT ![s] = @ \ Due(s)]
    /\ UNCHANGED <<pc, args, seen, rejected>>

(* The call succeeds, and the run goes on, or it fails and the run ends.    *)
Succeeds(s) == NoFault /\ Advance(s)
Fails(s)    == Fault /\ Finish(s)

-------------------------------------------------------------------------------
(* What a run finds to do *)

BuiltIn(e) == IF e \in {"cm", "ssc", "ops"} THEN Latest ELSE 0

Desired(a, e) == IF a.pin[e] # 0 THEN a.pin[e] ELSE BuiltIn(e)

Migrates(a) == Desired(a, "ops") >= CmMigration

(* A version the user gave is always a delta.                               *)
HasDeltaInVersion(a, e) == a.pin[e] # 0 \/ Desired(a, e) > version[e]

HasNoDelta(e) == FALSE      \* mutant: failed extensions are not tried again
HasNonSuccessState(e) == e \in failed

CanUpgrade(a, e) ==
    version[e] # 0 /\ (HasDeltaInVersion(a, e) \/ HasNonSuccessState(e))

(* Extensions that come with no version of their own cannot be repaired.    *)
AnyUpgrade(a, e) == TRUE    \* mutant: no guard against a downgrade
ValidUpgrade(a, e) ==
    \/ a.force
    \/ /\ Desired(a, e) >= version[e]
       /\ Desired(a, e) # 0
       /\ e = "ops" => <<version[e], Desired(a, e)>> \in Compatible

DeletesPlatform(a) == version["platform"] # 0 /\ Migrates(a)

CreatesOnDelete(a) ==   \* mutant: only in the run that deletes the platform
    /\ ~a.noCm /\ version["cm"] = 0
    /\ DeletesPlatform(a)
CreatesCertManager(a) ==
    /\ ~a.noCm /\ version["cm"] = 0
    /\ version["platform"] = 0 \/ DeletesPlatform(a)
    /\ Migrates(a)

(* A namespace the user gave, a default secret provider class with no       *)
(* reference to it.                                                         *)
InstanceUpgrade(s, a) ==
    /\ Migrates(a)
    /\ \/ a.ns /\ ~seen[s].instance.ns
       \/ "default" \in seen[s].spc /\ ~seen[s].instance.spc

TemplateMissing == template \in {"none", "failed"}

Needed(s, a, step) ==
    \/ step = <<"delete", "platform">> /\ DeletesPlatform(a)
    \/ step = <<"create", "cm">> /\ CreatesCertManager(a)
    \/ \E e \in Ext :
          /\ step = <<"update", e>>
          /\ CanUpgrade(a, e)
          /\ e = "platform" => ~DeletesPlatform(a)
    \/ step = <<"update", "instance">> /\ InstanceUpgrade(s, a)
    \/ step = <<"create", "registry">> /\ Migrates(a) /\ ~registry
    \/ /\ step = <<"create", "template">>
       /\ Desired(a, "ops") >= TemplateBackfill
       /\ TemplateMissing
    \/ /\ step \in Range(MigrationOrder)
       /\ Migrates(a) /\ "opcua" \in seen[s].spc

(* What ends the analysis with an error.                                    *)
Accepted(s, a) ==
    /\ version["ops"] # 0
    /\ CanUpgrade(a, "ops") => ValidUpgrade(a, "ops")
    /\ Migrates(a) => a.ns \/ seen[s].instance.ns

-------------------------------------------------------------------------------
(* Analysis *)

Merged(s) == seen[s].objects["default"] \cup seen[s].objects["opcua"]

(* The merge will not list a secret that is in use, or the move will leave  *)
(* its SecretSync with the old class.                                       *)
Overlooks(s, y) ==
    /\ Spc \subseteq seen[s].spc
    /\ uses[y] # None
    /\ y \notin Merged(s) \/ (uses[y] = "opcua" /\ seen[s].uses[y] # "opcua")

NoteOverlooked ==
    overlooked' = overlooked \cup {y \in Sync : \E s \in Session : Overlooks(s, y)'}

(* The instance is read from its provider, the rest from the Resource Graph.*)
Read(s) ==
    /\ pc[s] = "idle"
    /\ \E a \in Workloads[work].given[s] : args' = [args EXCEPT ![s] = a]
    /\ seen' = [seen EXCEPT ![s] =
                   [instance |-> instance, spc |-> index.spc,
                    objects |-> index.objects, uses |-> index.uses]]
    /\ pc' = [pc EXCEPT ![s] = "analyze"]
    /\ NoFault
    /\ UNCHANGED <<cloud, plan, rejected, index>>
    /\ NoteOverlooked

(* The Resource Graph takes over a class, or a SecretSync, as it is now.    *)
ReindexClass(c) ==
    /\ index' = [index EXCEPT !.spc = (@ \ {c}) \cup ({c} \cap spc),
                             !.objects[c] = objects[c]]
    /\ UNCHANGED <<cloud, pc, local, faults, overlooked>>

ReindexSync(y) ==
    /\ index' = [index EXCEPT !.uses[y] = uses[y]]
    /\ UNCHANGED <<cloud, pc, local, faults, overlooked>>

(* A list of registry endpoints or connector templates that fails counts as *)
(* nothing needed.                                                          *)
Analyze(s) ==
    /\ pc[s] = "analyze"
    /\ \E unread \in SUBSET {<<"create", "registry">>, <<"create", "template">>} :
          LET a     == args[s]
              steps == {step \in Apply \ unread : Needed(s, a, step)}
          IN /\ IF unread = {} THEN NoFault ELSE Fault
             /\ \/ /\ Accepted(s, a) /\ steps # {}
                   /\ plan' = [plan EXCEPT ![s] = steps]
                   /\ rejected' = [rejected EXCEPT ![s] =
                                     {e \in Ext : CanUpgrade(a, e) /\ ~ValidUpgrade(a, e)}]
                   /\ pc' = [pc EXCEPT ![s] = "apply"]
                   /\ UNCHANGED <<args, seen>>
                \/ /\ ~Accepted(s, a) \/ steps = {} \/ ~a.yes
                   /\ Finish(s)
    /\ UNCHANGED <<cloud, query>>

-------------------------------------------------------------------------------
(* The extensions *)

DeletePlatform(s) ==
    /\ At(s, "delete", "platform")
    /\ \/ /\ Succeeds(s)
          /\ version' = [version EXCEPT !["platform"] = 0]
          /\ failed' = failed \ {"platform"}
       \/ /\ Fails(s)
          /\ \/ /\ failed' = failed \cup ({"platform"} \cap {e \in Ext : version[e] # 0})
                /\ UNCHANGED version
             \/ UNCHANGED <<version, failed>>
    /\ UNCHANGED <<instance, registry, template, secrets, query>>

(* The extension now has the version that the run wants, when it wants one, *)
(* and is up or not.                                                        *)
Provisioned(s, e, up) ==
    /\ version' = [version EXCEPT ![e] =
                     IF Desired(args[s], e) = 0 THEN @ ELSE Desired(args[s], e)]
    /\ failed' = IF up THEN failed \ {e} ELSE failed \cup {e}

CreateCertManager(s) ==
    /\ At(s, "create", "cm")
    /\ \/ Succeeds(s) /\ Provisioned(s, "cm", TRUE)
       \/ Fails(s) /\ (Provisioned(s, "cm", FALSE) \/ UNCHANGED <<version, failed>>)
    /\ UNCHANGED <<instance, registry, template, secrets, query>>

(* The patch is made, and validated, when its turn comes.  An extension     *)
(* that was removed meanwhile is not found.                                 *)
UpdateExtension(s, e) ==
    /\ At(s, "update", e)
    /\ IF e \in rejected[s] \/ version[e] = 0
       THEN NoFault /\ Finish(s) /\ UNCHANGED <<version, failed>>
       ELSE \/ Succeeds(s) /\ Provisioned(s, e, TRUE)
            \/ /\ Fails(s)
               /\ \/ Provisioned(s, e, FALSE)
                  \/ failed' = failed \cup {e} /\ UNCHANGED version
                  \/ UNCHANGED <<version, failed>>
    /\ UNCHANGED <<instance, registry, template, secrets, query>>

-------------------------------------------------------------------------------
(* The instance and what belongs to it *)

(* The whole instance, as it was read, with the references added.           *)
UpdateInstance(s) ==
    /\ At(s, "update", "instance")
    /\ LET put == [ns  |-> args[s].ns \/ seen[s].instance.ns,
                   spc |-> "default" \in seen[s].spc \/ seen[s].instance.spc]
       IN \/ Succeeds(s) /\ instance' = put
          \/ Fails(s) /\ instance' \in {instance, put}
    /\ UNCHANGED <<version, failed, registry, template, secrets, query>>

CreateRegistry(s) ==
    /\ At(s, "create", "registry")
    /\ \/ Succeeds(s) /\ registry' = TRUE
       \/ Fails(s) /\ registry' \in {registry, TRUE}
    /\ UNCHANGED <<version, failed, instance, template, secrets, query>>

(* A run that is killed leaves a template whose provisioning goes on.       *)
CreateTemplate(s) ==
    /\ At(s, "create", "template")
    /\ \/ Succeeds(s) /\ template' = "ok"
       \/ Fails(s) /\ template' \in {template, "failed", "updating"}
    /\ UNCHANGED <<version, failed, instance, registry, secrets, query>>

TemplateSettles ==
    /\ template = "updating"
    /\ template' \in {"ok", "failed"}
    /\ UNCHANGED <<version, failed, instance, registry, secrets, pc, local, faults,
                   query>>

-------------------------------------------------------------------------------
(* The migration of the secrets of the OPC UA connector *)

(* Without a default class the migration does nothing.                      *)
Unmigrated(s) == "default" \notin seen[s].spc

MergeSpc(s) ==
    /\ At(s, "merge", "spc")
    /\ \/ Unmigrated(s) /\ Succeeds(s) /\ UNCHANGED objects
       \/ /\ ~Unmigrated(s)
          /\ \/ Succeeds(s) /\ objects' = [objects EXCEPT !["default"] = Merged(s)]
             \/ Fails(s) /\ (\/ objects' = [objects EXCEPT !["default"] = Merged(s)]
                             \/ UNCHANGED objects)
    /\ UNCHANGED <<version, failed, instance, registry, template, spc, uses, query>>

(* The SecretSyncs it saw use the old class, one by one.                    *)
Repoint(s) ==
    /\ At(s, "repoint", "sync")
    /\ LET old == {y \in Sync : seen[s].uses[y] = "opcua"}
       IN \/ /\ old = {} \/ Unmigrated(s)
             /\ Succeeds(s)
             /\ UNCHANGED uses
          \/ /\ ~Unmigrated(s)
             /\ \E y \in old :
                   \/ /\ NoFault
                      /\ uses' = [uses EXCEPT ![y] = "default"]
                      /\ seen' = [seen EXCEPT ![s].uses[y] = "default"]
                      /\ UNCHANGED <<pc, args, plan, rejected>>
                   \/ /\ Fails(s)
                      /\ \/ uses' = [uses EXCEPT ![y] = "default"]
                         \/ UNCHANGED uses
    /\ UNCHANGED <<version, failed, instance, registry, template, spc, objects,
                   query>>

DeleteSpc(s) ==
    /\ At(s, "delete", "spc")
    /\ LET gone == /\ spc' = spc \ {"opcua"}
                   /\ objects' = [objects EXCEPT !["opcua"] = {}]
       IN \/ Unmigrated(s) /\ Succeeds(s) /\ UNCHANGED <<spc, objects>>
          \/ /\ ~Unmigrated(s)
             /\ \/ Succeeds(s) /\ gone
                \/ Fails(s) /\ (gone \/ UNCHANGED <<spc, objects>>)
    /\ UNCHANGED <<version, failed, instance, registry, template, uses, query>>

(* `az iot ops secretsync secret set` by someone else.                      *)
SetSecret(y) ==
    /\ y \in NewSync /\ uses[y] = None
    /\ instance.spc /\ "default" \in spc
    /\ uses' = [uses EXCEPT ![y] = "default"]
    /\ objects' = [objects EXCEPT !["default"] = @ \cup {y}]
    /\ UNCHANGED <<version, failed, instance, registry, template, spc, pc, local,
                   faults, index>>
    /\ NoteOverlooked

Done(s) ==
    /\ pc[s] = "apply" /\ plan[s] = {}
    /\ Finish(s) /\ NoFault
    /\ UNCHANGED <<cloud, query>>

(* The process is killed between two calls.                                 *)
Killed(s) ==
    /\ pc[s] # "idle"
    /\ Fails(s)
    /\ UNCHANGED <<cloud, query>>

-------------------------------------------------------------------------------

Step(s) ==
    \/ Analyze(s)
    \/ DeletePlatform(s) \/ CreateCertManager(s)
    \/ \E e \in Ext : UpdateExtension(s, e)
    \/ UpdateInstance(s) \/ CreateRegistry(s) \/ CreateTemplate(s)
    \/ MergeSpc(s) \/ Repoint(s) \/ DeleteSpc(s)
    \/ Done(s)

Next ==
    \/ \E s \in Session : Read(s) \/ Step(s) \/ Killed(s)
    \/ TemplateSettles
    \/ \E y \in Sync : SetSecret(y) \/ ReindexSync(y)
    \/ \E c \in Spc : ReindexClass(c)

Spec == Init /\ [][Next /\ UNCHANGED work]_<<work, vars>>

(* The command gets on and is run again after it ended; provisioning ends,  *)
(* and each change reaches the Resource Graph.                              *)
FairSpec == /\ Spec
            /\ \A s \in Session : WF_vars(Read(s)) /\ WF_vars(Step(s))
            /\ WF_vars(TemplateSettles)
            /\ \A c \in Spc : WF_vars(ReindexClass(c))
            /\ \A y \in Sync : WF_vars(ReindexSync(y))

-------------------------------------------------------------------------------
(* What upgrade promises *)

(* IoT Operations never reaches a version that needs the cert-manager       *)
(* extension without it, wherever earlier runs of the command stopped       *)
(* (_should_create_certmanager), unless the user asked for that.            *)
OpsHasCertManager ==
    [][version'["ops"] # version["ops"] /\ version'["ops"] >= CmMigration =>
         version["cm"] # 0 \/ \E s \in Session : args[s].noCm]_vars

(* Every secret a SecretSync needs is listed by a secret provider class     *)
(* that exists, in every state of a migration, an interrupted or a          *)
(* concurrent one included, and with a Resource Graph that lags behind      *)
(* (migrate_to_v2), unless a migration overlooked that very secret: what is *)
(* set after, or so shortly before, upgrade2.py:139 reads the classes that  *)
(* the Resource Graph does not show it there is dropped by the merge        *)
(* (migration.py:222-242), and what uses the old class though its SecretSync*)
(* is not shown is left without a class (migration.py:245-264).             *)
NoSecretLost ==
    \A y \in Sync \ overlooked : uses[y] # None =>
        uses[y] \in spc /\ y \in objects[uses[y]]

(* Without --force ("Use to get around guards, such as those preventing     *)
(* downgrade", params.py:1529) no extension goes back to a lower version.   *)
NoDowngrade ==
    [][\A e \in Ext : version'[e] < version[e] =>
         version'[e] = 0 \/ \E s \in Session : args[s].force]_vars

(* Nothing is left to upgrade.                                              *)
Upgraded ==
    /\ failed = {}
    /\ version["platform"] = 0
    /\ \A e \in {"cm", "ssc", "ops"} : version[e] \in {0, Latest}
    /\ version["cm"] # 0
    /\ instance.ns /\ registry /\ template = "ok"
    /\ "default" \in spc => instance.spc /\ "opcua" \notin spc

(* A command line that asks for all there is to upgrade.                    *)
Completes(a) ==
    a.yes /\ a.ns /\ ~a.noCm /\ ~a.force /\ \A e \in Ext : a.pin[e] = 0

(* However often it fails, the command, run again, completes the upgrade    *)
(* and then finds nothing to upgrade.  (A class of the OPC UA connector with*)
(* no default class beside it is not migrated and found again by each run.) *)
Converges ==
    (\A s \in Session : \A a \in Workloads[work].given[s] : Completes(a)) =>
    <>[](Upgraded /\ ("default" \in spc => \A s \in Session : pc[s] # "apply"))
===============================================================================
