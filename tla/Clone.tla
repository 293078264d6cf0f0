--------------------------------- MODULE Clone ---------------------------------
(***************************************************************************)
(* `az iot ops clone` (orchestration/clone.py): an instance is captured    *)
(* into an ARM template, which may be deployed to another cluster.         *)
(*                                                                         *)
(* The capture lists one kind of resource after the other, while others    *)
(* may change the instance.  What is listed is cut into nested deployments *)
(* of a limited size; each waits for deployments captured before it, of    *)
(* a kind that was cut for the last of its pieces only.  Azure Resource    *)
(* Manager makes everything in a deployment at once, in any order.  In     *)
(* `linked` mode the deployments of assets and of what they connect to are *)
(* taken out of the template and deployed as pages of their own, one after *)
(* the other; a clone that has a single page does not wait for it.         *)
(***************************************************************************)
EXTENDS Naturals, FiniteSets, Sequences, SequencesExt

CONSTANTS
    Name,        \* names of resources
    Workloads,   \* the instances that may be cloned, how, and what others change
    ChunkLen,    \* most resources of a kind in one deployment
    MaxEdits,    \* bound on changes of the instance by others
    MaxFaults    \* bound on failures

Extension  == {"certManager", "platform", "containerStorage", "secretStore", "ops"}
Root       == Extension \cup {"customLocation", "instance", "roleAssignment", "broker"}
PagedKind  == {"assetEndpointProfile", "asset", "namespaceDevice", "namespaceAsset"}
ListedKind == PagedKind \cup
    {"authn", "authz", "listener", "dataflowEndpoint", "dataflowProfile", "dataflow",
     "secretProviderClass", "secretSync", "connectorTemplate", "registryEndpoint"}
Kind       == Root \cup ListedKind

Resource   == ListedKind \X Name
Referrer   == Resource \cup {<<"instance", "root">>}
Instance   == [ListedKind -> SUBSET Name]

(* The kinds of resources that those of a kind refer to by name.  (What is  *)
(* in the cluster, as the secrets that secret syncs bring there, is not     *)
(* among them.)                                                             *)
RefersTo(kind) ==
    CASE kind = "listener" -> {"authn", "authz"}
      [] kind = "dataflow" -> {"dataflowProfile", "dataflowEndpoint", "asset",
                              "namespaceAsset"}
      [] kind \in {"instance", "secretSync"} -> {"secretProviderClass"}
      [] kind = "asset" -> {"assetEndpointProfile"}
      [] kind = "namespaceAsset" -> {"namespaceDevice"}
      [] kind = "connectorTemplate" -> {"registryEndpoint"}
      [] OTHER -> {}

ASSUME NameAssumption == IsFiniteSet(Name)
ASSUME WorkloadAssumption ==
    Workloads \in Seq([v2: BOOLEAN, linked: BOOLEAN, extensions: SUBSET Extension,
                         source: Instance, refers: [Referrer -> SUBSET Resource],
                         editable: SUBSET ListedKind])
ASSUME ReferenceAssumption ==
    \A w \in Range(Workloads) : \A r \in Referrer :
       \A d \in w.refers[r] : d[1] \in RefersTo(r[1])
ASSUME BoundAssumption ==
    ChunkLen \in Nat \ {0} /\ MaxEdits \in Nat /\ MaxFaults \in Nat

VARIABLES
    chosen,     \* which workload it is
    source,     \* the resources of the instance that is cloned
    edits,      \* changes of it by others
    pc,         \* the next step of the command
    read,       \* how many kinds it has listed
    captured,   \* the template: [Kind -> its deployments, each a set of names]
    page,       \* how many pages of it have been submitted
    sent,       \* the template of the page that was submitted last
    pending,    \* what that page has still to make
    failed,     \* what it could not make
    target,     \* the resources on the target cluster
    federated,  \* the identities trust the target cluster
    faults      \* the failures so far

capture    == <<read, captured>>
deployment == <<page, sent, pending, failed>>
vars == <<chosen, source, edits, pc, capture, deployment, target, federated, faults>>

work == Workloads[chosen]

Made == Kind \X (Name \cup {"root"})

ListOrder(v2) ==
    <<"authn", "authz", "listener", "dataflowEndpoint", "dataflowProfile", "dataflow",
      "secretProviderClass", "secretSync", "assetEndpointProfile", "asset">>
    \o (IF v2 THEN <<"connectorTemplate", "registryEndpoint",
                     "namespaceDevice", "namespaceAsset">> ELSE << >>)

Nothing == [k \in Kind |-> << >>]

TypeOK ==
    /\ chosen \in 1 .. Len(Workloads)
    /\ source \in Instance /\ edits \in 0 .. MaxEdits
    /\ pc \in {"idle", "list", "prompt", "federate", "submit", "await"}
    /\ read \in 0 .. Len(ListOrder(TRUE))
    /\ federated \in BOOLEAN
    /\ \A t \in {captured, sent} :
          /\ DOMAIN t = Kind
          /\ \A k \in Kind : \A c \in Range(t[k]) :
                /\ c # {} /\ c \subseteq Name \cup {"root"}
                /\ k \in ListedKind => Cardinality(c) <= ChunkLen
    /\ page \in Nat
    /\ pending \subseteq Made /\ failed \subseteq Made
    /\ target \subseteq Made
    /\ faults \in 0 .. MaxFaults

Init ==
    /\ chosen \in 1 .. Len(Workloads)
    /\ source = work.source /\ edits = 0
    /\ pc = "idle" /\ read = 0 /\ captured = Nothing
    /\ page = 0 /\ sent = Nothing /\ pending = {} /\ failed = {}
    /\ target = {} /\ federated = FALSE /\ faults = 0

-------------------------------------------------------------------------------
(* The instance *)

(* Someone creates or deletes a resource of the instance.                   *)
Edit ==
    /\ edits < MaxEdits
    /\ \E k \in work.editable, n \in Name :
          source' = [source EXCEPT ![k] = (@ \ {n}) \cup ({n} \ @)]
    /\ edits' = edits + 1
    /\ UNCHANGED <<chosen, pc, capture, deployment, target, federated, faults>>

-------------------------------------------------------------------------------
(* Capture *)

Has(template, kind) == template[kind] # << >>
Held(template, kind) == UNION Range(template[kind])

(* Extensions, custom location, instance, its role assignment and the first *)
(* broker.                                                                  *)
AnalyzeInstance ==
    /\ pc = "idle"
    /\ captured' = [k \in Kind |->
          IF k \in work.extensions \cup (Root \ Extension) THEN <<{"root"}>> ELSE << >>]
    /\ read' = 0
    /\ pc' = "list"
    /\ UNCHANGED <<chosen, source, edits, deployment, target, federated, faults>>

(* Every way to cut a list: by number, and by the size of what is in it.    *)
Chunks(names) ==
    LET Cut(n) == {q \in [1 .. n -> (SUBSET names) \ {{}}] :
                      /\ UNION Range(q) = names
                      /\ \A i, j \in 1 .. n : i # j => q[i] \cap q[j] = {}
                      /\ \A i \in 1 .. n : Cardinality(q[i]) <= ChunkLen}
    IN  UNION {Cut(n) : n \in 0 .. Cardinality(names)}

(* Data flows are listed by the profiles that were.                         *)
Dataflows ==
    {n \in source["dataflow"] : \E p \in Held(captured, "dataflowProfile") :
        <<"dataflowProfile", p>> \in work.refers[<<"dataflow", n>>]}

(* Others are left out when there is none of what they depend on.           *)
SecretSyncs == IF Has(captured, "secretProviderClass") THEN source["secretSync"] ELSE {}

Assets == IF Has(captured, "assetEndpointProfile") THEN source["asset"] ELSE {}

WithoutProfiles ==   \* mutant: left out when there is no endpoint profile
    IF Has(captured, "assetEndpointProfile") THEN source["namespaceAsset"] ELSE {}

NamespaceAssets == IF Has(captured, "namespaceDevice") THEN source["namespaceAsset"] ELSE {}

Listed(kind) ==
    CASE kind = "dataflow"       -> Dataflows
      [] kind = "secretSync"     -> SecretSyncs
      [] kind = "asset"          -> Assets
      [] kind = "namespaceAsset" -> NamespaceAssets
      [] OTHER                   -> source[kind]

(* The deployment to depend on is looked up, found or not.                  *)
LooksUp(kind) ==
    CASE kind = "dataflow" /\ Has(captured, "dataflowProfile") -> {"dataflowEndpoint"}
      [] kind \in {"assetEndpointProfile", "namespaceDevice"} -> {"listener"}
      [] OTHER -> {}

AddDeployment ==
    /\ pc = "list" /\ read < Len(ListOrder(work.v2))
    /\ LET kind == ListOrder(work.v2)[read + 1]
       IN  /\ \A k \in LooksUp(kind) : Has(captured, k)
           /\ \E q \in Chunks(Listed(kind)) : captured' = [captured EXCEPT ![kind] = q]
    /\ read' = read + 1
    /\ UNCHANGED <<chosen, source, edits, pc, deployment, target, federated, faults>>

Captured ==
    /\ pc = "list" /\ read = Len(ListOrder(work.v2))
    /\ pc' = "prompt"
    /\ UNCHANGED <<chosen, source, edits, capture, deployment, target, federated, faults>>

-------------------------------------------------------------------------------
(* The template *)

Base == IF work.v2 THEN "certManager" ELSE "platform"

(* The kinds whose last deployment another waits for.                       *)
ExtensionDependsOn(kind) ==
    CASE kind \in {"secretStore", "containerStorage"} -> {Base}
      [] kind = "ops" -> {Base, "secretStore"}
                           \cup (IF work.v2 THEN {} ELSE {"containerStorage"})
      [] OTHER -> {}

ProfileOnly(template) == {"dataflowProfile"}   \* mutant: endpoints not waited for

DataflowDependsOn(template) == {"dataflowProfile", "dataflowEndpoint"}

DependsOn(template, kind) ==
    CASE kind \in Extension -> ExtensionDependsOn(kind)
      [] kind = "customLocation" ->
            {k \in {Base, "secretStore", "ops"}
                     \cup (IF work.v2 THEN {} ELSE {"containerStorage"}) : Has(template, k)}
      [] kind = "instance" -> {"customLocation"}
      [] kind = "roleAssignment" -> {"ops"}
      [] kind \in {"authn", "authz"} -> {"broker"}
      [] kind = "listener" -> {k \in {"authn", "authz"} : Has(template, k)}
      [] kind = "dataflow" -> DataflowDependsOn(template)
      [] kind = "secretSync" -> {"secretProviderClass"}
      [] kind \in {"assetEndpointProfile", "namespaceDevice"} -> {"instance", "listener"}
      [] kind = "asset" -> {"assetEndpointProfile"}
      [] kind = "namespaceAsset" -> {"namespaceDevice"}
      [] OTHER -> {"instance"}

(* Resource Manager refuses a template with a reference to nothing.         *)
Valid(template) ==
    \A k \in Kind : Has(template, k) => \A d \in DependsOn(template, k) : Has(template, d)

InPages(kind) == work.linked /\ kind \in PagedKind

RootPage(template) ==
    UNION {{k} \X Held(template, k) : k \in {j \in Kind : ~InPages(j)}}

(* The deployments taken out of the template, in the order of their capture.*)
Split(template) ==
    LET PagesOf(k) == [i \in 1 .. Len(template[k]) |-> {k} \X template[k][i]]
    IN  IF work.linked
        THEN PagesOf("assetEndpointProfile") \o PagesOf("asset")
               \o PagesOf("namespaceDevice") \o PagesOf("namespaceAsset")
        ELSE << >>

Pages(template) == <<RootPage(template)>> \o Split(template)

(* A page is given the template's parameters, but those of the namespace's  *)
(* resources use one of their nested deployment (clusterResourceGroup).     *)
HasParameters(contents) ==
    \A r \in contents : r[1] \in {"namespaceDevice", "namespaceAsset"} => ~work.linked

-------------------------------------------------------------------------------
(* Restore *)

End == pc' = "idle" /\ captured' = Nothing /\ read' = 0

(* The prompt is declined, a lookup or a call fails, or the process is      *)
(* killed; what Resource Manager has accepted goes on.                      *)
Abort ==
    /\ pc # "idle" /\ faults < MaxFaults
    /\ faults' = faults + 1
    /\ End
    /\ UNCHANGED <<chosen, source, edits, deployment, target, federated>>

Confirm ==
    /\ pc = "prompt"
    /\ pc' = "federate"
    /\ UNCHANGED <<chosen, source, edits, capture, deployment, target, federated, faults>>

(* "Federate with best attempt": that it fails is not noticed.              *)
Federates == Has(captured, "secretProviderClass")

HandleFederation ==
    /\ pc = "federate"
    /\ IF Federates
       THEN \/ federated' = TRUE /\ UNCHANGED faults
            \/ faults < MaxFaults /\ faults' = faults + 1 /\ UNCHANGED federated
       ELSE UNCHANGED <<federated, faults>>
    /\ pc' = "submit" /\ page' = 0
    /\ UNCHANGED <<chosen, source, edits, capture, sent, pending, failed, target>>

LastOf(template, kind) ==
    IF Has(template, kind) THEN {kind} \X Last(template[kind]) ELSE {}

(* Of the page that is deployed: what has nothing to wait for any more.     *)
Ready(r) ==
    /\ r \in pending
    /\ ~InPages(r[1]) =>
          \A k \in DependsOn(sent, r[1]) : LastOf(sent, k) \cap (pending \cup failed) = {}

Active == \E r \in pending : Ready(r)

(* A deployment that is still under way is in the way: they have one name.  *)
DeployTemplate ==
    /\ pc = "submit"
    /\ ~Active
    /\ LET next == page + 1
       IN  /\ HasParameters(Pages(captured)[next])
           /\ next = 1 => Valid(captured)
           /\ page' = next /\ sent' = captured
           /\ pending' = Pages(captured)[next] /\ failed' = {}
           /\ IF Len(Pages(captured)) > 1
              THEN pc' = "await" /\ UNCHANGED capture
              ELSE End
    /\ UNCHANGED <<chosen, source, edits, target, federated, faults>>

(* wait_for_terminal_state raises when something could not be made.         *)
Await ==
    /\ pc = "await"
    /\ ~Active
    /\ IF pending = {} /\ failed = {} /\ page < Len(Pages(captured))
       THEN pc' = "submit" /\ UNCHANGED capture
       ELSE End
    /\ UNCHANGED <<chosen, source, edits, deployment, target, federated, faults>>

(* The command ends where it cannot go on: nothing to depend on, a template *)
(* that is refused.                                                         *)
Raise ==
    /\ \/ /\ pc = "list" /\ read < Len(ListOrder(work.v2))
          /\ \E k \in LooksUp(ListOrder(work.v2)[read + 1]) : ~Has(captured, k)
       \/ /\ pc = "submit"
          /\ \/ Active
             \/ page = 0 /\ ~Valid(captured)
             \/ ~HasParameters(Pages(captured)[page + 1])
    /\ End
    /\ UNCHANGED <<chosen, source, edits, deployment, target, federated, faults>>

Make ==
    \E r \in pending :
        /\ Ready(r)
        /\ target' = target \cup {r}
        /\ pending' = pending \ {r}
        /\ UNCHANGED <<chosen, source, edits, pc, capture, page, sent, failed, federated, faults>>

MakeFails ==
    \E r \in pending :
        /\ Ready(r) /\ faults < MaxFaults
        /\ pending' = pending \ {r}
        /\ failed' = failed \cup {r}
        /\ faults' = faults + 1
        /\ UNCHANGED <<chosen, source, edits, pc, capture, page, sent, target, federated>>

CloneStep ==
    \/ AddDeployment \/ Captured \/ Confirm \/ HandleFederation
    \/ DeployTemplate \/ Await \/ Raise

Next == AnalyzeInstance \/ CloneStep \/ Abort \/ Edit \/ Make \/ MakeFails

Spec == Init /\ [][Next]_vars

(* The command goes on until it ends, Resource Manager makes what it can,   *)
(* and the command is run again.                                            *)
FairSpec == Spec /\ WF_vars(AnalyzeInstance) /\ WF_vars(CloneStep) /\ WF_vars(Make)

-------------------------------------------------------------------------------
(* Properties *)

(* What must be there before a resource can be made, whatever the template  *)
(* says: where it lives, and what it refers to.  (A listener without authn  *)
(* and authz waits for nothing.)                                            *)
Needs(r) ==
    LET kind  == r[1]
        Lives == CASE kind \in Extension -> {}
                   [] kind = "listener" -> IF Has(sent, "authn") \/ Has(sent, "authz")
                                           THEN {"broker", "instance"} ELSE {}
                   [] kind \in {"customLocation", "roleAssignment"} -> {"ops"}
                   [] kind = "instance" -> {"customLocation"}
                   [] kind \in {"authn", "authz"} -> {"broker", "instance"}
                   [] OTHER -> {"instance"}
    IN  Lives \X {"root"} \cup (IF r \in Referrer THEN work.refers[r] ELSE {})

(* References that the template keeps and whose order it leaves open: the   *)
(* instance is even made before its default secret provider class.          *)
Unordered == {<<"instance", "secretProviderClass">>, <<"dataflow", "asset">>,
              <<"dataflow", "namespaceAsset">>, <<"connectorTemplate", "registryEndpoint">>}

(* Resource Manager makes nothing before what it refers to in the instance  *)
(* that is cloned.  Three things the template does not promise: the order   *)
(* of some references (an instance waits for its custom location only,      *)
(* clone.py:1078-1098, and the classes for the instance, 1400-1406; data    *)
(* flows do not wait for assets, nor connector templates for registry       *)
(* endpoints); that more than the last piece of a kind that was cut is      *)
(* waited for; and what was not listed because the instance changed during  *)
(* the capture.                                                             *)
InOrder ==
    [][\A r \in target' \ target : \A d \in Needs(r) :
          /\ d \in LastOf(sent, d[1])
          /\ <<r[1], d[1]>> \notin Unordered
          => d \in target]_vars

(* What the command promises to replicate: everything, for an instance with *)
(* the extensions its template asks for, a listener, and an endpoint where  *)
(* there is a profile; but no namespace resources in linked mode.           *)
Replicable ==
    IF /\ Base \in work.extensions /\ "secretStore" \in work.extensions
       /\ "ops" \in work.extensions
       /\ ~work.v2 => "containerStorage" \in work.extensions
       /\ source["listener"] # {}
       /\ source["dataflowProfile"] # {} => source["dataflowEndpoint"] # {}
    THEN {r \in Resource :
            /\ r[2] \in source[r[1]]
            /\ r[1] \in Range(ListOrder(work.v2))
            /\ InPages(r[1]) => r[1] \in {"assetEndpointProfile", "asset"}
            /\ \A d \in work.refers[r] : d[2] \in source[d[1]]}
    ELSE {}

(* However often the command was interrupted, a resource or a federation    *)
(* failed, or the instance changed meanwhile: a clone that is run again     *)
(* until it ends leaves all of the instance on the target cluster, and the  *)
(* identities of its secret provider classes trusting it.                   *)
Converges ==
    <>[](/\ Replicable \subseteq target
         /\ {r \in Replicable : r[1] = "secretProviderClass"} # {} => federated)
================================================================================
