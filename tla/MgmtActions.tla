----------------------------- MODULE MgmtActions -----------------------------
(***************************************************************************)
(* `az iot ops mgmt-actions enable | disable | show` and                   *)
(* `az iot ops ns mgmt-endpoint remove` (providers/orchestration/          *)
(* mgmt_actions.py).                                                       *)
(*                                                                         *)
(* A command is a sequence of remote calls made by one CLI process.  The   *)
(* resources of an instance carry names derived from the instance's id, so *)
(* commands for different instances meet in one place only: the map of     *)
(* management endpoints of the Device Registry (ADR) namespace that the    *)
(* instances share, keyed by custom location, which a command reads early  *)
(* and writes later.                                                       *)
(*                                                                         *)
(* Every action below is one remote call (or a run of reads).  A GET       *)
(* followed by a PUT of a value that does not depend on what was read is   *)
(* one action: any interleaving of the two calls has the outcome of some   *)
(* order of the actions.  The ADR map is the exception, its write is       *)
(* computed from the read, and the two are separate actions.               *)
(***************************************************************************)
EXTENDS Naturals

CONSTANTS
    Instance,        \* IoT Operations instances that share the ADR namespace
    Session,         \* CLI processes
    InstanceOf,      \* the instance a CLI process is given on its command line
    EgNamespace,     \* Event Grid namespaces
    Profile,         \* dataflow profiles of an instance
    DefaultProfile,  \* MGMT_ACTIONS_DEFAULT_DATAFLOW_PROFILE
    Auth,            \* identities the dataflow endpoint may authenticate with
    SkipRoles,       \* --skip-ra
    Identity,        \* identities the ADR namespace may have to start with
    Command,         \* the commands the CLI processes run
    MaxFaults,       \* bound on the failures injected
    None             \* no value

ASSUME InstanceOfAssumption == InstanceOf \in [Session -> Instance]
ASSUME ProfileAssumption == DefaultProfile \in Profile
ASSUME NoneAssumption == None \notin EgNamespace \cup Profile \cup Auth
ASSUME BoundAssumption == MaxFaults \in Nat /\ SkipRoles \in BOOLEAN
ASSUME CommandAssumption == Command \subseteq {"enable", "disable", "remove"}
ASSUME IdentityAssumption ==
    Identity \subseteq {"none", "SystemAssigned", "UserAssigned", "both"}

VARIABLES
    adr,         \* the shared ADR namespace: management endpoints and identity
    topicSpace,  \* {<<i, e>>}: the topic space of instance i in namespace e
    publisher,   \* {<<i, e>>}: the publisher permission binding
    subscriber,  \* {<<i, e>>}: the subscriber permission binding
    dfEndpoint,  \* the EG dataflow endpoint of an instance
    graph,       \* {<<i, p>>}: the request dataflow graph in profile p
    response,    \* {<<i, p>>}: the response dataflow in profile p
    adrRoles,    \* {e}: the ADR namespace's identity holds the roles on e
    dfRoles,     \* {<<i, a, e>>}: identity a of instance i holds them on e
    pc,          \* the next step of each CLI process
    want,        \* its arguments
    seen,        \* the ADR namespace as it read it
    plan,        \* what disable found in its discovery phase
    staleWrite,  \* history: a namespace write was computed from an old read
    faults       \* the failures so far

roles     == <<adrRoles, dfRoles>>
eventGrid == <<topicSpace, publisher, subscriber>>
aio       == <<dfEndpoint, graph, response>>

cloud == <<adr, eventGrid, aio, roles>>
local == <<pc, want, seen, plan>>
vars  == <<cloud, local, staleWrite, faults>>

-------------------------------------------------------------------------------
(* Types *)

Endpoints == [Instance -> EgNamespace \cup {None}]
Namespace == [endpoints: Endpoints,
              identity: {"none", "SystemAssigned", "UserAssigned", "both"}]
Placement == Instance \X EgNamespace
DfEndpoint == [eg: EgNamespace, auth: Auth]
NoDfEndpoint == [eg |-> None, auth |-> None]

EnableSteps == {"topicSpace", "publisher", "subscriber", "adrGet", "adrPatch",
                "dfEndpoint", "graph", "response", "roles", "dfRoles"}
DisableSteps == {"findAdr", "findAio", "findEg", "prompt", "delResponse",
                 "delGraph", "delDfEndpoint", "adrPut", "delPublisher",
                 "delSubscriber", "delTopicSpace"}
RemoveSteps == {"rmGet", "rmPut"}
Steps == EnableSteps \cup DisableSteps \cup RemoveSteps \cup {"idle"}

Arguments == [eg: EgNamespace \cup {None}, profile: Profile \cup {None},
              auth: Auth \cup {None}, key: Instance \cup {None}]
NoArguments == [eg |-> None, profile |-> None, auth |-> None, key |-> None]

Findings == [eg: EgNamespace \cup {None}, graphIn: Profile \cup {None},
             responseIn: Profile \cup {None},
             exist: SUBSET {"dfEndpoint", "topicSpace", "publisher", "subscriber"}]
NoFindings == [eg |-> None, graphIn |-> None, responseIn |-> None, exist |-> {}]

NoNamespace == [endpoints |-> [i \in Instance |-> None], identity |-> "none"]

TypeOK ==
    /\ adr \in Namespace
    /\ topicSpace \subseteq Placement
    /\ publisher \subseteq Placement
    /\ subscriber \subseteq Placement
    /\ dfEndpoint \in [Instance -> DfEndpoint \cup {NoDfEndpoint}]
    /\ graph \subseteq Instance \X Profile
    /\ response \subseteq Instance \X Profile
    /\ adrRoles \subseteq EgNamespace
    /\ dfRoles \subseteq Instance \X Auth \X EgNamespace
    /\ pc \in [Session -> Steps]
    /\ want \in [Session -> Arguments]
    /\ seen \in [Session -> Namespace]
    /\ plan \in [Session -> Findings]
    /\ staleWrite \in BOOLEAN
    /\ faults \in Nat

Init ==
    /\ adr \in [endpoints: {[i \in Instance |-> None]}, identity: Identity]
    /\ topicSpace = {} /\ publisher = {} /\ subscriber = {}
    /\ dfEndpoint = [i \in Instance |-> NoDfEndpoint]
    /\ graph = {} /\ response = {}
    /\ adrRoles = {} /\ dfRoles = {}
    /\ pc = [s \in Session |-> "idle"]
    /\ want = [s \in Session |-> NoArguments]
    /\ seen = [s \in Session |-> NoNamespace]
    /\ plan = [s \in Session |-> NoFindings]
    /\ staleWrite = FALSE
    /\ faults = 0

-------------------------------------------------------------------------------
(* Moving from step to step *)

At(s, step) == pc[s] = step

Goto(s, step) == pc' = [pc EXCEPT ![s] = step]

(* The process ends: what it knew is gone. *)
Finish(s) ==
    /\ pc'   = [pc EXCEPT ![s] = "idle"]
    /\ want' = [want EXCEPT ![s] = NoArguments]
    /\ seen' = [seen EXCEPT ![s] = NoNamespace]
    /\ plan' = [plan EXCEPT ![s] = NoFindings]

(* A remote call fails, or the process is killed, before or after its last  *)
(* call took effect.  Nothing is rolled back; the way on is another run.    *)
Abort(s) ==
    /\ pc[s] # "idle"
    /\ faults < MaxFaults
    /\ faults' = faults + 1
    /\ Finish(s)
    /\ UNCHANGED <<cloud, staleWrite>>

-------------------------------------------------------------------------------
(* mgmt-actions enable *)

(* The instance and the Event Grid namespace are read and validated; the    *)
(* instance's fields that later steps use (its custom location, its ADR     *)
(* namespace) never change.                                                 *)
StartEnable(s) ==
    /\ "enable" \in Command
    /\ At(s, "idle")
    /\ \E e \in EgNamespace, p \in Profile, a \in Auth :
           want' = [want EXCEPT ![s] = [eg |-> e, profile |-> p, auth |-> a,
                                        key |-> None]]
    /\ Goto(s, "topicSpace")
    /\ UNCHANGED <<cloud, seen, plan, staleWrite, faults>>

OwnPlace(s) == <<InstanceOf[s], want[s].eg>>
OwnFlow(s)  == <<InstanceOf[s], want[s].profile>>

EnsureTopicSpace(s) ==
    /\ At(s, "topicSpace")
    /\ topicSpace' = topicSpace \cup {OwnPlace(s)}
    /\ Goto(s, "publisher")
    /\ UNCHANGED <<adr, publisher, subscriber, aio, roles, want, seen, plan,
                   staleWrite, faults>>

EnsurePublisher(s) ==
    /\ At(s, "publisher")
    /\ publisher' = publisher \cup {OwnPlace(s)}
    /\ Goto(s, "subscriber")
    /\ UNCHANGED <<adr, topicSpace, subscriber, aio, roles, want, seen, plan,
                   staleWrite, faults>>

EnsureSubscriber(s) ==
    /\ At(s, "subscriber")
    /\ subscriber' = subscriber \cup {OwnPlace(s)}
    /\ Goto(s, "adrGet")
    /\ UNCHANGED <<adr, topicSpace, publisher, aio, roles, want, seen, plan,
                   staleWrite, faults>>

(* The namespace is read; when identity and endpoint are as wanted it is    *)
(* not written.                                                             *)
ReadNamespace(s) ==
    /\ At(s, "adrGet")
    /\ LET asWanted == /\ adr.identity = "SystemAssigned"
                       /\ adr.endpoints[InstanceOf[s]] = want[s].eg
       IN Goto(s, IF asWanted THEN "dfEndpoint" ELSE "adrPatch")
    /\ seen' = [seen EXCEPT ![s] = adr]
    /\ UNCHANGED <<cloud, want, plan, staleWrite, faults>>

(* ARM merges the endpoints of a PATCH into those of the resource.          *)
DeepMerge(current, patch) ==
    [i \in Instance |-> IF patch[i] # None THEN patch[i] ELSE current[i]]

MergedEndpoints(s) ==
    [seen[s].endpoints EXCEPT ![InstanceOf[s]] = want[s].eg]

PatchNamespace(s) ==
    /\ At(s, "adrPatch")
    /\ adr' = [endpoints |-> DeepMerge(adr.endpoints, MergedEndpoints(s)),
               identity  |-> IF seen[s].identity = "SystemAssigned"
                             THEN adr.identity ELSE "SystemAssigned"]
    /\ staleWrite' = (staleWrite \/ adr # seen[s])
    /\ Goto(s, "dfEndpoint")
    /\ UNCHANGED <<eventGrid, aio, roles, want, seen, plan, faults>>

(* Created, or replaced when host or identity differ from what is wanted.   *)
CreateOnly(s) ==      \* mutant: an endpoint that exists is never updated
    IF dfEndpoint[InstanceOf[s]] # NoDfEndpoint THEN dfEndpoint[InstanceOf[s]]
    ELSE [eg |-> want[s].eg, auth |-> want[s].auth]

EnsuredDfEndpoint(s) == [eg |-> want[s].eg, auth |-> want[s].auth]

EnsureDfEndpoint(s) ==
    /\ At(s, "dfEndpoint")
    /\ dfEndpoint' = [dfEndpoint EXCEPT ![InstanceOf[s]] = EnsuredDfEndpoint(s)]
    /\ Goto(s, "graph")
    /\ UNCHANGED <<adr, eventGrid, graph, response, roles, want, seen, plan,
                   staleWrite, faults>>

EnsureGraph(s) ==
    /\ At(s, "graph")
    /\ graph' = graph \cup {OwnFlow(s)}
    /\ Goto(s, "response")
    /\ UNCHANGED <<adr, eventGrid, dfEndpoint, response, roles, want, seen, plan,
                   staleWrite, faults>>

EnsureResponse(s) ==
    /\ At(s, "response")
    /\ response' = response \cup {OwnFlow(s)}
    /\ IF SkipRoles THEN Finish(s)
       ELSE Goto(s, "roles") /\ UNCHANGED <<want, seen, plan>>
    /\ UNCHANGED <<adr, eventGrid, dfEndpoint, graph, roles, staleWrite, faults>>

(* Assignments that exist are left alone.                                   *)
AssignAdrRoles(s) ==
    /\ At(s, "roles")
    /\ adrRoles' = adrRoles \cup {want[s].eg}
    /\ Goto(s, "dfRoles")
    /\ UNCHANGED <<adr, eventGrid, aio, dfRoles, want, seen, plan, staleWrite,
                   faults>>

AssignDataflowRoles(s) ==
    /\ At(s, "dfRoles")
    /\ dfRoles' = dfRoles \cup {<<InstanceOf[s], want[s].auth, want[s].eg>>}
    /\ Finish(s)
    /\ UNCHANGED <<adr, eventGrid, aio, adrRoles, staleWrite, faults>>

-------------------------------------------------------------------------------
(* mgmt-actions disable: discovery *)

StartDisable(s) ==
    /\ "disable" \in Command
    /\ At(s, "idle")
    /\ Goto(s, "findAdr")
    /\ UNCHANGED <<cloud, want, seen, plan, staleWrite, faults>>

(* The Event Grid namespace is known from the management endpoint only.     *)
FindNamespace(s) ==
    /\ At(s, "findAdr")
    /\ seen' = [seen EXCEPT ![s] = adr]
    /\ plan' = [plan EXCEPT ![s].eg = adr.endpoints[InstanceOf[s]]]
    /\ Goto(s, "findAio")
    /\ UNCHANGED <<cloud, want, staleWrite, faults>>

(* The first profile holding the resource: the default one, then the others *)
(* in the order the service lists them.                                     *)
FirstProfile(flows, i) ==
    LET holding == {p \in Profile : <<i, p>> \in flows}
    IN IF holding = {} THEN {None}
       ELSE IF DefaultProfile \in holding THEN {DefaultProfile} ELSE holding

FoundAio(s, p, q) ==
    [eg |-> plan[s].eg, graphIn |-> p, responseIn |-> q,
     exist |-> {x \in {"dfEndpoint"} : dfEndpoint[InstanceOf[s]] # NoDfEndpoint}]

FindAio(s) ==
    /\ At(s, "findAio")
    /\ LET i == InstanceOf[s] IN
       \E p \in FirstProfile(graph, i) :
       \E q \in IF p = None THEN FirstProfile(response, i) ELSE {None} :
          plan' = [plan EXCEPT ![s] = FoundAio(s, p, q)]
    /\ Goto(s, "findEg")
    /\ UNCHANGED <<cloud, want, seen, staleWrite, faults>>

(* Nothing is probed when no Event Grid namespace was discovered.           *)
FindEventGrid(s) ==
    /\ At(s, "findEg")
    /\ LET place == <<InstanceOf[s], plan[s].eg>> IN
       plan' = [plan EXCEPT ![s].exist = @
                  \cup (IF place \in topicSpace THEN {"topicSpace"} ELSE {})
                  \cup (IF place \in publisher THEN {"publisher"} ELSE {})
                  \cup (IF place \in subscriber THEN {"subscriber"} ELSE {})]
    /\ Goto(s, "prompt")
    /\ UNCHANGED <<cloud, want, seen, staleWrite, faults>>

Answer(s) ==
    /\ At(s, "prompt")
    /\ \/ Goto(s, "delResponse") /\ UNCHANGED <<want, seen, plan>>
       \/ Finish(s)
    /\ UNCHANGED <<cloud, staleWrite, faults>>

-------------------------------------------------------------------------------
(* mgmt-actions disable: teardown *)

(* Deleting what is already gone counts as deleted (_graceful_delete).      *)
DeleteOrphanResponse(s) ==      \* mutant: looked for where an orphan is
    /\ At(s, "delResponse")
    /\ response' = response \ {<<InstanceOf[s], plan[s].responseIn>>}
    /\ Goto(s, "delGraph")
    /\ UNCHANGED <<adr, eventGrid, dfEndpoint, graph, roles, want, seen, plan,
                   staleWrite, faults>>

DeleteResponse(s) ==
    /\ At(s, "delResponse")
    /\ LET p == IF plan[s].graphIn # None THEN plan[s].graphIn
                ELSE plan[s].responseIn
       IN response' = response \ {<<InstanceOf[s], p>>}
    /\ Goto(s, "delGraph")
    /\ UNCHANGED <<adr, eventGrid, dfEndpoint, graph, roles, want, seen, plan,
                   staleWrite, faults>>

DeleteOrphanGraph(s) ==      \* mutant: the graph is looked for where an orphan is
    /\ At(s, "delGraph")
    /\ graph' = graph \ {<<InstanceOf[s], plan[s].responseIn>>}
    /\ Goto(s, "delDfEndpoint")
    /\ UNCHANGED <<adr, eventGrid, dfEndpoint, response, roles, want, seen, plan,
                   staleWrite, faults>>

DeleteGraph(s) ==
    /\ At(s, "delGraph")
    /\ graph' = graph \ {<<InstanceOf[s], plan[s].graphIn>>}
    /\ Goto(s, "delDfEndpoint")
    /\ UNCHANGED <<adr, eventGrid, dfEndpoint, response, roles, want, seen, plan,
                   staleWrite, faults>>

DeleteDfEndpoint(s) ==
    /\ At(s, "delDfEndpoint")
    /\ dfEndpoint' = IF "dfEndpoint" \in plan[s].exist
                     THEN [dfEndpoint EXCEPT ![InstanceOf[s]] = NoDfEndpoint]
                     ELSE dfEndpoint
    /\ Goto(s, "adrPut")
    /\ UNCHANGED <<adr, eventGrid, graph, response, roles, want, seen, plan,
                   staleWrite, faults>>

(* The namespace is replaced by what was read in the discovery phase, one   *)
(* endpoint left out.                                                       *)
KeepEntry(s, key) == seen[s]      \* mutant: the entry is sent back

PutPayload(s, key) == [seen[s] EXCEPT !.endpoints[key] = None]

PutNamespace(s) ==
    /\ At(s, "adrPut")
    /\ IF seen[s].endpoints[InstanceOf[s]] # None
       THEN /\ adr' = PutPayload(s, InstanceOf[s])
            /\ staleWrite' = (staleWrite \/ adr # seen[s])
       ELSE UNCHANGED <<adr, staleWrite>>
    /\ Goto(s, "delPublisher")
    /\ UNCHANGED <<eventGrid, aio, roles, want, seen, plan, faults>>

(* What s deletes from a set of Event Grid resources: its own, if its probe *)
(* found it.                                                                *)
SubscriberForgotten(s, kind) ==      \* mutant: one binding is not deleted
    IF kind \in plan[s].exist \ {"subscriber"}
    THEN {<<InstanceOf[s], plan[s].eg>>} ELSE {}

Probed(s, kind) ==
    IF kind \in plan[s].exist THEN {<<InstanceOf[s], plan[s].eg>>} ELSE {}

DeletePublisher(s) ==
    /\ At(s, "delPublisher")
    /\ publisher' = publisher \ Probed(s, "publisher")
    /\ Goto(s, "delSubscriber")
    /\ UNCHANGED <<adr, topicSpace, subscriber, aio, roles, want, seen, plan,
                   staleWrite, faults>>

DeleteSubscriber(s) ==
    /\ At(s, "delSubscriber")
    /\ subscriber' = subscriber \ Probed(s, "subscriber")
    /\ Goto(s, "delTopicSpace")
    /\ UNCHANGED <<adr, topicSpace, publisher, aio, roles, want, seen, plan,
                   staleWrite, faults>>

DeleteTopicSpace(s) ==
    /\ At(s, "delTopicSpace")
    /\ topicSpace' = topicSpace \ Probed(s, "topicSpace")
    /\ Finish(s)
    /\ UNCHANGED <<adr, publisher, subscriber, aio, roles, staleWrite, faults>>

-------------------------------------------------------------------------------
(* ns mgmt-endpoint remove: any entry of the namespace may be named *)

StartRemove(s) ==
    /\ "remove" \in Command
    /\ At(s, "idle")
    /\ \E k \in Instance : want' = [want EXCEPT ![s].key = k]
    /\ Goto(s, "rmGet")
    /\ UNCHANGED <<cloud, seen, plan, staleWrite, faults>>

(* Nothing to remove ends the command, as does declining the prompt.        *)
RemoveRead(s) ==
    /\ At(s, "rmGet")
    /\ \/ /\ adr.endpoints[want[s].key] # None
          /\ seen' = [seen EXCEPT ![s] = adr]
          /\ Goto(s, "rmPut")
          /\ UNCHANGED <<want, plan>>
       \/ Finish(s)
    /\ UNCHANGED <<cloud, staleWrite, faults>>

RemovePut(s) ==
    /\ At(s, "rmPut")
    /\ adr' = PutPayload(s, want[s].key)
    /\ staleWrite' = (staleWrite \/ adr # seen[s])
    /\ Finish(s)
    /\ UNCHANGED <<eventGrid, aio, roles, faults>>

-------------------------------------------------------------------------------

EnableStep(s) ==
    \/ EnsureTopicSpace(s) \/ EnsurePublisher(s) \/ EnsureSubscriber(s)
    \/ ReadNamespace(s) \/ PatchNamespace(s)
    \/ EnsureDfEndpoint(s) \/ EnsureGraph(s) \/ EnsureResponse(s)
    \/ AssignAdrRoles(s) \/ AssignDataflowRoles(s)

DisableStep(s) ==
    \/ FindNamespace(s) \/ FindAio(s) \/ FindEventGrid(s) \/ Answer(s)
    \/ DeleteResponse(s) \/ DeleteGraph(s) \/ DeleteDfEndpoint(s)
    \/ PutNamespace(s)
    \/ DeletePublisher(s) \/ DeleteSubscriber(s) \/ DeleteTopicSpace(s)

RemoveStep(s) == RemoveRead(s) \/ RemovePut(s)

Start(s) == StartEnable(s) \/ StartDisable(s) \/ StartRemove(s)

Step(s) == EnableStep(s) \/ DisableStep(s) \/ RemoveStep(s)

Next == \E s \in Session : Start(s) \/ Step(s) \/ Abort(s)

Spec == Init /\ [][Next]_vars

(* A process that runs gets to its next call (every poller is waited for),  *)
(* and a command that failed is run again, as the help of `enable` asks.    *)
FairSpec == /\ Spec
            /\ \A s \in Session : WF_vars(Step(s)) /\ WF_vars(Start(s))

-------------------------------------------------------------------------------
(* What the commands report and promise *)

(* mgmt-actions show: the `enabled` flag of instance i. *)
Enabled(i) ==
    /\ adr.endpoints[i] # None
    /\ <<i, adr.endpoints[i]>> \in topicSpace \cap publisher \cap subscriber
    /\ dfEndpoint[i] # NoDfEndpoint
    /\ \E p \in Profile : <<i, p>> \in graph
    /\ \E p \in Profile : <<i, p>> \in response

Idle(i) == \A s \in Session : InstanceOf[s] = i => pc[s] = "idle"

(* A permission binding never refers to a topic space that is not there:    *)
(* enable creates the topic space first, disable removes it last, whatever  *)
(* failed or was re-run in between.                                         *)
BindingsHaveTopicSpace == publisher \cup subscriber \subseteq topicSpace

(* A response dataflow is never left without the request graph beside it:   *)
(* both live in the profile of one enable, and disable removes the response *)
(* first; it is why disable looks for the graph first.                      *)
ResponseHasGraph == response \subseteq graph

(* The management endpoint of an instance leads to an Event Grid namespace  *)
(* where the instance has its topic space and bindings, as long as no       *)
(* namespace write was computed from an outdated read.                      *)
EndpointBacked ==
    ~staleWrite =>
        \A i \in Instance : adr.endpoints[i] # None =>
            <<i, adr.endpoints[i]>> \in topicSpace \cap publisher \cap subscriber

(* When show reports `enabled` and no command is running for the instance,  *)
(* requests are published to the namespace the dataflow endpoint listens    *)
(* to.  show does not compare the two; that no command fails half way and   *)
(* that no namespace write is outdated is what makes them agree.            *)
EnabledIsRouted ==
    faults = 0 /\ ~staleWrite =>
        \A i \in Instance : Idle(i) /\ Enabled(i)
                              => dfEndpoint[i].eg = adr.endpoints[i]

(* A write of the ADR namespace computed from a current read changes the    *)
(* entry of one instance, the one the command is about.                     *)
OwnEntryOnly ==
    [][~staleWrite' =>
         \A i, j \in Instance :
            adr.endpoints[i] # adr'.endpoints[i] /\ adr.endpoints[j] # adr'.endpoints[j]
               => i = j]_vars

(* enable takes nobody's management endpoint away, outdated read or not:    *)
(* only disable and remove, which replace the namespace, can lose entries.  *)
EnableKeepsEntries ==
    [][\A i \in Instance :
         adr.endpoints[i] # None /\ adr'.endpoints[i] = None
           => \E s \in Session : pc[s] \in {"adrPut", "rmPut"} /\ pc'[s] # pc[s]]_vars

(* "Preserve other entries": a command leaves the management endpoints of   *)
(* other instances alone.                                                   *)
OthersPreserved ==
    [][\A s \in Session :
         pc[s] \in {"adrPatch", "adrPut"} /\ pc'[s] # pc[s] =>
           \A i \in Instance \ {InstanceOf[s]} :
              adr'.endpoints[i] = adr.endpoints[i]]_vars

(* Nothing of instance i is left, but for what an earlier enable may have    *)
(* placed in another Event Grid namespace than e.                           *)
Gone(i, e) ==
    /\ adr.endpoints[i] = None
    /\ dfEndpoint[i] = NoDfEndpoint
    /\ \A p \in Profile : <<i, p>> \notin graph \cup response
    /\ <<i, e>> \notin topicSpace \cup publisher \cup subscriber

(* A disable that runs to its end has removed every resource of the         *)
(* instance, and those in the Event Grid namespace its endpoint led to.     *)
DisableLeavesNothing ==
    [][\A s \in Session :
         pc[s] = "delTopicSpace" /\ pc'[s] = "idle" /\ faults' = faults
           /\ ~staleWrite
             => \A e \in EgNamespace \cup {None} :
                   plan[s].eg = e => Gone(InstanceOf[s], e)']_vars

(* "On partial failure, re-run the command to reach the desired state":     *)
(* when enable is run again until it succeeds, for any number of instances  *)
(* at once and however the runs overlap, every instance ends up enabled,    *)
(* stays so, and has its role assignments.                                  *)
Authorized(i) ==
    SkipRoles \/ /\ dfEndpoint[i].eg \in adrRoles
                 /\ <<i, dfEndpoint[i].auth, dfEndpoint[i].eg>> \in dfRoles

EnableConverges ==
    \A s \in Session :
        <>[](Enabled(InstanceOf[s]) /\ Authorized(InstanceOf[s]))

-------------------------------------------------------------------------------
(* What refers to what: a binding names its topic space, the graph and the  *)
(* response dataflow name the dataflow endpoint.                            *)

Resource ==
    ({"topicSpace", "publisher", "subscriber"} \X Instance \X EgNamespace)
      \cup ({"graph", "response"} \X Instance \X Profile)
      \cup ({"dfEndpoint"} \X Instance)

Needs(r) ==
    CASE r[1] \in {"publisher", "subscriber"} -> {<<"topicSpace", r[2], r[3]>>}
      [] r[1] \in {"graph", "response"}       -> {<<"dfEndpoint", r[2]>>}
      [] OTHER                                -> {}

Tagged(kind, set) == {<<kind, x[1], x[2]>> : x \in set}

Present ==
    Tagged("topicSpace", topicSpace)
      \cup Tagged("publisher", publisher) \cup Tagged("subscriber", subscriber)
      \cup Tagged("graph", graph) \cup Tagged("response", response)
      \cup {<<"dfEndpoint", i>> : i \in {k \in Instance : dfEndpoint[k] # NoDfEndpoint}}

Order == INSTANCE DependencyOrder WITH present <- Present

(* enable builds and disable dismantles along the references, in any run:   *)
(* Order!Spec, but for steps that touch none of these resources.            *)
KeepsDependencies ==
    Order!Init /\ [][UNCHANGED <<eventGrid, aio>> \/ [Order!Next]_Present]_vars
==============================================================================
