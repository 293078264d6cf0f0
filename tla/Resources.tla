------------------------------- MODULE Resources -------------------------------
(***************************************************************************)
(* The resources of an instance that one command creates, changes or       *)
(* removes: data flow profiles, data flows, graphs and endpoints, registry *)
(* endpoints, the broker with its listeners, authentications and           *)
(* authorizations, connector templates (O/resources/dataflows.py,          *)
(* dataflow_graphs.py, registryendpoints.py, brokers.py,                   *)
(* connector_templates.py), and the schema registry next to it             *)
(* (schema_registries.py).                                                 *)
(*                                                                         *)
(* A command reads what it needs, refuses or works out a whole resource,   *)
(* and sends that with a PUT.  Nothing is sent with a version of what was  *)
(* read, nothing keeps a resource that others refer to from being removed, *)
(* and every command is a process of its own.                              *)
(***************************************************************************)
EXTENDS ConnectorTemplates, FiniteSets

CONSTANTS
    Session,    \* CLI processes
    Workloads,  \* what they may be given, and what is there before
    Persistent, \* commands, as <<op, id>>, that may be given until all succeed
    Id,         \* the resources
    Name,
    Node,       \* of a graph
    Port, Method, Version,
    MaxCopies,  \* bound: how often a broker authentication lists a method
    MaxFaults   \* bound: failed calls, killed processes

EndpointType == {"adx", "adls", "onelake", "eventhub", "realtime", "kafka",
                 "storage", "local", "eventgrid", "mqtt", "otel"}
AuthMethod   == {"Anonymous", "AccessToken", "Sasl", "SystemAssigned",
                 "UserAssigned", "ServiceAccountToken", "X509", "PullSecret"}
AuthSetting  == {"audience", "clientId", "tenantId", "scope", "secretRef", "saslType"}
Component    == {"stateStore", "retain", "subscriberQueue"}
NodeType     == {"Source", "Graph", "Destination"}

(* DATAFLOW_ENDPOINT_TYPE_SETTINGS: several types are stored as one.        *)
Family(type) ==
    CASE type \in {"eventhub", "realtime", "kafka"} -> "kafka"
      [] type \in {"local", "eventgrid", "mqtt"} -> "mqtt"
      [] OTHER -> type

(* DATAFLOW_ENDPOINT_AUTHENTICATION_TYPE_MAP                                *)
Allowed(type) ==
    CASE type \in {"adx", "onelake"} -> {"SystemAssigned", "UserAssigned"}
      [] type = "adls" -> {"SystemAssigned", "UserAssigned", "AccessToken"}
      [] type \in {"local", "otel"} -> {"ServiceAccountToken", "X509", "Anonymous"}
      [] type = "eventgrid" -> {"SystemAssigned", "UserAssigned", "X509"}
      [] type = "mqtt" -> {"SystemAssigned", "UserAssigned", "ServiceAccountToken",
                           "X509", "Anonymous"}
      [] type \in {"eventhub", "realtime"} -> {"SystemAssigned", "UserAssigned", "Sasl"}
      [] type = "kafka" -> {"SystemAssigned", "UserAssigned", "Sasl", "Anonymous"}
      [] OTHER -> {}

(* AUTHENTICATION_TYPE_REQUIRED_PARAMS                                      *)
Required(method) ==
    CASE method = "AccessToken" -> {"at_secret_name"}
      [] method = "Sasl" -> {"sasl_secret_name", "sasl_type"}
      [] method = "UserAssigned" -> {"client_id", "tenant_id"}
      [] method = "ServiceAccountToken" -> {"sat_audience"}
      [] method = "X509" -> {"x509_secret_name"}
      [] method = "PullSecret" -> {"secret_ref"}
      [] OTHER -> {}

(* The setting an argument of a command becomes.                            *)
SettingOf(param) ==
    CASE param \in {"sat_audience", "sami_audience", "audience"} -> "audience"
      [] param = "client_id" -> "clientId"
      [] param = "tenant_id" -> "tenantId"
      [] param = "scope" -> "scope"
      [] param = "sasl_type" -> "saslType"
      [] OTHER -> "secretRef"

SettingParam == {"sat_audience", "sami_audience", "audience", "client_id", "tenant_id",
                 "scope", "at_secret_name", "sasl_secret_name", "x509_secret_name",
                 "secret_name", "secret_ref", "sasl_type"}

Auth == [method : AuthMethod \cup {"none"}, settings : SUBSET AuthSetting]
Host == [name : {"absent", "aio-broker", "elsewhere", "None"},
         port : {"absent", "number", "None"}]
Persistence == [mode : {"None", "All", "Custom"}, items : BOOLEAN,
                dynamic : {"absent", "Enabled", "Disabled"}]

(* What is stored under an id.                                              *)
Body(kind) ==
    CASE kind = "profile"  -> [instances : {"default", "named"}, level : {"default", "named"}]
      [] kind = "flow"     -> [source : Name, destination : Name, schema : BOOLEAN]
      [] kind = "graph"    -> [nodes : [Node -> [type : NodeType, ref : Name,
                                                 provided : BOOLEAN] \cup {None}],
                               connections : SUBSET (Node \X Node)]
      [] kind = "endpoint" -> [family : {Family(t) : t \in EndpointType}, host : Host,
                               auth : Auth, tls : {"unset", "enabled", "disabled"},
                               group : BOOLEAN]
      [] kind = "registry" -> [auth : Auth]
      [] kind = "broker"   -> [persistence : [Component -> Persistence] \cup {None}]
      [] kind = "listener" -> [Port -> {"absent", "plain", "tls"}]
      [] kind = "authn"    -> [Method -> 0 .. MaxCopies]
      [] kind = "schema"   -> SUBSET Version
      [] kind = "template" -> Template
      [] OTHER -> {"there"}   \* authz, schemaRegistry, its container and role,
                              \* secretSync: the SPC the instance refers to

(* Whom a resource goes with when that is deleted.                          *)
Parent(id) ==
    CASE id.kind \in {"flow", "graph"} -> [kind |-> "profile", name |-> id.of, of |-> None]
      [] id.kind \in {"listener", "authn", "authz"} ->
            [kind |-> "broker", name |-> id.of, of |-> None]
      [] id.kind \in {"schema", "role"} ->
            [kind |-> "schemaRegistry", name |-> id.of, of |-> None]
      [] OTHER -> None

Kind == {"profile", "flow", "graph", "endpoint", "registry", "broker", "listener",
         "authn", "authz", "schemaRegistry", "container", "role", "schema",
         "template", "secretSync"}
Op   == {"create", "update", "apply", "delete", "addItem", "removeItem"}

(* A command line: the options given (as the names of the arguments), the   *)
(* address in --host, --hostname, --storage-account or --eventhub-namespace,*)
(* --auth-type, the type of endpoint the command is for, the content of     *)
(* --config-file or the --secret entries of a template, and the port,       *)
(* method, version, component or connector metadata it is about.            *)
Option == SettingParam \cup {"port", "no_auth", "disable_tls", "enable_tls", "group_id",
                             "instances", "level", "None", "All", "Custom", "items",
                             "disable_dynamic", "skip_role"} \cup TemplateOption
ItemFor(c) ==
    CASE c.id.kind = "template" ->
            DOMAIN Metadata \cup IF c.op = "create" THEN {} ELSE {None}
      [] c.id.kind = "listener" /\ c.op \in {"addItem", "removeItem"} -> Port
      [] c.id.kind = "authn" /\ c.op = "addItem" -> Method
      [] c.id.kind = "broker" /\ c.op = "update" -> Component
      [] c.id.kind = "schema" /\ c.op # "delete" -> Version
      [] OTHER -> {None}
BodyFor(c) ==
    CASE c.id.kind = "template" -> (SUBSET SecretEntry) \cup {None}
      [] c.op = "apply" -> Body(c.id.kind)
      [] OTHER -> {None}
IsCommand(c) ==
    /\ DOMAIN c = {"op", "id", "given", "auth", "host", "type", "body", "item"}
    /\ c.op \in Op /\ c.id \in Id /\ c.given \subseteq Option
    /\ c.auth \in AuthMethod \cup {None}
    /\ c.type \in IF c.id.kind = "endpoint" /\ c.op \in {"create", "update"}
                  THEN EndpointType ELSE {None}
    /\ c.host \in {"aio-broker", "elsewhere", None}
    /\ c.body \in BodyFor(c) /\ c.item \in ItemFor(c)

(* What is in order by itself, whatever is stored beside it: an             *)
(* authentication has what its method requires, only a component that is    *)
(* persisted by custom rules has such rules, and no listener is without a   *)
(* port.  A bucketized connector template has a bucket size, and its        *)
(* secrets can be mounted.                                                  *)
AuthComplete(auth) ==
    auth.method # "none" =>
        {SettingOf(p) : p \in Required(auth.method)} \subseteq auth.settings
Ports(listener) == {p \in Port : listener[p] # "absent"}
Sound(kind, body) ==
    /\ kind \in {"endpoint", "registry"} => AuthComplete(body.auth)
    /\ kind = "broker" /\ body.persistence # None =>
          \A c \in Component : LET p == body.persistence[c]
                               IN  p.items \/ p.dynamic # "absent" => p.mode = "Custom"
    /\ kind = "listener" => Ports(body) # {}
    /\ kind = "template" => TemplateSound(body)

ASSUME IdAssumption ==
    /\ Id \subseteq [kind : Kind, name : Name, of : Name \cup {None}]
    /\ (\E id \in Id : id.kind = "template") => \E id \in Id : id.kind = "secretSync"
ASSUME NoneAssumption ==
    /\ None \notin Id /\ \A kind \in Kind \ {"schema"} : None \notin Body(kind)
    /\ \A versions \in SUBSET Version : versions # None
ASSUME WorkloadAssumption ==
    \A w \in Workloads :
        /\ DOMAIN w.store = Id /\ w.persistent \subseteq Persistent
        /\ \A id \in Id : w.store[id] \in Body(id.kind) \cup {None}
        /\ \A s \in Session : \A c \in w.commands[s] : IsCommand(c)

(* A file is sent as it is; that one is in order is the service's to check. *)
ASSUME SoundAssumption ==
    \A w \in Workloads :
        /\ \A id \in Id : w.store[id] # None => Sound(id.kind, w.store[id])
        /\ \A s \in Session : \A c \in w.commands[s] :
              c.op = "apply" => Sound(c.id.kind, c.body)
ASSUME BoundAssumption == MaxCopies \in Nat /\ MaxFaults \in Nat

VARIABLES
    store,      \* [Id -> what is stored, or None]
    work,       \* the workload
    pc,         \* the next step of each process
    cmd,        \* its command
    seen,       \* what it has read, each as [role, id, body]
    disturbed,  \* whether another has since written what it read
    faults      \* how many calls have failed

vars == <<store, work, pc, cmd, seen, disturbed, faults>>

Role == {"self", "source", "destination", "registry", "child", "spc"}
Step == {"get", "read", "spc", "list", "container", "write", "role", "version"}

TypeOK ==
    /\ \A id \in Id : store[id] \in Body(id.kind) \cup {None}
    /\ DOMAIN store = Id
    /\ work \in Workloads
    /\ pc \in [Session -> Step \cup {"idle"}]
    /\ DOMAIN cmd = Session /\ DOMAIN seen = Session
    /\ \A s \in Session : cmd[s] = None \/ cmd[s].id \in Id
    /\ \A s \in Session : \A x \in seen[s] :
          x.role \in Role /\ x.id \in Id /\ x.body \in Body(x.id.kind) \cup {None}
    /\ disturbed \in [Session -> BOOLEAN]
    /\ faults \in 0 .. MaxFaults

Init ==
    /\ work \in Workloads
    /\ store = work.store
    /\ pc = [s \in Session |-> "idle"]
    /\ cmd = [s \in Session |-> None]
    /\ seen = [s \in Session |-> {}]
    /\ disturbed = [s \in Session |-> FALSE]
    /\ faults = 0

-------------------------------------------------------------------------------
(* Processes *)

At(s, step) == pc[s] = step

Idle(s) ==
    /\ pc' = [pc EXCEPT ![s] = "idle"]
    /\ cmd' = [cmd EXCEPT ![s] = None]
    /\ seen' = [seen EXCEPT ![s] = {}]

Finish(s) ==
    /\ Idle(s)
    /\ disturbed' = [disturbed EXCEPT ![s] = FALSE]
    /\ UNCHANGED <<store, work>>

(* A call raises, the process is killed, the user does not confirm, or      *)
(* --show-config was all that was asked for.                                *)
Fail(s) ==
    /\ pc[s] # "idle" /\ faults < MaxFaults
    /\ faults' = faults + 1
    /\ Finish(s)

Saw(s, found) ==
    /\ seen' = [seen EXCEPT ![s] = @ \cup found]
    /\ UNCHANGED <<store, work, cmd, disturbed, faults>>

(* The service has taken what s sent about id; next is "idle" or what       *)
(* follows.                                                                 *)
Wrote(s, id, body, next) ==
    /\ store' = [r \in Id |-> IF r = id THEN body
                              ELSE IF body = None /\ Parent(r) = id THEN None
                              ELSE store[r]]
    /\ LET touched == {id} \cup IF id.kind = "flow" THEN {Parent(id)}
                                ELSE {r \in Id : body = None /\ Parent(r) = id}
       IN  disturbed' = [t \in Session |->
              IF t = s THEN next # "idle" /\ disturbed[t]
              ELSE disturbed[t] \/ \E x \in seen[t] : x.id \in touched]
    /\ IF next = "idle" THEN Idle(s)
       ELSE pc' = [pc EXCEPT ![s] = next] /\ UNCHANGED <<cmd, seen>>
    /\ UNCHANGED <<work, faults>>

Own(s) == (CHOOSE x \in seen[s] : x.role = "self").body

-------------------------------------------------------------------------------
(* Profiles, data flows and graphs *)

Level(c, old)     == IF "level" \in c.given THEN "named" ELSE old
Instances(c, old) == IF "instances" \in c.given THEN "named" ELSE old

NewProfile(c) ==
    [instances |-> Instances(c, "default"), level |-> Level(c, "default")]
UpdatedProfile(c, old) ==
    [instances |-> Instances(c, old.instances), level |-> Level(c, old.level)]

EndpointId(name) == [kind |-> "endpoint", name |-> name, of |-> None]
RegistryId(name) == [kind |-> "registry", name |-> name, of |-> None]
SecretSyncId     == CHOOSE id \in Id : id.kind = "secretSync"

(* The resources a data flow, a graph or a connector template refers to.    *)
NodesOf(graph, type) == {n \in Node : graph.nodes[n] # None /\ graph.nodes[n].type = type}
Refs(id, body, role) ==
    CASE id.kind = "flow" /\ role = "source" -> {EndpointId(body.source)}
      [] id.kind = "flow" /\ role = "destination" -> {EndpointId(body.destination)}
      [] id.kind = "graph" /\ role = "source" ->
            {EndpointId(body.nodes[n].ref) : n \in NodesOf(body, "Source")}
      [] id.kind = "graph" /\ role = "destination" ->
            {EndpointId(body.nodes[n].ref) : n \in NodesOf(body, "Destination")}
      [] id.kind = "graph" /\ role = "registry" ->
            {RegistryId(body.nodes[n].ref) : n \in NodesOf(body, "Graph")}
      [] id.kind = "template" /\ role = "spc" /\ body.secrets # {} -> {SecretSyncId}
      [] OTHER -> {}

(* A Kafka endpoint is a source with a consumer group only.                 *)
SourceSuits(endpoint) ==
    /\ endpoint.family \in {"kafka", "mqtt"}
    /\ endpoint.family = "kafka" => endpoint.group

(* What is stored as files or tables needs a schema.                        *)
DestinationSuits(flow, endpoint) ==
    endpoint.family \in {"adx", "adls", "onelake", "storage"} => flow.schema

LocalMqtt(endpoint) == endpoint.family = "mqtt" /\ endpoint.host.name = "aio-broker"

GraphEndpoint(endpoint) == endpoint.family \in {"kafka", "mqtt", "otel"}

(* Whether one resource read for a role is what the config can use.         *)
Suits(id, body, role, found) ==
    CASE id.kind = "flow" /\ role = "source" -> SourceSuits(found)
      [] id.kind = "flow" /\ role = "destination" -> DestinationSuits(body, found)
      [] id.kind = "graph" /\ role = "source" ->
            GraphEndpoint(found) /\ found.family # "otel" /\ SourceSuits(found)
      [] id.kind = "graph" /\ role = "destination" -> GraphEndpoint(found)
      [] OTHER -> TRUE

(* What the file says of the nodes and connections by itself.               *)
ValidNodes(graph) ==
    /\ NodesOf(graph, "Source") # {}
    /\ NodesOf(graph, "Destination") # {}
ValidConnections(graph) ==
    /\ graph.connections # {}
    /\ \A e \in graph.connections :
          /\ e[1] # e[2]
          /\ graph.nodes[e[1]] # None /\ graph.nodes[e[1]].type # "Destination"
          /\ graph.nodes[e[2]] # None /\ graph.nodes[e[2]].type # "Source"

(* The parameters the artifact of a graph node requires; an artifact that   *)
(* cannot be fetched is not looked into.                                    *)
ValidArtifacts(graph, fetched) ==
    fetched => \A n \in NodesOf(graph, "Graph") : graph.nodes[n].provided

Before(role) ==
    CASE role = "source" -> {}
      [] role = "destination" -> {"source"}
      [] OTHER -> {"source", "destination"}

(* What is still to be read: a graph's endpoints are cached, a data flow's  *)
(* are read once for each side.                                             *)
Unread(s, role) ==
    LET c == cmd[s]
    IN  {r \in Refs(c.id, c.body, role) :
            \A x \in seen[s] : x.id = r => c.id.kind = "flow" /\ x.role # role}

Sees(s, role, id) ==
    (CHOOSE x \in seen[s] : x.id = id /\ (cmd[s].id.kind = "flow" => x.role = role)).body

Roles == {"source", "destination", "registry"}

ASSUME RefsAssumption ==
    \A w \in Workloads : \A s \in Session : \A c \in w.commands[s] :
        c.op = "apply" => \A role \in Roles : Refs(c.id, c.body, role) \subseteq Id

Pending(s) ==   \* the reads of the first role that has any left
    {ref \in Roles \X Id :
        /\ ref[2] \in Unread(s, ref[1])
        /\ \A earlier \in Before(ref[1]) : Unread(s, earlier) = {}}

Present(s, ref) ==   \* mutant: what the endpoint is, is not looked at
    store[ref[2]] # None

Usable(s, ref) ==
    store[ref[2]] # None /\ Suits(cmd[s].id, cmd[s].body, ref[1], store[ref[2]])

ValidFile(c) ==
    c.id.kind = "graph" => ValidNodes(c.body) /\ ValidConnections(c.body)

ReadRef(s) ==
    /\ At(s, "read") /\ ValidFile(cmd[s])
    /\ \E ref \in Pending(s) :
          /\ Usable(s, ref)
          /\ Saw(s, {[role |-> ref[1], id |-> ref[2], body |-> store[ref[2]]]})
    /\ UNCHANGED pc

(* _validate_dataflow_config, _validate_graph_config, with what was read.   *)
ValidFlow(s) ==
    \/ LocalMqtt(Sees(s, "source", EndpointId(cmd[s].body.source)))
    \/ LocalMqtt(Sees(s, "destination", EndpointId(cmd[s].body.destination)))
ValidGraph(s, fetched) ==
    /\ \A role \in {"source", "destination"} : \A r \in Refs(cmd[s].id, cmd[s].body, role) :
          Suits(cmd[s].id, cmd[s].body, role, Sees(s, role, r))
    /\ ValidArtifacts(cmd[s].body, fetched)

HasParent(id) == Parent(id) # None => store[Parent(id)] # None

Checked(s, fetched) ==
    IF cmd[s].id.kind = "flow" THEN ValidFlow(s) ELSE ValidGraph(s, fetched)

ApplyChecked(s) ==
    /\ At(s, "read") /\ ValidFile(cmd[s]) /\ Pending(s) = {}
    /\ \E fetched \in BOOLEAN : Checked(s, fetched)
    /\ HasParent(cmd[s].id)
    /\ Wrote(s, cmd[s].id, cmd[s].body, "idle")

(* Deleting a profile names the data flows that go with it.                 *)
ListFlows(s) ==
    /\ At(s, "list")
    /\ Saw(s, {[role |-> "self", id |-> cmd[s].id, body |-> store[cmd[s].id]]} \cup
              {[role |-> "child", id |-> f, body |-> store[f]] :
                  f \in {r \in Id : r.kind = "flow" /\ Parent(r) = cmd[s].id
                                    /\ store[r] # None}})
    /\ pc' = [pc EXCEPT ![s] = "write"]

-------------------------------------------------------------------------------
(* Data flow endpoints and registry endpoints *)

Identity(given) == {"client_id", "tenant_id", "scope"} \cap given # {}

(* The method the arguments stand for, the first that applies.              *)
Identified(given) ==
    IF "no_auth" \in given THEN "Anonymous"
    ELSE IF Identity(given) THEN "UserAssigned"
    ELSE IF "sat_audience" \in given THEN "ServiceAccountToken"
    ELSE IF "x509_secret_name" \in given THEN "X509"
    ELSE IF {"sasl_type", "sasl_secret_name"} \cap given # {} THEN "Sasl"
    ELSE IF "at_secret_name" \in given THEN "AccessToken"
    ELSE "SystemAssigned"

AuthFor(c) == IF c.auth # None THEN c.auth ELSE Identified(c.given)

NamesAuth(c) ==
    \/ c.auth # None
    \/ c.given \cap ((SettingParam \ {"audience", "secret_name", "secret_ref"})
                     \cup {"no_auth"}) # {}

NoAuth == [method |-> "none", settings |-> {}]

UncheckedAuth(c, old) ==   \* mutant: what a new method requires is not asked for
    AuthFor(c) \notin Allowed(c.type)

(* Only a method that was not there before is checked for what it requires. *)
AuthRefused(c, old) ==
    \/ AuthFor(c) \notin Allowed(c.type)
    \/ AuthFor(c) # old.method /\ ~(Required(AuthFor(c)) \subseteq c.given)

SettingsGiven(c) ==
    {SettingOf(p) : p \in c.given \cap SettingParam}
    \cup IF c.type = "adls" /\ AuthFor(c) = "UserAssigned" THEN {"scope"} ELSE {}

(* _process_authentication_type: the same method takes up the new settings, *)
(* another starts anew.                                                     *)
ProcessedAuth(c, old) ==
    LET m    == AuthFor(c)
        kept == IF m = old.method THEN old.settings ELSE {}
    IN  [method |-> m,
         settings |-> IF m = "Anonymous" /\ c.type # "otel" THEN kept
                      ELSE kept \cup SettingsGiven(c)]

(* "{hostname}:{port}": what is not given is written as None.               *)
EndpointHost(c) ==
    IF c.type \in {"local", "eventgrid", "mqtt", "kafka", "otel"}
    THEN [name |-> IF c.host = None THEN "None" ELSE c.host,
          port |-> IF "port" \in c.given THEN "number" ELSE "None"]
    ELSE [name |-> IF c.type = "storage" THEN "absent"
                   ELSE IF c.type = "onelake" \/ c.host = None THEN "elsewhere"
                   ELSE c.host,
          port |-> IF c.type = "eventhub" THEN "number" ELSE "absent"]

Tls(c, old) ==
    IF c.type \in {"eventhub", "eventgrid"} THEN "enabled"
    ELSE IF "disable_tls" \in c.given THEN "disabled"
    ELSE IF "enable_tls" \in c.given THEN "enabled"
    ELSE old

NewEndpoint(c) ==
    [family |-> Family(c.type), host |-> EndpointHost(c),
     auth |-> IF c.type = "storage" THEN NoAuth ELSE ProcessedAuth(c, NoAuth),
     tls |-> Tls(c, "unset"), group |-> "group_id" \in c.given]

NewHost(c) == c.host # None \/ "port" \in c.given

(* Settings of another type are not found: what is changed is then a        *)
(* dictionary nobody stores, unless the host, of which there is none, is to *)
(* be replaced or passed on.                                                *)
UpdateRefused(c, old) ==
    LET own == Family(c.type) = old.family
    IN  \/ /\ ~own \/ old.host.name = "absent"
           /\ NewHost(c) \/ c.type \in {"adx", "realtime"}
        \/ NamesAuth(c) /\ AuthRefused(c, IF own THEN old.auth ELSE NoAuth)

UpdatedEndpoint(c, old) ==
    IF Family(c.type) # old.family THEN old
    ELSE [family |-> old.family,
          host |-> IF NewHost(c) THEN EndpointHost(c) ELSE old.host,
          auth |-> IF NamesAuth(c) THEN ProcessedAuth(c, old.auth) ELSE old.auth,
          tls |-> Tls(c, old.tls), group |-> old.group \/ "group_id" \in c.given]

(* Registry endpoints: the authentication is always replaced as a whole.    *)
RegistryMethod(c) ==
    IF c.auth # None THEN c.auth
    ELSE IF "no_auth" \in c.given THEN "Anonymous"
    ELSE IF "secret_ref" \in c.given THEN "PullSecret"
    ELSE IF Identity(c.given) THEN "UserAssigned"
    ELSE "SystemAssigned"

RegistryOptional(method) ==
    CASE method = "SystemAssigned" -> {"audience"}
      [] method = "UserAssigned" -> {"scope"}
      [] OTHER -> {}

RegistryRefused(c) ==
    LET params == c.given \cap SettingParam
        m      == RegistryMethod(c)
    IN  \/ "no_auth" \in c.given /\ params # {}
        \/ ~(params \subseteq Required(m) \cup RegistryOptional(m))
        \/ ~(Required(m) \subseteq params)

NamesRegistryAuth(c) == c.auth # None \/ c.given \cap (SettingParam \cup {"no_auth"}) # {}

NewRegistry(c) ==
    [auth |-> [method |-> RegistryMethod(c),
               settings |-> {SettingOf(p) : p \in c.given \cap SettingParam}]]
UpdatedRegistry(c, old) == IF NamesRegistryAuth(c) THEN NewRegistry(c) ELSE old

-------------------------------------------------------------------------------
(* The broker *)

Modes(c) == c.given \cap {"None", "All", "Custom"}

(* Setting a mode resets the component, a list of items replaces what was   *)
(* set for the mode, --disable-dynamic comes last.                          *)
Remoded(c, old) ==
    IF Modes(c) = {} THEN old
    ELSE LET m == CHOOSE x \in Modes(c) : TRUE
         IN  [mode |-> m, items |-> FALSE,
              dynamic |-> IF m = "Custom" THEN "Enabled" ELSE "absent"]

PersistRefused(c, old) ==
    {"items", "disable_dynamic"} \cap c.given # {} /\ Remoded(c, old).mode # "Custom"

BuiltPersistence(c, old) ==
    LET mode == Remoded(c, old)
        list == IF "items" \in c.given THEN [mode EXCEPT !.items = TRUE, !.dynamic = "absent"]
                ELSE mode
    IN  IF "disable_dynamic" \in c.given THEN [list EXCEPT !.dynamic = "Disabled"] ELSE list

UpdatedBroker(c, old) ==
    [persistence |-> [old.persistence EXCEPT ![c.item] = BuiltPersistence(c, @)]]

PortConf(c) == IF "enable_tls" \in c.given THEN "tls" ELSE "plain"

OnlyPort(c, old) ==   \* mutant: the ports there were are not kept
    [p \in Port |-> IF p = c.item THEN PortConf(c) ELSE "absent"]

(* upsert_by_discriminator: the port takes the place of one with its number.*)
WithPort(c, old) ==
    IF old = None THEN [p \in Port |-> IF p = c.item THEN PortConf(c) ELSE "absent"]
    ELSE [old EXCEPT ![c.item] = PortConf(c)]

WithoutPort(c, old) == [old EXCEPT ![c.item] = "absent"]

(* remove_port deletes the listener with the last of its ports.             *)
LastPort(c, old) == Ports(old) = {c.item}

(* The method is added to the list, whether it is there or not.             *)
WithMethod(c, old) ==
    IF old = None THEN [m \in Method |-> IF m = c.item THEN 1 ELSE 0]
    ELSE [old EXCEPT ![c.item] = @ + 1]

-------------------------------------------------------------------------------
(* Reading, sending and removing one resource *)

BringsSecrets(c) == c.id.kind = "template" /\ c.body \notin {None, {}}

Get(s) ==
    /\ At(s, "get")
    /\ store[cmd[s].id] # None \/ cmd[s].op = "addItem"
    /\ Saw(s, {[role |-> "self", id |-> cmd[s].id, body |-> store[cmd[s].id]]})
    /\ pc' = [pc EXCEPT ![s] = IF BringsSecrets(cmd[s]) THEN "spc" ELSE "write"]

HasDefaultSpc(s) == store[SecretSyncId] # None

(* Secrets are for an instance where secret sync is enabled.                *)
CheckSecretSyncEnabled(s) ==
    /\ At(s, "spc")
    /\ HasDefaultSpc(s)
    /\ Saw(s, {[role |-> "spc", id |-> SecretSyncId, body |-> store[SecretSyncId]]})
    /\ pc' = [pc EXCEPT ![s] = "write"]

(* What the command itself refuses.                                         *)
Refused(s) ==
    LET c == cmd[s]
    IN  CASE c.op = "create" /\ c.id.kind = "endpoint" ->
                c.type # "storage" /\ AuthRefused(c, NoAuth)
          [] c.op = "update" /\ c.id.kind = "endpoint" -> UpdateRefused(c, Own(s))
          [] c.op = "create" /\ c.id.kind = "registry" -> RegistryRefused(c)
          [] c.op = "update" /\ c.id.kind = "registry" ->
                NamesRegistryAuth(c) /\ RegistryRefused(c)
          [] c.id.kind = "broker" /\ c.op = "update" ->
                \/ Own(s).persistence = None
                \/ PersistRefused(c, Own(s).persistence[c.item])
          [] c.op = "create" /\ c.id.kind = "template" ->
                CreateRefused(c.given, c.item, c.body)
          [] c.op = "update" /\ c.id.kind = "template" ->
                UpdateTemplateRefused(c.given, c.item, c.body, Own(s))
          [] c.op = "removeItem" -> c.item \notin Ports(Own(s))
          [] OTHER -> FALSE

(* A schema that is put again keeps its versions.                           *)
Sent(s) ==
    LET c == cmd[s]
        k == c.id.kind
    IN  CASE c.op = "apply" -> c.body
          [] c.op = "create" /\ k = "profile"  -> NewProfile(c)
          [] c.op = "update" /\ k = "profile"  -> UpdatedProfile(c, Own(s))
          [] c.op = "create" /\ k = "endpoint" -> NewEndpoint(c)
          [] c.op = "update" /\ k = "endpoint" -> UpdatedEndpoint(c, Own(s))
          [] c.op = "create" /\ k = "registry" -> NewRegistry(c)
          [] c.op = "update" /\ k = "registry" -> UpdatedRegistry(c, Own(s))
          [] c.op = "update" /\ k = "broker"   -> UpdatedBroker(c, Own(s))
          [] c.op = "create" /\ k = "template" ->
                BuildTemplateProperties(c.given, c.item, c.body)
          [] c.op = "update" /\ k = "template" ->
                UpdatedTemplate(c.given, c.item, c.body, Own(s))
          [] c.op = "addItem" /\ k = "listener" -> WithPort(c, Own(s))
          [] c.op = "removeItem" -> WithoutPort(c, Own(s))
          [] c.op = "addItem" /\ k = "authn"   -> WithMethod(c, Own(s))
          [] c.op = "create" /\ k = "schema" -> IF store[c.id] = None THEN {} ELSE store[c.id]
          [] OTHER -> "there"

Removes(s) ==
    \/ cmd[s].op = "delete"
    \/ cmd[s].op = "removeItem" /\ LastPort(cmd[s], Own(s))

Done(c) ==   \* mutant: the role of a schema registry is left out
    IF c.op = "create" /\ c.id.kind = "schema" THEN "version" ELSE "idle"

(* A schema registry and a schema are not done with their PUT.              *)
Then(c) ==
    CASE c.op = "create" /\ c.id.kind = "schemaRegistry" /\ "skip_role" \notin c.given -> "role"
      [] c.op = "create" /\ c.id.kind = "schema" -> "version"
      [] OTHER -> "idle"

(* How often the method that is to be added is there; a bound.              *)
Copies(s) ==
    IF cmd[s].op = "addItem" /\ cmd[s].id.kind = "authn" /\ Own(s) # None
    THEN Own(s)[cmd[s].item] ELSE 0

Put(s) ==
    /\ At(s, "write")
    /\ ~Refused(s) /\ ~Removes(s) /\ HasParent(cmd[s].id)
    /\ Copies(s) < MaxCopies
    /\ Wrote(s, cmd[s].id, Sent(s), Then(cmd[s]))

Drop(s) ==
    /\ At(s, "write")
    /\ ~Refused(s) /\ Removes(s)
    /\ Wrote(s, cmd[s].id, None, "idle")

-------------------------------------------------------------------------------
(* The schema registry *)

ContainerId(id) == [kind |-> "container", name |-> id.name, of |-> None]
RoleId(id)      == [kind |-> "role", name |-> id.name, of |-> id.name]

EnsureContainer(s) ==
    /\ At(s, "container")
    /\ Wrote(s, ContainerId(cmd[s].id), "there", "write")

ApplyRoleAssignment(s) ==
    /\ At(s, "role")
    /\ store[cmd[s].id] # None
    /\ Wrote(s, RoleId(cmd[s].id), "there", "idle")

PutVersion(s) ==
    /\ At(s, "version") /\ cmd[s].op # "removeItem"
    /\ store[cmd[s].id] # None
    /\ Wrote(s, cmd[s].id, store[cmd[s].id] \cup {cmd[s].item}, "idle")

DropVersion(s) ==
    /\ At(s, "version") /\ cmd[s].op = "removeItem"
    /\ store[cmd[s].id] # None
    /\ Wrote(s, cmd[s].id, store[cmd[s].id] \ {cmd[s].item}, "idle")

-------------------------------------------------------------------------------
(* Commands *)

(* A check of the command or of the service ends it.                        *)
Refuse(s) ==
    /\ CASE At(s, "get") -> store[cmd[s].id] = None /\ cmd[s].op # "addItem"
         [] At(s, "spc") -> ~HasDefaultSpc(s)
         [] At(s, "read") ->
               \/ ~ValidFile(cmd[s])
               \/ \E ref \in Pending(s) : ~Usable(s, ref)
               \/ /\ Pending(s) = {}
                  /\ \/ \E fetched \in BOOLEAN : ~Checked(s, fetched)
                     \/ ~HasParent(cmd[s].id)
         [] At(s, "write") ->
               \/ Refused(s)
               \/ ~Removes(s) /\ ~HasParent(cmd[s].id)
               \/ Copies(s) >= MaxCopies
         [] pc[s] \in {"role", "version"} -> store[cmd[s].id] = None
         [] OTHER -> FALSE
    /\ Finish(s)
    /\ UNCHANGED faults

Begins(s, c, first) ==
    /\ At(s, "idle")
    /\ cmd' = [cmd EXCEPT ![s] = c]
    /\ pc' = [pc EXCEPT ![s] = first]
    /\ UNCHANGED <<store, work, seen, disturbed, faults>>

Run(s, op, kind, first) ==
    \E c \in work.commands[s] : c.op = op /\ c.id.kind = kind /\ Begins(s, c, first)

(* names: the argument an option is passed on as; implied: the options a    *)
(* command passes on although they were not given.                          *)
RunEndpoint(s, op, type, names, implied, first) ==
    \E c \in work.commands[s] :
       /\ c.op = op /\ c.id.kind = "endpoint" /\ c.type = type
       /\ LET given == {IF o \in DOMAIN names THEN names[o] ELSE o : o \in c.given}
          IN  Begins(s, [c EXCEPT !.given =
                            IF "disable_tls" \in given THEN given ELSE given \cup implied],
                     first)

Create(s, type, names, implied) == RunEndpoint(s, "create", type, names, implied, "write")
Update(s, type, names, implied) == RunEndpoint(s, "update", type, names, implied, "get")

Sami     == [audience |-> "sami_audience"]
Token    == [audience |-> "sami_audience", secret_name |-> "at_secret_name"]
Sasl     == [audience |-> "sami_audience", secret_name |-> "sasl_secret_name"]
Sat      == [audience |-> "sat_audience", secret_name |-> "x509_secret_name"]
SamiX509 == [audience |-> "sami_audience", secret_name |-> "x509_secret_name"]
X509     == [secret_name |-> "x509_secret_name"]
TlsOn    == {"enable_tls"}

CreateEndpointAdx(s)       == Create(s, "adx", Sami, {})
CreateEndpointAdls(s)      == Create(s, "adls", Token, {})
CreateEndpointOnelake(s)   == Create(s, "onelake", Sami, {})
CreateEndpointEventhub(s)  == Create(s, "eventhub", Sasl, {})
CreateEndpointRealtime(s)  == Create(s, "realtime", Sasl, TlsOn)
CreateEndpointKafka(s)     == Create(s, "kafka", Sasl, TlsOn)
CreateEndpointStorage(s)   == Create(s, "storage", <<>>, {})
CreateEndpointLocal(s)     == Create(s, "local", Sat, TlsOn)
CreateEndpointEventgrid(s) == Create(s, "eventgrid", SamiX509, {})
CreateEndpointMqtt(s)      == Create(s, "mqtt", X509, TlsOn)
CreateEndpointOtel(s)      == Create(s, "otel", Sat, TlsOn)
UpdateEndpointAdx(s)       == Update(s, "adx", Sami, {})
UpdateEndpointAdls(s)      == Update(s, "adls", Token, {})
UpdateEndpointOnelake(s)   == Update(s, "onelake", Sami, {})
UpdateEndpointEventhub(s)  == Update(s, "eventhub", Sasl, {})
UpdateEndpointRealtime(s)  == Update(s, "realtime", Sasl, {})
UpdateEndpointKafka(s)     == Update(s, "kafka", Sasl, {})
UpdateEndpointStorage(s)   == Update(s, "storage", <<>>, {})
UpdateEndpointLocal(s)     == Update(s, "local", Sat, TlsOn)
UpdateEndpointEventgrid(s) == Update(s, "eventgrid", Sat, {})
UpdateEndpointMqtt(s)      == Update(s, "mqtt", X509, {})
UpdateEndpointOtel(s)      == Update(s, "otel", Sat, {})

CreateProfile(s)      == Run(s, "create", "profile", "write")
UpdateProfile(s)      == Run(s, "update", "profile", "get")
DeleteProfile(s)      == Run(s, "delete", "profile", "list")
ApplyDataflow(s)      == Run(s, "apply", "flow", "read")
DeleteDataflow(s)     == Run(s, "delete", "flow", "write")
ApplyGraph(s)         == Run(s, "apply", "graph", "read")
DeleteGraph(s)        == Run(s, "delete", "graph", "write")
ApplyEndpoint(s)      == Run(s, "apply", "endpoint", "write")
DeleteEndpoint(s)     == Run(s, "delete", "endpoint", "write")
CreateRegistryEndpoint(s)     == Run(s, "create", "registry", "write")
UpdateRegistryEndpoint(s)     == Run(s, "update", "registry", "get")
DeleteRegistryEndpoint(s)     == Run(s, "delete", "registry", "write")
UpdatePersist(s)      == Run(s, "update", "broker", "get")
DeleteBroker(s)       == Run(s, "delete", "broker", "write")
ApplyListener(s)      == Run(s, "apply", "listener", "write")
AddPort(s)            == Run(s, "addItem", "listener", "get")
RemovePort(s)         == Run(s, "removeItem", "listener", "get")
DeleteListener(s)     == Run(s, "delete", "listener", "write")
ApplyAuthn(s)         == Run(s, "apply", "authn", "write")
AddMethod(s)          == Run(s, "addItem", "authn", "get")
DeleteAuthn(s)        == Run(s, "delete", "authn", "write")
ApplyAuthz(s)         == Run(s, "apply", "authz", "write")
DeleteAuthz(s)        == Run(s, "delete", "authz", "write")
CreateSchemaRegistry(s) == Run(s, "create", "schemaRegistry", "container")
DeleteSchemaRegistry(s) == Run(s, "delete", "schemaRegistry", "write")
CreateSchema(s)       == Run(s, "create", "schema", "write")
DeleteSchema(s)       == Run(s, "delete", "schema", "write")
AddVersion(s)         == Run(s, "addItem", "schema", "version")
RemoveVersion(s)      == Run(s, "removeItem", "schema", "version")

CreateTemplate(s) ==
    \E c \in work.commands[s] :
       /\ c.op = "create" /\ c.id.kind = "template"
       /\ Begins(s, c, IF BringsSecrets(c) THEN "spc" ELSE "write")
UpdateTemplate(s)     == Run(s, "update", "template", "get")
DeleteTemplate(s)     == Run(s, "delete", "template", "get")
EnableSecretSync(s)   == Run(s, "create", "secretSync", "write")
DisableSecretSync(s)  == Run(s, "delete", "secretSync", "write")

BeginEndpoint(s) ==
    \/ CreateEndpointAdx(s) \/ CreateEndpointAdls(s) \/ CreateEndpointOnelake(s)
    \/ CreateEndpointEventhub(s) \/ CreateEndpointRealtime(s) \/ CreateEndpointKafka(s)
    \/ CreateEndpointStorage(s) \/ CreateEndpointLocal(s) \/ CreateEndpointEventgrid(s)
    \/ CreateEndpointMqtt(s) \/ CreateEndpointOtel(s)
    \/ UpdateEndpointAdx(s) \/ UpdateEndpointAdls(s) \/ UpdateEndpointOnelake(s)
    \/ UpdateEndpointEventhub(s) \/ UpdateEndpointRealtime(s) \/ UpdateEndpointKafka(s)
    \/ UpdateEndpointStorage(s) \/ UpdateEndpointLocal(s) \/ UpdateEndpointEventgrid(s)
    \/ UpdateEndpointMqtt(s) \/ UpdateEndpointOtel(s)
    \/ ApplyEndpoint(s) \/ DeleteEndpoint(s)

BeginDataflow(s) ==
    \/ CreateProfile(s) \/ UpdateProfile(s) \/ DeleteProfile(s)
    \/ ApplyDataflow(s) \/ DeleteDataflow(s) \/ ApplyGraph(s) \/ DeleteGraph(s)

BeginRegistryEndpoint(s) ==
    CreateRegistryEndpoint(s) \/ UpdateRegistryEndpoint(s) \/ DeleteRegistryEndpoint(s)

BeginBroker(s) == UpdatePersist(s) \/ DeleteBroker(s)

BeginListener(s) ==
    ApplyListener(s) \/ AddPort(s) \/ RemovePort(s) \/ DeleteListener(s)

BeginRules(s) ==
    \/ ApplyAuthn(s) \/ AddMethod(s) \/ DeleteAuthn(s)
    \/ ApplyAuthz(s) \/ DeleteAuthz(s)

BeginSchema(s) ==
    \/ CreateSchemaRegistry(s) \/ DeleteSchemaRegistry(s)
    \/ CreateSchema(s) \/ DeleteSchema(s) \/ AddVersion(s) \/ RemoveVersion(s)

BeginTemplate(s) ==
    \/ CreateTemplate(s) \/ UpdateTemplate(s) \/ DeleteTemplate(s)
    \/ EnableSecretSync(s) \/ DisableSecretSync(s)

Begin(s) ==
    \/ BeginTemplate(s)
    \/ BeginEndpoint(s) \/ BeginDataflow(s) \/ BeginRegistryEndpoint(s)
    \/ BeginBroker(s) \/ BeginListener(s) \/ BeginRules(s) \/ BeginSchema(s)

Continue(s) ==
    \/ Get(s) \/ CheckSecretSyncEnabled(s) \/ ReadRef(s) \/ ApplyChecked(s) \/ ListFlows(s) \/ Put(s) \/ Drop(s)
    \/ EnsureContainer(s) \/ ApplyRoleAssignment(s) \/ PutVersion(s) \/ DropVersion(s)
    \/ Refuse(s)

Next == \E s \in Session : Begin(s) \/ Continue(s) \/ Fail(s)

Spec == Init /\ [][Next]_vars

Gives(s, p) ==
    p \in work.persistent /\ Begin(s) /\ cmd'[s].op = p[1] /\ cmd'[s].id = p[2]

(* A process gets on, and users give the persistent commands again and      *)
(* again.                                                                   *)
FairSpec ==
    /\ Spec
    /\ \A s \in Session : WF_vars(Continue(s))
    /\ \A p \in Persistent : SF_vars(\E s \in Session : Gives(s, p))

-------------------------------------------------------------------------------
(* What the commands promise *)

(* What the service is given is sound whatever was there before and whoever *)
(* else is at work.                                                         *)
WellFormed == \A id \in {r \in Id : store[r] # None} : Sound(id.kind, store[id])

(* A data flow or a graph fits when what it refers to is there and is what  *)
(* it can be used for, a connector template with secrets when secret sync   *)
(* is enabled.                                                              *)
RefsOf(id, body) == UNION {Refs(id, body, role) : role \in Roles \cup {"spc"}}
Fits(id, body, resources) ==
    /\ \A role \in Roles \cup {"spc"} : \A r \in Refs(id, body, role) :
          resources[r] # None /\ Suits(id, body, role, resources[r])
    /\ id.kind = "flow" => \E r \in RefsOf(id, body) : LocalMqtt(resources[r])

(* One that is stored fits what is stored beside it until somebody changes  *)
(* that, or did so while it was being applied.  An update of a template may *)
(* leave its secrets alone.                                                 *)
FitsUntilTouched ==
    [][\A id \in Id :
         id.kind \in {"flow", "graph", "template"} /\ store'[id] # None
           /\ ~Fits(id, store'[id], store')
         => \/ /\ store[id] # None /\ ~Fits(id, store[id], store)
               /\ id.kind = "template" \/ store'[id] = store[id]
            \/ \E r \in RefsOf(id, store'[id]) : store'[r] # store[r]
            \/ \E s \in Session : disturbed[s] /\ ~At(s, "idle") /\ At(s, "idle")']_vars

(* The parts of a resource that commands name one by one.                   *)
Items(id, body) ==
    IF body = None THEN {}
    ELSE CASE id.kind = "listener" -> Ports(body)
           [] id.kind = "authn"    -> {m \in Method : body[m] > 0}
           [] id.kind = "schema"   -> body
           [] id.kind = "template" -> {"itself"} \cup body.settings
                 \cup {"secrets" : x \in body.secrets}
           [] OTHER                -> {"itself"}

(* A command that asks for the item, or for the whole, to go.               *)
AsksFor(s, id, i) ==
    LET c == cmd[s]
    IN  \/ c.op = "removeItem" /\ c.id = id /\ c.item = i
        \/ c.op = "apply" /\ c.id = id
        \/ c.op = "delete" /\ c.id = id
        \/ /\ c.op = "create" /\ c.id = id /\ id.kind = "template"   \* anew
           /\ i # "itself"
        \/ /\ c.op = "update" /\ c.id = id /\ id.kind = "template"
           /\ IF i = "secrets" THEN c.body = {} ELSE "clear" \in c.given /\ i \in c.given
        \/ /\ c.op = "delete" /\ c.id = Parent(id)
           /\ id.kind = "flow" => \E x \in seen[s] : x.id = id   \* the prompt names it

(* A port, a method, a version, a data flow, a template's secrets are lost  *)
(* to a command that asks for it, or to one that another has overtaken.     *)
NothingLost ==
    [][\A id \in Id : \A i \in Items(id, store[id]) \ Items(id, store'[id]) :
         \E s \in Session : /\ ~At(s, "idle") /\ At(s, "idle")'
                            /\ disturbed[s] \/ AsksFor(s, id, i)]_vars

IsUpgrade(old, new) == new[1] = old[1] /\ new[2] > old[2]

(* "Blocks: Major updates, Downgrades" (_is_valid_version_upgrade): where   *)
(* the image has the version of its metadata, no update that another has    *)
(* not overtaken changes the major version of a connector or lowers it.     *)
NoTemplateDowngrade ==
    [][\A id \in {r \in Id : r.kind = "template"} :
         /\ store[id] # None /\ store'[id] # None
         /\ store[id].tag # None /\ store'[id].tag # store[id].tag
         => \E s \in Session :
              /\ ~At(s, "idle") /\ At(s, "idle")' /\ cmd[s].id = id
              /\ \/ cmd[s].op = "create" \/ disturbed[s]
                 \/ Metadata[cmd[s].item].tag # Metadata[cmd[s].item].version
                 \/ IsUpgrade(store[id].tag, store'[id].tag)]_vars

(* Commands that are given until they succeed, in whatever order and        *)
(* however often they fail halfway, leave everything in place: the data     *)
(* flow, which is refused until its endpoints are there, the schema with a  *)
(* version, the schema registry with its container and its role.            *)
InPlace(id) ==
    /\ store[id] # None
    /\ id.kind = "schema" => Cardinality(store[id]) > 0
    /\ id.kind = "schemaRegistry" =>
          store[ContainerId(id)] # None /\ store[RoleId(id)] # None

SetsUp == <>[](\A p \in work.persistent : InPlace(p[2]))
===============================================================================
