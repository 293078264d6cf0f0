------------------------------ MODULE MCResources ------------------------------
(* Two processes on the resources of one instance.  A workload says what is  *)
(* there before and which commands each process may be given.                *)
EXTENDS Resources, TLC

CONSTANTS s1, s2, n1, n2, g1, g2, g3, p1, p2, m1, v1, v2,
          r10, r11, r20, digest, other

At1(kind)    == [kind |-> kind, name |-> n1, of |-> None]
Below(kind)  == [kind |-> kind, name |-> n1, of |-> n1]
Second(kind) == [kind |-> kind, name |-> n2, of |-> None]

Ids == {At1(k) : k \in {"profile", "endpoint", "registry", "broker",
                        "schemaRegistry", "container", "template", "secretSync"}}
       \cup {Below(k) : k \in {"flow", "graph", "listener", "authn", "authz", "role", "schema"}}
       \cup {Second("endpoint")}

Plain(op, id) ==
    [op |-> op, id |-> id, given |-> {}, auth |-> None, host |-> None, type |-> None,
     body |-> None, item |-> None]
File(id, body)      == [Plain("apply", id) EXCEPT !.body = body]
With(c, given)      == [c EXCEPT !.given = given]
Item(op, id, i)     == [Plain(op, id) EXCEPT !.item = i]
Endpoint(op, type, id, host, given) ==
    [Plain(op, id) EXCEPT !.type = type, !.host = host, !.given = given]

(* The commands of Setup, given until all succeed.                            *)
ToTheEnd == {<<"create", At1("profile")>>, <<"create", At1("endpoint")>>,
             <<"apply", Below("flow")>>, <<"create", Second("endpoint")>>,
             <<"create", At1("schemaRegistry")>>, <<"create", Below("schema")>>}

Work(c1, c2, there, persistent) ==
    [commands |-> (s1 :> c1 @@ s2 :> c2),
     store |-> [id \in Ids |-> IF id \in DOMAIN there THEN there[id] ELSE None],
     persistent |-> persistent]

Profile0 == [instances |-> "default", level |-> "default"]
Stored(family, name, method, settings, group) ==
    [family |-> family, host |-> [name |-> name, port |-> "number"],
     auth |-> [method |-> method, settings |-> settings], tls |-> "enabled", group |-> group]
Local    == Stored("mqtt", "aio-broker", "ServiceAccountToken", {"audience"}, FALSE)
Eventhub == Stored("kafka", "elsewhere", "SystemAssigned", {}, TRUE)

-------------------------------------------------------------------------------
Flow(source, destination, schema) ==
    [source |-> source, destination |-> destination, schema |-> schema]

(* A data flow between a local and another endpoint, which both change.      *)
Flows ==
    Work({File(Below("flow"), Flow(n1, n2, FALSE)), File(Below("flow"), Flow(n2, n1, TRUE)),
          Plain("delete", At1("profile")), Plain("delete", Below("flow"))},
         {Endpoint("create", "adx", Second("endpoint"), "elsewhere", {}),
          Endpoint("update", "mqtt", At1("endpoint"), "elsewhere", {"port"}),
          Plain("create", At1("profile")),
          With(Plain("update", At1("profile")), {"level"}),
          Plain("delete", Second("endpoint"))},
         At1("profile") :> Profile0 @@ At1("endpoint") :> Local
           @@ Second("endpoint") :> Eventhub, {})

GraphNode(type, ref, provided) == [type |-> type, ref |-> ref, provided |-> provided]
Graph(source, provided, connections) ==
    [nodes |-> (g1 :> GraphNode("Source", source, TRUE) @@ g2 :> GraphNode("Graph", n1, provided)
                @@ g3 :> GraphNode("Destination", n2, TRUE)),
     connections |-> connections]
Chain == {<<g1, g2>>, <<g2, g3>>}

Graphs ==
    Work({File(Below("graph"), Graph(n1, TRUE, Chain)),
          File(Below("graph"), Graph(n2, FALSE, Chain)),
          File(Below("graph"), Graph(n1, TRUE, {<<g3, g1>>})),
          Plain("delete", Below("graph"))},
         {Endpoint("create", "otel", Second("endpoint"), "elsewhere", {"port", "no_auth"}),
          File(Second("endpoint"), Eventhub),
          Plain("create", At1("registry")), Plain("delete", At1("registry")),
          Plain("delete", At1("endpoint"))},
         At1("profile") :> Profile0 @@ At1("endpoint") :> Local
           @@ At1("registry") :> [auth |-> [method |-> "SystemAssigned", settings |-> {}]]
           @@ Second("endpoint") :> Eventhub, {})

-------------------------------------------------------------------------------
(* Every command on an endpoint, with options of each method it allows.      *)
OptionsOf(type) ==
    {{}} \cup
    CASE type = "adls"      -> {{"client_id", "tenant_id"}, {"secret_name"}, {"audience"}}
      [] type \in {"adx", "onelake"} -> {{"client_id", "tenant_id"}, {"client_id"}}
      [] type \in {"eventhub", "realtime"} ->
            {{"sasl_type", "secret_name"}, {"secret_name"}, {"group_id"}}
      [] type = "kafka"     -> {{"port", "sasl_type", "secret_name"}, {"no_auth"}, {"port"}}
      [] type \in {"local", "otel"} ->
            {{"audience"}, {"secret_name", "port"}, {"no_auth", "disable_tls"}}
      [] type = "eventgrid" -> {{"secret_name"}, {"audience", "port"}}
      [] type = "mqtt"      -> {{"sat_audience"}, {"no_auth", "port"}, {"secret_name"}}
      [] OTHER -> {}

EndpointCommands(op) ==
    {Endpoint(op, type, At1("endpoint"), "elsewhere", given) :
        type \in EndpointType \ {"storage", "onelake"},
        given \in UNION {OptionsOf(t) : t \in EndpointType}}

(* Only the options the command has.                                         *)
Sensible(c) == c.given \in OptionsOf(c.type)

Endpoints ==
    Work({c \in EndpointCommands("create") \cup EndpointCommands("update") : Sensible(c)}
           \cup {Endpoint(op, type, At1("endpoint"), None, given) :
                   op \in {"create", "update"}, type \in {"storage", "onelake"},
                   given \in {{}, {"client_id", "tenant_id"}}}
           \cup {[Endpoint("update", "kafka", At1("endpoint"), None, {}) EXCEPT !.auth = "Sasl"],
                 [Endpoint("update", "kafka", At1("endpoint"), None,
                           {"secret_name", "sasl_type"}) EXCEPT !.auth = "Sasl"]},
         {},
         At1("endpoint") :> Local, {})

Registries ==
    Work({With(Plain(op, At1("registry")), given) : op \in {"create", "update"},
            given \in {{}, {"no_auth"}, {"audience"}, {"client_id", "tenant_id", "scope"},
                       {"client_id"}, {"secret_ref"}, {"no_auth", "secret_ref"}}},
         {Plain("delete", At1("registry")),
          [Plain("update", At1("registry")) EXCEPT !.auth = "PullSecret"]},
         <<>>, {})

-------------------------------------------------------------------------------
Custom0 == [mode |-> "Custom", items |-> FALSE, dynamic |-> "Enabled"]
OldBroker == [persistence |-> [c \in Component |-> Custom0]]
Persist(c, given) == With(Item("update", At1("broker"), c), given)

Brokers ==
    Work({Persist("retain", g) : g \in {{"All"}, {"Custom"}, {"items"}, {"None", "items"},
                                        {"disable_dynamic"}}},
         {Persist("retain", {"Custom", "items"})},
         At1("broker") :> OldBroker, {})

Listeners ==
    Work({Item("addItem", Below("listener"), p1),
          With(Item("addItem", Below("listener"), p2), {"enable_tls"}),
          Item("removeItem", Below("listener"), p1)},
         {With(Item("addItem", Below("listener"), p1), {"enable_tls"}),
          Item("removeItem", Below("listener"), p2), Plain("delete", Below("listener")),
          File(Below("listener"), [p \in {p1, p2} |-> IF p = p2 THEN "plain" ELSE "absent"])},
         At1("broker") :> [persistence |-> None], {})

Rules ==
    Work({Item("addItem", Below("authn"), m1), File(Below("authn"), [m \in {m1} |-> 1]),
          File(Below("authz"), "there")},
         {Item("addItem", Below("authn"), m1), Plain("delete", Below("authn")),
          Plain("delete", Below("authz")), Plain("delete", At1("broker"))},
         At1("broker") :> [persistence |-> None], {})

Schemas ==
    Work({Plain("create", At1("schemaRegistry")), Item("create", Below("schema"), v1),
          Item("addItem", Below("schema"), v2), Plain("delete", Below("schema"))},
         {With(Plain("create", At1("schemaRegistry")), {"skip_role"}),
          Plain("delete", At1("schemaRegistry")), Item("create", Below("schema"), v2),
          Item("removeItem", Below("schema"), v1)},
         <<>>, {})

-------------------------------------------------------------------------------
Image(type, version, image) ==
    [complete |-> TRUE, type |-> type, version |-> version, image |-> image,
     tag |-> IF image = "tag" THEN version ELSE None]

(* Three versions of a connector, one with a digest, one of another type.    *)
Artifacts ==
    r10 :> Image("rest", <<1, 0>>, "tag") @@ r11 :> Image("rest", <<1, 1>>, "tag")
      @@ r20 :> Image("rest", <<2, 0>>, "neither") @@ digest :> Image("rest", <<1, 1>>, "digest")
      @@ other :> [Image("mqtt", <<1, 1>>, "tag") EXCEPT !.complete = FALSE]

Entry(key, alias) == [secretRef |-> "spc", secretKey |-> key, secretAlias |-> alias]
Entries == {Entry("k1", "a1"), Entry("k1", "a2")}

FromMetadata(op, ref, given, secrets) ==
    [With(Item(op, At1("template"), ref), given) EXCEPT !.body = secrets]

Templates ==
    Work({FromMetadata("create", r10, {"trust"}, {Entry("k1", "a1")}),
          FromMetadata("create", other, {}, None),
          FromMetadata("update", r11, {}, {}),
          FromMetadata("update", None, {"volumes"}, Entries),
          FromMetadata("update", None, {"clear", "trust"}, {Entry("k1", "a2")}),
          Plain("delete", At1("secretSync"))},
         {FromMetadata("create", digest, {"Bucketized", "bucket_size"}, None),
          FromMetadata("update", r10, {"bucket_size"}, None),
          FromMetadata("update", r20, {}, None),
          FromMetadata("update", None, {"Bucketized"}, None),
          Plain("create", At1("secretSync")), Plain("delete", At1("template"))},
         At1("secretSync") :> "there", {})

-------------------------------------------------------------------------------
(* What it takes to have a data flow, given in any order.                    *)
Setup ==
    Work({Plain("create", At1("profile")),
          Endpoint("create", "local", At1("endpoint"), "aio-broker", {"audience", "port"}),
          File(Below("flow"), Flow(n1, n2, TRUE))},
         {Endpoint("create", "adx", Second("endpoint"), "elsewhere", {}),
          Plain("create", At1("schemaRegistry")), Item("create", Below("schema"), v1)},
         <<>>, ToTheEnd)
AllWorkloads == {Flows, Graphs, Endpoints, Registries, Brokers, Listeners,
                 Rules, Schemas, Templates, Setup}
===============================================================================
