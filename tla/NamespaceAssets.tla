----------------------------- MODULE NamespaceAssets -----------------------------
(***************************************************************************)
(* `az iot ops ns asset` and `az iot ops ns device`                        *)
(* (providers/adr/namespace_assets.py, namespace_devices.py).              *)
(*                                                                         *)
(* An asset of a Device Registry namespace refers to an inbound endpoint   *)
(* of a device and has four lists of named items: datasets, event groups,  *)
(* management groups (whose items hold points of their own: data points,   *)
(* events, actions) and streams.  Every command on an item reads the asset,*)
(* for most of them the device too, changes its copy of one list and sends *)
(* the whole list back; the service replaces the list.  The inbound        *)
(* endpoints of a device are a map: what is sent is merged into it by key, *)
(* a null removes the key.  Nothing is sent with a version of what was     *)
(* read, and every command is a process of its own.                        *)
(***************************************************************************)
EXTENDS ConnectorMetadata

CONSTANTS
    Session,    \* CLI processes
    Workloads,  \* what they may be given, and what is there before
    Device, Endpoint, Asset,
    Item,       \* names of datasets, event groups, management groups, streams
    Point       \* names of data points, events, actions

ItemOp     == {"addItem", "updateItem", "removeItem", "importItems",
               "addPoint", "removePoint", "importPoints"}
AssetOp    == {"createAsset", "createAssetByType", "updateAsset",
               "updateAssetByType", "deleteAsset"}
EndpointOp == {"addEndpoint", "removeEndpoint"}
DeviceOp   == {"createDevice", "updateDevice", "deleteDevice"} \cup EndpointOp
Op         == ItemOp \cup AssetOp \cup DeviceOp

(* Those whose checks do not need the device.                               *)
DevicelessOp == {"removeItem", "importItems", "removePoint", "importPoints"}

(* Absent: not in the map; Null: there, with nothing.                       *)
Absent   == [type |-> "absent", version |-> None]
Null     == [type |-> "null", version |-> None]

Entry     == [settings : SUBSET Setting, points : SUBSET Point]
List      == [Item -> Entry \cup {None}]
Inbound   == [Endpoint -> EndpointBody \cup {Absent, Null}]
AssetBody == [device : Device, endpoint : Endpoint, defaults : SUBSET Setting,
              lists : [Kind -> List]]
FileEntry == [settings : SUBSET Setting, points : SUBSET Point,
              named : BOOLEAN]  \* the file's item has a list of points

Command ==
    [op : Op, kind : Kind, asset : Asset, device : Device, endpoint : Endpoint,
     type : Type, detect : BOOLEAN,   \* type is read from the endpoint
     item : Item, points : SUBSET Point, settings : SUBSET Setting,
     replace : BOOLEAN,  \* --replace; for media, another task type
     file : [Item -> FileEntry \cup {None}],
     config : ConfigFile \cup {None},
     version : Nat \cup {None}, skipCheck : BOOLEAN]  \* of an endpoint

(* The types there are commands for; the others take the type of the endpoint.*)
TypesFor(op, kind) ==
    IF op \in AssetOp \cup DeviceOp THEN Type
    ELSE IF op = "addPoint" /\ kind = "datasets" THEN {"custom", "opcua"}
    ELSE CASE kind = "datasets"         -> {"custom", "opcua", "rest", "sse", "mqtt"}
           [] kind = "eventGroups"      -> {"custom", "opcua", "onvif", "sse"}
           [] kind = "managementGroups" -> {"custom", "opcua", "onvif"}
           [] kind = "streams"          -> {"custom", "media"}

Offered(c) ==
    /\ c.detect \/ c.op \in DevicelessOp \/ c.type \in TypesFor(c.op, c.kind)
    /\ c.config # None => c.detect
    /\ c.type = "onvif" /\ c.op \in AssetOp /\ ~c.detect => c.settings = {}

ASSUME WorkloadAssumption ==
    Workloads \subseteq [commands : [Session -> SUBSET Command],
                         devices : [Device -> Inbound \cup {None}],
                         assets : [Asset -> AssetBody \cup {None}],
                         templates : Seq(ConnectorTemplate)]
ASSUME OfferedAssumption ==
    \A w \in Workloads, s \in Session : \A c \in w.commands[s] : Offered(c)
ASSUME NoneAssumption ==
    /\ None \notin Entry /\ None \notin Inbound /\ None \notin AssetBody
    /\ None \notin Command /\ None \notin FileEntry
    /\ Absent # Null
ASSUME NameAssumption == Asset \cap Device = {}

VARIABLES
    devices,    \* [Device -> its inbound endpoints, or None]
    assets,     \* [Asset -> its properties, or None]
    work,       \* the workload
    pc,         \* the next step of each process
    cmd,        \* its command
    seen,       \* the asset it read
    listed,     \* the endpoints it read
    disturbed   \* whether another process has since written what it works on

vars == <<devices, assets, work, pc, cmd, seen, listed, disturbed>>

Step == {"showAsset", "getDevice", "getAsset", "validate", "showDevice", "write",
         "showResult"}

TypeOK ==
    /\ devices \in [Device -> Inbound \cup {None}]
    /\ assets \in [Asset -> AssetBody \cup {None}]
    /\ work \in Workloads
    /\ pc \in [Session -> Step \cup {"idle"}]
    /\ cmd \in [Session -> Command \cup {None}]
    /\ seen \in [Session -> AssetBody \cup {None}]
    /\ listed \in [Session -> Inbound \cup {None}]
    /\ disturbed \in [Session -> BOOLEAN]

NoItems     == [i \in Item |-> None]
NoEndpoints == [e \in Endpoint |-> Absent]

Init ==
    /\ work \in Workloads
    /\ devices = work.devices
    /\ assets = work.assets
    /\ pc = [s \in Session |-> "idle"]
    /\ cmd = [s \in Session |-> None]
    /\ seen = [s \in Session |-> None]
    /\ listed = [s \in Session |-> None]
    /\ disturbed = [s \in Session |-> FALSE]

-------------------------------------------------------------------------------
(* Processes *)

At(s, step) == pc[s] = step

(* What a command's copy is of: a property of an asset or of a device.      *)
Works(c) ==
    CASE c.op \in ItemOp -> {<<c.asset, c.kind>>}
      [] c.op \in {"updateAsset", "updateAssetByType"} -> {<<c.asset, "defaults">>}
      [] c.op = "createAssetByType" -> {c.asset} \X (Kind \cup {"defaults"})
      [] c.op \in EndpointOp -> {<<c.device, "inbound">>}
      [] OTHER -> {}

Goto(s, step) ==
    /\ pc' = [pc EXCEPT ![s] = step]
    /\ UNCHANGED <<work, cmd>>

Finish(s) ==
    /\ pc' = [pc EXCEPT ![s] = "idle"]
    /\ cmd' = [cmd EXCEPT ![s] = None]
    /\ seen' = [seen EXCEPT ![s] = None]
    /\ listed' = [listed EXCEPT ![s] = None]
    /\ disturbed' = [disturbed EXCEPT ![s] = FALSE]
    /\ UNCHANGED work

(* A check refuses, a call raises, or the process is killed.                *)
Fail(s) ==
    /\ pc[s] # "idle"
    /\ Finish(s)
    /\ UNCHANGED <<devices, assets>>

Run(s, op, types, kinds, detect, first) ==
    /\ At(s, "idle")
    /\ \E c \in work.commands[s] :
          /\ c.op = op /\ c.type \in types /\ c.kind \in kinds /\ c.detect = detect
          /\ cmd' = [cmd EXCEPT ![s] = c]
    /\ pc' = [pc EXCEPT ![s] = first]
    /\ UNCHANGED <<devices, assets, work, seen, listed, disturbed>>

(* The service has taken what s sent; touched are the properties it changed.*)
Wrote(s, touched, next) ==
    /\ pc' = [pc EXCEPT ![s] = next]
    /\ disturbed' = [t \in Session |->
          disturbed[t] \/ (t # s /\ cmd[t] # None /\ Works(cmd[t]) \cap touched # {})]
    /\ UNCHANGED <<work, cmd, seen, listed>>

-------------------------------------------------------------------------------
(* The lists *)

(* What each type's commands make of the settings of an item: some take the *)
(* named ones into what they read, media start anew when the task changes,  *)
(* custom settings are replaced.                                            *)
OpcuaDatasetConfiguration(original, given) == original \cup given
OpcuaEventConfiguration(original, given)   == original \cup given
RestDatasetConfiguration(original, given)  == original \cup given
MediaStreamConfiguration(original, given, retask) ==
    IF retask THEN given ELSE original \cup given
CustomConfiguration(original, given) == IF given = {} THEN original ELSE given

(* Destinations are replaced by those that are given.                       *)
Destinations(old, given) ==
    IF given \cap Destination = {} THEN old \cap Destination
    ELSE given \cap Destination

(* The event groups' OPC UA settings are read under a key that an event     *)
(* group does not have, so there is nothing to take the named ones into.    *)
Configured(c, old, given) ==
    CASE c.type = "opcua" /\ c.kind = "datasets" ->
            OpcuaDatasetConfiguration(old, given)
      [] c.type = "opcua" /\ c.kind = "eventGroups" ->
            OpcuaEventConfiguration({}, given)
      [] c.type = "media" -> MediaStreamConfiguration(old, given, c.replace)
      [] c.type = "rest"  -> RestDatasetConfiguration(old, given)
      [] \/ c.type = "onvif"
         \/ c.type = "opcua" /\ c.kind \notin {"datasets", "eventGroups"} -> old
      [] OTHER -> CustomConfiguration(old, given)

Merged(c, old) ==
    IF c.detect
    THEN IF c.config = None THEN old ELSE Loaded(c.config, c.kind, old)
    ELSE Configured(c, old \ Destination, c.settings \ Destination)
         \cup Destinations(old, c.settings)

(* The same for the defaults of an asset; media streams' are passed on      *)
(* under a name their function does not take.                               *)
MergedDefaults(c, old) ==
    IF c.detect
    THEN IF c.config = None THEN old ELSE Loaded(c.config, "asset", old)
    ELSE Configured([c EXCEPT !.kind = "datasets"],
                    IF c.type = "media" THEN {} ELSE old \ Destination,
                    c.settings \ Destination)
         \cup Destinations(old, c.settings)

(* The imported item keeps its actions when the file does not name any.     *)
Imported(c, i, old) ==
    [settings |-> c.file[i].settings,
     points   |-> IF c.file[i].named THEN c.file[i].points
                  ELSE IF c.kind = "managementGroups" /\ old # None THEN old.points
                  ELSE {}]

ImportedList(c, list) ==
    [i \in Item |->
        IF c.file[i] # None /\ (list[i] = None \/ c.replace)
        THEN Imported(c, i, list[i]) ELSE list[i]]

NewUnlessThere(c, old) ==   \* mutant: what is replaced is dropped and not added
    IF old = None THEN [settings |-> Merged(c, {}), points |-> {}] ELSE None

NewItem(c, old) == [settings |-> Merged(c, {}), points |-> {}]

Edited(c, list) ==
    CASE c.op = "addItem"      -> [list EXCEPT ![c.item] = NewItem(c, @)]
      [] c.op = "updateItem"   -> [list EXCEPT ![c.item].settings = Merged(c, @)]
      [] c.op = "removeItem"   -> [list EXCEPT ![c.item] = None]
      [] c.op = "importItems"  -> ImportedList(c, list)
      [] c.op = "removePoint"  -> [list EXCEPT ![c.item].points = @ \ c.points]
      [] OTHER                 -> [list EXCEPT ![c.item].points = @ \cup c.points]

(* The conditions, on the list that was read, under which it is sent.       *)
Sends(c, list) ==
    CASE c.op = "addItem"     -> list[c.item] = None \/ c.replace
      [] c.op = "importItems" -> TRUE
      [] c.op = "addPoint"    -> /\ list[c.item] # None
                                 /\ c.points \cap list[c.item].points = {} \/ c.replace
      [] c.op = "removePoint" -> /\ list[c.item] # None
                                 /\ c.points \cap list[c.item].points # {}
      [] OTHER                -> list[c.item] # None

(* Commands that look for the item in the asset they read last.             *)
LooksUp(c) == c.op \in ItemOp \ {"removeItem", "importItems"}

-------------------------------------------------------------------------------
(* Steps *)

(* The next step after what was read, if the checks on it pass.             *)
Checked(s, holds) == holds /\ Goto(s, "write")

SectionOf(c) ==
    IF c.op # "addPoint" THEN c.kind
    ELSE CASE c.kind = "datasets"    -> "dataPoints"
           [] c.kind = "eventGroups" -> "events"
           [] OTHER                  -> "actions"

(* The type of an endpoint that is there                                    *)
ConnectorType(device, endpoint) ==
    IF devices[device] = None THEN "absent" ELSE devices[device][endpoint].type

(* An asset's type and its endpoint's have to agree unless one of them is   *)
(* not built in.                                                            *)
CheckDeviceProps(c, device, endpoint) ==
    LET have == ConnectorType(device, endpoint)
    IN  have \in Type /\ (have = c.type \/ {have, c.type} \ Builtin # {})

(* detect: the command's type is the endpoint's own, and its connector has  *)
(* to have what the command is about.                                       *)
ConnectorSupports(c, device, endpoint) ==
    LET have == ConnectorType(device, endpoint)
    IN  have \in Type /\ Supports(MetadataFor(work.templates, have), SectionOf(c))

ConfigAccepted(c, type) ==
    LET metadata == MetadataFor(work.templates, type)
    IN  c.config # None =>
          IF c.op \in AssetOp THEN AssetConfigAccepted(c.config, type, metadata)
          ELSE CASE SectionOf(c) = "datasets"    -> DatasetConfigAccepted(c.config, type, metadata)
                 [] SectionOf(c) = "dataPoints"  -> DatapointConfigAccepted(c.config, type, metadata)
                 [] SectionOf(c) = "eventGroups" -> EventGroupConfigAccepted(c.config, type, metadata)
                 [] SectionOf(c) = "events"      -> EventConfigAccepted(c.config, type, metadata)
                 [] SectionOf(c) = "streams"     -> StreamConfigAccepted(c.config, type, metadata)
                 [] OTHER -> ManagementConfigAccepted(c.config, type, metadata,
                                                      SectionOf(c) = "actions")

Backed(c, device, endpoint) ==
    IF c.detect
    THEN /\ c.op \in AssetOp \/ ConnectorSupports(c, device, endpoint)
         /\ ConnectorType(device, endpoint) \in Type
         /\ ConfigAccepted(c, ConnectorType(device, endpoint))
    ELSE CheckDeviceProps(c, device, endpoint)

(* Which commands show the validator what they are about to send            *)
Validates(c) ==
    /\ ~c.detect
    /\ \/ c.op \in {"addItem", "updateItem"} /\ c.kind = "datasets"
       \/ c.op = "importItems" /\ c.kind \in {"datasets", "eventGroups"}

ShowAsset(s) ==
    /\ At(s, "showAsset")
    /\ LET c == cmd[s]
           a == assets[c.asset]
       IN  /\ a # None
           /\ seen' = [seen EXCEPT ![s] = a]
           /\ IF c.op \in DevicelessOp
              THEN /\ Sends(c, a.lists[c.kind])
                   /\ Goto(s, IF Validates(c) THEN "validate" ELSE "write")
              ELSE Goto(s, "getDevice")
    /\ disturbed' = [disturbed EXCEPT ![s] = FALSE]
    /\ UNCHANGED <<devices, assets, listed>>

GetDevice(s) ==
    /\ At(s, "getDevice")
    /\ LET c == cmd[s]
           a == seen[s]
       IN  \/ /\ c.op \in ItemOp
              /\ Backed(c, a.device, a.endpoint)
              /\ Sends(c, a.lists[c.kind])
              /\ listed' = [listed EXCEPT ![s] = devices[a.device]]
              /\ Goto(s, IF Validates(c) THEN "validate" ELSE "write")
           \/ /\ c.op \in {"updateAsset", "updateAssetByType"}
              /\ Backed(c, a.device, a.endpoint)
              /\ listed' = [listed EXCEPT ![s] = devices[a.device]]
              /\ Goto(s, "write")
           \/ /\ c.op = "createAsset"
              /\ Backed(c, c.device, c.endpoint)
              /\ listed' = [listed EXCEPT ![s] = devices[c.device]]
              /\ Goto(s, "write")
           \/ /\ c.op = "createAssetByType"
              /\ CheckDeviceProps(c, c.device, c.endpoint)
              /\ listed' = [listed EXCEPT ![s] = devices[c.device]]
              /\ Goto(s, "getAsset")
    /\ UNCHANGED <<devices, assets, seen, disturbed>>

AnyAsset(a) == TRUE   \* mutant: an asset that is there is not noticed

(* "Fail if asset already exists."                                          *)
MayCreate(a) == assets[a] = None

GetAsset(s) ==
    /\ At(s, "getAsset")
    /\ MayCreate(cmd[s].asset)
    /\ ConfigAccepted(cmd[s], cmd[s].type)
    /\ disturbed' = [disturbed EXCEPT ![s] = FALSE]
    /\ Goto(s, "write")
    /\ UNCHANGED <<devices, assets, seen, listed>>

(* The validator reads the device again, and lets everything pass when it   *)
(* does not find the endpoint or metadata.                                  *)
ValidatorFromAsset(a) ==
    IF ConnectorType(a.device, a.endpoint) \notin Type THEN None
    ELSE ValidatorMetadata(work.templates, devices[a.device][a.endpoint])

(* An import shows it the whole list.                                       *)
Validate(s) ==
    /\ At(s, "validate")
    /\ LET c == cmd[s]
           a == seen[s]
           list == Edited(c, a.lists[c.kind])
           shown == IF c.op = "importItems" THEN Item ELSE {c.item}
           metadata == ValidatorFromAsset(a)
       IN  Checked(s, \A i \in shown : list[i] # None =>
              IF c.kind = "datasets" THEN ValidDataset(metadata, list[i].settings)
              ELSE ValidEventGroup(metadata, list[i].settings))
    /\ UNCHANGED <<devices, assets, seen, listed, disturbed>>

(* An endpoint's --endpoint-config and its connector are looked at before   *)
(* the device is read.                                                      *)
ConnectorResolved(c) ==
    c.detect =>
      /\ c.skipCheck => c.config = None
      /\ c.type = "opcua" \/ c.skipCheck
           \/ TemplateForType(work.templates, c.type, BOOLEAN) # None
      /\ c.config # None => EndpointConfigAccepted(c.config, c.type, work.templates)

ShowDevice(s) ==
    /\ At(s, "showDevice")
    /\ LET c == cmd[s]
       IN  /\ devices[c.device] # None
           /\ listed' = [listed EXCEPT ![s] = devices[c.device]]
           /\ Checked(s, c.op = "removeEndpoint"
                         \/ /\ ConnectorResolved(c)
                            /\ c.replace \/ devices[c.device][c.endpoint] = Absent)
    /\ disturbed' = [disturbed EXCEPT ![s] = FALSE]
    /\ UNCHANGED <<devices, assets, seen>>

WholeBody(s, a) ==   \* mutant: the asset is sent back as it was read
    LET c == cmd[s]
    IN  [seen[s] EXCEPT !.lists[c.kind] = Edited(c, @)]

(* PATCH of one list of the asset                                           *)
ListPatch(s, a) ==
    LET c == cmd[s]
    IN  [a EXCEPT !.lists[c.kind] = Edited(c, seen[s].lists[c.kind])]

PatchList(s) ==
    /\ At(s, "write")
    /\ LET c == cmd[s]
       IN  /\ c.op \in ItemOp
           /\ assets[c.asset] # None
           /\ assets' = [assets EXCEPT ![c.asset] = ListPatch(s, @)]
           /\ Wrote(s, {<<c.asset, c.kind>>}, "showResult")
    /\ UNCHANGED devices

PatchAsset(s) ==
    /\ At(s, "write")
    /\ LET c == cmd[s]
       IN  /\ c.op \in {"updateAsset", "updateAssetByType"}
           /\ assets[c.asset] # None
           /\ assets' = [assets EXCEPT ![c.asset].defaults =
                                           MergedDefaults(c, seen[s].defaults)]
           /\ Wrote(s, {<<c.asset, "defaults">>}, "showResult")
    /\ UNCHANGED devices

Whole(a) == {a} \X (Kind \cup {"defaults"})

(* PUT: an asset that is there is replaced.                                 *)
PutAsset(s) ==
    /\ At(s, "write")
    /\ LET c == cmd[s]
       IN  /\ c.op \in {"createAsset", "createAssetByType"}
           /\ assets' = [assets EXCEPT ![c.asset] =
                 [device |-> c.device, endpoint |-> c.endpoint,
                  defaults |-> MergedDefaults(c, {}), lists |-> [k \in Kind |-> NoItems]]]
           /\ Wrote(s, Whole(c.asset), "showResult")
    /\ UNCHANGED devices

DropAsset(s) ==
    /\ At(s, "write")
    /\ LET c == cmd[s]
       IN  /\ c.op = "deleteAsset"
           /\ assets' = [assets EXCEPT ![c.asset] = None]
           /\ Wrote(s, Whole(c.asset), "showResult")
    /\ UNCHANGED devices

(* A merge patch of the endpoints: what is not sent stays, a null removes,  *)
(* and what is removed may still be listed with a null for a body.          *)
Patched(current, sent, gone) ==
    [e \in Endpoint |-> CASE sent[e] = Absent -> current[e]
                         [] sent[e] = Null   -> gone
                         [] OTHER            -> sent[e]]

(* A typed command asks for the version of its kind of registry; apply does *)
(* for an endpoint that is not OPC UA's, as a command that is not custom.   *)
NewEndpoint(c) ==
    [type |-> c.type,
     version |-> IF c.version # None \/ c.skipCheck THEN c.version
                 ELSE IF c.detect /\ c.type = "opcua" THEN None
                 ELSE EndpointVersion(work.templates, c.type,
                                      ~c.detect /\ c.type = "custom")]

SentAll(c, read) ==   \* mutant: remove sends a null for every endpoint
    IF c.op = "addEndpoint" THEN [read EXCEPT ![c.endpoint] = NewEndpoint(c)]
    ELSE [e \in Endpoint |-> IF read[e] # Absent THEN Null ELSE Absent]

(* add sends all it read and the new one, remove only what is to go.        *)
Sent(c, read) ==
    IF c.op = "addEndpoint" THEN [read EXCEPT ![c.endpoint] = NewEndpoint(c)]
    ELSE [e \in Endpoint |->
            IF read[e] = Null \/ (e = c.endpoint /\ read[e] # Absent)
            THEN Null ELSE Absent]

PatchEndpoints(s) ==
    /\ At(s, "write")
    /\ LET c == cmd[s]
       IN  /\ c.op \in EndpointOp
           /\ devices[c.device] # None
           /\ \E gone \in {Absent, Null} :
                 devices' = [devices EXCEPT ![c.device] =
                                Patched(@, Sent(c, listed[s]), gone)]
           /\ Wrote(s, {<<c.device, "inbound">>}, "showResult")
    /\ UNCHANGED assets

PutDevice(s) ==
    /\ At(s, "write")
    /\ LET c == cmd[s]
       IN  /\ c.op = "createDevice"
           /\ devices' = [devices EXCEPT ![c.device] = NoEndpoints]
           /\ Wrote(s, {<<c.device, "inbound">>}, "showResult")
    /\ UNCHANGED assets

(* PATCH of attributes, tags, whether it is enabled: not of its endpoints.  *)
PatchDevice(s) ==
    /\ At(s, "write")
    /\ LET c == cmd[s]
       IN  /\ c.op = "updateDevice"
           /\ devices[c.device] # None
           /\ Wrote(s, {}, "showResult")
    /\ UNCHANGED <<devices, assets>>

(* Nothing looks for assets that refer to it.                               *)
DropDevice(s) ==
    /\ At(s, "write")
    /\ LET c == cmd[s]
       IN  /\ c.op = "deleteDevice"
           /\ devices' = [devices EXCEPT ![c.device] = None]
           /\ Wrote(s, {<<c.device, "inbound">>}, "showResult")
    /\ UNCHANGED assets

ShowResult(s) ==
    /\ At(s, "showResult")
    /\ Finish(s)
    /\ UNCHANGED <<devices, assets>>

-------------------------------------------------------------------------------
(* Commands *)

RunItem(s, op, kind, detect) == Run(s, op, Type, {kind}, detect, "showAsset")

AddDataset(s)                          == RunItem(s, "addItem", "datasets", FALSE)
AddDatasetGeneralized(s)               == RunItem(s, "addItem", "datasets", TRUE)
UpdateDataset(s)                       == RunItem(s, "updateItem", "datasets", FALSE)
UpdateDatasetGeneralized(s)            == RunItem(s, "updateItem", "datasets", TRUE)
RemoveDataset(s)                       == RunItem(s, "removeItem", "datasets", FALSE)
ImportDatasets(s)                      == RunItem(s, "importItems", "datasets", FALSE)
AddDatasetDatapoint(s)                 == RunItem(s, "addPoint", "datasets", FALSE)
AddDatasetDatapointGeneralized(s)      == RunItem(s, "addPoint", "datasets", TRUE)
RemoveDatasetDatapoint(s)              == RunItem(s, "removePoint", "datasets", FALSE)
ImportDatasetDatapoints(s)             == RunItem(s, "importPoints", "datasets", FALSE)
AddEventGroup(s)                       == RunItem(s, "addItem", "eventGroups", FALSE)
AddEventGroupGeneralized(s)            == RunItem(s, "addItem", "eventGroups", TRUE)
UpdateEventGroup(s)                    == RunItem(s, "updateItem", "eventGroups", FALSE)
UpdateEventGroupGeneralized(s)         == RunItem(s, "updateItem", "eventGroups", TRUE)
RemoveEventGroup(s)                    == RunItem(s, "removeItem", "eventGroups", FALSE)
ImportEventGroups(s)                   == RunItem(s, "importItems", "eventGroups", FALSE)
AddEventGroupEvent(s)                  == RunItem(s, "addPoint", "eventGroups", FALSE)
AddEventGroupEventGeneralized(s)       == RunItem(s, "addPoint", "eventGroups", TRUE)
RemoveEventGroupEvent(s)               == RunItem(s, "removePoint", "eventGroups", FALSE)
ImportEventGroupEvents(s)              == RunItem(s, "importPoints", "eventGroups", FALSE)
AddManagementGroup(s)                  == RunItem(s, "addItem", "managementGroups", FALSE)
AddManagementGroupGeneralized(s)       == RunItem(s, "addItem", "managementGroups", TRUE)
UpdateManagementGroup(s)               == RunItem(s, "updateItem", "managementGroups", FALSE)
UpdateManagementGroupGeneralized(s)    == RunItem(s, "updateItem", "managementGroups", TRUE)
RemoveManagementGroup(s)               == RunItem(s, "removeItem", "managementGroups", FALSE)
ImportManagementGroups(s)              == RunItem(s, "importItems", "managementGroups", FALSE)
AddManagementGroupAction(s)            == RunItem(s, "addPoint", "managementGroups", FALSE)
AddManagementGroupActionGeneralized(s) == RunItem(s, "addPoint", "managementGroups", TRUE)
RemoveManagementGroupAction(s)         == RunItem(s, "removePoint", "managementGroups", FALSE)
ImportManagementGroupActions(s)        == RunItem(s, "importPoints", "managementGroups", FALSE)
AddStream(s)                           == RunItem(s, "addItem", "streams", FALSE)
AddStreamGeneralized(s)                == RunItem(s, "addItem", "streams", TRUE)
UpdateStream(s)                        == RunItem(s, "updateItem", "streams", FALSE)
UpdateStreamGeneralized(s)             == RunItem(s, "updateItem", "streams", TRUE)
RemoveStream(s)                        == RunItem(s, "removeItem", "streams", FALSE)
ImportStreams(s)                       == RunItem(s, "importItems", "streams", FALSE)
CreateAsset(s, type) == Run(s, "createAsset", {type}, Kind, FALSE, "getDevice")
UpdateAsset(s, type) == Run(s, "updateAsset", {type}, Kind, FALSE, "showAsset")
AddInboundEndpoint(s, type) ==
    Run(s, "addEndpoint", {type}, Kind, FALSE, "showDevice")

CreateCustomAsset(s) == CreateAsset(s, "custom")
CreateMediaAsset(s) == CreateAsset(s, "media")
CreateOnvifAsset(s) == CreateAsset(s, "onvif")
CreateOpcuaAsset(s) == CreateAsset(s, "opcua")
CreateRestAsset(s) == CreateAsset(s, "rest")
CreateSseAsset(s) == CreateAsset(s, "sse")
CreateMqttAsset(s) == CreateAsset(s, "mqtt")
UpdateCustomAsset(s) == UpdateAsset(s, "custom")
UpdateMediaAsset(s) == UpdateAsset(s, "media")
UpdateOnvifAsset(s) == UpdateAsset(s, "onvif")
UpdateOpcuaAsset(s) == UpdateAsset(s, "opcua")
UpdateRestAsset(s) == UpdateAsset(s, "rest")
UpdateSseAsset(s) == UpdateAsset(s, "sse")
UpdateMqttAsset(s) == UpdateAsset(s, "mqtt")
AddInboundCustomEndpoint(s) == AddInboundEndpoint(s, "custom")
AddInboundMediaEndpoint(s) == AddInboundEndpoint(s, "media")
AddInboundOnvifEndpoint(s) == AddInboundEndpoint(s, "onvif")
AddInboundOpcuaEndpoint(s) == AddInboundEndpoint(s, "opcua")
AddInboundRestEndpoint(s) == AddInboundEndpoint(s, "rest")
AddInboundSseEndpoint(s) == AddInboundEndpoint(s, "sse")
AddInboundMqttEndpoint(s) == AddInboundEndpoint(s, "mqtt")

CreateAssetByConnectorType(s) ==
    Run(s, "createAssetByType", Type, Kind, TRUE, "getDevice")
UpdateAssetByConnectorType(s) ==
    Run(s, "updateAssetByType", Type, Kind, TRUE, "showAsset")
DeleteAsset(s)           == Run(s, "deleteAsset", Type, Kind, FALSE, "write")
CreateDevice(s)          == Run(s, "createDevice", Type, Kind, FALSE, "write")
UpdateDevice(s)          == Run(s, "updateDevice", Type, Kind, FALSE, "write")
DeleteDevice(s)          == Run(s, "deleteDevice", Type, Kind, FALSE, "write")
ApplyInboundEndpoint(s)  == Run(s, "addEndpoint", Type, Kind, TRUE, "showDevice")
InboundRemoveEndpoint(s) == Run(s, "removeEndpoint", Type, Kind, FALSE, "showDevice")

UpdateDatasetCommand(s) ==
    UpdateDataset(s) \/ RemoveDataset(s) \/ ImportDatasets(s)

DatasetCommand(s) == AddDataset(s) \/ UpdateDatasetCommand(s)

DatapointCommand(s) ==
    AddDatasetDatapoint(s) \/ RemoveDatasetDatapoint(s) \/ ImportDatasetDatapoints(s)

UpdateEventGroupCommand(s) ==
    UpdateEventGroup(s) \/ RemoveEventGroup(s) \/ ImportEventGroups(s)

EventGroupCommand(s) == AddEventGroup(s) \/ UpdateEventGroupCommand(s)

EventCommand(s) ==
    AddEventGroupEvent(s) \/ RemoveEventGroupEvent(s) \/ ImportEventGroupEvents(s)

UpdateManagementGroupCommand(s) ==
    UpdateManagementGroup(s) \/ RemoveManagementGroup(s) \/ ImportManagementGroups(s)

ManagementGroupCommand(s) ==
    AddManagementGroup(s) \/ UpdateManagementGroupCommand(s)

ActionCommand(s) ==
    \/ AddManagementGroupAction(s) \/ RemoveManagementGroupAction(s)
    \/ ImportManagementGroupActions(s)

UpdateStreamCommand(s) ==
    UpdateStream(s) \/ RemoveStream(s) \/ ImportStreams(s)

StreamCommand(s) == AddStream(s) \/ UpdateStreamCommand(s)

(* The commands that take the type from the endpoint                        *)
GeneralizedDatasetCommand(s) ==
    \/ AddDatasetGeneralized(s) \/ UpdateDatasetGeneralized(s)
    \/ AddDatasetDatapointGeneralized(s)

GeneralizedEventCommand(s) ==
    \/ AddEventGroupGeneralized(s) \/ UpdateEventGroupGeneralized(s)
    \/ AddEventGroupEventGeneralized(s)

GeneralizedManagementCommand(s) ==
    \/ AddManagementGroupGeneralized(s) \/ UpdateManagementGroupGeneralized(s)
    \/ AddManagementGroupActionGeneralized(s)

GeneralizedStreamCommand(s) == AddStreamGeneralized(s) \/ UpdateStreamGeneralized(s)

CreateAssetCommand(s) ==
    \/ CreateCustomAsset(s) \/ CreateMediaAsset(s) \/ CreateOnvifAsset(s)
    \/ CreateOpcuaAsset(s) \/ CreateRestAsset(s) \/ CreateSseAsset(s)
    \/ CreateMqttAsset(s) \/ CreateAssetByConnectorType(s)

UpdateAssetCommand(s) ==
    \/ UpdateCustomAsset(s) \/ UpdateMediaAsset(s) \/ UpdateOnvifAsset(s)
    \/ UpdateOpcuaAsset(s) \/ UpdateRestAsset(s) \/ UpdateSseAsset(s)
    \/ UpdateMqttAsset(s) \/ UpdateAssetByConnectorType(s)

DeviceCommand(s) == CreateDevice(s) \/ UpdateDevice(s) \/ DeleteDevice(s)

EndpointCommand(s) ==
    \/ AddInboundCustomEndpoint(s) \/ AddInboundMediaEndpoint(s)
    \/ AddInboundOnvifEndpoint(s) \/ AddInboundOpcuaEndpoint(s)
    \/ AddInboundRestEndpoint(s) \/ AddInboundSseEndpoint(s)
    \/ AddInboundMqttEndpoint(s) \/ ApplyInboundEndpoint(s)
    \/ InboundRemoveEndpoint(s)

Begin(s) ==
    \/ DatasetCommand(s) \/ DatapointCommand(s)
    \/ EventGroupCommand(s) \/ EventCommand(s)
    \/ ManagementGroupCommand(s) \/ ActionCommand(s)
    \/ StreamCommand(s) \/ DeleteAsset(s)
    \/ GeneralizedDatasetCommand(s) \/ GeneralizedEventCommand(s)
    \/ GeneralizedManagementCommand(s) \/ GeneralizedStreamCommand(s)
    \/ CreateAssetCommand(s) \/ UpdateAssetCommand(s)
    \/ DeviceCommand(s) \/ EndpointCommand(s)

Continue(s) ==
    \/ ShowAsset(s) \/ GetDevice(s) \/ GetAsset(s) \/ Validate(s)
    \/ ShowDevice(s) \/ PatchDevice(s)
    \/ PatchList(s) \/ PatchAsset(s) \/ PutAsset(s) \/ DropAsset(s)
    \/ PatchEndpoints(s) \/ PutDevice(s) \/ DropDevice(s)
    \/ ShowResult(s) \/ Fail(s)

Next == \E s \in Session : Begin(s) \/ Continue(s)

Spec == Init /\ [][Next]_vars

-------------------------------------------------------------------------------
(* Properties *)

Entries(a, k, i) == assets[a] # None /\ assets[a].lists[k][i] # None

(* The process whose write this step is.                                    *)
Writes(s) == At(s, "write") /\ pc'[s] = "showResult"

(* What a command is asked to take away: the item or points it names, or    *)
(* what it is asked to replace.                                             *)
AsksFor(c, a, k, i) ==
    /\ c.asset = a
    /\ \/ c.op \in {"createAsset", "deleteAsset"}
       \/ /\ c.kind = k
          /\ \/ c.op \in {"removeItem", "removePoint"} /\ c.item = i
             \/ c.op = "addItem" /\ c.replace /\ c.item = i
             \/ /\ c.op = "importItems" /\ c.replace /\ c.file[i] # None
                /\ k = "managementGroups" => c.file[i].named

(* A dataset, group, stream or a point of one disappears only when a        *)
(* command was asked to take it away or to replace it, or when two commands *)
(* worked on the same list at once (the whole list is sent back): never as  *)
(* a side effect of adding, updating or importing another, and never        *)
(* because an asset is created that is there (create_asset_by_connector_    *)
(* type, "create does not upsert") or a management group imported ("Existing*)
(* actions are preserved"), or by a command on another list of the asset.   *)
NothingLost ==
    [][\A a \in Asset, k \in Kind, i \in Item :
          Entries(a, k, i) /\ ~(Entries(a, k, i)' /\
                assets[a].lists[k][i].points \subseteq assets'[a].lists[k][i].points)
          => \E s \in Session :
                /\ Writes(s)
                /\ \/ AsksFor(cmd[s], a, k, i)
                   \/ disturbed[s] /\ <<a, k>> \in Works(cmd[s])]_vars

(* "Multiple matches - pick the one with the latest tag version"            *)
(* (get_connector_template_for_type): the settings an item gets from a      *)
(* configuration file are accepted by the latest connector of the instance  *)
(* for the endpoint the asset refers to, however many templates there are   *)
(* and in whatever order they are listed, as long as the endpoint is the    *)
(* one the command has read and all the tags are versions.                  *)
SettingsFit ==
    [][\A s \in Session :
          LET c        == cmd[s]
              type     == listed[s][seen[s].endpoint].type
              Of       == {i \in DOMAIN work.templates : work.templates[i].type = type}
              Tag(i)   == work.templates[i].tag
              given    == c.config.settings
                          \cap assets'[c.asset].lists[c.kind][c.item].settings
          IN  /\ PatchList(s) /\ c.detect /\ c.config # None
              /\ c.op \in {"addItem", "updateItem"}
              /\ devices[seen[s].device] = listed[s]
              /\ type # "opcua" /\ \A i \in Of : Tag(i) # None
              => \A i \in Of :
                    (\A j \in Of : Tag(j) < Tag(i) \/ (Tag(j) = Tag(i) /\ i <= j))
                    => /\ work.templates[i].metadata # None
                       /\ Fits(given, work.templates[i].metadata.schema[c.kind])]_vars

(* "was not found in asset after update": a command finds the item it has   *)
(* written, unless another process wrote the list, or removed the asset, in *)
(* between.                                                                 *)
FoundUnlessDisturbed ==
    \A s \in Session :
        At(s, "showResult") /\ LooksUp(cmd[s]) /\ ~disturbed[s]
        => Entries(cmd[s].asset, cmd[s].kind, cmd[s].item)

(* An inbound endpoint appears, disappears or changes its type only when a  *)
(* command names it, its device is created or deleted, or two commands      *)
(* worked on the device's endpoints at once (add sends all those it read,   *)
(* and brings one back that was removed meanwhile).                         *)
EndpointsKept ==
    [][\A d \in Device, e \in Endpoint :
          /\ devices[d] # None /\ devices'[d] # None
          /\ {devices[d][e].type, devices'[d][e].type} \cap Type # {}
          /\ devices[d][e] # devices'[d][e]
          => \E s \in Session :
                /\ Writes(s) /\ cmd[s].device = d
                /\ disturbed[s] \/ cmd[s].op = "createDevice" \/ cmd[s].endpoint = e]_vars

(* _process_configs: only "destination and custom configuration arguments   *)
(* will be treated as an overwrite rather than update": an update of an     *)
(* OPC UA event group that nobody disturbs keeps the settings it does not   *)
(* name.                                                                    *)
EventSettingsKept ==
    [][\A s \in Session, a \in Asset, i \in Item :
          /\ PatchList(s) /\ ~disturbed[s]
          /\ cmd[s].op = "updateItem" /\ cmd[s].kind = "eventGroups"
          /\ cmd[s].type = "opcua" /\ ~cmd[s].detect
          /\ cmd[s].asset = a /\ cmd[s].item = i /\ Entries(a, "eventGroups", i)
          => assets[a].lists["eventGroups"][i].settings
               \subseteq assets'[a].lists["eventGroups"][i].settings]_vars
================================================================================
