------------------------- MODULE NamespaceAssetsProofs -------------------------
(* Theorems about NamespaceAssets, for every number of processes, assets and   *)
(* items, whatever commands they are given and wherever they are killed.       *)
EXTENDS NamespaceAssets, WellFoundedInduction, TLAPS

USE DEF At, vars

-------------------------------------------------------------------------------
(* How a command begins                                                        *)

FirstStep(op) ==
    CASE op \in ItemOp \cup {"updateAsset", "updateAssetByType"} -> "showAsset"
      [] op \in {"createAsset", "createAssetByType"} -> "getDevice"
      [] op \in EndpointOp -> "showDevice"
      [] OTHER -> "write"

Starts(s) ==
    /\ At(s, "idle")
    /\ \E c \in work.commands[s] :
          /\ cmd' = [cmd EXCEPT ![s] = c]
          /\ pc' = [pc EXCEPT ![s] = FirstStep(c.op)]
    /\ UNCHANGED <<devices, assets, work, seen, listed, disturbed>>

LEMMA RunStarts ==
  ASSUME NEW s \in Session, NEW op, NEW types, NEW kinds, NEW detect, NEW first,
         first = FirstStep(op), Run(s, op, types, kinds, detect, first)
  PROVE  Starts(s)
  BY DEF Run, Starts

LEMMA FirstSteps ==
  /\ \A op \in ItemOp : "showAsset" = FirstStep(op)
  /\ "showAsset" = FirstStep("updateAsset")
  /\ "showAsset" = FirstStep("updateAssetByType")
  /\ "getDevice" = FirstStep("createAsset")
  /\ "getDevice" = FirstStep("createAssetByType")
  /\ \A op \in EndpointOp : "showDevice" = FirstStep(op)
  /\ \A op \in {"deleteAsset", "createDevice", "updateDevice", "deleteDevice"} :
        "write" = FirstStep(op)
  BY DEF FirstStep, ItemOp, EndpointOp

LEMMA ItemStarts ==
  ASSUME NEW s \in Session, NEW op \in ItemOp, NEW kind, NEW detect,
         RunItem(s, op, kind, detect)
  PROVE  Starts(s)
  BY RunStarts, FirstSteps DEF RunItem

LEMMA EditStarts ==
  ASSUME NEW s \in Session,
         \/ DatasetCommand(s) \/ DatapointCommand(s)
         \/ EventGroupCommand(s) \/ EventCommand(s)
         \/ ManagementGroupCommand(s) \/ ActionCommand(s) \/ StreamCommand(s)
  PROVE  Starts(s)
  <1>1. CASE DatasetCommand(s)
    BY <1>1, ItemStarts DEF DatasetCommand, UpdateDatasetCommand, AddDataset,
       UpdateDataset, RemoveDataset, ImportDatasets, ItemOp
  <1>2. CASE DatapointCommand(s)
    BY <1>2, ItemStarts DEF DatapointCommand, AddDatasetDatapoint,
       RemoveDatasetDatapoint, ImportDatasetDatapoints, ItemOp
  <1>3. CASE EventGroupCommand(s)
    BY <1>3, ItemStarts DEF EventGroupCommand, UpdateEventGroupCommand, AddEventGroup,
       UpdateEventGroup, RemoveEventGroup, ImportEventGroups, ItemOp
  <1>4. CASE EventCommand(s)
    BY <1>4, ItemStarts DEF EventCommand, AddEventGroupEvent, RemoveEventGroupEvent,
       ImportEventGroupEvents, ItemOp
  <1>5. CASE ManagementGroupCommand(s)
    BY <1>5, ItemStarts DEF ManagementGroupCommand, UpdateManagementGroupCommand,
       AddManagementGroup, UpdateManagementGroup, RemoveManagementGroup,
       ImportManagementGroups, ItemOp
  <1>6. CASE ActionCommand(s)
    BY <1>6, ItemStarts DEF ActionCommand, AddManagementGroupAction,
       RemoveManagementGroupAction, ImportManagementGroupActions, ItemOp
  <1>7. CASE StreamCommand(s)
    BY <1>7, ItemStarts DEF StreamCommand, UpdateStreamCommand, AddStream,
       UpdateStream, RemoveStream, ImportStreams, ItemOp
  <1> QED BY <1>1, <1>2, <1>3, <1>4, <1>5, <1>6, <1>7

LEMMA GeneralizedStarts ==
  ASSUME NEW s \in Session,
         \/ GeneralizedDatasetCommand(s) \/ GeneralizedEventCommand(s)
         \/ GeneralizedManagementCommand(s) \/ GeneralizedStreamCommand(s)
  PROVE  Starts(s)
  <1>1. CASE GeneralizedDatasetCommand(s)
    BY <1>1, ItemStarts DEF GeneralizedDatasetCommand, AddDatasetGeneralized,
       UpdateDatasetGeneralized, AddDatasetDatapointGeneralized, ItemOp
  <1>2. CASE GeneralizedEventCommand(s)
    BY <1>2, ItemStarts DEF GeneralizedEventCommand, AddEventGroupGeneralized,
       UpdateEventGroupGeneralized, AddEventGroupEventGeneralized, ItemOp
  <1>3. CASE GeneralizedManagementCommand(s)
    BY <1>3, ItemStarts DEF GeneralizedManagementCommand,
       AddManagementGroupGeneralized, UpdateManagementGroupGeneralized,
       AddManagementGroupActionGeneralized, ItemOp
  <1>4. CASE GeneralizedStreamCommand(s)
    BY <1>4, ItemStarts DEF GeneralizedStreamCommand, AddStreamGeneralized,
       UpdateStreamGeneralized, ItemOp
  <1> QED BY <1>1, <1>2, <1>3, <1>4

LEMMA AssetStarts ==
  ASSUME NEW s \in Session,
         DeleteAsset(s) \/ CreateAssetCommand(s) \/ UpdateAssetCommand(s)
  PROVE  Starts(s)
  <1>1. CASE DeleteAsset(s)
    BY <1>1, RunStarts, FirstSteps DEF DeleteAsset
  <1>2. CASE CreateAssetCommand(s)
    <2>1. CASE CreateAssetByConnectorType(s)
      BY <2>1, RunStarts, FirstSteps DEF CreateAssetByConnectorType
    <2>2. CASE \E type : CreateAsset(s, type)
      BY <2>2, RunStarts, FirstSteps DEF CreateAsset
    <2> QED BY <1>2, <2>1, <2>2 DEF CreateAssetCommand, CreateCustomAsset,
          CreateMediaAsset, CreateOnvifAsset, CreateOpcuaAsset, CreateRestAsset,
          CreateSseAsset, CreateMqttAsset
  <1>3. CASE UpdateAssetCommand(s)
    <2>1. CASE UpdateAssetByConnectorType(s)
      BY <2>1, RunStarts, FirstSteps DEF UpdateAssetByConnectorType
    <2>2. CASE \E type : UpdateAsset(s, type)
      BY <2>2, RunStarts, FirstSteps DEF UpdateAsset
    <2> QED BY <1>3, <2>1, <2>2 DEF UpdateAssetCommand, UpdateCustomAsset,
          UpdateMediaAsset, UpdateOnvifAsset, UpdateOpcuaAsset, UpdateRestAsset,
          UpdateSseAsset, UpdateMqttAsset
  <1> QED BY <1>1, <1>2, <1>3

LEMMA DeviceStarts ==
  ASSUME NEW s \in Session, DeviceCommand(s) \/ EndpointCommand(s)
  PROVE  Starts(s)
  <1>1. CASE DeviceCommand(s)
    BY <1>1, RunStarts, FirstSteps
    DEF DeviceCommand, CreateDevice, UpdateDevice, DeleteDevice
  <1>2. CASE EndpointCommand(s)
    <2>1. CASE ApplyInboundEndpoint(s)
      BY <2>1, RunStarts, FirstSteps DEF ApplyInboundEndpoint, EndpointOp
    <2>2. CASE InboundRemoveEndpoint(s)
      BY <2>2, RunStarts, FirstSteps DEF InboundRemoveEndpoint, EndpointOp
    <2>3. CASE \E type : AddInboundEndpoint(s, type)
      BY <2>3, RunStarts, FirstSteps DEF AddInboundEndpoint, EndpointOp
    <2> QED BY <1>2, <2>1, <2>2, <2>3 DEF EndpointCommand, AddInboundCustomEndpoint,
          AddInboundMediaEndpoint, AddInboundOnvifEndpoint, AddInboundOpcuaEndpoint,
          AddInboundRestEndpoint, AddInboundSseEndpoint, AddInboundMqttEndpoint
  <1> QED BY <1>1, <1>2

(* Every command begins with its first step, and has changed nothing.          *)
LEMMA BeginStarts ==
  ASSUME NEW s \in Session, Begin(s)
  PROVE  Starts(s)
  BY EditStarts, GeneralizedStarts, AssetStarts, DeviceStarts DEF Begin

-------------------------------------------------------------------------------
(* The types of assets                                                         *)

AssetType ==
    /\ assets \in [Asset -> AssetBody \cup {None}]
    /\ work \in Workloads
    /\ pc \in [Session -> Step \cup {"idle"}]
    /\ cmd \in [Session -> Command \cup {None}]
    /\ seen \in [Session -> AssetBody \cup {None}]
    /\ disturbed \in [Session -> BOOLEAN]

(* What the step a process is at says of its command and of what it read.      *)
Progress(s) ==
    /\ ~At(s, "idle") => cmd[s] \in Command
    /\ At(s, "showAsset") => cmd[s].op \in ItemOp \cup {"updateAsset", "updateAssetByType"}
    /\ At(s, "getAsset") => cmd[s].op = "createAssetByType"
    /\ At(s, "showDevice") => cmd[s].op \in EndpointOp
    /\ At(s, "validate") => cmd[s].op \in ItemOp
    /\ At(s, "getDevice") \/ At(s, "validate") \/ At(s, "write")
          => (cmd[s].op \in ItemOp \cup {"updateAsset", "updateAssetByType"}
              => seen[s] \in AssetBody)
    /\ At(s, "validate") \/ At(s, "write")
          => (cmd[s].op \in ItemOp => Sends(cmd[s], seen[s].lists[cmd[s].kind]))

TypeInv == AssetType /\ \A s \in Session : Progress(s)

LEMMA TypeInit == Init => TypeInv
  <1> SUFFICES ASSUME Init PROVE TypeInv
    OBVIOUS
  <1>1. work.assets \in [Asset -> AssetBody \cup {None}]
    BY WorkloadAssumption DEF Init
  <1>2. AssetType
    BY <1>1 DEF Init, AssetType, Step
  <1>3. \A s \in Session : Progress(s)
    BY DEF Init, Progress
  <1> QED BY <1>2, <1>3 DEF TypeInv

LEMMA StartsType ==
  ASSUME TypeInv, NEW s \in Session, Starts(s)
  PROVE  TypeInv'
  <1>1. PICK c \in work.commands[s] :
           cmd' = [cmd EXCEPT ![s] = c] /\ pc' = [pc EXCEPT ![s] = FirstStep(c.op)]
    BY DEF Starts
  <1>2. UNCHANGED <<devices, assets, work, seen, listed, disturbed>>
    BY DEF Starts
  <1>3. c \in Command
    BY WorkloadAssumption DEF TypeInv, AssetType
  <1>4. c.op \in Op
    BY <1>3 DEF Command
  <1>5. FirstStep(c.op) \in Step
    BY <1>4 DEF FirstStep, Step
  <1>6. AssetType'
    BY <1>1, <1>2, <1>3, <1>5 DEF TypeInv, AssetType
  <1>7. Progress(s)'
    <2>1. cmd'[s] = c /\ pc'[s] = FirstStep(c.op)
      BY <1>1 DEF TypeInv, AssetType
    <2> QED BY <1>3, <1>4, <2>1 DEF Progress, FirstStep, Op, AssetOp, DeviceOp, ItemOp,
          EndpointOp
  <1>8. ASSUME NEW t \in Session \ {s} PROVE Progress(t)'
    BY <1>1, <1>2 DEF TypeInv, AssetType, Progress
  <1> QED BY <1>6, <1>7, <1>8 DEF TypeInv

(* A command ends.                                                             *)
LEMMA FinishType ==
  ASSUME TypeInv, NEW s \in Session, Finish(s), UNCHANGED assets
  PROVE  TypeInv'
  <1>1. AssetType'
    BY DEF TypeInv, AssetType, Finish
  <1>2. Progress(s)'
    BY DEF TypeInv, AssetType, Progress, Finish
  <1>3. ASSUME NEW t \in Session \ {s} PROVE Progress(t)'
    BY DEF TypeInv, AssetType, Progress, Finish
  <1> QED BY <1>1, <1>2, <1>3 DEF TypeInv

(* The service has taken what a process sent.                                  *)
LEMMA WroteType ==
  ASSUME TypeInv, NEW s \in Session, NEW touched, Wrote(s, touched, "showResult"),
         At(s, "write"), assets' \in [Asset -> AssetBody \cup {None}]
  PROVE  TypeInv'
  <1>1. disturbed' \in [Session -> BOOLEAN]
    BY DEF TypeInv, AssetType, Wrote
  <1>2. AssetType'
    BY <1>1 DEF TypeInv, AssetType, Wrote, Step
  <1>3. Progress(s)'
    BY DEF TypeInv, AssetType, Progress, Wrote
  <1>4. ASSUME NEW t \in Session \ {s} PROVE Progress(t)'
    BY DEF TypeInv, AssetType, Progress, Wrote
  <1> QED BY <1>2, <1>3, <1>4 DEF TypeInv

-------------------------------------------------------------------------------
(* What is made of settings, items and lists                                   *)

LEMMA LoadedType ==
  ASSUME NEW config \in ConfigFile, NEW section, NEW old \in SUBSET Setting
  PROVE  Loaded(config, section, old) \in SUBSET Setting
  BY ConnectorAssumption DEF Loaded, ConfigFile

LEMMA ConfiguredType ==
  ASSUME NEW c \in Command, NEW old \in SUBSET Setting, NEW given \in SUBSET Setting
  PROVE  Configured(c, old, given) \in SUBSET Setting
  BY DEF Configured, OpcuaDatasetConfiguration, OpcuaEventConfiguration,
     RestDatasetConfiguration, MediaStreamConfiguration, CustomConfiguration

LEMMA DestinationsType ==
  ASSUME NEW old \in SUBSET Setting, NEW given \in SUBSET Setting
  PROVE  Destinations(old, given) \in SUBSET Setting
  BY DEF Destinations

LEMMA MergedType ==
  ASSUME NEW c \in Command, NEW old \in SUBSET Setting
  PROVE  Merged(c, old) \in SUBSET Setting
  <1>1. c.settings \in SUBSET Setting /\ c.config \in ConfigFile \cup {None}
    BY DEF Command
  <1>2. Configured(c, old \ Destination, c.settings \ Destination) \in SUBSET Setting
    BY <1>1, ConfiguredType
  <1>3. Destinations(old, c.settings) \in SUBSET Setting
    BY <1>1, DestinationsType
  <1>4. c.config # None => Loaded(c.config, c.kind, old) \in SUBSET Setting
    BY <1>1, LoadedType
  <1> QED BY <1>2, <1>3, <1>4 DEF Merged

LEMMA MergedDefaultsType ==
  ASSUME NEW c \in Command, NEW old \in SUBSET Setting
  PROVE  MergedDefaults(c, old) \in SUBSET Setting
  <1> DEFINE d == [c EXCEPT !.kind = "datasets"]
  <1>1. c.settings \in SUBSET Setting /\ c.config \in ConfigFile \cup {None}
    BY DEF Command
  <1>2. d \in Command
    BY DEF Command, Kind
  <1>3. Configured(d, IF c.type = "media" THEN {} ELSE old \ Destination,
                   c.settings \ Destination) \in SUBSET Setting
    BY <1>1, <1>2, ConfiguredType
  <1>4. Destinations(old, c.settings) \in SUBSET Setting
    BY <1>1, DestinationsType
  <1>5. c.config # None => Loaded(c.config, "asset", old) \in SUBSET Setting
    BY <1>1, LoadedType
  <1> QED BY <1>3, <1>4, <1>5 DEF MergedDefaults

LEMMA ImportedType ==
  ASSUME NEW c \in Command, NEW i \in Item, NEW old \in Entry \cup {None},
         c.file[i] # None
  PROVE  Imported(c, i, old) \in Entry
  <1>1. c.file[i] \in FileEntry
    BY DEF Command
  <1> QED BY <1>1 DEF Imported, Entry, FileEntry

(* A list a command may send back is a list, whatever it does to it.           *)
LEMMA EditedType ==
  ASSUME NEW c \in Command, c.op \in ItemOp, NEW list \in List, Sends(c, list)
  PROVE  Edited(c, list) \in List
  <1>1. c.item \in Item /\ c.points \in SUBSET Point
    BY DEF Command
  <1>2. CASE c.op = "addItem"
    <2>1. NewItem(c, list[c.item]) \in Entry
      BY MergedType DEF NewItem, Entry
    <2> QED BY <1>1, <1>2, <2>1 DEF Edited, List
  <1>3. CASE c.op = "importItems"
    <2>1. \A i \in Item : c.file[i] # None => Imported(c, i, list[i]) \in Entry
      BY ImportedType DEF List
    <2> QED BY <1>3, <2>1 DEF Edited, ImportedList, List
  <1>4. CASE c.op = "removeItem"
    BY <1>1, <1>4 DEF Edited, List
  <1>5. CASE c.op \notin {"addItem", "importItems", "removeItem"}
    <2>1. list[c.item] \in Entry
      BY <1>1, <1>5 DEF Sends, List
    <2>2. Merged(c, list[c.item].settings) \in SUBSET Setting
      BY <2>1, MergedType DEF Entry
    <2>3. [list[c.item] EXCEPT !.settings = Merged(c, @)] \in Entry
      BY <2>1, <2>2 DEF Entry
    <2>4. [list[c.item] EXCEPT !.points = @ \ c.points] \in Entry
      BY <2>1 DEF Entry
    <2>5. [list[c.item] EXCEPT !.points = @ \cup c.points] \in Entry
      BY <1>1, <2>1 DEF Entry
    <2> QED BY <1>1, <1>5, <2>3, <2>4, <2>5 DEF Edited, List
  <1> QED BY <1>2, <1>3, <1>4, <1>5

-------------------------------------------------------------------------------
(* Type correctness                                                            *)

(* A process goes on to its next step.                                         *)
LEMMA GotoType ==
  ASSUME TypeInv, NEW s \in Session, NEW next \in Step, Goto(s, next),
         UNCHANGED assets, seen' \in [Session -> AssetBody \cup {None}],
         disturbed' \in [Session -> BOOLEAN],
         \A t \in Session \ {s} : seen'[t] = seen[t], Progress(s)'
  PROVE  TypeInv'
  <1>1. AssetType'
    BY DEF TypeInv, AssetType, Goto
  <1>2. ASSUME NEW t \in Session \ {s} PROVE Progress(t)'
    BY DEF TypeInv, AssetType, Progress, Goto
  <1> QED BY <1>1, <1>2 DEF TypeInv

LEMMA CommandType ==
  ASSUME TypeInv, NEW s \in Session, ~At(s, "idle")
  PROVE  /\ cmd[s] \in Command
         /\ cmd[s].asset \in Asset /\ cmd[s].kind \in Kind /\ cmd[s].item \in Item
         /\ cmd[s].device \in Device /\ cmd[s].endpoint \in Endpoint
  <1>1. cmd[s] \in Command
    BY DEF TypeInv, Progress
  <1> QED BY <1>1 DEF Command

LEMMA ShowAssetType ==
  ASSUME TypeInv, NEW s \in Session, ShowAsset(s)
  PROVE  TypeInv'
  <1> DEFINE c == cmd[s]
             a == assets[c.asset]
             next == IF c.op \in DevicelessOp
                     THEN IF Validates(c) THEN "validate" ELSE "write"
                     ELSE "getDevice"
  <1>1. c \in Command /\ c.asset \in Asset
    BY CommandType DEF ShowAsset
  <1>2. c.op \in ItemOp \cup {"updateAsset", "updateAssetByType"}
    BY DEF ShowAsset, TypeInv, Progress
  <1>3. a \in AssetBody
    BY <1>1 DEF ShowAsset, TypeInv, AssetType
  <1>4. Goto(s, next) /\ next \in Step
    BY DEF ShowAsset, Step
  <1>5. seen' = [seen EXCEPT ![s] = a] /\ disturbed' = [disturbed EXCEPT ![s] = FALSE]
    BY DEF ShowAsset
  <1>6. seen' \in [Session -> AssetBody \cup {None}] /\ disturbed' \in [Session -> BOOLEAN]
    BY <1>3, <1>5 DEF TypeInv, AssetType
  <1>7. seen'[s] = a /\ \A t \in Session \ {s} : seen'[t] = seen[t]
    BY <1>5 DEF TypeInv, AssetType
  <1>8. cmd'[s] = c /\ pc'[s] = next
    BY <1>4 DEF Goto, TypeInv, AssetType
  <1>9. c.op \in DevicelessOp => Sends(c, a.lists[c.kind])
    BY DEF ShowAsset
  <1>10. next = "validate" => c.op \in ItemOp
    BY DEF DevicelessOp, ItemOp
  <1>11. Progress(s)'
    <2> HIDE DEF next, a
    <2> QED BY <1>1, <1>2, <1>3, <1>7, <1>8, <1>9, <1>10 DEF Progress, next, DevicelessOp, ItemOp
  <1>12. UNCHANGED assets
    BY DEF ShowAsset
  <1> QED BY <1>4, <1>6, <1>7, <1>11, <1>12, GotoType

LEMMA GetDeviceType ==
  ASSUME TypeInv, NEW s \in Session, GetDevice(s)
  PROVE  TypeInv'
  <1> DEFINE c == cmd[s]
  <1>1. c \in Command /\ UNCHANGED <<assets, seen, disturbed>>
    BY CommandType DEF GetDevice
  <1>2. ASSUME NEW next \in {"validate", "write", "getAsset"}, Goto(s, next),
               next = "validate" => c.op \in ItemOp,
               next = "getAsset" => c.op = "createAssetByType",
               c.op \in ItemOp /\ next # "getAsset" =>
                  Sends(c, seen[s].lists[c.kind])
        PROVE  TypeInv'
    <2>1. cmd'[s] = c /\ pc'[s] = next
      BY <1>2 DEF Goto, TypeInv, AssetType
    <2>2. Progress(s)'
      BY <1>1, <1>2, <2>1 DEF GetDevice, TypeInv, Progress
    <2>3. next \in Step
      BY DEF Step
    <2> QED BY <1>1, <1>2, <2>2, <2>3, GotoType DEF TypeInv, AssetType
  <1>3. CASE /\ c.op \in ItemOp
             /\ Sends(c, seen[s].lists[c.kind])
             /\ Goto(s, IF Validates(c) THEN "validate" ELSE "write")
    BY <1>2, <1>3
  <1>4. CASE c.op \in {"updateAsset", "updateAssetByType", "createAsset"} /\ Goto(s, "write")
    BY <1>2, <1>4 DEF ItemOp
  <1>5. CASE c.op = "createAssetByType" /\ Goto(s, "getAsset")
    BY <1>2, <1>5 DEF ItemOp
  <1> QED BY <1>3, <1>4, <1>5 DEF GetDevice

LEMMA GetAssetType ==
  ASSUME TypeInv, NEW s \in Session, GetAsset(s)
  PROVE  TypeInv'
  <1>1. cmd[s].op = "createAssetByType" /\ cmd[s] \in Command
    BY DEF GetAsset, TypeInv, Progress
  <1>2. Goto(s, "write") /\ UNCHANGED <<assets, seen>>
    BY DEF GetAsset
  <1>3. cmd'[s] = cmd[s] /\ pc'[s] = "write"
    BY <1>2 DEF Goto, TypeInv, AssetType
  <1>4. Progress(s)'
    BY <1>1, <1>3 DEF Progress, ItemOp
  <1>5. disturbed' \in [Session -> BOOLEAN]
    BY DEF GetAsset, TypeInv, AssetType
  <1> QED BY <1>2, <1>4, <1>5, GotoType DEF TypeInv, AssetType, Step

LEMMA ValidateType ==
  ASSUME TypeInv, NEW s \in Session, Validate(s)
  PROVE  TypeInv'
  <1>1. Goto(s, "write") /\ UNCHANGED <<assets, seen, disturbed>>
    BY DEF Validate, Checked
  <1>2. cmd'[s] = cmd[s] /\ pc'[s] = "write"
    BY <1>1 DEF Goto, TypeInv, AssetType
  <1>3. Progress(s)'
    BY <1>1, <1>2 DEF Validate, TypeInv, Progress
  <1> QED BY <1>1, <1>3, GotoType DEF TypeInv, AssetType, Step

LEMMA ShowDeviceType ==
  ASSUME TypeInv, NEW s \in Session, ShowDevice(s)
  PROVE  TypeInv'
  <1>1. Goto(s, "write") /\ UNCHANGED <<assets, seen>>
    BY DEF ShowDevice, Checked
  <1>2. cmd'[s] = cmd[s] /\ pc'[s] = "write"
    BY <1>1 DEF Goto, TypeInv, AssetType
  <1>3. cmd[s] \in Command /\ cmd[s].op \in EndpointOp
    BY DEF ShowDevice, TypeInv, Progress
  <1>4. Progress(s)'
    BY <1>2, <1>3 DEF Progress, EndpointOp, ItemOp
  <1>5. disturbed' \in [Session -> BOOLEAN]
    BY DEF ShowDevice, TypeInv, AssetType
  <1> QED BY <1>1, <1>4, <1>5, GotoType DEF TypeInv, AssetType, Step

LEMMA PatchListType ==
  ASSUME TypeInv, NEW s \in Session, PatchList(s)
  PROVE  TypeInv'
  <1> DEFINE c == cmd[s]
             a == assets[c.asset]
             edited == Edited(c, seen[s].lists[c.kind])
  <1>1. /\ At(s, "write") /\ c.op \in ItemOp /\ a # None
        /\ assets' = [assets EXCEPT ![c.asset] = ListPatch(s, @)]
        /\ Wrote(s, {<<c.asset, c.kind>>}, "showResult")
    BY DEF PatchList
  <1>2. c \in Command /\ c.asset \in Asset /\ c.kind \in Kind
    BY <1>1, CommandType
  <1>3. seen[s] \in AssetBody /\ Sends(c, seen[s].lists[c.kind])
    BY <1>1 DEF TypeInv, Progress
  <1>4. seen[s].lists[c.kind] \in List
    BY <1>2, <1>3 DEF AssetBody
  <1>5. edited \in List
    BY <1>1, <1>2, <1>3, <1>4, EditedType
  <1>6. a \in AssetBody
    BY <1>1, <1>2 DEF TypeInv, AssetType
  <1>7. ListPatch(s, a) \in AssetBody
    <2> HIDE DEF a, edited, c
    <2>1. ListPatch(s, a) = [a EXCEPT !.lists[c.kind] = edited]
      BY DEF ListPatch, c, edited
    <2>2. [a.lists EXCEPT ![c.kind] = edited] \in [Kind -> List]
      BY <1>2, <1>5, <1>6 DEF AssetBody
    <2> QED BY <1>6, <2>1, <2>2 DEF AssetBody
  <1>8. assets' \in [Asset -> AssetBody \cup {None}]
    BY <1>1, <1>2, <1>7 DEF TypeInv, AssetType
  <1> QED BY <1>1, <1>8, WroteType

LEMMA PatchAssetType ==
  ASSUME TypeInv, NEW s \in Session, PatchAsset(s)
  PROVE  TypeInv'
  <1> DEFINE c == cmd[s]
             a == assets[c.asset]
             merged == MergedDefaults(c, seen[s].defaults)
  <1>1. /\ At(s, "write") /\ c.op \in {"updateAsset", "updateAssetByType"} /\ a # None
        /\ assets' = [assets EXCEPT ![c.asset].defaults = merged]
        /\ Wrote(s, {<<c.asset, "defaults">>}, "showResult")
    BY DEF PatchAsset
  <1>2. c \in Command /\ c.asset \in Asset
    BY <1>1, CommandType
  <1>3. seen[s] \in AssetBody
    BY <1>1 DEF TypeInv, Progress
  <1>4. merged \in SUBSET Setting
    BY <1>2, <1>3, MergedDefaultsType DEF AssetBody
  <1>5. a \in AssetBody
    BY <1>1, <1>2 DEF TypeInv, AssetType
  <1>6. [a EXCEPT !.defaults = merged] \in AssetBody
    BY <1>4, <1>5 DEF AssetBody
  <1>7. assets' \in [Asset -> AssetBody \cup {None}]
    BY <1>1, <1>2, <1>6 DEF TypeInv, AssetType
  <1> QED BY <1>1, <1>7, WroteType

LEMMA PutAssetType ==
  ASSUME TypeInv, NEW s \in Session, PutAsset(s)
  PROVE  TypeInv'
  <1> DEFINE c == cmd[s]
             a == [device |-> c.device, endpoint |-> c.endpoint,
                   defaults |-> MergedDefaults(c, {}), lists |-> [k \in Kind |-> NoItems]]
  <1>1. /\ At(s, "write") /\ assets' = [assets EXCEPT ![c.asset] = a]
        /\ Wrote(s, Whole(c.asset), "showResult")
    BY DEF PutAsset
  <1>2. /\ c \in Command /\ c.asset \in Asset
        /\ c.device \in Device /\ c.endpoint \in Endpoint
    BY <1>1, CommandType
  <1>3. MergedDefaults(c, {}) \in SUBSET Setting
    BY <1>2, MergedDefaultsType
  <1>4. a \in AssetBody
    BY <1>2, <1>3 DEF AssetBody, List, NoItems
  <1>5. assets' \in [Asset -> AssetBody \cup {None}]
    BY <1>1, <1>2, <1>4 DEF TypeInv, AssetType
  <1> QED BY <1>1, <1>5, WroteType

LEMMA WriteType ==
  ASSUME TypeInv, NEW s \in Session,
         \/ DropAsset(s) \/ PatchEndpoints(s) \/ PutDevice(s)
         \/ PatchDevice(s) \/ DropDevice(s)
  PROVE  TypeInv'
  <1>1. At(s, "write") /\ \E touched : Wrote(s, touched, "showResult")
    BY DEF DropAsset, PatchEndpoints, PutDevice, PatchDevice, DropDevice
  <1>2. cmd[s].asset \in Asset
    BY <1>1, CommandType
  <1>3. assets' \in [Asset -> AssetBody \cup {None}]
    BY <1>2 DEF DropAsset, PatchEndpoints, PutDevice, PatchDevice, DropDevice, TypeInv,
       AssetType
  <1> QED BY <1>1, <1>3, WroteType

LEMMA TypeStep == TypeInv /\ [Next]_vars => TypeInv'
  <1> SUFFICES ASSUME TypeInv, [Next]_vars PROVE TypeInv'
    OBVIOUS
  <1>1. CASE UNCHANGED vars
    BY <1>1 DEF TypeInv, AssetType, Progress
  <1>2. ASSUME NEW s \in Session, Begin(s) PROVE TypeInv'
    BY <1>2, BeginStarts, StartsType
  <1>3. ASSUME NEW s \in Session, ShowResult(s) \/ Fail(s) PROVE TypeInv'
    BY <1>3, FinishType DEF ShowResult, Fail
  <1>4. ASSUME NEW s \in Session, Continue(s) PROVE TypeInv'
    BY <1>3, <1>4, ShowAssetType, GetDeviceType, GetAssetType, ValidateType,
       ShowDeviceType, PatchListType, PatchAssetType, PutAssetType, WriteType
    DEF Continue
  <1> QED BY <1>1, <1>2, <1>4 DEF Next

(* Assets stay well formed, and a process writes a list only after a check on  *)
(* the list it read: the rest of the proofs rests on it.                       *)
THEOREM AssetsTypeCorrect == Spec => []TypeInv
  BY TypeInit, TypeStep, PTL DEF Spec

-------------------------------------------------------------------------------
(* What a process read is still so, unless it has been disturbed               *)

Reading == {"getDevice", "validate", "write"}

Current(s) ==
    /\ ~disturbed[s] /\ pc[s] \in Reading /\ cmd[s].op \in ItemOp
          => /\ assets[cmd[s].asset] # None
             /\ assets[cmd[s].asset].lists[cmd[s].kind] = seen[s].lists[cmd[s].kind]
    /\ ~disturbed[s] /\ At(s, "write") /\ cmd[s].op = "createAssetByType"
          => assets[cmd[s].asset] = None
    /\ ~disturbed[s] /\ At(s, "showResult") /\ LooksUp(cmd[s])
          => Entries(cmd[s].asset, cmd[s].kind, cmd[s].item)

AssetInv == TypeInv /\ \A s \in Session : Current(s)

(* A list of an asset is not touched.                                          *)
Same(a, k) ==
    /\ assets'[a] = None <=> assets[a] = None
    /\ assets[a] # None => assets'[a].lists[k] = assets[a].lists[k]

OnlyTouches(touched) ==
    \A a \in Asset, k \in Kind : <<a, k>> \notin touched => Same(a, k)

LEMMA WorksOf ==
  ASSUME NEW c
  PROVE  /\ c.op \in ItemOp => Works(c) = {<<c.asset, c.kind>>}
         /\ c.op = "createAssetByType" => Works(c) = {c.asset} \X (Kind \cup {"defaults"})
         /\ c.op \in EndpointOp => Works(c) = {<<c.device, "inbound">>}
  <1>1. CASE c.op \in ItemOp
    BY <1>1 DEF Works, ItemOp, EndpointOp
  <1>2. CASE c.op = "createAssetByType"
    BY <1>2 DEF Works, ItemOp, EndpointOp
  <1>3. CASE c.op \in EndpointOp
    BY <1>3 DEF Works, ItemOp, EndpointOp
  <1> QED BY <1>1, <1>2, <1>3

LEMMA OthersCurrent ==
  ASSUME TypeInv, NEW s \in Session, NEW touched, Wrote(s, touched, "showResult"),
         OnlyTouches(touched), NEW t \in Session \ {s}, Current(t)
  PROVE  Current(t)'
  <1> DEFINE c == cmd[t]
  <1>1. /\ pc'[t] = pc[t] /\ cmd'[t] = cmd[t] /\ seen'[t] = seen[t]
        /\ disturbed'[t] = (disturbed[t] \/ (cmd[t] # None /\ Works(cmd[t]) \cap touched # {}))
    BY DEF Wrote, TypeInv, AssetType
  <1>2. SUFFICES ASSUME ~disturbed'[t], pc[t] # "idle" PROVE Current(t)'
    BY <1>1 DEF Current, Reading
  <1>3. c \in Command /\ c.asset \in Asset /\ c.kind \in Kind
    BY <1>2, CommandType
  <1>4. c # None
    BY <1>3, NoneAssumption
  <1>5. ~disturbed[t] /\ Works(c) \cap touched = {}
    BY <1>1, <1>2, <1>4
  <1>6. c.op \in ItemOp => Same(c.asset, c.kind)
    <2>1. SUFFICES ASSUME c.op \in ItemOp PROVE Same(c.asset, c.kind)
      OBVIOUS
    <2>2. <<c.asset, c.kind>> \notin touched
      BY <1>5, <2>1, WorksOf
    <2> QED BY <1>3, <2>2 DEF OnlyTouches
  <1>7. CASE c.op = "createAssetByType"
    <2>1. <<c.asset, "datasets">> \in Works(c)
      BY <1>7, WorksOf DEF Kind
    <2>2. Same(c.asset, "datasets")
      BY <1>3, <1>5, <2>1 DEF OnlyTouches, Kind
    <2> QED BY <1>1, <1>5, <1>7, <2>2 DEF Current, Same, ItemOp, LooksUp
  <1>8. CASE c.op # "createAssetByType"
    BY <1>1, <1>5, <1>6, <1>8 DEF Current, Same, LooksUp, Entries
  <1> QED BY <1>7, <1>8

(* A step that writes nothing: what the others read is as it was.              *)
LEMMA StepCurrent ==
  ASSUME \A t \in Session : Current(t), NEW s \in Session, UNCHANGED assets,
         \A t \in Session \ {s} : /\ pc'[t] = pc[t] /\ cmd'[t] = cmd[t]
                                  /\ seen'[t] = seen[t] /\ disturbed'[t] = disturbed[t],
         Current(s)'
  PROVE  \A t \in Session : Current(t)'
  <1> SUFFICES ASSUME NEW t \in Session \ {s} PROVE Current(t)'
    OBVIOUS
  <1>1. /\ pc'[t] = pc[t] /\ cmd'[t] = cmd[t] /\ seen'[t] = seen[t]
        /\ disturbed'[t] = disturbed[t] /\ Current(t) /\ assets' = assets
    OBVIOUS
  <1> QED BY <1>1 DEF Current, Entries

(* What a command that looks its item up has written has the item.             *)
LEMMA EditedHasItem ==
  ASSUME NEW c \in Command, LooksUp(c), NEW list \in List, Sends(c, list)
  PROVE  Edited(c, list)[c.item] # None
  <1>1. c.item \in Item /\ c.points \in SUBSET Point
    BY DEF Command
  <1>2. CASE c.op = "addItem"
    <2>1. NewItem(c, list[c.item]) \in Entry
      BY MergedType DEF NewItem, Entry
    <2> QED BY <1>1, <1>2, <2>1, NoneAssumption DEF Edited, List
  <1>3. CASE c.op # "addItem"
    <2>1. c.op \in ItemOp \ {"addItem", "removeItem", "importItems"}
      BY <1>3 DEF LooksUp
    <2>2. list[c.item] \in Entry
      BY <1>1, <2>1 DEF Sends, List, ItemOp
    <2>3. [list[c.item] EXCEPT !.settings = Merged(c, @)] \in Entry
      BY <2>2, MergedType DEF Entry
    <2>4. [list[c.item] EXCEPT !.points = @ \ c.points] \in Entry
      BY <2>2 DEF Entry
    <2>5. [list[c.item] EXCEPT !.points = @ \cup c.points] \in Entry
      BY <1>1, <2>2 DEF Entry
    <2> QED BY <1>1, <2>1, <2>3, <2>4, <2>5, NoneAssumption DEF Edited, List, ItemOp
  <1> QED BY <1>2, <1>3

(* What PATCH of a list makes of the asset                                     *)
LEMMA ListPatched ==
  ASSUME TypeInv, NEW s \in Session, PatchList(s)
  PROVE  LET c == cmd[s]
             edited == Edited(c, seen[s].lists[c.kind])
         IN  /\ At(s, "write") /\ c \in Command /\ c.op \in ItemOp
             /\ c.asset \in Asset /\ c.kind \in Kind /\ c.item \in Item
             /\ Wrote(s, {<<c.asset, c.kind>>}, "showResult")
             /\ seen[s].lists[c.kind] \in List /\ Sends(c, seen[s].lists[c.kind])
             /\ assets[c.asset] # None /\ assets'[c.asset] # None
             /\ assets'[c.asset].lists = [assets[c.asset].lists EXCEPT ![c.kind] = edited]
             /\ assets[c.asset].lists \in [Kind -> List]
             /\ \A a \in Asset \ {c.asset} : assets'[a] = assets[a]
  <1> DEFINE c == cmd[s]
             a == assets[c.asset]
             edited == Edited(c, seen[s].lists[c.kind])
  <1>1. /\ At(s, "write") /\ c.op \in ItemOp /\ a # None
        /\ assets' = [assets EXCEPT ![c.asset] = ListPatch(s, @)]
        /\ Wrote(s, {<<c.asset, c.kind>>}, "showResult")
    BY DEF PatchList
  <1>2. c \in Command /\ c.asset \in Asset /\ c.kind \in Kind /\ c.item \in Item
    BY <1>1, CommandType
  <1>3. seen[s] \in AssetBody /\ Sends(c, seen[s].lists[c.kind])
    BY <1>1 DEF TypeInv, Progress
  <1>4. seen[s].lists[c.kind] \in List
    BY <1>2, <1>3 DEF AssetBody
  <1>5. a \in AssetBody
    BY <1>1, <1>2 DEF TypeInv, AssetType
  <1>6. ListPatch(s, a) = [a EXCEPT !.lists[c.kind] = edited]
    BY DEF ListPatch
  <1>7. ListPatch(s, a).lists = [a.lists EXCEPT ![c.kind] = edited]
    BY <1>5, <1>6 DEF AssetBody
  <1>8. assets'[c.asset] = ListPatch(s, a)
    BY <1>1, <1>2 DEF TypeInv, AssetType
  <1>9. assets'[c.asset] # None
    <2>1. TypeInv'
      BY PatchListType
    <2>2. assets'[c.asset] \in AssetBody
      <3>1. [a.lists EXCEPT ![c.kind] = edited] \in [Kind -> List]
        BY <1>1, <1>2, <1>3, <1>4, <1>5, EditedType DEF AssetBody
      <3> QED BY <1>5, <1>6, <1>8, <3>1 DEF AssetBody
    <2> QED BY <2>2, NoneAssumption
  <1>10. a.lists \in [Kind -> List]
    BY <1>5 DEF AssetBody
  <1>11. \A b \in Asset \ {c.asset} : assets'[b] = assets[b]
    BY <1>1, <1>2 DEF TypeInv, AssetType
  <1> QED BY <1>1, <1>2, <1>3, <1>4, <1>7, <1>8, <1>9, <1>10, <1>11

(* A write touches what Wrote says of it, and a process that has written finds *)
(* its item.                                                                   *)
LEMMA PatchListCurrent ==
  ASSUME TypeInv, NEW s \in Session, PatchList(s)
  PROVE  /\ OnlyTouches({<<cmd[s].asset, cmd[s].kind>>})
         /\ Current(s)'
  <1> DEFINE c == cmd[s]
             edited == Edited(c, seen[s].lists[c.kind])
  <1>1. /\ At(s, "write") /\ c \in Command /\ c.op \in ItemOp
        /\ c.asset \in Asset /\ c.kind \in Kind /\ c.item \in Item
        /\ Wrote(s, {<<c.asset, c.kind>>}, "showResult")
        /\ seen[s].lists[c.kind] \in List /\ Sends(c, seen[s].lists[c.kind])
        /\ assets[c.asset] # None /\ assets'[c.asset] # None
        /\ assets'[c.asset].lists = [assets[c.asset].lists EXCEPT ![c.kind] = edited]
        /\ assets[c.asset].lists \in [Kind -> List]
        /\ \A a \in Asset \ {c.asset} : assets'[a] = assets[a]
    BY ListPatched
  <1>2. OnlyTouches({<<c.asset, c.kind>>})
    <2> HIDE DEF edited
    <2>1. ASSUME NEW a \in Asset, NEW k \in Kind, <<a, k>> \notin {<<c.asset, c.kind>>}
          PROVE  Same(a, k)
      <3>1. CASE a = c.asset
        BY <1>1, <2>1, <3>1 DEF Same
      <3>2. CASE a # c.asset
        BY <1>1, <3>2 DEF Same
      <3> QED BY <3>1, <3>2
    <2> QED BY <2>1 DEF OnlyTouches
  <1>3. pc'[s] = "showResult" /\ cmd'[s] = c
    BY <1>1 DEF Wrote, TypeInv, AssetType
  <1>4. LooksUp(c) => Entries(c.asset, c.kind, c.item)'
    <2>1. SUFFICES ASSUME LooksUp(c) PROVE Entries(c.asset, c.kind, c.item)'
      OBVIOUS
    <2>2. edited[c.item] # None
      BY <1>1, <2>1, EditedHasItem
    <2>3. assets'[c.asset].lists[c.kind] = edited
      <3> HIDE DEF edited
      <3> QED BY <1>1
    <2> QED BY <1>1, <1>3, <2>2, <2>3 DEF Entries
  <1>5. Current(s)'
    BY <1>3, <1>4 DEF Current, Reading, Entries
  <1> QED BY <1>2, <1>5

(* PATCH of an asset's defaults leaves its lists alone.                        *)
LEMMA DefaultsPatched ==
  ASSUME TypeInv, NEW s \in Session, PatchAsset(s)
  PROVE  /\ At(s, "write") /\ cmd[s].op \notin ItemOp /\ cmd[s].asset \in Asset
         /\ Wrote(s, {<<cmd[s].asset, "defaults">>}, "showResult")
         /\ assets[cmd[s].asset] # None /\ assets'[cmd[s].asset] # None
         /\ assets'[cmd[s].asset].lists = assets[cmd[s].asset].lists
         /\ \A a \in Asset \ {cmd[s].asset} : assets'[a] = assets[a]
  <1> DEFINE c == cmd[s]
             merged == MergedDefaults(c, seen[s].defaults)
  <1>1. /\ At(s, "write") /\ c.op \in {"updateAsset", "updateAssetByType"}
        /\ Wrote(s, {<<c.asset, "defaults">>}, "showResult") /\ c.op \notin ItemOp
        /\ assets[c.asset] # None
        /\ assets' = [assets EXCEPT ![c.asset].defaults = merged]
    BY DEF PatchAsset, ItemOp
  <1>2. c \in Command /\ c.asset \in Asset
    BY <1>1, CommandType
  <1>3. assets[c.asset] \in AssetBody /\ seen[s] \in AssetBody
    BY <1>1, <1>2 DEF TypeInv, AssetType, Progress
  <1>4. /\ assets'[c.asset] = [assets[c.asset] EXCEPT !.defaults = merged]
        /\ \A a \in Asset \ {c.asset} : assets'[a] = assets[a]
    BY <1>1, <1>2 DEF TypeInv, AssetType
  <1>5. merged \in SUBSET Setting
    BY <1>2, <1>3, MergedDefaultsType DEF AssetBody
  <1>6. assets'[c.asset] \in AssetBody /\ assets'[c.asset].lists = assets[c.asset].lists
    BY <1>3, <1>4, <1>5 DEF AssetBody
  <1> QED BY <1>1, <1>2, <1>4, <1>6, NoneAssumption

LEMMA AssetWriteTouches ==
  ASSUME TypeInv, NEW s \in Session,
         PutAsset(s) \/ DropAsset(s) \/ PatchAsset(s)
  PROVE  \E touched : /\ OnlyTouches(touched) /\ Wrote(s, touched, "showResult")
                      /\ cmd[s].op \notin ItemOp /\ At(s, "write")
  <1>1. At(s, "write")
    BY DEF PutAsset, DropAsset, PatchAsset
  <1>2. cmd[s].asset \in Asset
    BY <1>1, CommandType
  <1>3. CASE PutAsset(s) \/ DropAsset(s)
    <2>1. Wrote(s, Whole(cmd[s].asset), "showResult") /\ cmd[s].op \notin ItemOp
      BY <1>3 DEF PutAsset, DropAsset, ItemOp
    <2>2. \A a \in Asset : a # cmd[s].asset => assets'[a] = assets[a]
      BY <1>2, <1>3 DEF PutAsset, DropAsset, TypeInv, AssetType
    <2>3. \A a \in Asset, k \in Kind : <<a, k>> \notin Whole(cmd[s].asset) => a # cmd[s].asset
      BY DEF Whole
    <2>4. OnlyTouches(Whole(cmd[s].asset))
      BY <2>2, <2>3 DEF OnlyTouches, Same
    <2> QED BY <1>1, <2>1, <2>4
  <1>4. CASE PatchAsset(s)
    <2>1. OnlyTouches({<<cmd[s].asset, "defaults">>})
      BY <1>4, DefaultsPatched DEF OnlyTouches, Same
    <2> QED BY <1>4, <2>1, DefaultsPatched
  <1> QED BY <1>3, <1>4

LEMMA DeviceWriteTouches ==
  ASSUME TypeInv, NEW s \in Session,
         PatchEndpoints(s) \/ PutDevice(s) \/ PatchDevice(s) \/ DropDevice(s)
  PROVE  \E touched : /\ OnlyTouches(touched) /\ Wrote(s, touched, "showResult")
                      /\ cmd[s].op \notin ItemOp /\ At(s, "write")
  <1>1. UNCHANGED assets /\ At(s, "write") /\ cmd[s].op \notin ItemOp
    BY DEF PatchEndpoints, PutDevice, PatchDevice, DropDevice, ItemOp, EndpointOp
  <1>2. \A touched : OnlyTouches(touched)
    BY <1>1 DEF OnlyTouches, Same
  <1> QED BY <1>1, <1>2 DEF PatchEndpoints, PutDevice, PatchDevice, DropDevice

LEMMA WriteCurrent ==
  ASSUME AssetInv, NEW s \in Session,
         \/ PatchList(s) \/ PatchAsset(s) \/ PutAsset(s) \/ DropAsset(s)
         \/ PatchEndpoints(s) \/ PutDevice(s) \/ PatchDevice(s) \/ DropDevice(s)
  PROVE  \A t \in Session : Current(t)'
  <1>1. TypeInv
    BY DEF AssetInv
  <1>2. PICK touched : OnlyTouches(touched) /\ Wrote(s, touched, "showResult")
    BY <1>1, PatchListCurrent, AssetWriteTouches, DeviceWriteTouches DEF PatchList
  <1>3. \A t \in Session \ {s} : Current(t)'
    BY <1>1, <1>2, OthersCurrent DEF AssetInv
  <1>4. CASE PatchList(s)
    BY <1>1, <1>3, <1>4, PatchListCurrent
  <1>5. CASE ~PatchList(s)
    <2>1. cmd[s].op \notin ItemOp
      BY <1>1, <1>5, AssetWriteTouches, DeviceWriteTouches
    <2>2. pc'[s] = "showResult" /\ cmd'[s] = cmd[s]
      BY <1>1, <1>2 DEF Wrote, TypeInv, AssetType
    <2>3. Current(s)'
      BY <2>1, <2>2 DEF Current, Reading, LooksUp
    <2> QED BY <1>3, <2>3
  <1> QED BY <1>4, <1>5

LEMMA BeginCurrent ==
  ASSUME AssetInv, NEW s \in Session, Begin(s)
  PROVE  \A t \in Session : Current(t)'
  <1>1. Starts(s) /\ TypeInv
    BY BeginStarts DEF AssetInv
  <1>2. PICK c \in work.commands[s] :
           cmd' = [cmd EXCEPT ![s] = c] /\ pc' = [pc EXCEPT ![s] = FirstStep(c.op)]
    BY <1>1 DEF Starts
  <1>3. c \in Command /\ c.op \in Op
    BY <1>1, <1>2, WorkloadAssumption DEF TypeInv, AssetType, Command
  <1>4. cmd'[s] = c /\ pc'[s] = FirstStep(c.op)
    BY <1>1, <1>2 DEF TypeInv, AssetType
  <1>5. /\ FirstStep(c.op) \in {"showAsset", "getDevice", "showDevice", "write"}
        /\ c.op \in ItemOp => FirstStep(c.op) = "showAsset"
        /\ c.op = "createAssetByType" => FirstStep(c.op) = "getDevice"
    BY <1>3 DEF FirstStep, Op, ItemOp, AssetOp, DeviceOp, EndpointOp
  <1>6. Current(s)'
    BY <1>4, <1>5 DEF Current, Reading, LooksUp
  <1>7. \A t \in Session \ {s} : /\ pc'[t] = pc[t] /\ cmd'[t] = cmd[t]
                                 /\ seen'[t] = seen[t] /\ disturbed'[t] = disturbed[t]
    BY <1>1, <1>2 DEF Starts, TypeInv, AssetType
  <1> QED BY <1>1, <1>6, <1>7, StepCurrent DEF AssetInv, Starts

LEMMA FinishCurrent ==
  ASSUME AssetInv, NEW s \in Session, Finish(s), UNCHANGED assets
  PROVE  \A t \in Session : Current(t)'
  <1>1. pc'[s] = "idle"
    BY DEF Finish, AssetInv, TypeInv, AssetType
  <1>2. Current(s)'
    BY <1>1 DEF Current, Reading
  <1>3. \A t \in Session \ {s} : /\ pc'[t] = pc[t] /\ cmd'[t] = cmd[t]
                                 /\ seen'[t] = seen[t] /\ disturbed'[t] = disturbed[t]
    BY DEF Finish, AssetInv, TypeInv, AssetType
  <1> QED BY <1>2, <1>3, StepCurrent DEF AssetInv

(* A process that goes on after a read                                         *)
LEMMA GotoCurrent ==
  ASSUME AssetInv, NEW s \in Session, NEW next, Goto(s, next), UNCHANGED assets,
         \A t \in Session \ {s} : seen'[t] = seen[t] /\ disturbed'[t] = disturbed[t],
         Current(s)'
  PROVE  \A t \in Session : Current(t)'
  <1>1. \A t \in Session \ {s} : pc'[t] = pc[t] /\ cmd'[t] = cmd[t]
    BY DEF Goto, AssetInv, TypeInv, AssetType
  <1> QED BY <1>1, StepCurrent DEF AssetInv

LEMMA ShowAssetCurrent ==
  ASSUME AssetInv, NEW s \in Session, ShowAsset(s)
  PROVE  \A t \in Session : Current(t)'
  <1> DEFINE c == cmd[s]
  <1>1. PICK next : Goto(s, next) /\ next \in {"validate", "write", "getDevice"}
    BY DEF ShowAsset
  <1>2. /\ assets[c.asset] # None /\ UNCHANGED assets
        /\ seen' = [seen EXCEPT ![s] = assets[c.asset]]
        /\ disturbed' = [disturbed EXCEPT ![s] = FALSE]
    BY DEF ShowAsset
  <1>3. /\ pc'[s] = next /\ cmd'[s] = c /\ seen'[s] = assets[c.asset]
        /\ \A t \in Session \ {s} : seen'[t] = seen[t] /\ disturbed'[t] = disturbed[t]
    BY <1>1, <1>2 DEF Goto, AssetInv, TypeInv, AssetType
  <1>4. c.op # "createAssetByType"
    BY DEF ShowAsset, AssetInv, TypeInv, Progress, ItemOp
  <1>5. Current(s)'
    BY <1>1, <1>2, <1>3, <1>4 DEF Current
  <1> QED BY <1>1, <1>2, <1>3, <1>5, GotoCurrent

LEMMA GetDeviceCurrent ==
  ASSUME AssetInv, NEW s \in Session, GetDevice(s)
  PROVE  \A t \in Session : Current(t)'
  <1> DEFINE c == cmd[s]
  <1>1. PICK next : /\ Goto(s, next) /\ next \in {"validate", "write", "getAsset"}
                    /\ next = "write" => c.op # "createAssetByType"
    BY DEF GetDevice, ItemOp
  <1>2. UNCHANGED <<assets, seen, disturbed>> /\ pc[s] = "getDevice"
    BY DEF GetDevice
  <1>3. pc'[s] = next /\ cmd'[s] = c
    BY <1>1 DEF Goto, AssetInv, TypeInv, AssetType
  <1>4. Current(s)'
    BY <1>1, <1>2, <1>3 DEF AssetInv, Current, Reading
  <1> QED BY <1>1, <1>2, <1>4, GotoCurrent

LEMMA GetAssetCurrent ==
  ASSUME AssetInv, NEW s \in Session, GetAsset(s)
  PROVE  \A t \in Session : Current(t)'
  <1>1. /\ Goto(s, "write") /\ assets[cmd[s].asset] = None /\ UNCHANGED <<assets, seen>>
        /\ disturbed' = [disturbed EXCEPT ![s] = FALSE]
    BY DEF GetAsset, MayCreate
  <1>2. /\ pc'[s] = "write" /\ cmd'[s] = cmd[s]
        /\ \A t \in Session \ {s} : disturbed'[t] = disturbed[t]
    BY <1>1 DEF Goto, AssetInv, TypeInv, AssetType
  <1>3. cmd[s].op = "createAssetByType"
    BY DEF GetAsset, AssetInv, TypeInv, Progress
  <1>4. Current(s)'
    BY <1>1, <1>2, <1>3 DEF Current, ItemOp
  <1> QED BY <1>1, <1>2, <1>4, GotoCurrent

LEMMA ValidateCurrent ==
  ASSUME AssetInv, NEW s \in Session, Validate(s)
  PROVE  \A t \in Session : Current(t)'
  <1>1. Goto(s, "write") /\ UNCHANGED <<assets, seen, disturbed>> /\ pc[s] = "validate"
    BY DEF Validate, Checked
  <1>2. pc'[s] = "write" /\ cmd'[s] = cmd[s]
    BY <1>1 DEF Goto, AssetInv, TypeInv, AssetType
  <1>3. cmd[s].op \in ItemOp
    BY <1>1 DEF AssetInv, TypeInv, Progress
  <1>4. Current(s)'
    BY <1>1, <1>2, <1>3 DEF AssetInv, Current, Reading, ItemOp
  <1> QED BY <1>1, <1>4, GotoCurrent

LEMMA ShowDeviceCurrent ==
  ASSUME AssetInv, NEW s \in Session, ShowDevice(s)
  PROVE  \A t \in Session : Current(t)'
  <1>1. /\ Goto(s, "write") /\ UNCHANGED <<assets, seen>>
        /\ disturbed' = [disturbed EXCEPT ![s] = FALSE]
    BY DEF ShowDevice, Checked
  <1>2. /\ pc'[s] = "write" /\ cmd'[s] = cmd[s]
        /\ \A t \in Session \ {s} : disturbed'[t] = disturbed[t]
    BY <1>1 DEF Goto, AssetInv, TypeInv, AssetType
  <1>3. cmd[s].op \in EndpointOp
    BY DEF ShowDevice, AssetInv, TypeInv, Progress
  <1>4. Current(s)'
    BY <1>2, <1>3 DEF Current, ItemOp, EndpointOp
  <1> QED BY <1>1, <1>2, <1>4, GotoCurrent

LEMMA AssetInit == Init => AssetInv
  BY TypeInit DEF Init, AssetInv, Current, Reading

LEMMA AssetStep == AssetInv /\ [Next]_vars => AssetInv'
  <1> SUFFICES ASSUME AssetInv, [Next]_vars PROVE \A s \in Session : Current(s)'
    BY TypeStep DEF AssetInv
  <1>1. CASE UNCHANGED vars
    BY <1>1 DEF AssetInv, Current, Entries
  <1>2. ASSUME NEW s \in Session, ShowResult(s) \/ Fail(s)
        PROVE  \A t \in Session : Current(t)'
    BY <1>2, FinishCurrent DEF ShowResult, Fail
  <1>3. ASSUME NEW s \in Session, Begin(s) \/ Continue(s)
        PROVE  \A t \in Session : Current(t)'
    BY <1>2, <1>3, BeginCurrent, ShowAssetCurrent, GetDeviceCurrent, GetAssetCurrent,
       ValidateCurrent, ShowDeviceCurrent, WriteCurrent
    DEF Continue
  <1> QED BY <1>1, <1>3 DEF Next

LEMMA AssetInvariant == Spec => []AssetInv
  BY AssetInit, AssetStep, PTL DEF Spec

(* A command that nobody disturbs finds the item it has written.               *)
THEOREM ItemsAreFound == Spec => []FoundUnlessDisturbed
  <1>1. AssetInv => FoundUnlessDisturbed
    BY DEF AssetInv, Current, FoundUnlessDisturbed
  <1> QED BY <1>1, AssetInvariant, PTL

-------------------------------------------------------------------------------
(* Nothing is lost                                                             *)

Loses(a, k, i) ==
    /\ Entries(a, k, i)
    /\ ~(Entries(a, k, i)' /\
         assets[a].lists[k][i].points \subseteq assets'[a].lists[k][i].points)

(* An edit takes from a list what it is asked to take.                         *)
LEMMA EditedLoses ==
  ASSUME NEW c \in Command, c.op \in ItemOp, NEW list \in List, Sends(c, list),
         NEW i \in Item, list[i] # None,
         ~(Edited(c, list)[i] # None /\ list[i].points \subseteq Edited(c, list)[i].points)
  PROVE  AsksFor(c, c.asset, c.kind, i)
  <1>1. /\ c.item \in Item /\ c.points \in SUBSET Point /\ list[i] \in Entry
        /\ None \notin Entry /\ c.replace \in BOOLEAN
    BY NoneAssumption DEF Command, List
  <1>2. CASE c.op = "addItem"
    <2>1. i = c.item
      BY <1>1, <1>2 DEF Edited, List
    <2>2. c.replace
      BY <1>2, <2>1 DEF Sends
    <2> QED BY <1>2, <2>1, <2>2 DEF AsksFor
  <1>3. CASE c.op = "importItems"
    <2>1. Edited(c, list)[i] = IF c.file[i] # None /\ (list[i] = None \/ c.replace)
                               THEN Imported(c, i, list[i]) ELSE list[i]
      BY <1>3 DEF Edited, ImportedList
    <2>2. c.file[i] # None /\ c.replace
      BY <1>1, <2>1
    <2>3. Imported(c, i, list[i]) \in Entry
      BY <1>1, <2>2, ImportedType
    <2>4. ~(list[i].points \subseteq Imported(c, i, list[i]).points)
      BY <1>1, <2>1, <2>2, <2>3
    <2>5. c.kind = "managementGroups" => c.file[i].named
      BY <2>4 DEF Imported
    <2> QED BY <1>3, <2>2, <2>5 DEF AsksFor
  <1>4. CASE c.op \in {"removeItem", "removePoint"}
    <2>1. i = c.item
      BY <1>1, <1>4 DEF Edited, List
    <2> QED BY <1>4, <2>1 DEF AsksFor
  <1>5. CASE c.op \in {"updateItem", "addPoint", "importPoints"}
    <2>1. Edited(c, list)[i] =
             IF i # c.item THEN list[i]
             ELSE IF c.op = "updateItem" THEN [list[i] EXCEPT !.settings = Merged(c, @)]
             ELSE [list[i] EXCEPT !.points = @ \cup c.points]
      BY <1>1, <1>5 DEF Edited, List
    <2>2. Edited(c, list)[i] \in Entry /\ list[i].points \subseteq Edited(c, list)[i].points
      <3>1. Merged(c, list[i].settings) \in SUBSET Setting
        BY <1>1, MergedType DEF Entry
      <3> QED BY <1>1, <2>1, <3>1 DEF Entry
    <2> QED BY <1>1, <2>2
  <1> QED BY <1>2, <1>3, <1>4, <1>5 DEF ItemOp

LEMMA PatchListLoses ==
  ASSUME AssetInv, NEW s \in Session, PatchList(s),
         NEW a \in Asset, NEW k \in Kind, NEW i \in Item, Loses(a, k, i)
  PROVE  AsksFor(cmd[s], a, k, i) \/ (disturbed[s] /\ <<a, k>> \in Works(cmd[s]))
  <1> DEFINE c == cmd[s]
             read == seen[s].lists[c.kind]
             edited == Edited(c, read)
  <1>1. /\ At(s, "write") /\ c \in Command /\ c.op \in ItemOp
        /\ c.asset \in Asset /\ c.kind \in Kind
        /\ read \in List /\ Sends(c, read)
        /\ assets[c.asset] # None /\ assets'[c.asset] # None
        /\ assets'[c.asset].lists = [assets[c.asset].lists EXCEPT ![c.kind] = edited]
        /\ assets[c.asset].lists \in [Kind -> List]
        /\ \A b \in Asset \ {c.asset} : assets'[b] = assets[b]
    BY ListPatched DEF AssetInv
  <1>2. a = c.asset /\ k = c.kind
    <2> HIDE DEF edited
    <2>1. assets[a].lists[k] \in List \/ assets[a] = None
      BY DEF AssetInv, TypeInv, AssetType, AssetBody
    <2>2. a = c.asset
      BY <1>1, <2>1 DEF Loses, Entries
    <2>3. k = c.kind
      BY <1>1, <2>1, <2>2 DEF Loses, Entries
    <2> QED BY <2>2, <2>3
  <1>3. CASE disturbed[s]
    BY <1>1, <1>2, <1>3, WorksOf
  <1>4. CASE ~disturbed[s]
    <2>1. assets[a].lists[k] = read
      BY <1>1, <1>2, <1>4 DEF AssetInv, Current, Reading
    <2>2. assets'[a].lists[k] = edited
      <3> HIDE DEF edited
      <3> QED BY <1>1, <1>2
    <2>3. read[i] # None /\ ~(edited[i] # None /\ read[i].points \subseteq edited[i].points)
      BY <1>1, <1>2, <2>1, <2>2 DEF Loses, Entries
    <2> QED BY <1>1, <1>2, <2>3, EditedLoses
  <1> QED BY <1>3, <1>4

(* Every loss of an item, or of a point of one, was asked for by the command   *)
(* that wrote, unless another had written what it worked on.                   *)
THEOREM NothingIsLost == Spec => NothingLost
  <1> DEFINE Excused(a, k, i) ==
               \E s \in Session :
                  /\ Writes(s)
                  /\ \/ AsksFor(cmd[s], a, k, i)
                     \/ disturbed[s] /\ <<a, k>> \in Works(cmd[s])
  <1>1. ASSUME AssetInv, Next, NEW a \in Asset, NEW k \in Kind, NEW i \in Item,
               Loses(a, k, i)
        PROVE  Excused(a, k, i)
    <2>1. assets'[a] # assets[a]
      BY <1>1 DEF Loses, Entries
    <2>2. PICK s \in Session :
             PatchList(s) \/ PatchAsset(s) \/ PutAsset(s) \/ DropAsset(s)
      <3>1. \A s \in Session : Begin(s) => UNCHANGED assets
        BY BeginStarts DEF Starts
      <3> QED BY <1>1, <2>1, <3>1 DEF Next, Continue, ShowAsset, GetDevice, GetAsset,
            Validate, ShowDevice, PatchDevice, PatchEndpoints, PutDevice, DropDevice,
            ShowResult, Fail
    <2>3. Writes(s)
      BY <1>1, <2>2 DEF Writes, Wrote, PatchList, PatchAsset, PutAsset, DropAsset,
         AssetInv, TypeInv, AssetType
    <2>4. CASE PatchList(s)
      BY <1>1, <2>3, <2>4, PatchListLoses
    <2>5. CASE PatchAsset(s)
      <3>1. assets'[a] # None /\ assets'[a].lists = assets[a].lists
        BY <1>1, <2>1, <2>5, DefaultsPatched DEF AssetInv
      <3>2. assets[a].lists[k][i] \in Entry
        BY <1>1 DEF Loses, Entries, AssetInv, TypeInv, AssetType, AssetBody, List
      <3> QED BY <1>1, <3>1, <3>2 DEF Loses, Entries
    <2>6. CASE PutAsset(s) \/ DropAsset(s)
      <3>1. At(s, "write") /\ cmd[s].asset = a
        BY <1>1, <2>1, <2>6 DEF PutAsset, DropAsset, AssetInv, TypeInv, AssetType
      <3>2. CASE cmd[s].op \in {"createAsset", "deleteAsset"}
        BY <2>3, <3>1, <3>2 DEF AsksFor
      <3>3. CASE cmd[s].op = "createAssetByType"
        <4>1. disturbed[s]
          BY <1>1, <3>1, <3>3 DEF AssetInv, Current, Loses, Entries
        <4>2. <<a, k>> \in Works(cmd[s])
          BY <3>1, <3>3, WorksOf
        <4> QED BY <2>3, <4>1, <4>2
      <3> QED BY <2>6, <3>2, <3>3 DEF PutAsset, DropAsset
    <2> QED BY <2>2, <2>4, <2>5, <2>6
  <1>2. AssetInv /\ [Next]_vars
          => [\A a \in Asset, k \in Kind, i \in Item :
                Entries(a, k, i) /\ ~(Entries(a, k, i)' /\
                    assets[a].lists[k][i].points \subseteq assets'[a].lists[k][i].points)
                => Excused(a, k, i)]_vars
    BY <1>1 DEF Loses
  <1> QED BY <1>2, AssetInvariant, PTL DEF Spec, NothingLost

-------------------------------------------------------------------------------
(* The inbound endpoints of a device                                           *)

(* What a process has read of a device's endpoints is still so.  What types    *)
(* they have does not matter here: DeviceType is about them.                   *)
DeviceInv ==
    /\ TypeInv
    /\ DOMAIN devices = Device
    /\ \A d \in Device : devices[d] # None => DOMAIN devices[d] = Endpoint
    /\ DOMAIN listed = Session
    /\ \A s \in Session :
          At(s, "write") /\ cmd[s].op \in EndpointOp =>
             /\ DOMAIN listed[s] = Endpoint
             /\ ~disturbed[s] => listed[s] = devices[cmd[s].device]

LEMMA DeviceInit == Init => DeviceInv
  <1> SUFFICES ASSUME Init PROVE DeviceInv
    OBVIOUS
  <1>1. work.devices \in [Device -> Inbound \cup {None}]
    BY WorkloadAssumption DEF Init
  <1>2. \A d \in Device : devices[d] # None => devices[d] \in Inbound
    BY <1>1 DEF Init
  <1>3. \A d \in Device : devices[d] # None => DOMAIN devices[d] = Endpoint
    BY <1>2 DEF Inbound
  <1> QED BY <1>1, <1>3, TypeInit DEF Init, DeviceInv

(* A process that reads or finishes                                            *)
LEMMA DeviceReads ==
  ASSUME DeviceInv, TypeInv', NEW s \in Session, UNCHANGED devices,
         Begin(s) \/ ShowAsset(s) \/ GetDevice(s) \/ GetAsset(s) \/ Validate(s)
         \/ ShowDevice(s) \/ ShowResult(s) \/ Fail(s)
  PROVE  DeviceInv'
  <1>1. /\ DOMAIN listed' = Session
        /\ \A t \in Session \ {s} :
              /\ pc'[t] = pc[t] /\ cmd'[t] = cmd[t] /\ listed'[t] = listed[t]
              /\ disturbed'[t] = disturbed[t]
    <2>1. CASE Begin(s)
      BY <2>1, BeginStarts DEF Starts, DeviceInv, TypeInv, AssetType
    <2>2. CASE ShowAsset(s) \/ GetDevice(s) \/ GetAsset(s)
      BY <2>2 DEF ShowAsset, GetDevice, GetAsset, Goto, DeviceInv, TypeInv, AssetType
    <2>3. CASE Validate(s) \/ ShowDevice(s) \/ ShowResult(s) \/ Fail(s)
      BY <2>3 DEF Validate, ShowDevice, ShowResult, Fail, Checked, Goto, Finish,
         DeviceInv, TypeInv, AssetType
    <2> QED BY <2>1, <2>2, <2>3
  <1>2. pc'[s] = "write" /\ cmd'[s].op \in EndpointOp
        => DOMAIN listed'[s] = Endpoint /\ listed'[s] = devices[cmd'[s].device]
    <2>1. CASE Begin(s)
      <3>1. PICK c \in work.commands[s] :
               cmd' = [cmd EXCEPT ![s] = c] /\ pc' = [pc EXCEPT ![s] = FirstStep(c.op)]
        BY <2>1, BeginStarts DEF Starts
      <3>2. cmd'[s] = c /\ pc'[s] = FirstStep(c.op)
        BY <3>1 DEF DeviceInv, TypeInv, AssetType
      <3> QED BY <3>2 DEF FirstStep, EndpointOp, ItemOp
    <2>2. CASE ShowAsset(s) \/ GetDevice(s) \/ GetAsset(s) \/ Validate(s)
      <3>1. cmd[s].op \notin EndpointOp
        BY <2>2 DEF ShowAsset, GetDevice, GetAsset, Validate, DeviceInv, TypeInv, Progress,
           EndpointOp, ItemOp
      <3>2. cmd'[s] = cmd[s]
        BY <2>2 DEF ShowAsset, GetDevice, GetAsset, Validate, Checked, Goto
      <3> QED BY <3>1, <3>2
    <2>3. CASE ShowDevice(s)
      <3>1. cmd[s].device \in Device
        BY <2>3, CommandType DEF ShowDevice, DeviceInv
      <3>2. /\ devices[cmd[s].device] # None
            /\ listed' = [listed EXCEPT ![s] = devices[cmd[s].device]]
            /\ cmd' = cmd
        BY <2>3 DEF ShowDevice, Checked, Goto
      <3> QED BY <3>1, <3>2 DEF DeviceInv
    <2>4. CASE ShowResult(s) \/ Fail(s)
      BY <2>4 DEF ShowResult, Fail, Finish, DeviceInv, TypeInv, AssetType
    <2> QED BY <2>1, <2>2, <2>3, <2>4
  <1> QED BY <1>1, <1>2 DEF DeviceInv

(* A process that writes: what another has read of the device is as it was, or *)
(* it is disturbed.                                                            *)
LEMMA DeviceWrites ==
  ASSUME DeviceInv, TypeInv', NEW s \in Session, NEW touched,
         Wrote(s, touched, "showResult"), DOMAIN devices' = Device,
         \A d \in Device : devices'[d] # None => DOMAIN devices'[d] = Endpoint,
         \A d \in Device : <<d, "inbound">> \notin touched => devices'[d] = devices[d]
  PROVE  DeviceInv'
  <1>1. listed' = listed /\ pc'[s] = "showResult"
    BY DEF Wrote, DeviceInv, TypeInv, AssetType
  <1>2. ASSUME NEW t \in Session \ {s}, pc'[t] = "write", cmd'[t].op \in EndpointOp
        PROVE  /\ DOMAIN listed'[t] = Endpoint
               /\ ~disturbed'[t] => listed'[t] = devices'[cmd'[t].device]
    <2>1. /\ pc[t] = "write" /\ cmd'[t] = cmd[t]
          /\ disturbed'[t] = (disturbed[t]
                                \/ (cmd[t] # None /\ Works(cmd[t]) \cap touched # {}))
      BY <1>2 DEF Wrote, DeviceInv, TypeInv, AssetType
    <2>2. cmd[t] \in Command /\ cmd[t].device \in Device /\ cmd[t] # None
      BY <2>1, CommandType, NoneAssumption DEF DeviceInv
    <2>3. ~disturbed'[t] => ~disturbed[t] /\ <<cmd[t].device, "inbound">> \notin touched
      BY <1>2, <2>1, <2>2, WorksOf
    <2> QED BY <1>1, <1>2, <2>1, <2>2, <2>3 DEF DeviceInv
  <1> QED BY <1>1, <1>2 DEF DeviceInv

LEMMA DeviceStep == DeviceInv /\ [Next]_vars => DeviceInv'
  <1> SUFFICES ASSUME DeviceInv, [Next]_vars PROVE DeviceInv'
    OBVIOUS
  <1>1. TypeInv'
    BY TypeStep DEF DeviceInv
  <1>2. CASE UNCHANGED vars
    BY <1>1, <1>2 DEF DeviceInv
  <1>3. ASSUME NEW s \in Session, Begin(s) PROVE DeviceInv'
    BY <1>1, <1>3, BeginStarts, DeviceReads DEF Starts
  <1>4. ASSUME NEW s \in Session,
               \/ ShowAsset(s) \/ GetDevice(s) \/ GetAsset(s) \/ Validate(s)
               \/ ShowDevice(s) \/ ShowResult(s) \/ Fail(s)
        PROVE  DeviceInv'
    <2>1. UNCHANGED devices
      BY <1>4 DEF ShowAsset, GetDevice, GetAsset, Validate, ShowDevice, ShowResult, Fail
    <2> QED BY <1>1, <1>4, <2>1, DeviceReads
  <1>5. ASSUME NEW s \in Session,
               PatchList(s) \/ PatchAsset(s) \/ PutAsset(s) \/ DropAsset(s) \/ PatchDevice(s)
        PROVE  DeviceInv'
    <2>1. UNCHANGED devices /\ \E touched : Wrote(s, touched, "showResult")
      BY <1>5 DEF PatchList, PatchAsset, PutAsset, DropAsset, PatchDevice
    <2> QED BY <1>1, <2>1, DeviceWrites DEF DeviceInv
  <1>6. ASSUME NEW s \in Session, PatchEndpoints(s) \/ PutDevice(s) \/ DropDevice(s)
        PROVE  DeviceInv'
    <2> DEFINE d == cmd[s].device
    <2>1. At(s, "write") /\ Wrote(s, {<<d, "inbound">>}, "showResult")
      BY <1>6 DEF PatchEndpoints, PutDevice, DropDevice
    <2>2. d \in Device
      BY <2>1, CommandType DEF DeviceInv
    <2>3. PICK body : /\ devices' = [devices EXCEPT ![d] = body]
                      /\ body # None => DOMAIN body = Endpoint
      BY <1>6 DEF PatchEndpoints, PutDevice, DropDevice, Patched, NoEndpoints
    <2>4. /\ DOMAIN devices' = Device
          /\ \A e \in Device : devices'[e] # None => DOMAIN devices'[e] = Endpoint
          /\ \A e \in Device : e # d => devices'[e] = devices[e]
      BY <2>2, <2>3 DEF DeviceInv
    <2> QED BY <1>1, <2>1, <2>4, DeviceWrites
  <1> QED BY <1>2, <1>3, <1>4, <1>5, <1>6 DEF Next, Continue

LEMMA DeviceInvariant == Spec => []DeviceInv
  BY DeviceInit, DeviceStep, PTL DEF Spec

(* What is sent for an endpoint a command does not name is what was read of it.*)
LEMMA SentKeeps ==
  ASSUME NEW c, NEW read, NEW gone \in {Absent, Null}, DOMAIN read = Endpoint,
         NEW e \in Endpoint, e # c.endpoint
  PROVE  \/ Patched(read, Sent(c, read), gone)[e] = read[e]
         \/ read[e] = Null /\ Patched(read, Sent(c, read), gone)[e] \in {Absent, Null}
  <1>1. CASE c.op = "addEndpoint"
    <2>1. Sent(c, read)[e] = read[e]
      BY <1>1 DEF Sent
    <2> QED BY <2>1, NoneAssumption DEF Patched
  <1>2. CASE c.op # "addEndpoint"
    <2>1. Sent(c, read)[e] = IF read[e] = Null THEN Null ELSE Absent
      BY <1>2 DEF Sent
    <2> QED BY <2>1, NoneAssumption DEF Patched
  <1> QED BY <1>1, <1>2

(* An endpoint changes only by a command that names it, or creates its device, *)
(* unless another had written the device's endpoints.                          *)
THEOREM EndpointsAreKept == Spec => EndpointsKept
  <1> DEFINE Changes(d, e) ==
               /\ devices[d] # None /\ devices'[d] # None
               /\ {devices[d][e].type, devices'[d][e].type} \cap Type # {}
               /\ devices[d][e] # devices'[d][e]
             Excused(d, e) ==
               \E s \in Session :
                  /\ Writes(s) /\ cmd[s].device = d
                  /\ disturbed[s] \/ cmd[s].op = "createDevice" \/ cmd[s].endpoint = e
  <1>1. ASSUME DeviceInv, Next, NEW d \in Device, NEW e \in Endpoint, Changes(d, e)
        PROVE  Excused(d, e)
    <2>1. devices'[d] # devices[d]
      BY <1>1
    <2>2. PICK s \in Session : PatchEndpoints(s) \/ PutDevice(s) \/ DropDevice(s)
      <3>1. \A s \in Session : Begin(s) => UNCHANGED devices
        BY BeginStarts DEF Starts
      <3> QED BY <1>1, <2>1, <3>1 DEF Next, Continue, ShowAsset, GetDevice, GetAsset,
            Validate, ShowDevice, PatchDevice, PatchList, PatchAsset, PutAsset, DropAsset,
            ShowResult, Fail
    <2>3. Writes(s)
      BY <1>1, <2>2 DEF Writes, Wrote, PatchEndpoints, PutDevice, DropDevice,
         DeviceInv, TypeInv, AssetType
    <2>4. cmd[s].device = d
      BY <1>1, <2>1, <2>2 DEF PatchEndpoints, PutDevice, DropDevice, DeviceInv
    <2>5. CASE DropDevice(s)
      BY <1>1, <2>4, <2>5 DEF DropDevice, DeviceInv
    <2>6. CASE PutDevice(s)
      BY <2>3, <2>4, <2>6 DEF PutDevice
    <2>7. CASE PatchEndpoints(s)
      <3> DEFINE c == cmd[s]
      <3>1. PICK gone \in {Absent, Null} :
               devices'[d] = Patched(devices[d], Sent(c, listed[s]), gone)
        BY <1>1, <2>4, <2>7 DEF PatchEndpoints, DeviceInv
      <3>2. SUFFICES ASSUME ~disturbed[s], c.endpoint # e PROVE FALSE
        BY <2>3, <2>4
      <3>3. listed[s] = devices[d] /\ DOMAIN listed[s] = Endpoint
        BY <1>1, <2>4, <2>7, <3>2 DEF PatchEndpoints, DeviceInv
      <3>4. \/ devices'[d][e] = devices[d][e]
            \/ devices[d][e] = Null /\ devices'[d][e] \in {Absent, Null}
        BY <3>1, <3>2, <3>3, SentKeeps
      <3>5. Absent.type \notin Type /\ Null.type \notin Type
        BY DEF Absent, Null, Type, Builtin
      <3> QED BY <1>1, <3>4, <3>5
    <2> QED BY <2>2, <2>5, <2>6, <2>7
  <1>2. DeviceInv /\ [Next]_vars
          => [\A d \in Device, e \in Endpoint : Changes(d, e) => Excused(d, e)]_vars
    BY <1>1
  <1> QED BY <1>2, DeviceInvariant, PTL DEF Spec, EndpointsKept

-------------------------------------------------------------------------------
(* The settings that come from a configuration file                            *)

(* A process at a step that comes after the device was read, with a file for   *)
(* an item, has had it accepted for the type of the endpoint it read.          *)
Matched(s) ==
    /\ At(s, "validate") \/ At(s, "write")
    /\ cmd[s].op \in {"addItem", "updateItem"}
    /\ cmd[s].detect /\ cmd[s].config # None
    => /\ listed[s][seen[s].endpoint].type \in Type
       /\ ConfigAccepted(cmd[s], listed[s][seen[s].endpoint].type)

FileInv == DeviceInv /\ \A s \in Session : Matched(s)

LEMMA FileInit == Init => FileInv
  BY DeviceInit DEF Init, FileInv, Matched

(* Nothing it depends on changes while another process takes a step.           *)
LEMMA OthersMatched ==
  ASSUME DeviceInv, DeviceInv', NEW s \in Session, Begin(s) \/ Continue(s),
         NEW t \in Session \ {s}, Matched(t)
  PROVE  Matched(t)'
  <1>1. /\ pc'[t] = pc[t] /\ cmd'[t] = cmd[t] /\ seen'[t] = seen[t]
        /\ listed'[t] = listed[t] /\ work' = work
    <2>1. CASE Begin(s)
      BY <2>1, BeginStarts DEF Starts, DeviceInv, TypeInv, AssetType
    <2>2. CASE ShowAsset(s) \/ GetDevice(s) \/ GetAsset(s)
      BY <2>2 DEF ShowAsset, GetDevice, GetAsset, Goto, DeviceInv, TypeInv, AssetType
    <2>3. CASE Validate(s) \/ ShowDevice(s)
      <3>1. /\ pc' = [pc EXCEPT ![s] = "write"] /\ UNCHANGED <<work, cmd, seen>>
            /\ listed' = listed \/ \E x : listed' = [listed EXCEPT ![s] = x]
        <4>1. CASE Validate(s)
          BY <4>1 DEF Validate, Checked, Goto
        <4>2. CASE ShowDevice(s)
          BY <4>2 DEF ShowDevice, Checked, Goto
        <4> QED BY <2>3, <4>1, <4>2
      <3> QED BY <3>1 DEF DeviceInv, TypeInv, AssetType
    <2>4. CASE ShowResult(s) \/ Fail(s)
      <3>1. Finish(s)
        BY <2>4, Zenon DEF ShowResult, Fail
      <3> QED BY <3>1 DEF Finish, DeviceInv, TypeInv, AssetType
    <2>5. CASE \/ PatchList(s) \/ PatchAsset(s) \/ PutAsset(s) \/ DropAsset(s)
               \/ PatchEndpoints(s) \/ PutDevice(s) \/ DropDevice(s) \/ PatchDevice(s)
      <3>1. \E touched : Wrote(s, touched, "showResult")
        BY <2>5 DEF PatchList, PatchAsset, PutAsset, DropAsset, PatchEndpoints,
           PutDevice, DropDevice, PatchDevice
      <3> QED BY <3>1 DEF Wrote, DeviceInv, TypeInv, AssetType
    <2> QED BY <2>1, <2>2, <2>3, <2>4, <2>5 DEF Continue
  <1> QED BY <1>1 DEF Matched, ConfigAccepted

(* The device is read, and the file is accepted for its endpoint.              *)
LEMMA GetDeviceMatched ==
  ASSUME DeviceInv, NEW s \in Session, GetDevice(s)
  PROVE  Matched(s)'
  <1> DEFINE c == cmd[s]
             a == seen[s]
             type == ConnectorType(a.device, a.endpoint)
  <1>1. cmd' = cmd /\ seen' = seen /\ work' = work
    BY DEF GetDevice, Goto
  <1>2. SUFFICES ASSUME c.op \in {"addItem", "updateItem"}, c.detect, c.config # None
                 PROVE  (/\ listed[s][seen[s].endpoint].type \in Type
                         /\ ConfigAccepted(cmd[s], listed[s][seen[s].endpoint].type))'
    BY <1>1 DEF Matched
  <1>3. Backed(c, a.device, a.endpoint) /\ listed' = [listed EXCEPT ![s] = devices[a.device]]
    BY <1>2 DEF GetDevice
  <1>4. type \in Type /\ ConfigAccepted(c, type)
    BY <1>2, <1>3 DEF Backed
  <1>5. type = devices[a.device][a.endpoint].type
    <2>1. "absent" \notin Type
      BY DEF Type, Builtin
    <2> QED BY <1>4, <2>1 DEF ConnectorType
  <1>6. listed'[s] = devices[a.device]
    BY <1>3 DEF DeviceInv
  <1>7. listed'[s][seen'[s].endpoint].type = type
    BY <1>1, <1>5, <1>6
  <1> HIDE DEF type
  <1> QED BY <1>1, <1>4, <1>7 DEF ConfigAccepted

LEMMA OwnMatched ==
  ASSUME DeviceInv, DeviceInv', NEW s \in Session, Begin(s) \/ Continue(s), Matched(s)
  PROVE  Matched(s)'
  <1>1. CASE Begin(s)
    <2>1. PICK c \in work.commands[s] :
             cmd' = [cmd EXCEPT ![s] = c] /\ pc' = [pc EXCEPT ![s] = FirstStep(c.op)]
      BY <1>1, BeginStarts DEF Starts
    <2>2. cmd'[s] = c /\ pc'[s] = FirstStep(c.op)
      BY <2>1 DEF DeviceInv, TypeInv, AssetType
    <2> QED BY <2>2 DEF Matched, FirstStep, ItemOp, EndpointOp
  <1>2. CASE ShowAsset(s)
    <2>1. cmd'[s] = cmd[s] /\ (cmd[s].op \notin DevicelessOp => pc'[s] = "getDevice")
      BY <1>2 DEF ShowAsset, Goto, DeviceInv, TypeInv, AssetType
    <2> QED BY <2>1 DEF Matched, DevicelessOp
  <1>3. CASE GetDevice(s)
    BY <1>3, GetDeviceMatched
  <1>4. CASE GetAsset(s) \/ ShowDevice(s)
    <2>1. cmd'[s] = cmd[s] /\ cmd[s].op \in EndpointOp \cup {"createAssetByType"}
      BY <1>4 DEF GetAsset, ShowDevice, Checked, Goto, DeviceInv, TypeInv, Progress
    <2> QED BY <2>1 DEF Matched, EndpointOp
  <1>5. CASE Validate(s)
    <2>1. pc[s] = "validate" /\ UNCHANGED <<cmd, seen, listed, work>>
      BY <1>5 DEF Validate, Checked, Goto
    <2> QED BY <2>1 DEF Matched, ConfigAccepted
  <1>6. CASE ShowResult(s) \/ Fail(s)
    BY <1>6 DEF ShowResult, Fail, Finish, Matched, DeviceInv, TypeInv, AssetType
  <1>7. CASE \/ PatchList(s) \/ PatchAsset(s) \/ PutAsset(s) \/ DropAsset(s)
             \/ PatchEndpoints(s) \/ PutDevice(s) \/ DropDevice(s) \/ PatchDevice(s)
    <2>1. \E touched : Wrote(s, touched, "showResult")
      BY <1>7 DEF PatchList, PatchAsset, PutAsset, DropAsset, PatchEndpoints,
         PutDevice, DropDevice, PatchDevice
    <2> QED BY <2>1 DEF Wrote, Matched, DeviceInv, TypeInv, AssetType
  <1> QED BY <1>1, <1>2, <1>3, <1>4, <1>5, <1>6, <1>7 DEF Continue

LEMMA FileStep == FileInv /\ [Next]_vars => FileInv'
  <1> SUFFICES ASSUME FileInv, [Next]_vars PROVE FileInv'
    OBVIOUS
  <1>1. DeviceInv'
    BY DeviceStep DEF FileInv
  <1>2. CASE UNCHANGED vars
    <2>1. UNCHANGED <<work, pc, cmd, seen, listed>>
      BY <1>2 DEF vars
    <2>2. ASSUME NEW s \in Session PROVE Matched(s)'
      <3>1. Matched(s)
        BY DEF FileInv
      <3> QED BY <2>1, <3>1 DEF Matched, ConfigAccepted
    <2> QED BY <1>1, <2>2 DEF FileInv
  <1>3. ASSUME NEW s \in Session, Begin(s) \/ Continue(s) PROVE FileInv'
    BY <1>1, <1>3, OthersMatched, OwnMatched DEF FileInv
  <1> QED BY <1>2, <1>3 DEF Next

LEMMA FileInvariant == Spec => []FileInv
  BY FileInit, FileStep, PTL DEF Spec

(* Among templates whose tags are all versions the lookup finds the one with   *)
(* the latest tag that is listed first, if there is one.                       *)
LEMMA LatestIsFound ==
  ASSUME NEW templates \in Seq(ConnectorTemplate), NEW type \in Type,
         NEW i \in DOMAIN templates, templates[i].type = type,
         \A j \in DOMAIN templates : templates[j].type = type => templates[j].tag # None,
         \A j \in DOMAIN templates : templates[j].type = type =>
            \/ templates[j].tag < templates[i].tag
            \/ templates[j].tag = templates[i].tag /\ i <= j
  PROVE  TemplateForType(templates, type, BOOLEAN) = templates[i]
  <1> DEFINE M == Matching(templates, type, BOOLEAN)
  <1>1. \A j \in DOMAIN templates : templates[j] \in ConnectorTemplate
    OBVIOUS
  <1>2. \A j \in DOMAIN templates :
           templates[j].mcr \in BOOLEAN /\ templates[j].tag \in Nat \cup {None}
    BY <1>1 DEF ConnectorTemplate
  <1>3. M = {j \in DOMAIN templates : templates[j].type = type}
    BY <1>2 DEF Matching
  <1>4. i \in M /\ M # {} /\ M \subseteq Nat
    BY <1>3
  <1>5. \A j \in M : templates[j].tag \in Nat /\ templates[j].tag # None
    BY <1>2, <1>3
  <1>6. IsLatest(templates, M, i)
    BY <1>3, <1>4, <1>5 DEF IsLatest
  <1>7. ASSUME NEW j \in M, IsLatest(templates, M, j) PROVE j = i
    <2>1. \/ templates[i].tag < templates[j].tag
          \/ templates[i].tag = templates[j].tag /\ j <= i
      BY <1>4, <1>5, <1>7 DEF IsLatest
    <2>2. \/ templates[j].tag < templates[i].tag
          \/ templates[j].tag = templates[i].tag /\ i <= j
      BY <1>3
    <2>3. i \in Nat /\ j \in Nat /\ templates[i].tag \in Nat /\ templates[j].tag \in Nat
      BY <1>4, <1>5
    <2> QED BY <2>1, <2>2, <2>3
  <1> HIDE DEF M
  <1>8. (CHOOSE j \in M : IsLatest(templates, M, j)) = i
    BY <1>4, <1>6, <1>7
  <1>9. LatestOf(templates, M) = templates[i]
    <2>1. ~ \E f \in M : IsFirst(M, f) /\ templates[f].tag = None
      BY <1>5
    <2> QED BY <1>8, <2>1 DEF LatestOf
  <1> QED BY <1>4, <1>9 DEF TemplateForType, M

(* What a file that is accepted for an item has, the connector's schema takes. *)
LEMMA AcceptedFits ==
  ASSUME NEW c \in Command, c.op \in {"addItem", "updateItem"}, c.config # None,
         NEW type, ConfigAccepted(c, type)
  PROVE  /\ MetadataFor(work.templates, type) # None
         /\ Fits(c.config.settings,
                 MetadataFor(work.templates, type).schema[c.kind])
  <1> DEFINE metadata == MetadataFor(work.templates, type)
  <1>1. c.op \notin AssetOp /\ SectionOf(c) = c.kind /\ c.kind \in Kind
    BY DEF AssetOp, SectionOf, Command
  <1> HIDE DEF metadata
  <1>2. CASE c.kind = "datasets"
    BY <1>1, <1>2 DEF ConfigAccepted, DatasetConfigAccepted, Accepts, metadata
  <1>3. CASE c.kind = "eventGroups"
    BY <1>1, <1>3 DEF ConfigAccepted, EventGroupConfigAccepted, Accepts, metadata
  <1>4. CASE c.kind = "streams"
    BY <1>1, <1>4 DEF ConfigAccepted, StreamConfigAccepted, Accepts, metadata
  <1>5. CASE c.kind = "managementGroups"
    BY <1>1, <1>5 DEF ConfigAccepted, ManagementConfigAccepted, Accepts, metadata
  <1> QED BY <1>1, <1>2, <1>3, <1>4, <1>5 DEF Kind

(* The settings an item gets from a configuration file are accepted by the     *)
(* latest connector for the type of the endpoint the command has read.         *)
THEOREM SettingsAreFit == Spec => SettingsFit
  <1> DEFINE c(s)     == cmd[s]
             type(s)  == listed[s][seen[s].endpoint].type
             Of(s)    == {i \in DOMAIN work.templates : work.templates[i].type = type(s)}
             Tag(i)   == work.templates[i].tag
             given(s) == c(s).config.settings
                           \cap assets'[c(s).asset].lists[c(s).kind][c(s).item].settings
             Fitting(s) ==
               /\ PatchList(s) /\ c(s).detect /\ c(s).config # None
               /\ c(s).op \in {"addItem", "updateItem"}
               /\ devices[seen[s].device] = listed[s]
               /\ type(s) # "opcua" /\ \A i \in Of(s) : Tag(i) # None
               => \A i \in Of(s) :
                     (\A j \in Of(s) : Tag(j) < Tag(i) \/ (Tag(j) = Tag(i) /\ i <= j))
                     => /\ work.templates[i].metadata # None
                        /\ Fits(given(s), work.templates[i].metadata.schema[c(s).kind])
  <1>1. ASSUME FileInv, NEW s \in Session PROVE Fitting(s)
    <2>1. SUFFICES ASSUME PatchList(s), c(s).detect, c(s).config # None,
                          c(s).op \in {"addItem", "updateItem"}, type(s) # "opcua",
                          \A i \in Of(s) : Tag(i) # None, NEW i \in Of(s),
                          \A j \in Of(s) : Tag(j) < Tag(i) \/ (Tag(j) = Tag(i) /\ i <= j)
                   PROVE  /\ work.templates[i].metadata # None
                          /\ Fits(given(s), work.templates[i].metadata.schema[c(s).kind])
      OBVIOUS
    <2>2. pc[s] = "write"
      BY <2>1 DEF PatchList
    <2>3. c(s) \in Command
      BY <1>1, <2>2, CommandType DEF FileInv, DeviceInv
    <2>4. type(s) \in Type /\ ConfigAccepted(c(s), type(s))
      BY <1>1, <2>1, <2>2 DEF FileInv, Matched
    <2>5. work.templates \in Seq(ConnectorTemplate)
      BY <1>1, WorkloadAssumption DEF FileInv, DeviceInv, TypeInv, AssetType
    <2>6. TemplateForType(work.templates, type(s), BOOLEAN) = work.templates[i]
      BY <2>1, <2>4, <2>5, LatestIsFound
    <2>7. work.templates[i] # None
      BY <2>5, ConnectorAssumption
    <2>8. MetadataFor(work.templates, type(s)) = work.templates[i].metadata
      BY <2>1, <2>6, <2>7 DEF MetadataFor
    <2>9. /\ work.templates[i].metadata # None
          /\ Fits(c(s).config.settings, work.templates[i].metadata.schema[c(s).kind])
      BY <2>1, <2>3, <2>4, <2>8, AcceptedFits
    <2> QED BY <2>9 DEF Fits
  <1>2. FileInv /\ [Next]_vars => [\A s \in Session : Fitting(s)]_vars
    BY <1>1
  <1> QED BY <1>2, FileInvariant, PTL DEF Spec, SettingsFit

-------------------------------------------------------------------------------
(* Natural numbers                                                             *)

Less == {p \in Nat \X Nat : p[1] < p[2]}

LEMMA LessIsWellFounded == IsWellFoundedOn(Less, Nat)
  <1>1. Less = OpToRel(<, Nat)
    BY DEF Less, OpToRel
  <1> QED BY <1>1, NatLessThanWellFounded

LEMMA SmallestOf ==
  ASSUME NEW T \in SUBSET Nat, T # {}
  PROVE  \E x \in T : \A y \in T : x <= y
  <1>1. PICK x \in T : \A y \in T : <<y, x>> \notin Less
    BY LessIsWellFounded, WFMin
  <1>2. ASSUME NEW y \in T PROVE x <= y
    <2>1. <<y, x>> \notin Less
      BY <1>1
    <2>2. x \in Nat /\ y \in Nat
      OBVIOUS
    <2> QED BY <2>1, <2>2 DEF Less
  <1> QED BY <1>2

(* Induction, on a set                                                         *)
LEMMA AllNaturals ==
  ASSUME NEW S \in SUBSET Nat, 0 \in S, \A n \in Nat : n \in S => n + 1 \in S
  PROVE  Nat \subseteq S
  <1>1. SUFFICES ASSUME Nat \ S # {} PROVE FALSE
    OBVIOUS
  <1>2. PICK m \in Nat \ S : \A n \in Nat \ S : m <= n
    BY <1>1, SmallestOf
  <1>3. m # 0 /\ m - 1 \in Nat /\ ~(m <= m - 1)
    BY <1>2
  <1>4. m - 1 \in S
    BY <1>2, <1>3
  <1>5. (m - 1) + 1 = m
    BY <1>2
  <1> QED BY <1>2, <1>3, <1>4, <1>5

-------------------------------------------------------------------------------
(* The types of devices                                                        *)

(* However many templates there are for a type, the lookup finds one.          *)
LEMMA LatestIsThere ==
  ASSUME NEW templates \in Seq(ConnectorTemplate),
         NEW matching \in SUBSET DOMAIN templates, matching # {}
  PROVE  LatestOf(templates, matching) \in ConnectorTemplate
  <1> DEFINE Versioned == {j \in matching : templates[j].tag # None}
             Wanted(i) ==
               IF \E f \in matching : IsFirst(matching, f) /\ templates[f].tag = None
               THEN IsFirst(matching, i) ELSE IsLatest(templates, matching, i)
             Upto(n) == {j \in Versioned : j <= n}
             Ahead(i, j) == \/ templates[j].tag < templates[i].tag
                            \/ templates[j].tag = templates[i].tag /\ i <= j
             Found == {n \in Nat : Upto(n) # {} =>
                          \E i \in Upto(n) : \A j \in Upto(n) : Ahead(i, j)}
  <1>1. matching \subseteq Nat /\ 0 \notin matching
    OBVIOUS
  <1>2. \A j \in Versioned : templates[j].tag \in Nat /\ j \in Nat /\ j # 0
    <2>1. \A j \in DOMAIN templates : templates[j] \in ConnectorTemplate
      OBVIOUS
    <2> QED BY <1>1, <2>1 DEF ConnectorTemplate
  <1>3. PICK first \in matching : IsFirst(matching, first)
    BY <1>1, SmallestOf DEF IsFirst
  <1>4. 0 \in Found
    <2>1. Upto(0) = {}
      BY <1>2
    <2> QED BY <2>1
  <1>5. ASSUME NEW n \in Nat, n \in Found PROVE n + 1 \in Found
    <2>1. CASE n + 1 \notin Versioned
      <3>1. Upto(n + 1) = Upto(n)
        BY <1>2, <2>1
      <3> QED BY <1>5, <3>1
    <2>2. CASE n + 1 \in Versioned
      <3>1. Upto(n + 1) = Upto(n) \cup {n + 1}
        BY <1>2, <2>2
      <3>2. templates[n + 1].tag \in Nat
        BY <1>2, <2>2
      <3>3. CASE Upto(n) = {}
        <4>1. Ahead(n + 1, n + 1)
          BY <3>2
        <4> QED BY <3>1, <3>3, <4>1
      <3>4. CASE Upto(n) # {}
        <4>1. PICK i \in Upto(n) : \A j \in Upto(n) : Ahead(i, j)
          BY <1>5, <3>4
        <4>2. i \in Nat /\ templates[i].tag \in Nat /\ i <= n
          BY <1>2
        <4>3. CASE Ahead(i, n + 1)
          <5> HIDE DEF Ahead, Upto
          <5>1. i \in Upto(n + 1) /\ \A j \in Upto(n + 1) : Ahead(i, j)
            BY <3>1, <4>1, <4>3
          <5> QED BY <5>1
        <4>4. CASE ~Ahead(i, n + 1)
          <5>1. templates[i].tag < templates[n + 1].tag
            BY <3>2, <4>2, <4>4
          <5>2. ASSUME NEW j \in Upto(n) PROVE Ahead(n + 1, j)
            <6>1. templates[j].tag \in Nat /\ Ahead(i, j)
              BY <1>2, <4>1
            <6>2. templates[j].tag <= templates[i].tag
              BY <4>2, <6>1
            <6>3. templates[j].tag < templates[n + 1].tag
              BY <3>2, <4>2, <5>1, <6>1, <6>2
            <6> QED BY <6>3
          <5>3. Ahead(n + 1, n + 1)
            BY <3>2
          <5> HIDE DEF Ahead, Upto
          <5>4. n + 1 \in Upto(n + 1) /\ \A j \in Upto(n + 1) : Ahead(n + 1, j)
            BY <3>1, <5>2, <5>3
          <5> QED BY <5>4
        <4> QED BY <4>3, <4>4
      <3> QED BY <3>3, <3>4
    <2> QED BY <2>1, <2>2
  <1>6. Len(templates) \in Found
    <2> HIDE DEF Found
    <2>1. Found \in SUBSET Nat
      BY DEF Found
    <2> QED BY <1>4, <1>5, <2>1, AllNaturals
  <1>7. \E i \in matching : Wanted(i)
    <2>1. CASE \E f \in matching : IsFirst(matching, f) /\ templates[f].tag = None
      BY <1>3, <2>1
    <2>2. CASE ~ \E f \in matching : IsFirst(matching, f) /\ templates[f].tag = None
      <3>1. first \in Versioned
        BY <1>3, <2>2
      <3>2. Upto(Len(templates)) = Versioned
        BY <1>1
      <3>3. PICK i \in Versioned : \A j \in Versioned : Ahead(i, j)
        BY <1>6, <3>1, <3>2
      <3>4. IsLatest(templates, matching, i)
        BY <3>3 DEF IsLatest
      <3> QED BY <2>2, <3>3, <3>4
    <2> QED BY <2>1, <2>2
  <1>8. (CHOOSE i \in matching : Wanted(i)) \in matching
    <2> HIDE DEF Wanted
    <2> QED BY <1>7
  <1>9. \A i \in matching : templates[i] \in ConnectorTemplate
    OBVIOUS
  <1> HIDE DEF Versioned, Upto, Ahead, Found
  <1> QED BY <1>8, <1>9 DEF LatestOf

LEMMA NewEndpointType ==
  ASSUME TypeInv, NEW c \in Command
  PROVE  NewEndpoint(c) \in EndpointBody
  <1> DEFINE t == TemplateForType(work.templates, c.type,
                                  {~(~c.detect /\ c.type = "custom")})
  <1>1. work.templates \in Seq(ConnectorTemplate)
    BY WorkloadAssumption DEF TypeInv, AssetType
  <1>2. t \in ConnectorTemplate \cup {None}
    BY <1>1, LatestIsThere DEF TemplateForType, Matching
  <1> HIDE DEF t
  <1>3. EndpointVersion(work.templates, c.type, ~c.detect /\ c.type = "custom")
          \in Nat \cup {None}
    BY <1>2 DEF EndpointVersion, ConnectorTemplate, t
  <1> QED BY <1>3 DEF NewEndpoint, EndpointBody, Command

(* What the merge patch makes of a device's endpoints are endpoints.           *)
LEMMA PatchedType ==
  ASSUME TypeInv, NEW c \in Command, NEW read \in Inbound, NEW current \in Inbound,
         NEW gone \in {Absent, Null}
  PROVE  Patched(current, Sent(c, read), gone) \in Inbound
  <1>1. c.endpoint \in Endpoint /\ NewEndpoint(c) \in EndpointBody
    BY NewEndpointType DEF Command
  <1>2. \A e \in Endpoint : Sent(c, read)[e] \in EndpointBody \cup {Absent, Null}
    <2> HIDE DEF Null, Absent
    <2> QED BY <1>1 DEF Sent, Inbound
  <1> QED BY <1>2 DEF Patched, Inbound

DeviceType ==
    /\ TypeInv
    /\ devices \in [Device -> Inbound \cup {None}]
    /\ listed \in [Session -> Inbound \cup {None}]
    /\ \A s \in Session : At(s, "write") /\ cmd[s].op \in EndpointOp => listed[s] # None

LEMMA DeviceTypeInit == Init => DeviceType
  <1> SUFFICES ASSUME Init PROVE DeviceType
    OBVIOUS
  <1>1. work.devices \in [Device -> Inbound \cup {None}]
    BY WorkloadAssumption DEF Init
  <1> QED BY <1>1, TypeInit DEF Init, DeviceType

(* A process that reads or finishes                                            *)
LEMMA DeviceReadsType ==
  ASSUME DeviceType, TypeInv', NEW s \in Session, UNCHANGED devices,
         \/ Begin(s) \/ ShowAsset(s) \/ GetDevice(s) \/ GetAsset(s) \/ Validate(s)
         \/ ShowDevice(s) \/ ShowResult(s) \/ Fail(s)
  PROVE  DeviceType'
  <1>1. CASE Begin(s)
    <2>1. PICK c \in work.commands[s] :
             cmd' = [cmd EXCEPT ![s] = c] /\ pc' = [pc EXCEPT ![s] = FirstStep(c.op)]
      BY <1>1, BeginStarts DEF Starts
    <2>2. listed' = listed /\ cmd'[s] = c /\ pc'[s] = FirstStep(c.op)
      BY <1>1, <2>1, BeginStarts DEF Starts, DeviceType, TypeInv, AssetType
    <2>3. \A t \in Session \ {s} : cmd'[t] = cmd[t] /\ pc'[t] = pc[t]
      BY <2>1 DEF DeviceType, TypeInv, AssetType
    <2> QED BY <2>2, <2>3 DEF DeviceType, FirstStep, EndpointOp, ItemOp
  <1>2. CASE ShowAsset(s) \/ GetAsset(s) \/ Validate(s)
    <2>1. cmd' = cmd /\ listed' = listed /\ \A t \in Session \ {s} : pc'[t] = pc[t]
      <3>1. cmd' = cmd /\ listed' = listed /\ \E step : pc' = [pc EXCEPT ![s] = step]
        BY <1>2 DEF ShowAsset, GetAsset, Validate, Checked, Goto
      <3> QED BY <3>1 DEF DeviceType, TypeInv, AssetType
    <2>2. cmd[s].op \notin EndpointOp
      <3>1. TypeInv
        BY DEF DeviceType
      <3>2. CASE ShowAsset(s)
        BY <3>1, <3>2 DEF ShowAsset, TypeInv, Progress, EndpointOp, ItemOp
      <3>3. CASE GetAsset(s)
        BY <3>1, <3>3 DEF GetAsset, TypeInv, Progress, EndpointOp, ItemOp
      <3>4. CASE Validate(s)
        BY <3>1, <3>4 DEF Validate, TypeInv, Progress, EndpointOp, ItemOp
      <3> QED BY <1>2, <3>2, <3>3, <3>4, Zenon
    <2> QED BY <2>1, <2>2 DEF DeviceType
  <1>3. CASE GetDevice(s)
    <2>1. /\ cmd' = cmd /\ \A t \in Session \ {s} : pc'[t] = pc[t]
          /\ cmd[s].op \notin EndpointOp
      BY <1>3 DEF GetDevice, Goto, DeviceType, TypeInv, AssetType, EndpointOp, ItemOp
    <2>2. PICK d \in Device : listed' = [listed EXCEPT ![s] = devices[d]]
      <3>1. cmd[s].device \in Device
        BY <1>3, CommandType DEF GetDevice, DeviceType
      <3>2. cmd[s].op \in ItemOp \cup {"updateAsset", "updateAssetByType"}
            => seen[s].device \in Device
        BY <1>3 DEF GetDevice, DeviceType, TypeInv, Progress, AssetBody
      <3> QED BY <1>3, <3>1, <3>2 DEF GetDevice
    <2>3. \A t \in Session : t # s => listed'[t] = listed[t]
      BY <2>2 DEF DeviceType
    <2> QED BY <2>1, <2>2, <2>3 DEF DeviceType
  <1>4. CASE ShowDevice(s)
    <2>1. cmd' = cmd /\ \A t \in Session \ {s} : pc'[t] = pc[t]
      BY <1>4 DEF ShowDevice, Checked, Goto, DeviceType, TypeInv, AssetType
    <2>2. /\ cmd[s].device \in Device /\ devices[cmd[s].device] # None
          /\ listed' = [listed EXCEPT ![s] = devices[cmd[s].device]]
      BY <1>4, CommandType DEF ShowDevice, DeviceType
    <2> QED BY <2>1, <2>2 DEF DeviceType
  <1>5. CASE ShowResult(s) \/ Fail(s)
    BY <1>5 DEF ShowResult, Fail, Finish, DeviceType, TypeInv, AssetType
  <1> QED BY <1>1, <1>2, <1>3, <1>4, <1>5

(* A process that writes                                                       *)
LEMMA DeviceWritesType ==
  ASSUME DeviceType, TypeInv', NEW s \in Session, NEW touched,
         Wrote(s, touched, "showResult"), devices' \in [Device -> Inbound \cup {None}]
  PROVE  DeviceType'
  BY DEF Wrote, DeviceType, TypeInv, AssetType

LEMMA DeviceTypeStep == DeviceType /\ [Next]_vars => DeviceType'
  <1> SUFFICES ASSUME DeviceType, [Next]_vars PROVE DeviceType'
    OBVIOUS
  <1>1. TypeInv'
    BY TypeStep DEF DeviceType
  <1>2. CASE UNCHANGED vars
    BY <1>1, <1>2 DEF DeviceType
  <1>3. ASSUME NEW s \in Session,
               \/ Begin(s) \/ ShowAsset(s) \/ GetDevice(s) \/ GetAsset(s) \/ Validate(s)
               \/ ShowDevice(s) \/ ShowResult(s) \/ Fail(s)
        PROVE  DeviceType'
    <2>1. Begin(s) => UNCHANGED devices
      BY BeginStarts DEF Starts
    <2>2. UNCHANGED devices
      BY <1>3, <2>1 DEF ShowAsset, GetDevice, GetAsset, Validate, ShowDevice, ShowResult, Fail
    <2> QED BY <1>1, <1>3, <2>2, DeviceReadsType
  <1>4. ASSUME NEW s \in Session,
               PatchList(s) \/ PatchAsset(s) \/ PutAsset(s) \/ DropAsset(s) \/ PatchDevice(s)
        PROVE  DeviceType'
    <2>1. UNCHANGED devices /\ \E touched : Wrote(s, touched, "showResult")
      BY <1>4 DEF PatchList, PatchAsset, PutAsset, DropAsset, PatchDevice
    <2> QED BY <1>1, <2>1, DeviceWritesType DEF DeviceType
  <1>5. ASSUME NEW s \in Session, PatchEndpoints(s) \/ PutDevice(s) \/ DropDevice(s)
        PROVE  DeviceType'
    <2> DEFINE c == cmd[s]
    <2>1. At(s, "write") /\ Wrote(s, {<<c.device, "inbound">>}, "showResult")
      BY <1>5 DEF PatchEndpoints, PutDevice, DropDevice
    <2>2. c \in Command /\ c.device \in Device
      BY <2>1, CommandType DEF DeviceType
    <2>3. NoEndpoints \in Inbound
      <3> HIDE DEF Absent
      <3> QED BY DEF NoEndpoints, Inbound
    <2>4. PICK body \in Inbound \cup {None} : devices' = [devices EXCEPT ![c.device] = body]
      <3>1. CASE PatchEndpoints(s)
        <4>1. devices[c.device] \in Inbound /\ listed[s] \in Inbound
          BY <2>1, <2>2, <3>1 DEF PatchEndpoints, DeviceType
        <4>2. PICK gone \in {Absent, Null} :
                 devices' = [devices EXCEPT ![c.device] =
                                Patched(devices[c.device], Sent(c, listed[s]), gone)]
          BY <3>1 DEF PatchEndpoints
        <4>3. Patched(devices[c.device], Sent(c, listed[s]), gone) \in Inbound
          BY <2>2, <4>1, PatchedType DEF DeviceType
        <4> QED BY <4>2, <4>3
      <3> QED BY <1>5, <2>3, <3>1 DEF PutDevice, DropDevice
    <2>5. devices' \in [Device -> Inbound \cup {None}]
      BY <2>2, <2>4 DEF DeviceType
    <2> QED BY <1>1, <2>1, <2>5, DeviceWritesType
  <1> QED BY <1>2, <1>3, <1>4, <1>5 DEF Next, Continue

(* Assets and devices stay well formed.                                        *)
THEOREM TypeCorrect == Spec => []TypeOK
  <1>1. DeviceType => TypeOK
    BY DEF DeviceType, TypeInv, AssetType, TypeOK
  <1> QED BY <1>1, DeviceTypeInit, DeviceTypeStep, PTL DEF Spec
================================================================================
