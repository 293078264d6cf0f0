--------------------------- MODULE ConnectorMetadata ---------------------------
(***************************************************************************)
(* What the namespace commands learn about a connector, and what they      *)
(* accept because of it (O/resources/connector_templates.py, lookups;      *)
(* providers/adr/validator.py; the config loaders of namespace_assets.py   *)
(* and namespace_devices.py).                                              *)
(*                                                                         *)
(* A connector template of the instance says which type of endpoint its    *)
(* connector is for and refers to metadata: the sections the connector     *)
(* has and, for some of them, a schema.  OPC UA's metadata comes with the  *)
(* extension.  There are two ways to look a template up, and they need not *)
(* find the same one.                                                      *)
(***************************************************************************)
EXTENDS Naturals, Sequences

CONSTANTS
    Setting,        \* connector specific settings, destinations among them
    Destination,
    OpcuaMetadata,  \* opcua_connector_metadata.json
    None

Builtin == {"opcua", "onvif", "media", "rest", "sse", "mqtt"}
Type    == Builtin \cup {"custom"}
Kind    == {"datasets", "eventGroups", "managementGroups", "streams"}
Points  == {"dataPoints", "events", "actions"}   \* in the first three
Section == Kind \cup Points \cup {"asset", "endpoint"}

(* A section may be there without a schema.                                 *)
Metadata == [sections : SUBSET Section,
             schema : [Section -> (SUBSET Setting) \cup {None}]]

(* tag: None is not a version number.                                       *)
ConnectorTemplate ==
    [type : Type, version : Nat, tag : Nat \cup {None}, mcr : BOOLEAN,
     metadata : Metadata \cup {None}]

EndpointBody == [type : Type, version : Nat \cup {None}]

(* --dataset-config, --asset-config, ...: the type it was written for, if   *)
(* it says, and what it has.                                                *)
ConfigFile == [type : Type \cup {None},
               keys : SUBSET {"configuration", "destinations"},
               settings : SUBSET Setting]

ASSUME ConnectorAssumption ==
    /\ Destination \subseteq Setting
    /\ OpcuaMetadata \in Metadata
    /\ None \notin Metadata /\ None \notin ConnectorTemplate /\ None \notin ConfigFile

-------------------------------------------------------------------------------
(* The commands that take the type from the endpoint, and those that take   *)
(* it as an argument                                                        *)

(* Where the templates for a type are. origins: whether one may come from   *)
(* the Microsoft registry (TRUE), from another (FALSE), or both.            *)
Matching(templates, type, origins) ==
    {i \in DOMAIN templates : templates[i].type = type /\ templates[i].mcr \in origins}

IsFirst(matching, i) == \A j \in matching : i <= j

AnyOf(templates, matching) ==   \* mutant: the first of them
    templates[CHOOSE i \in matching : IsFirst(matching, i)]

(* The tag is the latest, and i the first that has it.                      *)
IsLatest(templates, matching, i) ==
    /\ templates[i].tag # None
    /\ \A j \in matching : templates[j].tag # None =>
          \/ templates[j].tag < templates[i].tag
          \/ templates[j].tag = templates[i].tag /\ i <= j

(* "pick the one with the latest tag version": the first that has it.  If   *)
(* the tag of the very first is not a version, nothing compares with it.    *)
LatestOf(templates, matching) ==
    templates[CHOOSE i \in matching :
                 IF \E f \in matching : IsFirst(matching, f) /\ templates[f].tag = None
                 THEN IsFirst(matching, i) ELSE IsLatest(templates, matching, i)]

TemplateForType(templates, type, origins) ==
    LET matching == Matching(templates, type, origins)
    IN  IF matching = {} THEN None ELSE LatestOf(templates, matching)

(* The version an endpoint gets when none is given.                         *)
EndpointVersion(templates, type, isCustomCommand) ==
    LET t == TemplateForType(templates, type, {~isCustomCommand})
    IN  IF t = None THEN None ELSE t.version

(* None: the command is refused.                                            *)
MetadataFor(templates, type) ==
    LET t == TemplateForType(templates, type, BOOLEAN)
    IN  IF type = "opcua" THEN OpcuaMetadata
        ELSE IF t = None THEN None ELSE t.metadata

Supports(metadata, section) == metadata # None /\ section \in metadata.sections

Fits(settings, schema) == schema = None \/ settings \subseteq schema

(* What every loader does, for the keys it knows.                           *)
Accepts(config, type, metadata, section, keys) ==
    /\ config.type \in {None, type}
    /\ config.keys \cap keys # {}
    /\ metadata # None
    /\ Fits(config.settings, metadata.schema[section])

BothKeys == {"configuration", "destinations"}

DatasetConfigAccepted(config, type, metadata) ==
    Accepts(config, type, metadata, "datasets", BothKeys)
DatapointConfigAccepted(config, type, metadata) ==
    Accepts(config, type, metadata, "dataPoints", {"configuration"})
EventGroupConfigAccepted(config, type, metadata) ==
    Accepts(config, type, metadata, "eventGroups", BothKeys)
EventConfigAccepted(config, type, metadata) ==
    Accepts(config, type, metadata, "events", BothKeys)
StreamConfigAccepted(config, type, metadata) ==
    Accepts(config, type, metadata, "streams", BothKeys)
ManagementConfigAccepted(config, type, metadata, isAction) ==
    Accepts(config, type, metadata,
            IF isAction THEN "actions" ELSE "managementGroups", {"configuration"})
AssetConfigAccepted(config, type, metadata) ==
    Accepts(config, type, metadata, "asset", BothKeys)

(* An endpoint's is wrapped or not, so that every key does; without a       *)
(* schema there is no validation and the command is refused.                *)
EndpointSchema(templates, type) ==
    LET metadata == MetadataFor(templates, type)
    IN  IF metadata = None THEN None ELSE metadata.schema["endpoint"]

EndpointConfigAccepted(config, type, templates) ==
    /\ config.type \in {None, type}
    /\ EndpointSchema(templates, type) # None
    /\ config.settings \subseteq EndpointSchema(templates, type)

(* What is made of an accepted file: it replaces what it has a key for, but *)
(* no list of destinations, except that of a stream, can be emptied by it.  *)
Loaded(config, section, old) ==
    LET given == config.settings \cap Destination
    IN  (IF "configuration" \in config.keys
         THEN config.settings \ Destination ELSE old \ Destination)
        \cup (IF "destinations" \in config.keys /\ (given # {} \/ section = "streams")
              THEN given ELSE old \cap Destination)

-------------------------------------------------------------------------------
(* The validator of what is imported and of the typed dataset commands      *)

(* The first template for the type, and for the version if the endpoint has *)
(* one.  None: nothing is validated.                                        *)
ValidatorMetadata(templates, endpoint) ==
    LET matching == SelectSeq(templates, LAMBDA t :
                        /\ t.type = endpoint.type
                        /\ endpoint.version \in {None, t.version})
    IN  IF endpoint.type = "opcua" /\ endpoint.version = None THEN OpcuaMetadata
        ELSE IF matching = <<>> THEN None ELSE matching[1].metadata

SchemaOf(metadata, section) ==
    IF section \in metadata.sections THEN metadata.schema[section] ELSE None

ValidDataset(metadata, settings) ==
    metadata # None /\ settings # {} =>
       /\ SchemaOf(metadata, "datasets") # None
       /\ settings \ Destination \subseteq SchemaOf(metadata, "datasets")

ValidEventGroup(metadata, settings) ==
    metadata # None /\ settings # {} =>
       /\ SchemaOf(metadata, "eventGroups") # None
       /\ settings \ Destination \subseteq SchemaOf(metadata, "eventGroups")
================================================================================
