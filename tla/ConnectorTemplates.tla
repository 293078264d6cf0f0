--------------------------- MODULE ConnectorTemplates ---------------------------
(***************************************************************************)
(* What `az iot ops connector template create` and `update` make of their  *)
(* arguments (O/resources/connector_templates.py): the content of a        *)
(* template and what they refuse.  Resources holds the commands' steps.    *)
(*                                                                         *)
(* A template is made from connector metadata, an artifact in a registry:  *)
(* it says what type of endpoint the connector is for, a version, and the  *)
(* tag or the digest of the connector's image.                             *)
(***************************************************************************)
EXTENDS Naturals

CONSTANTS
    Metadata,     \* what is at each reference
    SecretEntry,  \* what one --secret may say
    None

TemplateSetting  == {"volumes", "config", "trust", "pull_secrets"}
TemplateOption   == TemplateSetting \cup {"clear", "Bucketized", "bucket_size"}
TemplateVersion  == Nat \X Nat   \* major and minor; None: not a version

Artifact ==
    [complete : BOOLEAN,   \* name, version, image and endpoints are there
     type : STRING, version : TemplateVersion \cup {None},
     image : {"tag", "digest", "neither"}, tag : TemplateVersion \cup {None}]

ASSUME MetadataAssumption ==
    \A r \in DOMAIN Metadata :
       LET m == Metadata[r]
       IN  /\ m.image \in {"tag", "digest", "neither"} /\ m.complete \in BOOLEAN
           /\ \A v \in {m.version, m.tag} : v # None => v \in TemplateVersion
           /\ m.image # "tag" => m.tag = None

ASSUME SecretEntryAssumption ==
    SecretEntry \subseteq [secretRef : STRING, secretKey : STRING, secretAlias : STRING]

(* Type, tag of the image, allocation, secrets and the settings that are    *)
(* present.                                                                 *)
Template ==
    [type : {Metadata[r].type : r \in DOMAIN Metadata},
     tag : {Metadata[r].tag : r \in DOMAIN Metadata}
           \cup {Metadata[r].version : r \in DOMAIN Metadata} \cup {<<0, 0>>, None},
     bucketized : BOOLEAN, sized : BOOLEAN,
     secrets : SUBSET SecretEntry, settings : SUBSET TemplateSetting]

(* _parse_secrets: the entries are mounted from one SPC, each under its key *)
(* and its alias.                                                           *)
ParsesSecrets(entries) ==
    \A x, y \in entries :
        /\ x.secretRef = y.secretRef
        /\ x.secretKey = y.secretKey \/ x.secretAlias = y.secretAlias => x = y

(* tagDigestSettings: the tag, the digest, or the version of the metadata.  *)
(* A digest reads as version 0.0 later.                                     *)
TagSettings(m) ==
    CASE m.image = "tag" -> m.tag
      [] m.image = "digest" -> <<0, 0>>
      [] OTHER -> m.version

AnyUpgrade(current, new) ==   \* mutant: a lower version is not refused
    /\ current # None /\ new # None
    /\ new[1] = current[1]

IsValidVersionUpgrade(current, new) ==
    /\ current # None /\ new # None
    /\ new[1] = current[1] /\ new[2] >= current[2]

(* given: the options; ref: --connector-metadata-ref; secrets: None when no *)
(* --secret is given, empty for the '' that clears them.                    *)
CreateRefused(given, ref, secrets) ==
    \/ ~Metadata[ref].complete
    \/ "Bucketized" \in given /\ "bucket_size" \notin given
    \/ secrets # None /\ ~ParsesSecrets(secrets)

BuildTemplateProperties(given, ref, secrets) ==
    LET m == Metadata[ref]
    IN  [type |-> m.type, tag |-> TagSettings(m),
         bucketized |-> "Bucketized" \in given,
         sized |-> "Bucketized" \in given /\ "bucket_size" \in given,
         secrets |-> IF secrets = None THEN {} ELSE secrets,
         settings |-> given \cap TemplateSetting]

UpdateTemplateRefused(given, ref, secrets, old) ==
    \/ /\ ref # None
       /\ \/ ~IsValidVersionUpgrade(old.tag, Metadata[ref].version)
          \/ Metadata[ref].type # old.type
    \/ "Bucketized" \in given /\ "bucket_size" \notin given
    \/ secrets # None /\ ~ParsesSecrets(secrets)

(* Metadata with neither a tag nor a digest leaves the tag there was.  A    *)
(* bucket size without a policy is sent without one, and says nothing.      *)
UpdatedTemplate(given, ref, secrets, old) ==
    LET bucketized == old.bucketized \/ "Bucketized" \in given
        settings   == given \cap TemplateSetting
    IN  [type |-> old.type,
         tag |-> IF ref = None \/ Metadata[ref].image = "neither" THEN old.tag
                 ELSE TagSettings(Metadata[ref]),
         bucketized |-> bucketized,
         sized |-> old.sized \/ (bucketized /\ "bucket_size" \in given),
         secrets |-> IF secrets = None THEN old.secrets ELSE secrets,
         settings |-> IF "clear" \in given THEN old.settings \ settings
                      ELSE old.settings \cup settings]

(* What holds of every template that is stored.                             *)
TemplateSound(template) ==
    /\ template.bucketized => template.sized
    /\ ParsesSecrets(template.secrets)
================================================================================
