-------------------------------- MODULE MCClone --------------------------------
(***************************************************************************)
(* Five instances that may be cloned: one with namespace assets as a nested *)
(* template, a version 1 instance with classic assets in pages, one with    *)
(* data flows and a device in pages, one with a default secret provider     *)
(* class, and one with customer-managed trust, which has no cert-manager    *)
(* extension.  In three, others create and delete resources of a kind.      *)
(***************************************************************************)
EXTENDS Clone

Kinds(one, two) ==
    [k \in ListedKind |-> IF k \in two THEN Name
                          ELSE IF k \in one THEN {CHOOSE n \in Name : TRUE} ELSE {}]

(* Each refers to all there is of the kinds that its kind refers to; there  *)
(* are no default secret provider classes in version 1.                     *)
References(v2, instance) ==
    [r \in Referrer |-> IF r \in Resource \/ v2
                        THEN UNION {{k} \X instance[k] : k \in RefersTo(r[1])} ELSE {}]

Workload(v2, linked, extensions, instance, editable) ==
    [v2 |-> v2, linked |-> linked, extensions |-> extensions, source |-> instance,
     refers |-> References(v2, instance), editable |-> editable]

V2 == {"certManager", "secretStore", "ops"}
V1 == {"platform", "containerStorage", "secretStore", "ops"}

AllWorkloads ==
    <<Workload(TRUE, FALSE, V2,
        Kinds({"authn", "listener", "namespaceDevice", "namespaceAsset"}, {}),
        {"namespaceDevice"}),
      Workload(FALSE, TRUE, V1,
        Kinds({"authn", "listener", "asset", "secretProviderClass", "secretSync"},
              {"assetEndpointProfile"}),
        {"assetEndpointProfile"}),
      Workload(TRUE, TRUE, V2,
        Kinds({"authn", "listener", "dataflowProfile", "dataflow", "dataflowEndpoint",
               "namespaceDevice"}, {}),
        {"listener"}),
      Workload(TRUE, FALSE, V2,
        Kinds({"listener", "secretProviderClass"}, {}), {}),
      Workload(TRUE, FALSE, V2 \ {"certManager"}, Kinds({"listener"}, {}), {})>>
================================================================================
