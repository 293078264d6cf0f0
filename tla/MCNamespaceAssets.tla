--------------------------- MODULE MCNamespaceAssets ---------------------------
(* Two processes on an asset a1 of the device d1 with an OPC UA endpoint e1. *)
(* A workload gives each a few commands on the lists it is about.            *)
EXTENDS NamespaceAssets, TLC

CONSTANTS s1, s2, a1, d1, e1, e2, i1, i2, p1, x, y, z

Plain == [op |-> "addItem", kind |-> "datasets", asset |-> a1, device |-> d1,
        endpoint |-> e1, type |-> "opcua", detect |-> FALSE, item |-> i1,
        points |-> {}, settings |-> {}, replace |-> FALSE,
        file |-> [i \in Item |-> None], config |-> None, version |-> None,
        skipCheck |-> FALSE]

ByType(c)     == [c EXCEPT !.detect = TRUE]
Replace(c)    == [c EXCEPT !.replace = TRUE]
OnItem(op, k, i) == [Plain EXCEPT !.op = op, !.kind = k, !.item = i]
OnPoint(op, k)   == [Plain EXCEPT !.op = op, !.kind = k, !.points = {p1}]
OnAsset(op)   == [Plain EXCEPT !.op = op]
OfType(t, c)  == [c EXCEPT !.type = t]
Media(c)      == OfType("media", c)
Set(c)        == [c EXCEPT !.settings = {x}]
Config(c, t, keys, settings) ==
    [c EXCEPT !.detect = TRUE,
              !.config = [type |-> t, keys |-> keys, settings |-> settings]]
File(k, points, named) ==
    [Plain EXCEPT !.op = "importItems", !.kind = k,
        !.file = [i \in Item |-> [settings |-> {}, points |-> points, named |-> named]]]
OnEndpoint(op, e, t) ==
    [Plain EXCEPT !.op = op, !.endpoint = e, !.type = t]

Inbounds(t) == [NoEndpoints EXCEPT ![e1] = [type |-> t, version |-> None]]
Empty == [device |-> d1, endpoint |-> e1, defaults |-> {},
          lists |-> [k \in Kind |-> NoItems]]

Having(i) ==
    [Empty EXCEPT !.lists["datasets"][i] = [settings |-> {}, points |-> {}]]

(* x: a setting that newer connectors no longer have, y: one that only they *)
(* have, z: a destination.                                                  *)
Sections(sections, settings) ==
    [sections |-> sections,
     schema |-> [k \in Section |-> IF k \in sections THEN settings ELSE None]]
BundledMetadata ==
    Sections((Kind \ {"streams"}) \cup Points \cup {"asset", "endpoint"}, {x, z})
Template(t, version, tag, mcr, settings) ==
    [type |-> t, version |-> version, tag |-> tag, mcr |-> mcr,
     metadata |-> Sections(Section, settings)]

(* The older connectors are listed first, and after.                        *)
Templates(t) == << Template(t, 1, 1, TRUE, {x, z}), Template(t, 2, 3, FALSE, {y, z}),
                   Template(t, 1, 2, TRUE, {x}) >>

WorkWith(c1, c2, inbound, asset, templates) ==
    [commands |-> (s1 :> c1 @@ s2 :> c2),
     devices |-> [d \in Device |-> inbound], assets |-> [a \in Asset |-> asset],
     templates |-> templates]
Work(c1, c2, inbound, asset) == WorkWith(c1, c2, inbound, asset, <<>>)

(* Every command on a list that has points, by two processes.               *)
Lists(k) ==
    Work({OnItem("addItem", k, i1), ByType(OnItem("addItem", k, i2)),
          OnPoint("addPoint", k), OnPoint("removePoint", k),
          OnItem("updateItem", k, i1)},
         {OnItem("removeItem", k, i1), File(k, {}, TRUE), Replace(File(k, {}, FALSE)),
          OnPoint("importPoints", k), ByType(OnPoint("addPoint", k)),
          ByType(OnItem("updateItem", k, i1)), Replace(OnItem("addItem", k, i1))},
         Inbounds("opcua"), Empty)

Streams ==
    WorkWith({Media(OnItem("addItem", "streams", i1)),
          Media(Replace(OnItem("addItem", "streams", i2))),
          Set(Media(OnItem("updateItem", "streams", i1)))},
         {ByType(OnItem("addItem", "streams", i1)), OnItem("removeItem", "streams", i1),
          ByType(OnItem("updateItem", "streams", i1)), Replace(File("streams", {}, FALSE))},
         Inbounds("media"), Empty, Templates("media"))

(* Commands on two lists, and on the asset itself.                          *)
TwoLists ==
    Work({OnItem("addItem", "datasets", i1), OnItem("removeItem", "datasets", i1),
          OnAsset("createAsset"), OnAsset("deleteAsset"), Set(OnAsset("updateAsset"))},
         {OnItem("addItem", "eventGroups", i1), File("eventGroups", {p1}, TRUE),
          ByType(OnAsset("createAssetByType")),
          Set(ByType(OnAsset("updateAssetByType")))},
         Inbounds("opcua"), None)

(* Devices and endpoints come and go under an asset.                        *)
Endpoints ==
    Work({OnAsset("createDevice"), OnEndpoint("addEndpoint", e1, "opcua"),
          Replace(OnEndpoint("addEndpoint", e1, "media")),
          OnEndpoint("removeEndpoint", e2, "opcua"), OnItem("addItem", "datasets", i1)},
         {OnAsset("deleteDevice"), ByType(Replace(OnEndpoint("addEndpoint", e2, "custom"))),
          OnEndpoint("removeEndpoint", e1, "opcua"),
          ByType(OnItem("addItem", "datasets", i1)), OnItem("removeItem", "datasets", i1)},
         None, Empty)

(* The typed commands for assets and endpoints, one type each.              *)
OneType(t) ==
    Work({OfType(t, OnAsset("createAsset")), OnAsset("updateDevice")},
         {OfType(t, OnAsset("updateAsset")), OnEndpoint("addEndpoint", e2, t)},
         Inbounds(t), None)

(* Configuration files and imports, while the endpoint becomes another's.   *)
Files(t) ==
    WorkWith({Config(Replace(OnItem("addItem", "datasets", i1)), None, BothKeys, {y, z}),
              Config(OnItem("updateItem", "datasets", i1), t, {"configuration"}, {x}),
              Config(OnItem("updateItem", "datasets", i1), t, {"destinations"}, {z}),
              Config(OnAsset("updateAssetByType"), None, BothKeys, {y})},
             {[File("datasets", {}, TRUE) EXCEPT !.file[i1] = [@ EXCEPT !.settings = {y}]],
              Config(Replace(OnEndpoint("addEndpoint", e1, t)), None, {}, {y}),
              [ByType(Replace(OnEndpoint("addEndpoint", e1, "mqtt")))
                    EXCEPT !.skipCheck = TRUE],
              OfType(t, OnItem("updateItem", "datasets", i1))},
             Inbounds(t), Having(i1), Templates(t))

AllWorkloads == {Lists("datasets"), Lists("eventGroups"), Lists("managementGroups"),
                 Streams, TwoLists, Endpoints, Files("rest"), Files("custom")}
                \cup {OneType(t) : t \in Type}
EventGroups  == {Work({Set(OnItem("addItem", "eventGroups", i1)),
                       OnItem("updateItem", "eventGroups", i1)},
                      {OnItem("removeItem", "eventGroups", i1)}, Inbounds("opcua"), Empty)}
================================================================================
