# Formal models of the Azure IoT Operations CLI extension

TLA+ models of the commands of `az iot ops` that change something (this
repository's `src/azext_edge/edge/providers/orchestration` and `providers/adr`),
checked with TLC on small instances and, in part, proved with TLAPS for every
instance. `PROJECT.json` lists components, runs, mutants, findings, hazards and
theorems, and maps every definition to the lines it models.

Paths below are relative to `src/azext_edge/edge/`; `O/` stands for
`providers/orchestration/`.

## 1. The system

The extension is a Python client. It keeps no state of its own: every command
is one process that reads cloud resources (Azure Resource Manager, Azure
Resource Graph), decides, possibly asks for confirmation, and sends a sequence
of PUT, PATCH, DELETE and deployment requests. There are no threads with shared
state except a display refresher, no transactions, and almost no etags. What
makes the commands hard to get right is therefore:

* **partial failure and re-runs** - any request fails, the process is killed, the
  confirmation is refused; the documented way on is to run the command again;
* **overlap** - two processes, for one instance or for instances that share a
  resource, interleave their requests;
* **read, think, write** - whole-resource PUTs of values computed from a read that
  precedes prompts and minutes of deletions;
* **lag** - discovery goes through Azure Resource Graph, which is eventually
  consistent;
* **long-running operations** - a client that is killed or stops polling leaves
  work going on in the service;
* **dependencies** - instances, custom locations, extensions, endpoints and
  classes refer to each other, and creation and removal have to follow that.

### Components

| component | source | state it works on | operations | modelled |
|---|---|---|---|---|
| management actions | `O/mgmt_actions.py` | management endpoints of the shared ADR namespace, Event Grid topic spaces and permission bindings, the instance's dataflow endpoint, graph and dataflow, role assignments | `enable`, `disable`, `show`, `ns mgmt-endpoint remove` | `MgmtActions` |
| deletion | `O/deletion2.py`, `util/az_client.py` | instance, custom location and everything on it, extensions | `delete` | `Deletion` |
| secret sync, instance update, identity | `O/resources/instances.py` | the instance record, the default secret provider class (SPC), SecretSyncs, federated credentials | `secretsync enable/disable/list`, `secret set/remove`, `update`, `identity assign/remove` | `SecretSync` |
| OPC UA certificates | `O/resources/connector/opcua/certs.py` | three SecretSyncs, the SPC, the settings of the IoT Operations extension | `connector opcua trust/issuer/client add/remove` | `OpcUaCerts` |
| upgrade, secret sync migration | `O/upgrade2.py`, `O/migration.py` | versions and provisioning state of extensions, instance, registry endpoint, connector template, SPCs | `upgrade` | `Upgrade` |
| init and create | `O/work.py`, `O/targets.py`, `O/template.py`, ... | foundation extensions, custom location, IoT Operations extension, instance and its default resources | `init`, `create` | `Deployment` |
| clone | `O/clone.py` | a copy of an instance as templates, and a target cluster | `clone` | `Clone` |
| connector templates | `O/resources/connector_templates.py` | connector templates | `connector template ...` and the lookups of the asset commands | `ConnectorTemplates`, `ConnectorMetadata`, `Resources` |
| brokers, dataflows, graphs, registry endpoints, schemas | `O/resources/*.py` | one resource each, and what it refers to | apply, create, update, delete | `Resources` |
| namespace assets and devices | `providers/adr/namespace_*.py`, `validator.py` | lists inside an asset, endpoints inside a device | `ns asset ...`, `ns device ...` | `NamespaceAssets`, `ConnectorMetadata` |
| asset migration | `O/migration.py` | root assets of an instance | `migrate-assets` | no |
| classic assets and endpoint profiles | `providers/adr/assets.py`, ... | lists inside an asset | `asset ...` | no |
| resource map, connected cluster | `O/resource_map.py`, `O/connected_cluster.py` | answers of Azure Resource Graph | queries | where acted upon |
| workflow display | `util/workflow_display.py` | a table of step states | render | no |
| checks, support bundle, statistics | `providers/checks.py`, ... | - | read-only | no |

How they interact: commands never call each other (except that `upgrade` calls the
migration and the connector templates, and the asset commands the lookups of
connector templates) and meet only in the resources. The ADR namespace is shared by
instances (management actions). The instance record is written by update, identity,
secret sync and upgrade. The SPC is written by secret sync, upgrade's migration and
the OPC UA certificates. The custom location is written by create and removed by
delete. Extensions are written by init, create, upgrade and removed by delete. An
asset refers to an endpoint of a device, and what the endpoint's connector accepts
is in the metadata of a connector template. A dataflow refers to endpoints, a
connector template with secrets to the SPC of secret sync.

### What makes each of them correct

* management actions: a reference never dangles (binding to topic space, graph to
  endpoint, management endpoint to its Event Grid resources); writing the shared
  map changes one's own entry; enable run again converges; disable leaves nothing.
* deletion: dependency order; strict order of the steps; a completed run leaves
  nothing; a run again after failures removes everything.
* secret sync: the instance refers to an SPC that exists; what is mapped is
  listed; removing a secret does not break others; enable and disable do what
  they say.
* instance record: no command that sends it back whole takes away what another put
  there, an identity in use has a federated credential.
* OPC UA certificates: SPC, SecretSync and the extension's settings agree, though each
  is written by a request of its own.
* upgrade: cert-manager before a version that needs it; no unforced downgrade; no
  secret lost by the migration; run again it completes and then has nothing to do.
* namespace assets and devices: editing one item of a list leaves the others alone,
  whatever was overwritten was asked for; what a configuration file brings fits the
  connector.
* resources: what is sent is sound and fits what it refers to; nothing is lost unasked.
* clone: a copy is deployed in the order of its references, and in the end is whole.
* init and create: nothing without its foundation; the instance's custom location
  is linked; a create that ends well is whole; the advice in the messages leads to
  a deployment.

`PROJECT.json` lists under `hazards` the lines where each of these can go wrong.

## 2. Modules

| module | models | extends |
|---|---|---|
| `DependencyOrder` | abstract: resources appear after and disappear before what they need | - |
| `MgmtActions` | management actions | Naturals |
| `MgmtActionsProofs` | type correctness, four safety invariants, three action properties, the refinement of DependencyOrder | MgmtActions, TLAPS |
| `Deletion` | `delete` | Naturals |
| `DeletionProofs` | type correctness, the refinement of DependencyOrder, order and completeness of a run | Deletion, TLAPS |
| `SecretSync` | secret sync, update and identity commands of one instance | Naturals |
| `OpcUaCerts` | OPC UA certificate commands beside those of SecretSync | SecretSync, Sequences |
| `SecretSyncProofs` | type correctness and all seven properties of SecretSync's commands; what of this survives the certificate commands, and their two invariants | OpcUaCerts, TLAPS |
| `Upgrade` | `upgrade` and the secret sync migration | Naturals, Sequences, Functions |
| `UpgradeProofs` | type correctness, the safety of the migration and of the versions | Upgrade, TLAPS |
| `Deployment` | `init`, `create` | Naturals |
| `DeploymentProofs` | type correctness, three safety invariants, the refinement of DependencyOrder | Deployment, TLAPS |
| `ConnectorMetadata` | pure: how a connector's template and metadata are found, what they accept | Naturals, Sequences |
| `NamespaceAssets` | `ns asset` and `ns device` | ConnectorMetadata |
| `NamespaceAssetsProofs` | type correctness and four properties of NamespaceAssets | NamespaceAssets, WellFoundedInduction, TLAPS |
| `ConnectorTemplates` | pure: the content of a connector template, what create and update refuse | Naturals |
| `Resources` | commands on one resource each that look at others | ConnectorTemplates, FiniteSets |
| `ResourcesProofs` | type correctness and four properties of Resources | Resources, TLAPS |
| `Clone` | `clone` and the deployments it submits | Naturals, FiniteSets, Sequences, SequencesExt |
| `CloneProofs` | type correctness and order of Clone | Clone, FiniteSetTheorems, TLAPS |
| `MC...` | values for TLC | the module |

Conventions shared by the component modules:

* `pc[s]` is the next step of CLI process `s`; an action is one remote call, or a
  run of reads nobody can tell from one, and what the code does with the answer up
  to the next call. `Finish`/`End` forgets what the process knew.
* A failing call and a killed process are one action per module (`Abort`, `Fails`,
  `Fail`, `Killed`), enabled at every step and bounded by `MaxFaults`. Where the
  service goes on by itself (`Deletion`, `Deployment`, `Clone`) it may also fail an
  operation it had accepted, and everywhere what was done before stays done.
* `Start`, `Begin` or the first read runs a command again without bound, so that
  every number of re-runs is covered; `MaxFaults` is the only bound on what goes
  wrong (plus the bounds named below).
* `Workloads`, where a module has it, is a set or a function of situations: what is
  there before, and which commands each process may be given, again and again. One
  run of TLC covers all of them, as different initial states.
* `stale`, `disturbed` and `staleWrite` are history variables. They say that a process
  writes a value computed from a read that no longer holds. `overlooked` in `Upgrade` is
  another: the secrets that a migration's reading did not contain.
* What the services do is taken from how the code uses them (and its tests) and is
  marked external in the map.
* A definition with the comment `mutant` is a plausible bug of the code. It is
  used by no specification, only by `mutants` of `PROJECT.json`, which names the run
  that must fail when it replaces the definition after it.

### MgmtActions

State: the shared namespace `adr` (endpoint per instance, identity), the Event Grid
resources and the dataflow resources per instance, roles, and per process its
arguments `want`, the namespace as it read it (`seen`) and what discovery found
(`plan`). Enable goes topic space, bindings, GET and PATCH of the namespace,
dataflow endpoint, graph, response, roles; disable discovers (namespace, dataflow
resources, Event Grid), prompts and dismantles in the opposite order; remove is a
GET and a PUT. GET and PATCH/PUT of the namespace are separate actions: a PATCH
carries the whole map of endpoints read before. `staleWrite` records that a namespace
write was computed from a read that no longer held. `mgmt_lost_entry` shows what such
a write does; the safety properties say what holds until it happens.

### Deletion

State: `present`, `deleting` (operations the service works on), and per process what
it listed, planned, has still to do and waits for. Discovery is a chain of reads by
instance name or by cluster; the order is `Stage`: instance, resources on the custom
location by depth, sync rules, custom location, IoT Operations, dependencies.
A deletion is begun by the run and completed or failed by `Service`. The custom
location is the only step that may fail softly. The polling limit is the action that
gives a batch up.

### SecretSync

State: the instance `record` (its reference to the SPC, its identities), the federated
credentials, the schema registry roles, the SPC and its `objects`, the mappings of each
SecretSync, the vault, the `index` that may lag, and per process what it read. Every
write of the record is one action, `putRecord`, whatever the command: enable,
disable, update, identity assign and remove all send back the whole record they read.
`stale` records that a write rested on an outdated read. A command begins with its
first read, and commands that do nothing but reject leave no trace.

### OpcUaCerts

Adds to SecretSync the SecretSyncs of the trust list, the issuer list and the client
pair, the settings of the extension (`configured`) and the history variable `taken`.
`AddSteps` is the order of the requests of each kind of add: a trusted certificate is
uploaded before its SecretSync is read, an issuer or client certificate after. A client
add replaces the pair before it and names the new one in the extension's settings. Remove unmaps,
rolls the extension's settings back, takes the secret from the SPC, and purges it from the vault on request.
SecretSyncs are read from the index, which may lag; the SPC is written several requests
after it was read. All of SecretSync's commands may run beside these.

### Upgrade

Versions are generations (`Latest` is the version built into the CLI; `CmMigration` and
`TemplateBackfill` are the thresholds in the code). `Read` is what the constructor
reads: the instance from its provider, the secret provider classes and SecretSyncs from
Azure Resource Graph (`index`), which shows a class or a SecretSync as it was until
`ReindexClass` or `ReindexSync` takes it over; in some workloads (`lag`) it is behind from the
beginning. `Analyze` builds the plan and rejects or accepts it. The plan is a set of steps with an order (`Earlier`): the first that is left is
`Due`, and each step is an action. Release trains and configuration deltas
are left out: they only add reasons for an update. `SetSecret` is a concurrent
`secretsync secret set`. `overlooked` collects the secrets that the merge of a run under
way would not list, or whose SecretSync its move would leave with the old class, because the
run's reading did not show them.

### Deployment

State: `present`, `failed` extensions, `links` of the custom location, the trust the IoT
Operations extension was deployed with, and per process the step, what its ARM
deployment has still to make (`work`), and what its user is advised to run
(`advice`). When a command ends, its deployment goes on: `orphaned`. `delete` is
three abstract actions, since `Deletion` models it; it is given to one process only.

### ConnectorMetadata and NamespaceAssets

`ConnectorMetadata` holds the lookups as operators. A command that takes the connector's
type from the endpoint looks for the template with the latest tag (`TemplateForType`);
the validator behind the commands of one type takes the first that matches, and lets
everything pass where it finds none. What a config file may bring is `Fits` against the
schema of the section, if there is one.

State of `NamespaceAssets`: `devices` (inbound endpoints, each a type and a version) and
`assets` (the endpoint they refer to, the default settings, and four lists of items:
datasets, event groups, management groups, streams, the first three with points), and
per process the command, what it read and `disturbed`. A command goes `showAsset`,
`getDevice`, `validate`, `write`, `showResult`; an asset is also created, updated and
deleted whole, and a device created, deleted, and given or rid of an endpoint. Adding,
updating, importing and removing an item or a point each send back *the whole list*
that was read; `addEndpoint` is a merge patch that sends all the endpoints read, and
`removeEndpoint` sends the removed one as null. `showResult` looks the item up again.
Commands that take the type from the endpoint (`detect`) and commands of one type
(`ns asset opcua ...`) are told apart, since they check and merge differently. A command
may be refused or killed at any step, without a bound.

### ConnectorTemplates and Resources

`Resources` keeps one `store` of all kinds (dataflow profile, dataflow, graph, dataflow
endpoint, registry endpoint, broker, listener, authentication, authorization, schema
registry with its container and role, schema, connector template), each reduced to what
the checks of the commands can tell apart. A command reads what it needs (`get`, then
`read` per reference), checks, builds the body and sends it; `Sent` is the body. A delete
of a parent takes its children. Creating a schema registry is three requests (container,
registry, role), adding a schema two (schema, version). `ConnectorTemplates` holds what
`connector template create` and `update` build from the metadata and their options, and
the version guard.

### Clone

The command lists the instance kind by kind into `captured` while someone may `Edit` the
instance, cuts each kind into chunks of `ChunkLen`, prompts, federates the identities and
submits the template; in linked mode namespace assets and devices, or classic assets, go
to further pages, submitted one by one. Each deployment waits for the last chunk of each
kind it depends on (`dependsOn`). Resource Manager is the action `Make` (and `MakeFails`):
any deployment whose dependencies have been made. A re-run begins when the
deployment of the earlier run has come to rest.

### DependencyOrder

`MgmtActions!KeepsDependencies`, `Deletion!KeepsDependencies` and
`Deployment!KeepsDependencies` are each the abstract specification under a
refinement mapping. `present` is the set of resources (in MgmtActions built from six
variables), `Needs` is defined by each module. That nothing present ever lacks what it needs
(`Order!Closed`) is then a property of all three.

## 3. What the runs show

Runs expected to pass:

| run | instance | shows |
|---|---|---|
| `mgmt_shared` | 2 instances, 2 Event Grid namespaces, enable, disable, remove, 1 failure; symmetry | `ResponseHasGraph`, `EndpointBacked`, `EnabledIsRouted`, `DisableLeavesNothing`; implements `DependencyOrder` |
| `mgmt_overlap` | 2 processes enable one instance, with roles and identities, 1 failure | `EnableConverges` (fairness) |
| `deletion` | 2 runs, one with `--cluster --include-deps`, one by name without it, an old version, 1 failure, 1 resource created meanwhile | `StrictOrder`, `CompleteLeavesNothing`, `FullCleanup` (fairness); implements `DependencyOrder` |
| `secretsync_commands` | 2 processes, 3 workloads (2 SecretSyncs that share 2 secrets; enable and disable around one secret; the instance record with 2 identities), lagging index, 1 failure; symmetry | `LinkedSpcExists`, `SpcHasCredential`, `MappedSecretsListed`, `SetKeepsMappings`, `RemoveCleansUp`, `AssignedIsFederated`, `IdentityKept` |
| `opcua_certs` | 2 processes, 7 workloads, lagging index, 1 failure | `ListedUnlessTaken`, `ConfiguredIffMapped`, `ClientAddConverges` (fairness) |
| `upgrade` | every command line on clusters of three generations; upgrades of all there is to migrate, again and again; 2 upgrades and 2 migrations that overlap; an index that lags; a secret added meanwhile, 1 failure | `NoSecretLost`, `OpsHasCertManager`, `NoDowngrade`, `Converges` (fairness) |
| `deployment_guided` | 1 user, init, create, delete in any order or as advised, 3 failures | `TrustIsBacked`, `InstanceLinked`, `CompleteIsWhole`, `GuidanceConverges` (fairness); implements `DependencyOrder` |
| `nsassets` | 2 processes on one asset and its device, a workload for each kind of list and each type | `FoundUnlessDisturbed`, `NothingLost`, `SettingsFit`, `EndpointsKept` |
| `resources` | 2 processes, 10 workloads, 1 failure | `WellFormed`, `FitsUntilTouched`, `NothingLost`, `NoTemplateDowngrade`, `SetsUp` (fairness) |
| `clone` | 5 instances, 1 change of the instance meanwhile (of a kind that each workload names), 1 failure | `InOrder`, `Converges` (fairness) |

Runs expected to find a violation, each a disagreement between the code and what
the repository says of it; the texts are quoted in `PROJECT.json`:

| run | what TLC finds |
|---|---|
| `mgmt_lost_entry` | disable's PUT drops a management endpoint that another instance registered after disable's read |
| `nsassets_event_settings` | updating an OPC UA event group drops the settings the update does not name: they are read under a key that an event group does not have |

Modelling showed more disagreements, which have no run of their own:

* setting a secret with another target key adds a mapping and updates none
  (`O/resources/instances.py:742`, the help text in `_help.py:2262` says otherwise).
* `_resolve_connector_version` promises the version of a third-party connector's template
  (`providers/adr/namespace_devices.py:476`), but the lookup behind it considers only templates from
  Microsoft's registry unless told otherwise, and it is not told; the endpoint gets no version.
* clone: the target's cert-manager is not waited for where it was not captured
  (`O/clone.py:954`, `_help.py:3115`); in linked mode the pages with namespace resources use a
  parameter they are not given (1537); dependents wait for the last chunk of a kind only;
  no listener or no endpoint ends the capture with a `KeyError` (1221, 1291); where there
  is one page its deployment is not awaited (582); federation is best effort.
* resources: a Kafka endpoint without a port gets the host `...:None`
  (`O/resources/dataflows.py:561`); an update of a local MQTT endpoint turns TLS on again; an
  update under another endpoint type reports success; deleting a profile names its
  dataflows in the prompt but not its graphs; an update of a connector template whose
  metadata has no tag keeps the old tag, and a digest reads as version 0.0.0.
* OPC UA: `secretsync disable` leaves the extension's settings as they are.
* namespace assets: `validate_dataset` looks for destinations inside the dataset's
  configuration and not in the dataset; an import is validated with the whole list it is merged
  into; commands that take the type from the endpoint cannot clear
  destinations, except of streams.

### Where the premises of the properties come from

Several properties hold only under a premise. Each premise was put there because TLC
found the behaviour it excludes, and each such behaviour is one of the code:

* `~staleWrite`, `~stale`, `disturbed` - a replacement of a whole resource or
  list undoes what somebody else wrote since it was read. In `SecretSync` this also takes a
  secret out of the SPC that another process has just mapped, between the reference count
  of `secret remove` and its replacement of the SPC.
* `taken` in `ListedUnlessTaken` - removing a certificate, or replacing a client pair,
  takes secrets from the SPC without asking whether another SecretSync maps them.
* `OnlyCertificates` in `ConfiguredIffMapped` - `secret set`, `secret remove` and
  `secretsync disable` change the client's SecretSync and not the extension. Its premise
  `faults = 0`: an add that fails between the SecretSync and the extension leaves
  the pair mapped and not named, until the same add is given again (`ClientAddConverges`).
* `AssignedIsFederated` counts a credential that a remove has deleted as one that was there:
  the command deletes it before it sends the instance.
* `SettingsFit` - only where all tags are versions (else nothing compares with the first
  template) and the endpoint is still the one that was read.
* `NoTemplateDowngrade` - only where the image's tag is the version of the metadata: the
  guard compares the stored tag with the metadata's version, and stores the image's tag.
* `overlooked` in `NoSecretLost` - an upgrade takes classes and SecretSyncs from Azure Resource
  Graph when it begins (`O/upgrade2.py:139`) and much later replaces the list of the default
  class (`O/migration.py:236`). A secret set after that reading, or so shortly before it that the
  graph does not show it, is dropped from the list though a SecretSync maps it; a SecretSync
  that uses the old class and is not shown is not moved, and keeps the name of a class that is
  deleted. The property is about every other secret: the exception is for the very
  secret that was overlooked, not for the run.
* `InOrder` - of a kind cut into chunks only the last is waited for; a listener waits for
  nothing where no authentication or authorization was captured; what was created during
  the capture may be referred to and not captured. And some references (`Unordered`)
  are kept by the template in no order: an instance waits for its custom location only
  (`O/clone.py:1098`) and the secret provider classes for the instance (1403), so that it is made
  before the default class it names (1083); data flows do not wait for the assets they name,
  nor connector templates for registry endpoints.
* `Replicable` in `Converges` of `Clone` - the instances for which the capture comes to an end
  and its template is accepted.
* one profile per instance in `mgmt_shared`, and `OneProfile` in proofs - enabled in one
  dataflow profile and then in another, `disable` finds the first, deletes the dataflow
  endpoint and leaves the other graph.
* `faults' = 0` in `StrictOrder` - a batch is given up after its last poll, or a
  deletion in it fails, and the next step begins.
* container storage in `Asked` and `FullCleanup` - once the IoT Operations extension is
  gone no run can read the version that decides whether container storage goes too, and
  it stays.
* `DefaultNamespace = TRUE` in `deletion` - a custom location in a namespace of one's
  own is not recognised once its extensions are gone.
* no property says that `secretsync enable`, run again, completes an enable that was
  stopped between the SPC and the instance: it returns early when it sees the SPC.
  None says that `secretsync disable` reports a SecretSync whose deletion failed.
* no property says that an upgrade which refuses a pinned downgrade changes nothing:
  only the IoT Operations extension is validated before the first change.
* `Completes` in `Upgrade` - `Converges` is about command lines that ask for all there is to
  upgrade. Where there is no default class beside that of the OPC UA connector nothing is
  migrated, and each run plans the migration again: `Converges` does not say that this ends.
* `RemoveCleansUp` leaves out a removal whose counted references change while it runs.
* one user and an index that is up to date in `deployment_guided` (`OneUser`, `~StaleIndex` in
  proofs) - two creates can both pass the check for an existing deployment, and so does one
  whose index lags; the second unlinks the first one's extension. `TrustIsBacked` and the
  refinement are proved for any number of users, below.
* `OnePinner` in the proof of `NoDowngrade` - of two upgrades at once that are given different
  versions, each can undo what the other did: both compare with what was installed before.
* `SoundAssumption` in `Resources` - a file (`dataflow apply`, `graph apply`) is sent as it is; of
  what it contains the code promises nothing, so the files in a workload are sound.
* the advice to run `az iot ops init` is taken literally, without `--user-trust`: a user
  who repeats it with that flag beside a cert-manager extension that failed is sent
  from `create` to `init` and back for ever.

### Bounds

Two processes are enough for each hazard listed: all are about a read of one and a
write of another. Two instances meet in one namespace entry each; a third would add
another entry treated like the second. Two Event Grid namespaces are what a change of
arguments takes. Failures: one, to have a run interrupted anywhere and run again; three
in `deployment_guided`, where a second interruption meets the remains of the first. Three
default resources stand for the seven of the template: one on the instance alone, one on
another, one on both. Three generations are what the thresholds in upgrade distinguish.
Two secrets let a set meet a list that is not empty, two SecretSyncs let one reference
another's secret, three secrets let a client pair be replaced by one that shares
its certificate. Two items and one point let an edit meet a list that has another item;
three templates let the latest be neither first nor last. In `clone` two names and chunks
of one cut a list in two, which is where chunks can go wrong; the instances cover version
1 and 2, nested and linked mode, one with a default secret provider class, and one without
cert-manager.

Names of the bounds: `MaxFaults`, `MaxDeploys` (resources created during deletion),
`MaxDepth`, `Latest`, `MaxEdits` (changes of the cloned instance, of the kinds that are
`editable` in a workload), `ChunkLen`, `MaxCopies` (entries for one method in an authentication),
`Persistent` (the commands given until they succeed). `Workloads` bounds what each
process may be given: commands that cannot meet in a resource are in different ones.
`secretsync_commands` cuts exploration behind a stale write (`Fresh`), since the
properties say nothing of the states behind it (`~stale` is their premise;
`SpcHasCredential` and `AssignedIsFederated` have none and are checked up to there), and
uses symmetry of secrets, SecretSyncs, identities and processes. `mgmt_shared` cuts what
follows both a failure and a stale write (`StaleOrFailed`), and uses symmetry of instances and
namespaces. No run with a liveness property uses either, and what is behind the cuts is
covered by the theorems, which make none.

In `opcua_certs` each workload is a pair of users whose commands meet: two that replace the
same pair, one that replaces and one that removes it, whole or in part, and so on. Three
certificate commands at once are not explored; the two invariants are proved for any number.
In `secretsync_commands` a secret of its own (`Lone`) is what is set and removed while secret
sync is enabled and disabled: one is enough for the SPC to be empty or not when it is
deleted. Where secrets are shared between SecretSyncs the SPC stays. That the two do not
mix is what keeps the run small; the seven properties are proved for any mixture.

Each module states its type invariant as `TypeOK` (`CertTypeOK` in `OpcUaCerts`). All of them are
proved.

Deadlock is checked in every run: a user can always run something.

### Fairness

`FairSpec` gives each process weak fairness on its steps: a CLI process is sequential
code, each call answers or raises. Weak fairness on `Start`, `Read` or `AnalyzeInstance` is
the user who runs the command again, which is what the help texts ask for; failures
are bounded and not fair. Weak fairness on `Service`, `TemplateSettles`, `Orphan` and
`Make` says that an operation of the service ends. In `Deployment` fairness is on what a
message asks for only, and `GuidanceConverges` is about users who in the end run nothing
else. In `OpcUaCerts` only a user who gives the same client add again and again (`Insists`) is fair;
`FullCleanup` has its user in its premise (`Again`).

The one use of strong fairness is in `Resources`: a user who gives a command until it
succeeds (`Persistent`) can only begin it when a process is idle, which it is again and
again and not for good. `SetsUp` is about such users; the code has to make sure that
no order of their commands, and no failure between two requests of one, leaves something
that a repetition does not complete.

## 4. What is proved

`tlapm` checks the following for every value of the constants (any number of
instances, processes, namespaces, profiles, assets, items, failures), from the
assumptions the modules name.

49 theorems, 33 of which state a property that a run also checks on a small instance; the
run came first. There is one proof module per component, and one for SecretSync and OpcUaCerts. Each begins with lemmas on what
the actions do to the memory of a process (most components have more steps than kinds of
steps, so a lemma says once that a command only starts, only reads, or only writes this),
then types, then one inductive invariant after the other, each a conjunction of named parts.

**MgmtActions** (`MgmtActionsProofs`)

* `TypeCorrect`: `Spec => []TypeOK`. The invariant is `TypeInv`, `TypeOK` with the arguments a
  running enable has (a process in a step of enable has an Event Grid namespace, a profile
  and an identity): without it the resources enable creates would not be well typed.
* `BindingsAlwaysHaveTopicSpace` and `EndpointsAreBacked`, for `OneProcessPerInstance`. Neither
  property is inductive: that disable may remove the topic space rests on what it found, and
  what it did, several steps before. The inductive invariant `Backing` adds `EnableProgress`
  (what a running enable has created is still there), `DisableProgress` (bindings disable has
  not deleted it has found) and `EntryGone` (behind its namespace write no endpoint of the
  instance is left, while before it disable knows of each one, unless a write was outdated).
  The premise is needed: two processes for one instance can delete a topic space between the
  other's two creations.
* `ResponsesHaveGraphs` and `EnabledInstancesAreRouted`, under the same premise, with `FlowProgress`
  (the graph an enable is past is there when its response dataflow is made, and disable
  deletes in the opposite order) and `RouteProgress` (for one step only, between the
  namespace and the dataflow endpoint, do the two lead to different places, and then an
  enable that will mend it is running).
* `DisabledInstancesAreGone`, `CommandsKeepDependencies` and `CommandsLeaveNothingDangling`, for
  `OneProfile` too: `TeardownProgress` says that whatever there is of an instance a running
  disable has found or will not need to, `GraphHasEndpoint` that a graph has its dataflow
  endpoint. In the refinement every step that changes the resources of an instance is a
  `Create`, a `Remove` or a stutter.
* `EnableNeverDropsEntries`, `CurrentWritesChangeOneEntry`: action properties of the shared
  namespace, without any premise on the processes.

**Deletion** (`DeletionProofs`)

* `DeletionTypeCorrect`, with the memory of the processes (`LocalType`).
* `DeletionKeepsDependencies`, `DeletionLeavesNothingDangling`: for any number of runs that overlap,
  fail, or stop polling, the service removes only what nothing present needs. A run does not
  see all of the cluster, so the invariant (`Ordered`) says what it does know: one that may
  delete the extension has found the instance or there is none (`InstanceKnown`), the same of
  what the extension needs (`OpsKnown`), and a run that is told of the end of a deletion is
  told the truth (`Answered`).
* `DeletionStrictOrder`, `DeletionCompleteLeavesNothing`: about runs that nothing fails or is created
  beside (`Undisturbed`); `Careful` says that what a run has discovered and still exists it is
  going to delete or waits for. Other runs may delete beside it.

**SecretSync** (`SecretSyncProofs`)

* `SecretSyncTypeCorrect`: the invariant adds `Fits`, that the arguments of a process fit its step.
* `InstanceIsLinked`, `SpcIsCredentialed`, `IdentityIsFederated`: three invariants that hold each other
  up (`Rests`). Who writes the SPC has seen a credential or created one; what was read of the
  instance had a credential for each identity; nothing but a stale write breaks the link.
* `MappedIsListed`: a set lists its secret before it maps it, a remove takes from the list what
  no other SecretSync maps, and in between neither is disturbed unless `stale`.
* `IdentitiesKept`, `SetIsKept`, `RemoveIsClean`: action properties on the last step of a command,
  from what `Rests` says it had done before.
* The premise on the commands is `Accepted`: the arguments the parser accepts.

**OpcUaCerts** (`SecretSyncProofs`, second half)

* `CertTypeCorrect`: the state of SecretSync stays typed, linked and credentialed beside any
  number of certificate commands. The steps of SecretSync are cited from the first half
  (`OwnStep` and others); only the new steps are proved here.
* `MappedIsListedUnlessTaken`, with `taken` in the place of the premise that SecretSync's commands
  alone do not need.
* `SettingsMatch`: with `Apart` (no process is about to write the client pair for another
  command). `ListAssumption` says that the lists and the pair are different SecretSyncs.

**Upgrade** (`UpgradeProofs`)

* `UpgradeTypeCorrect`.
* `MigrationLosesNoSecret`: migrations that overlap, fail, run again and rest on an index that
  lags in any way. `Covered` says that whatever the reading of a process leaves out is
  `overlooked`; of the other secrets `Prepared` says that between the merge and the move the
  default class lists every one in use, and that between the move and the deletion none uses
  the old class; `Trailing` and `Remembered`, that what the index shows and what was read of
  the default class and of uses is still there, so that a second migration adds nothing new.
* `OpsIsCertified`: `Certified`, a process that will not create cert-manager any more finds it
  installed.
* `NothingGoesBack`, for `OnePinner`; `Guarded`, what a process has still to write is no lower than
  what is there.

**Deployment** (`DeploymentProofs`)

* `TypeIsCorrect` and `SystemTrustIsBacked`: an IoT Operations extension with system trust always has
  a cert-manager. `TrustProgress` says the same of each process behind the foundation check
  and of each deployment left behind by one: what was compared at the check still holds
  minutes later, because nothing removes the foundation.
* `ImplementsDependencyOrder`, `DeploymentLeavesNothingDangling`. Each action that changes `present` is
  a `Create`, a `Remove` or a stutter (`OrderStep`), given `Founded`: behind the foundation check,
  and wherever a deployment has IoT Operations still to make, the secret store is there.
* `InstancesAreLinked`, `CompletesAreWhole`, for `OneUser` and `~StaleIndex`: `Linking` says that past the
  check for an existing deployment the custom location is not linked until create links it,
  and that no deployment left behind would make an instance on it; `Laying`, what a
  create has deployed at each of its steps.

**NamespaceAssets** (`NamespaceAssetsProofs`)

* `AssetsTypeCorrect`: `Spec => []TypeInv`. Beside the types of assets and processes (`AssetType`) the
  invariant says what the step of a process tells of its command and of what it read
  (`Progress`): at `write`, a command on a list has passed its check (`Sends`) on the list it
  read. Without it an edited list need not be a list.
* `ItemsAreFound`: `Spec => []FoundUnlessDisturbed`. Not inductive; the strengthening is `Current`:
  what an undisturbed process has read of its list is still what the service has, from its
  read to its write, and then its item is there. For the writing process this follows from
  what the edit does (`Edited...` lemmas); for the others from `OnlyTouches`: a write changes
  the properties it is said to touch and no others, and whoever works on one of these
  becomes disturbed (`OthersCurrent`).
* `NothingIsLost`: from the same invariant. A step that takes an item or a point away is the
  write of some process (`PICK`); if that was not disturbed it edited the list that is
  there, and `EditedLoses` says what an edit takes away.
* `EndpointsAreKept`, with an invariant of its own (`DeviceInv`) about the endpoints read;
  `SentKeeps` says that the merge patch of an undisturbed process leaves every other
  endpoint as it is.
* `SettingsAreFit`: `Matched` carries what was accepted when the device was read to the write;
  `LatestIsFound` says which template the lookup then had in hand.
* `TypeCorrect`: `Spec => []TypeOK`, devices included. The version a new endpoint gets is that of
  the template the lookup finds; that it finds one among any number of templates
  (`LatestIsThere`) is an induction on their number. The induction theorems of the library
  cannot be cited, since they take an operator; `AllNaturals` gets induction on a *set* of
  numbers from `WFMin`, which does not.

**Resources** (`ResourcesProofs`)

* `ResourcesTypeCorrect`, `StoredIsWellFormed`: one invariant, `Inv`: types, `Running` (what the step of
  a process says of its command, and that what it has read of its own resource is in
  order), `WellFormed`. From `SoundAssumption` on files and on what is there before.
* `NothingIsLostUnasked`, `ConnectorsAreNotDowngraded`, `AppliedFitsUntilTouched`: `Abreast` adds that a
  process is disturbed or what it has read is still stored (`Current`), and what its
  reads have shown it (`Learned`). The rest is what one step does to one resource.
  `RefsAssumption`: what a file refers to is among the resources of the instance.

**Clone** (`CloneProofs`)

* `CloneTypeCorrect`: of templates of any length. That a page which is submitted exists
  (`PagesTyped`, from lemmas on sequences after one another) is part of it.
* `ClonesInOrder`: `Spec => InOrder`, for any instance, cut in any way, in one template or in
  pages. `InOrder` speaks of all that a resource needs, the code's `dependsOn` only of some of
  it: that the instance is there before a data flow or an asset follows from what was
  made before (`Landed`: nothing but a listener is on the target before the instance, and no
  authentication before the broker, from which a listener that waits for one has both), and
  that there is anything to wait for from the template's acceptance (`Backed`) and from what
  every capture has (`Rooted`). `Accounted`: what was submitted first is made, can still be, or
  could not be, so that what is no longer pending and has not failed is there; `Paging`: when
  a page is submitted, all before it have been made; `PagesAfter`: what is pending of a page
  of its own stands on the first page and, if assets, on the pages of their endpoint profiles.
  What an aborted command left to Resource Manager still satisfies all this while the next
  captures anew, because it submits nothing before that has come to rest.
* `ReferenceAssumption`: resources, and the instance itself, refer to resources of the kinds in
  `RefersTo`;
  `NameAssumption`: there are finitely many names, without which a list could not be cut.

**Dangling references.** `OrderKeepsClosed`, in each of the three proof modules with a refinement, says
that whatever implements `DependencyOrder` keeps `Closed`: Create adds a resource whose needs
are there, Remove takes one nobody needs. The `...NothingDangling` theorems are the refinement
followed by it.

Assumptions on constants: the named `ASSUME`s of the modules, which say what type a
constant has, that `None` is none of the other values, and what the comments at each say of
the inputs; TLC evaluates them in every run. `OneProcessPerInstance`, `OneProfile`, `OneUser`,
`~StaleIndex` and `OnePinner` are premises of single theorems, and section 3 says which
behaviour each of them excludes.

Only model-checked:

* the temporal properties (`EnableConverges`, `FullCleanup`, `Converges`, `GuidanceConverges`,
  `ClientAddConverges`, `SetsUp`): liveness under fairness is beyond the prover;
* the two runs that expect a violation.

No module uses a RECURSIVE operator.


## 5. What is not modelled, and the plan

Done, most important behaviour first: `DependencyOrder` and `MgmtActions`; `Deletion`;
`SecretSync`; `Upgrade` with the secret sync migration; `Deployment`; the instance record;
the OPC UA certificates; clone; namespace assets and devices with the lookups of their
connectors; connector templates and the commands on single resources; proofs about all of
these.

Left, in this order:

1. Asset migration (`O/migration.py`): root assets are moved to a namespace in batches by the
   service; the client only selects, asks and reports.
2. Upgrade as a writer of the instance record, composed with `SecretSync`: now each has its
   own model of that overlap.
3. A composition of create and delete on one cluster, with `Deletion` in the place of the
   three abstract actions in `Deployment`.
4. Classic assets (`providers/adr/assets.py`): read, edit, PUT of a whole asset; the hazards are
   those of `NamespaceAssets`.
5. Configuration deltas of upgrade as pure operators against a reference definition.
6. Workflow display: the lock between the commands' thread and the renderer.

Abstract specifications worth stating later: a register for the shared lists and maps (what
a linearizable read-modify-write would promise), to be refined by the single-process
case of `SecretSync`, `NamespaceAssets` and of the namespace in `MgmtActions`.

Theorems worth proving next: the safety behind `FullCleanup` and `Converges` of `Clone`, that
nothing which a run needs in order to go on is ever lost (the liveness itself stays with TLC).

Partly modelled, with what is left out: `upgrade` (release trains, configuration settings),
init and create (what the templates contain but resources and their `dependsOn`), the
instance (what its description, features and tags say; Key Vault roles), OPC UA
certificates (what is in a certificate file), clone (version check, parameters, files),
namespace assets and devices (queries, exports, namespaces), validation helpers (field lengths;
data points, events and actions of the validator), connector templates (unpacking the
artifact), single resources (code-signing certificates, batching, authorization rules), the
command surface (declarations and help texts). The notes of `PROJECT.json` say more.

Not modelled for good: vendored clients (generated), read-only commands (checks, support
bundle, statistics, host checks), argument parsing. Abstracted: names, payloads, role
definitions, regions and resource groups; retries of the HTTP pipeline (a request that
fails after them is a failure).
