------------------------------ MODULE SecretSync ------------------------------
(***************************************************************************)
(* The commands on the record of one instance and on the secrets it syncs: *)
(* `az iot ops secretsync enable | disable`, `secretsync secret set |      *)
(* remove`, `az iot ops update` and `az iot ops identity assign | remove`  *)
(* (providers/orchestration/resources/instances.py).                       *)
(*                                                                         *)
(* The instance names its default secret provider class (SPC) and its      *)
(* user-assigned identities, the SPC lists the Key Vault secrets it can    *)
(* fetch (its objects), and each SecretSync resource maps such secrets to  *)
(* keys of a Kubernetes secret.  All are replaced whole (PUT, no etag), by *)
(* values computed from an earlier read, and enable, disable and the       *)
(* reference count of remove look at the Resource Graph index, which may   *)
(* lag behind.                                                             *)
(***************************************************************************)
EXTENDS Naturals

CONSTANTS
    Session,      \* CLI processes
    SyncName,     \* names of SecretSync resources
    Secret,       \* names of secrets in the Key Vault
    Key,          \* keys of a Kubernetes secret
    Identity,     \* user-assigned managed identities
    Workloads,    \* by name: the commands of each process, what is there before
    Lagging,      \* whether the Resource Graph index may lag behind
    MaxFaults,    \* bound on failures
    None

Mapping == Secret \X Key
Syncs   == [SyncName -> SUBSET Mapping]
NoSyncs == [n \in SyncName |-> {}]
Spc     == [exists: BOOLEAN, objects: SUBSET Secret]
NoSpc   == [exists |-> FALSE, objects |-> {}]
Record  == [ref: BOOLEAN,                 \* it refers to the SPC
            assigned: SUBSET Identity]    \* its identities

Op     == {"enable", "disable", "set", "remove", "update", "assign", "unassign"}
CertOp == {"trust", "issuer", "client", "removeCertificates"}

Command ==
    [op: Op \cup CertOp, name: SyncName \cup {None}, map: SUBSET Mapping,
     secrets: SUBSET Secret, keys: SUBSET Key, identity: Identity \cup {None},
     also: BOOLEAN]  \* on request: grant the role, delete the credential, purge

(* The arguments that only some of the commands have, and these require.    *)
Accepted(c) ==
    /\ c.op \in {"set", "remove", "removeCertificates"} <=> c.name # None
    /\ c.op = "remove" => \E a \in Secret : c.secrets = {a}
    /\ c.op \in {"assign", "unassign"} <=> c.identity # None

NoCommand == [op |-> "update", name |-> None, map |-> {}, secrets |-> {},
              keys |-> {}, identity |-> None, also |-> FALSE]

ASSUME WorkloadAssumption ==
    \A w \in DOMAIN Workloads :
       /\ Workloads[w] \in [given: [Session -> SUBSET Command], enabled: BOOLEAN,
                           vault: SUBSET Secret]
       /\ \A s \in Session : \A c \in Workloads[w].given[s] : Accepted(c)
ASSUME LaggingAssumption == Lagging \in BOOLEAN
ASSUME BoundAssumption == MaxFaults \in Nat
ASSUME NoneAssumption == None \notin SyncName \cup Secret \cup Identity

VARIABLES
    work,       \* the name of the workload
    record,     \* the instance
    creds,      \* issuers of the federated credentials of the SPC's identity
    credential, \* of each identity, for the instance: none, credential, deleted
    granted,    \* the identities with a role on its schema registry
    spc,        \* the SPC exists
    objects,    \* the secrets it lists
    sync,       \* the mappings of each SecretSync; without any it does not exist
    vault,      \* the secrets in the Key Vault
    index,      \* the Resource Graph's view of SPC and SecretSyncs
    pc,         \* the next step of each CLI process
    args,       \* its command
    seenRecord, \* the instance as it read it
    seenSpc,    \* the SPC as it read (or wrote) it
    seenSync,   \* what it read of the SecretSyncs: of its own from the service,
                \* of the others from the index
    listed,     \* the SecretSyncs disable has found
    stale,      \* history: a write rested on a read that no longer held
    faults      \* the failures so far

instance == <<record, creds, credential, granted>>
service  == <<instance, spc, objects, sync, vault>>
memory   == <<args, seenRecord, seenSpc, seenSync, listed>>
vars     == <<service, index, pc, memory, stale, faults>>

Steps == {"idle", "federate", "createSpc", "federateIdentity", "unfederate",
          "putRecord", "grant", "list", "deleteSyncs", "deleteSpc",
          "putSpc", "readSync", "putSync",
          "rmCount", "rmSync", "rmReadSpc", "rmPutSpc"}

CertSteps == {"certReadSync", "upload", "uploadKey", "certPutSpc", "certPutSync",
              "configure", "certReadSpc", "unmap", "rollback", "unlist", "purge"}

TypeOK ==
    /\ work \in DOMAIN Workloads
    /\ record \in Record
    /\ creds \subseteq {"arm", "cluster"}
    /\ credential \in [Identity -> {"none", "federated", "deleted"}]
    /\ granted \subseteq Identity
    /\ spc \in BOOLEAN /\ objects \subseteq Secret
    /\ sync \in Syncs
    /\ vault \subseteq Secret
    /\ index \in [spc: BOOLEAN, sync: Syncs]
    /\ pc \in [Session -> Steps \cup CertSteps]
    /\ args \in [Session -> Command]
    /\ seenRecord \in [Session -> Record]
    /\ seenSpc \in [Session -> Spc]
    /\ seenSync \in [Session -> Syncs]
    /\ listed \in [Session -> SUBSET SyncName]
    /\ stale \in BOOLEAN
    /\ faults \in 0 .. MaxFaults

NoRecord == [ref |-> FALSE, assigned |-> {}]

Init ==
    /\ work \in DOMAIN Workloads
    /\ LET on == Workloads[work].enabled
       IN  /\ record = [ref |-> on, assigned |-> {}]
           /\ creds = IF on THEN {"cluster"} ELSE {}
           /\ spc = on
           /\ index = [spc |-> on, sync |-> NoSyncs]
    /\ vault = Workloads[work].vault
    /\ credential = [i \in Identity |-> "none"] /\ granted = {}
    /\ objects = {} /\ sync = NoSyncs
    /\ pc = [s \in Session |-> "idle"]
    /\ args = [s \in Session |-> NoCommand]
    /\ seenRecord = [s \in Session |-> NoRecord]
    /\ seenSpc = [s \in Session |-> NoSpc]
    /\ seenSync = [s \in Session |-> NoSyncs]
    /\ listed = [s \in Session |-> {}]
    /\ stale = FALSE
    /\ faults = 0

-------------------------------------------------------------------------------
(* Moving from step to step *)

At(s, step) == pc[s] = step

Goto(s, step) == pc' = [pc EXCEPT ![s] = step]

Finish(s) ==
    /\ Goto(s, "idle")
    /\ args' = [args EXCEPT ![s] = NoCommand]
    /\ seenRecord' = [seenRecord EXCEPT ![s] = NoRecord]
    /\ seenSpc' = [seenSpc EXCEPT ![s] = NoSpc]
    /\ seenSync' = [seenSync EXCEPT ![s] = NoSyncs]
    /\ listed' = [listed EXCEPT ![s] = {}]

(* A command the process is given, when it has none.                        *)
Takes(s, c, ops) ==
    /\ At(s, "idle")
    /\ c \in Workloads[work].given[s]
    /\ c.op \in ops

Fault == faults < MaxFaults /\ faults' = faults + 1
NoFault == UNCHANGED faults

(* A call fails or the process is killed between two calls.                 *)
Abort(s) ==
    /\ pc[s] # "idle"
    /\ Fault
    /\ Finish(s)
    /\ UNCHANGED <<service, index, stale>>

CurrentSpc == [exists |-> spc, objects |-> objects]
Current    == [spc |-> spc, sync |-> sync]
Indexed    == IF Lagging THEN index ELSE Current

(* The index catches up. *)
Reindex ==
    /\ Lagging
    /\ index # Current
    /\ index' = Current
    /\ UNCHANGED <<service, pc, memory, stale, faults>>

Sources(mapping) == {m[1] : m \in mapping}

(* The secrets mapped by SecretSyncs other than n.                          *)
OtherSources(syncs, n) == UNION {Sources(syncs[k]) : k \in SyncName \ {n}}

-------------------------------------------------------------------------------
(* The instance record *)

(* disable, update, identity assign and remove read the instance first; an  *)
(* identity to remove that is not assigned is refused, after the deletion   *)
(* of its credential.                                                       *)
RecordFirst(c) ==         \* mutant: assign writes the record before the credential
    IF c.op = "unassign" /\ c.also THEN "unfederate" ELSE "putRecord"

FirstStep(c) ==
    CASE c.op = "disable"  -> IF record.ref THEN "putRecord" ELSE "list"
      [] c.op = "assign"   -> "federateIdentity"
      [] c.op = "unassign" /\ c.also -> "unfederate"
      [] OTHER -> "putRecord"

ReadRecord(s) ==
    /\ \E c \in Workloads[work].given[s] :
          /\ Takes(s, c, {"disable", "update", "assign", "unassign"})
          /\ c.op = "unassign" /\ ~c.also => c.identity \in record.assigned
          /\ args' = [args EXCEPT ![s] = c]
          /\ Goto(s, FirstStep(c))
          /\ seenRecord' = [seenRecord EXCEPT ![s] =
                               IF FirstStep(c) = "list" THEN NoRecord ELSE record]
    /\ UNCHANGED <<service, index, seenSpc, seenSync, listed, stale, faults>>

FederateIdentity(s) ==
    /\ At(s, "federateIdentity")
    /\ credential' = [credential EXCEPT ![args[s].identity] = "federated"]
    /\ Goto(s, "putRecord")
    /\ UNCHANGED <<record, creds, granted, spc, objects, sync, vault, index, memory,
                   stale, faults>>

UnfederateIdentity(s) ==
    /\ At(s, "unfederate")
    /\ credential' = [credential EXCEPT ![args[s].identity] = "deleted"]
    /\ IF args[s].identity \in seenRecord[s].assigned
       THEN Goto(s, "putRecord") /\ UNCHANGED memory
       ELSE Finish(s)
    /\ UNCHANGED <<record, creds, granted, spc, objects, sync, vault, index, stale,
                   faults>>

KeepRef  == record.ref          \* mutant: the instance keeps its reference
Unlinked == FALSE

OnlyIdentity(s) ==        \* mutant: the new identity takes the place of the others
    CASE args[s].op = "assign" -> [seenRecord[s] EXCEPT !.assigned = {args[s].identity}]
      [] OTHER -> [seenRecord[s] EXCEPT !.ref = args[s].op = "enable"]

(* The whole instance as it was read, with what the command changes.        *)
RecordSent(s) ==
    LET c == args[s]
    IN  CASE c.op = "enable"   -> [seenRecord[s] EXCEPT !.ref = TRUE]
          [] c.op = "disable"  -> [seenRecord[s] EXCEPT !.ref = Unlinked]
          [] c.op = "assign"   -> [seenRecord[s] EXCEPT !.assigned = @ \cup {c.identity}]
          [] c.op = "unassign" -> [seenRecord[s] EXCEPT !.assigned = @ \ {c.identity}]
          [] OTHER             -> seenRecord[s]

(* Someone has since changed what the command only sends back.              *)
Outdated(s) ==
    LET c == args[s]
    IN  \/ record.assigned \ {c.identity} # seenRecord[s].assigned \ {c.identity}
        \/ c.op \notin {"enable", "disable"} /\ record.ref # seenRecord[s].ref

PutRecord(s) ==
    /\ At(s, "putRecord")
    /\ record' = RecordSent(s)
    /\ stale' = (stale \/ Outdated(s) \/ (args[s].op = "enable" /\ ~spc))
    /\ IF args[s].op = "disable" \/ (args[s].op = "assign" /\ args[s].also)
       THEN /\ Goto(s, IF args[s].op = "disable" THEN "list" ELSE "grant")
            /\ seenRecord' = [seenRecord EXCEPT ![s] = NoRecord]
            /\ UNCHANGED <<args, seenSpc, seenSync, listed>>
       ELSE Finish(s)
    /\ UNCHANGED <<creds, credential, granted, spc, objects, sync, vault, index, faults>>

Grant(s) ==
    /\ At(s, "grant")
    /\ granted' = granted \cup {args[s].identity}
    /\ Finish(s)
    /\ UNCHANGED <<record, creds, credential, spc, objects, sync, vault, index, stale,
                   faults>>

-------------------------------------------------------------------------------
(* secretsync enable *)

(* The issuer is the cluster's where the host can verify it, otherwise the  *)
(* one reported by ARM, which may differ by a trailing slash.  Where there  *)
(* are secret sync resources a credential with the latter is repaired, and  *)
(* that is all.                                                             *)
Repaired(verified) ==
    IF verified /\ creds = {"arm"} THEN {"cluster"} ELSE creds

IndexedAny == Indexed.spc \/ \E n \in SyncName : Indexed.sync[n] # {}

Lookup(s) ==
    /\ \E c \in Workloads[work].given[s] :
          /\ Takes(s, c, {"enable"})
          /\ IF IndexedAny
             THEN /\ \E verified \in BOOLEAN : creds' = Repaired(verified)
                  /\ Finish(s)
             ELSE /\ Goto(s, "federate")
                  /\ args' = [args EXCEPT ![s] = c]
                  /\ seenRecord' = [seenRecord EXCEPT ![s] = record]
                  /\ UNCHANGED <<creds, seenSpc, seenSync, listed>>
    /\ UNCHANGED <<record, credential, granted, spc, objects, sync, vault, index,
                   stale, faults>>

Issuers == {"arm", "cluster"}

WithVerified(issuer) ==       \* mutant: an unverified issuer is not used
    IF issuer = "cluster" THEN creds \cup {issuer} ELSE creds
WithCredential(issuer) == creds \cup {issuer}

Federate(s) ==
    /\ At(s, "federate")
    /\ \E issuer \in Issuers : creds' = WithCredential(issuer)
    /\ Goto(s, "createSpc")
    /\ UNCHANGED <<record, credential, granted, spc, objects, sync, vault, index,
                   memory, stale, faults>>

(* A PUT without objects. *)
CreateSpc(s) ==
    /\ At(s, "createSpc")
    /\ spc' = TRUE
    /\ objects' = {}
    /\ stale' = (stale \/ spc \/ sync # NoSyncs)
    /\ Goto(s, "putRecord")
    /\ UNCHANGED <<instance, sync, vault, index, memory, faults>>

-------------------------------------------------------------------------------
(* secretsync disable, once the instance refers to the SPC no more *)

List(s) ==
    /\ At(s, "list")
    /\ IF IndexedAny
       THEN /\ listed' = [listed EXCEPT ![s] = {n \in SyncName : Indexed.sync[n] # {}}]
            /\ seenSpc' = [seenSpc EXCEPT ![s] = [exists |-> Indexed.spc, objects |-> {}]]
            /\ Goto(s, "deleteSyncs")
            /\ UNCHANGED <<args, seenRecord, seenSync>>
       ELSE Finish(s)
    /\ UNCHANGED <<service, index, stale, faults>>

(* The deletions are waited for and their results are not looked at.        *)
DeleteSyncs(s) ==
    /\ At(s, "deleteSyncs")
    /\ \E kept \in SUBSET listed[s] :
          /\ IF kept = {} THEN NoFault ELSE Fault
          /\ sync' = [n \in SyncName |->
                        IF n \in listed[s] \ kept THEN {} ELSE sync[n]]
    /\ Goto(s, "deleteSpc")
    /\ UNCHANGED <<instance, spc, objects, vault, index, memory, stale>>

DeleteSpc(s) ==
    /\ At(s, "deleteSpc")
    /\ \/ /\ seenSpc[s].exists
          /\ spc' = FALSE /\ objects' = {}
          /\ stale' = \/ stale \/ record.ref # Unlinked
                      \/ \E n \in SyncName \ listed[s] : sync[n] # {}
          /\ NoFault
       \/ /\ seenSpc[s].exists => Fault
          /\ ~seenSpc[s].exists => NoFault
          /\ UNCHANGED <<spc, objects, stale>>
    /\ Finish(s)
    /\ UNCHANGED <<instance, sync, vault, index>>

-------------------------------------------------------------------------------
(* secretsync secret set *)

(* "Secret sync not enabled" without a reference, not found without an SPC  *)
(* or without the secret in the Key Vault.                                  *)
ReadSpc(s) ==
    /\ record.ref /\ spc
    /\ \E c \in Workloads[work].given[s] :
          /\ Takes(s, c, {"set"})
          /\ Sources(c.map) \subseteq vault
          /\ args' = [args EXCEPT ![s] = c]
    /\ seenSpc' = [seenSpc EXCEPT ![s] = CurrentSpc]
    /\ Goto(s, "putSpc")
    /\ UNCHANGED <<service, index, seenRecord, seenSync, listed, stale, faults>>

NewObjectsOnly(s) == Sources(args[s].map)     \* mutant: existing ones are lost
WithObjects(s) == seenSpc[s].objects \cup Sources(args[s].map)

PutSpc(s) ==
    /\ At(s, "putSpc")
    /\ spc' = TRUE
    /\ objects' = WithObjects(s)
    /\ seenSpc' = [seenSpc EXCEPT ![s] = [exists |-> TRUE, objects |-> WithObjects(s)]]
    /\ stale' = (stale \/ CurrentSpc # seenSpc[s])
    /\ Goto(s, "readSync")
    /\ UNCHANGED <<instance, sync, vault, index, args, seenRecord, seenSync, listed,
                   faults>>

ReadSync(s) ==
    /\ At(s, "readSync")
    /\ seenSync' = [seenSync EXCEPT ![s][args[s].name] = sync[args[s].name]]
    /\ Goto(s, "putSync")
    /\ UNCHANGED <<service, index, args, seenRecord, seenSpc, listed, stale, faults>>

(* Pairs that are already there are not added again.                        *)
Replacement(s, n) == args[s].map        \* mutant: the mapping is replaced
Merged(s, n) == seenSync[s][n] \cup args[s].map

PutSync(s) ==
    /\ At(s, "putSync")
    /\ LET n == args[s].name IN
       /\ sync' = [sync EXCEPT ![n] = Merged(s, n)]
       /\ stale' = \/ stale
                   \/ CurrentSpc # seenSpc[s]
                   \/ sync[n] # seenSync[s][n]
    /\ Finish(s)
    /\ UNCHANGED <<instance, spc, objects, vault, index, faults>>

-------------------------------------------------------------------------------
(* secretsync secret remove *)

(* Refused when the SecretSync does not map the secret.                     *)
RemoveRead(s) ==
    /\ \E c \in Workloads[work].given[s] :
          /\ Takes(s, c, {"remove"})
          /\ c.secrets \subseteq Sources(sync[c.name])
          /\ args' = [args EXCEPT ![s] = c]
          /\ seenSync' = [seenSync EXCEPT ![s][c.name] = sync[c.name]]
    /\ Goto(s, "rmCount")
    /\ UNCHANGED <<service, index, seenRecord, seenSpc, listed, stale, faults>>

RemoveCount(s) ==
    /\ At(s, "rmCount")
    /\ seenSync' = [seenSync EXCEPT ![s] = [Indexed.sync EXCEPT
                                ![args[s].name] = seenSync[s][args[s].name]]]
    /\ Goto(s, "rmSync")
    /\ UNCHANGED <<service, index, args, seenRecord, seenSpc, listed, stale, faults>>

TargetCounted(s) ==      \* mutant: the SecretSync itself counts as a reference
    args[s].secrets \subseteq OtherSources(seenSync[s], None)

StillReferenced(s) ==
    args[s].secrets \subseteq OtherSources(seenSync[s], args[s].name)

Without(mapping, secrets) == {m \in mapping : m[1] \notin secrets}

(* The mapping without the secret; without mappings the SecretSync goes.    *)
RemoveFromSync(s) ==
    /\ At(s, "rmSync")
    /\ LET n == args[s].name IN
       /\ sync' = [sync EXCEPT ![n] = Without(seenSync[s][n], args[s].secrets)]
       /\ stale' = (stale \/ sync[n] # seenSync[s][n])
    /\ IF StillReferenced(s) THEN Finish(s)
       ELSE Goto(s, "rmReadSpc") /\ UNCHANGED memory
    /\ UNCHANGED <<instance, spc, objects, vault, index, faults>>

RemoveReadSpc(s) ==
    /\ At(s, "rmReadSpc")
    /\ IF spc /\ args[s].secrets \subseteq objects
       THEN /\ seenSpc' = [seenSpc EXCEPT ![s] = CurrentSpc]
            /\ Goto(s, "rmPutSpc")
            /\ UNCHANGED <<args, seenRecord, seenSync, listed>>
       ELSE Finish(s)
    /\ UNCHANGED <<service, index, stale, faults>>

RemoveFromSpc(s) ==
    /\ At(s, "rmPutSpc")
    /\ spc' = TRUE
    /\ objects' = seenSpc[s].objects \ args[s].secrets
    /\ stale' = \/ stale
                \/ CurrentSpc # seenSpc[s]
                \/ OtherSources(sync, None) # OtherSources(
                     [seenSync[s] EXCEPT ![args[s].name] =
                        Without(@, args[s].secrets)], None)
    /\ Finish(s)
    /\ UNCHANGED <<instance, sync, vault, index, faults>>

-------------------------------------------------------------------------------

(* The first call of a command.                                             *)
Start(s) == ReadRecord(s) \/ Lookup(s) \/ ReadSpc(s) \/ RemoveRead(s)

Step(s) ==
    \/ FederateIdentity(s) \/ UnfederateIdentity(s) \/ PutRecord(s) \/ Grant(s)
    \/ Federate(s) \/ CreateSpc(s)
    \/ List(s) \/ DeleteSyncs(s) \/ DeleteSpc(s)
    \/ PutSpc(s) \/ ReadSync(s) \/ PutSync(s)
    \/ RemoveCount(s) \/ RemoveFromSync(s)
    \/ RemoveReadSpc(s) \/ RemoveFromSpc(s)

Next == Reindex \/ \E s \in Session : Start(s) \/ Step(s) \/ Abort(s)

Spec == Init /\ [][Next /\ UNCHANGED work]_<<work, vars>>

-------------------------------------------------------------------------------
(* What the commands promise *)

(* Every secret that a SecretSync maps is listed by the SPC, as long as the *)
(* SPC is there and no write rested on an outdated read: set adds to the    *)
(* SPC before it maps, remove unmaps before it takes from the SPC, enable   *)
(* leaves an SPC beside existing SecretSyncs alone.                         *)
MappedSecretsListed ==
    spc /\ ~stale => OtherSources(sync, None) \subseteq objects

(* The instance refers to an SPC that exists, whatever failed: enable links *)
(* last, disable unlinks first.                                             *)
LinkedSpcExists == record.ref /\ ~stale => spc

(* A remove that ends without a failure leaves its secret in the SPC only   *)
(* if some SecretSync still maps it, unless the references it counted have  *)
(* changed or it rested on an outdated read.                                *)
RemoveCleansUp ==
    [][\A s \in Session :
         LET n == args[s].name IN
         /\ pc[s] \in {"rmSync", "rmReadSpc", "rmPutSpc"} /\ At(s, "idle")'
         /\ faults' = faults /\ ~stale'
         /\ OtherSources(seenSync[s], n) = OtherSources(sync, n)
         => args[s].secrets \cap objects' \subseteq OtherSources(sync', None)]_vars

(* A set that ends leaves all it was asked to map, and what was mapped      *)
(* when it read the SecretSync, unless it rested on an outdated read.       *)
SetKeepsMappings ==
    [][\A s \in Session :
         At(s, "putSync") /\ At(s, "idle")' /\ faults' = faults /\ ~stale'
           => /\ args[s].map \cup sync[args[s].name] \subseteq sync'[args[s].name]
              /\ Sources(args[s].map) \subseteq objects']_vars

(* The SPC never exists without a federated credential: an enable that is   *)
(* run again after a failure stops when it finds the SPC, so the credential *)
(* has to come first.                                                       *)
SpcHasCredential == spc => creds # {}

(* An identity that the instance uses has a federated credential, unless a  *)
(* remove deleted it (which it does before it knows whether it will take    *)
(* the identity away), and keeps its place whatever the other commands send *)
(* back, unless that rested on an outdated read.                            *)
AssignedIsFederated == \A i \in record.assigned : credential[i] # "none"

IdentityKept ==
    [][\A i \in record.assigned \ record'.assigned :
         \/ stale'
         \/ \E s \in Session : At(s, "putRecord") /\ args[s].op = "unassign"
                                 /\ args[s].identity = i]_vars

===============================================================================
