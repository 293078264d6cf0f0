------------------------------ MODULE OpcUaCerts ------------------------------
(***************************************************************************)
(* `az iot ops connector opcua trust | issuer | client add | remove`       *)
(* (providers/orchestration/resources/connector/opcua/certs.py), beside    *)
(* the commands of SecretSync, whose SPC and SecretSyncs they write too.   *)
(*                                                                         *)
(* A certificate is uploaded as a secret, listed by the default SPC and    *)
(* mapped, under the name of its file, by the SecretSync of its list; a    *)
(* client certificate comes with its key, takes the place of the pair      *)
(* before it, and is named in the settings of the IoT Operations extension.*)
(* Here the SecretSync to change is read from the Resource Graph index,    *)
(* and the SPC is written long after it was read.                          *)
(***************************************************************************)
EXTENDS SecretSync, Sequences

CONSTANTS TrustList, IssuerList, ClientPair   \* names of the SecretSyncs

ASSUME ListAssumption ==
    /\ {TrustList, IssuerList, ClientPair} \subseteq SyncName
    /\ ClientPair \notin {TrustList, IssuerList}

VARIABLES
    configured, \* the pair the extension's settings describe
    taken       \* history: the secrets these commands took from the SPC's list

certVars == <<configured, taken>>
allVars  == <<vars, certVars>>

CertTypeOK ==
    /\ TypeOK
    /\ configured \subseteq Mapping
    /\ taken \subseteq Secret

CertInit ==
    /\ Init
    /\ configured = {} /\ taken = {}

Keys(mapping) == {m[2] : m \in mapping}

ListOf(c) ==
    CASE c.op = "trust"  -> TrustList
      [] c.op = "issuer" -> IssuerList
      [] c.op = "client" -> ClientPair
      [] OTHER           -> c.name

(* A SecretSync as the index has it. *)
ByName(n) == Indexed.sync[n]

-------------------------------------------------------------------------------
(* add *)

MapFirst(op) ==          \* mutant: the SecretSync is written before the SPC
    CASE op = "trust"  -> <<"upload", "certReadSync", "certPutSync", "certPutSpc">>
      [] op = "issuer" -> <<"certReadSync", "upload", "certPutSync", "certPutSpc">>
      [] op = "client" -> <<"certReadSync", "upload", "uploadKey", "certPutSync",
                            "certPutSpc", "configure">>

(* What follows the reading of the SPC.                                     *)
AddSteps(op) ==
    CASE op = "trust"  -> <<"upload", "certPutSpc", "certReadSync", "certPutSync">>
      [] op = "issuer" -> <<"certReadSync", "upload", "certPutSpc", "certPutSync">>
      [] op = "client" -> <<"certReadSync", "upload", "uploadKey", "certPutSpc",
                            "certPutSync", "configure">>

NextStep(s) ==
    LET steps == AddSteps(args[s].op)
        i == CHOOSE j \in 1 .. Len(steps) : steps[j] = pc[s]
    IN  IF i = Len(steps) THEN "idle" ELSE steps[i + 1]

AddRead(s) ==
    /\ record.ref /\ spc
    /\ \E c \in Workloads[work].given[s] :
          /\ Takes(s, c, {"trust", "issuer", "client"})
          /\ args' = [args EXCEPT ![s] = c]
          /\ Goto(s, AddSteps(c.op)[1])
    /\ seenSpc' = [seenSpc EXCEPT ![s] = CurrentSpc]
    /\ UNCHANGED <<service, index, seenRecord, seenSync, listed, stale, faults, certVars>>

(* A revocation list is refused unless its issuer's certificate is there.   *)
AddReadSync(s) ==
    /\ At(s, "certReadSync")
    /\ LET n == ListOf(args[s])
           seen == ByName(n)
       IN  IF args[s].keys = {} \/ args[s].keys \cap Keys(seen) # {}
           THEN /\ seenSync' = [seenSync EXCEPT ![s][n] = seen]
                /\ Goto(s, NextStep(s))
                /\ UNCHANGED <<args, seenRecord, seenSpc, listed>>
           ELSE Finish(s)
    /\ UNCHANGED <<service, index, stale, faults, certVars>>

(* The user may decline to overwrite a secret; a name asks for that when    *)
(* another one ends with it, too.  Of a pair, the first stays uploaded.     *)
Declined(s) ==
    /\ pc[s] \in {"upload", "uploadKey"}
    /\ ~args[s].also /\ vault # {}
    /\ Finish(s)
    /\ UNCHANGED <<service, index, stale, faults, certVars>>

Upload(s) ==
    /\ \/ /\ At(s, "upload")
          /\ \E a \in Sources(args[s].map) : vault' = vault \cup {a}
       \/ /\ At(s, "uploadKey")
          /\ vault' = vault \cup Sources(args[s].map)
    /\ Goto(s, NextStep(s))
    /\ UNCHANGED <<instance, spc, objects, sync, index, memory, stale, faults, certVars>>

(* The secrets of the pair that is replaced.                                *)
Replaced(s) ==
    IF args[s].op = "client" THEN Sources(seenSync[s][ClientPair]) ELSE {}

AddPutSpc(s) ==
    /\ At(s, "certPutSpc")
    /\ LET new == (seenSpc[s].objects \ Replaced(s)) \cup Sources(args[s].map)
       IN  /\ spc' = TRUE /\ objects' = new
           /\ seenSpc' = [seenSpc EXCEPT ![s] = [exists |-> TRUE, objects |-> new]]
           /\ taken' = (taken \cup Replaced(s)) \ new
    /\ stale' = (stale \/ CurrentSpc # seenSpc[s])
    /\ Goto(s, NextStep(s))
    /\ UNCHANGED <<instance, sync, vault, index, args, seenRecord, seenSync, listed,
                   faults, configured>>

NotReplaced(s, n) ==     \* mutant: what is mapped stays as it is
    IF seenSync[s][n] # {} THEN seenSync[s][n] ELSE args[s].map

(* A secret that is mapped already gets the new key.                        *)
CertMapping(s, n) ==
    IF args[s].op = "client" THEN args[s].map
    ELSE Without(seenSync[s][n], Sources(args[s].map)) \cup args[s].map

AddPutSync(s) ==
    /\ At(s, "certPutSync")
    /\ LET n == ListOf(args[s]) IN
       /\ sync' = [sync EXCEPT ![n] = CertMapping(s, n)]
       /\ stale' = (stale \/ CurrentSpc # seenSpc[s] \/ sync[n] # seenSync[s][n])
    /\ IF NextStep(s) = "idle" THEN Finish(s)
       ELSE Goto(s, NextStep(s)) /\ UNCHANGED memory
    /\ UNCHANGED <<instance, spc, objects, vault, index, faults, certVars>>

Configure(s) ==
    /\ At(s, "configure")
    /\ configured' = args[s].map
    /\ stale' = (stale \/ sync[ClientPair] # args[s].map)
    /\ Finish(s)
    /\ UNCHANGED <<service, index, faults, taken>>

-------------------------------------------------------------------------------
(* remove *)

(* Of the given files those that are mapped, by one secret each, are taken. *)
RemoveCertRead(s) ==
    /\ \E c \in Workloads[work].given[s] :
          /\ Takes(s, c, {"removeCertificates"})
          /\ LET seen  == ByName(c.name)
                 found == c.keys \cap Keys(seen)
             IN  /\ found # {}
                 /\ \E first \in [found -> Secret] :
                       /\ \A k \in found : <<first[k], k>> \in seen
                       /\ args' = [args EXCEPT ![s] =
                                     [c EXCEPT !.secrets = {first[k] : k \in found}]]
                 /\ seenSync' = [seenSync EXCEPT ![s][c.name] = seen]
    /\ Goto(s, "certReadSpc")
    /\ UNCHANGED <<service, index, seenRecord, seenSpc, listed, stale, faults, certVars>>

RemoveCertReadSpc(s) ==
    /\ At(s, "certReadSpc")
    /\ IF record.ref /\ spc
       THEN /\ seenSpc' = [seenSpc EXCEPT ![s] = CurrentSpc]
            /\ Goto(s, "unmap")
            /\ UNCHANGED <<args, seenRecord, seenSync, listed>>
       ELSE Finish(s)
    /\ UNCHANGED <<service, index, stale, faults, certVars>>

Rest(s) == Without(seenSync[s][args[s].name], args[s].secrets)

NoRollback(s) == FALSE   \* mutant: the extension keeps naming the pair

Emptied(s) == args[s].name = ClientPair /\ Rest(s) = {}

Unmap(s) ==
    /\ At(s, "unmap")
    /\ LET n == args[s].name IN
       /\ sync' = [sync EXCEPT ![n] = Rest(s)]
       /\ stale' = (stale \/ sync[n] # seenSync[s][n])
    /\ Goto(s, IF Emptied(s) THEN "rollback" ELSE "unlist")
    /\ UNCHANGED <<instance, spc, objects, vault, index, memory, faults, certVars>>

Rollback(s) ==
    /\ At(s, "rollback")
    /\ configured' = {}
    /\ stale' = (stale \/ sync[ClientPair] # {})
    /\ Goto(s, "unlist")
    /\ UNCHANGED <<service, index, memory, faults, taken>>

(* Whether another SecretSync maps the secrets is not asked.                *)
Unlist(s) ==
    /\ At(s, "unlist")
    /\ spc' = TRUE
    /\ objects' = seenSpc[s].objects \ args[s].secrets
    /\ taken' = (taken \cup args[s].secrets) \ objects'
    /\ stale' = (stale \/ CurrentSpc # seenSpc[s])
    /\ IF args[s].also THEN Goto(s, "purge") /\ UNCHANGED memory ELSE Finish(s)
    /\ UNCHANGED <<instance, sync, vault, index, faults, configured>>

(* Each secret is deleted and purged; one deletion may not be confirmed.    *)
Purge(s) ==
    /\ At(s, "purge")
    /\ \E kept \in SUBSET args[s].secrets :
          /\ IF kept = {} THEN NoFault ELSE Fault
          /\ vault' = vault \ (args[s].secrets \ kept)
    /\ Finish(s)
    /\ UNCHANGED <<instance, spc, objects, sync, index, stale, certVars>>

-------------------------------------------------------------------------------

CertStart(s) == AddRead(s) \/ RemoveCertRead(s)

CertStep(s) ==
    \/ AddReadSync(s) \/ Declined(s) \/ Upload(s) \/ AddPutSpc(s) \/ AddPutSync(s)
    \/ Configure(s)
    \/ RemoveCertReadSpc(s) \/ Unmap(s) \/ Rollback(s) \/ Unlist(s) \/ Purge(s)

(* What secretsync set and enable list is not taken any more.               *)
Listing(A) == A /\ taken' = taken \ objects' /\ UNCHANGED configured

CertNext ==
    \/ \E s \in Session : CertStart(s) \/ CertStep(s)
    \/ Listing(Reindex \/ \E s \in Session : Start(s) \/ Step(s) \/ Abort(s))

CertSpec == CertInit /\ [][CertNext /\ UNCHANGED work]_<<work, allVars>>

(* The user has only one client certificate to add, whatever is there.      *)
Insists(s) == \A c \in Workloads[work].given[s] : c.op = "client" /\ c.also

(* Whose user insists goes on, and begins the command again when it has     *)
(* ended.  What becomes of the other processes is left open.                *)
FairSpec ==
    /\ CertSpec
    /\ \A s \in Session :
          WF_allVars(/\ Insists(s)
                     /\ AddRead(s) \/ CertStep(s) \/ Listing(Step(s))
                     /\ UNCHANGED work)

-------------------------------------------------------------------------------
(* What the commands promise *)

(* Every secret that a SecretSync maps is listed by the SPC, unless one of  *)
(* these commands took it from there: client add while it replaces the      *)
(* pair, remove though another SecretSync maps it as well.                  *)
ListedUnlessTaken ==
    spc /\ ~stale => OtherSources(sync, None) \ taken \subseteq objects

OnlyCertificates ==
    \A s \in Session : \A c \in Workloads[work].given[s] :
       c.op \in CertOp \/ c.name \notin {ClientPair, None}

(* The extension names a client certificate while there is one, and no      *)
(* longer, unless a command failed on the way, rested on an outdated read   *)
(* or has not come to the extension yet.                                    *)
ConfiguredIffMapped ==
    OnlyCertificates /\ faults = 0 /\ ~stale
    /\ (\A s \in Session : pc[s] \notin {"configure", "rollback"})
    => (configured # {} <=> sync[ClientPair] # {})

Installed(c) ==
    /\ sync[ClientPair] = c.map /\ configured = c.map
    /\ Sources(c.map) \subseteq objects \cap vault

(* A client add that overwrites, given again and again, ends with its pair  *)
(* uploaded, listed, mapped and configured, once the other processes have   *)
(* stopped and left secret sync enabled, whatever failed before.            *)
ClientAddConverges ==
    \A s \in Session :
       (/\ Insists(s)
        /\ <>[](/\ record.ref /\ spc
                /\ \A t \in Session \ {s} : At(t, "idle")))
       => <>[](\A c \in Workloads[work].given[s] : Installed(c))

===============================================================================
