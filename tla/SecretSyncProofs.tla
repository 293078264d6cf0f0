--------------------------- MODULE SecretSyncProofs ---------------------------
(* What is proved of SecretSync and of OpcUaCerts.  Each lemma on a step of    *)
(* SecretSync is about one command process and says nothing of the             *)
(* specification: the second half, on the certificate commands, uses it for    *)
(* the steps they add.                                                         *)
EXTENDS OpcUaCerts, TLAPS

USE DEF At, Goto

-------------------------------------------------------------------------------
(* Types                                                                       *)

(* The arguments are those of a command that the parser accepts, and fit the   *)
(* step the process is at.                                                     *)
Fits(s) ==
    /\ Accepted(args[s])
    /\ pc[s] \in {"federateIdentity", "grant"} => args[s].op = "assign"
    /\ pc[s] = "unfederate" => args[s].op = "unassign"
    /\ pc[s] \in {"federate", "createSpc"} => args[s].op = "enable"
    /\ pc[s] \in {"list", "deleteSyncs", "deleteSpc"} => args[s].op = "disable"
    /\ pc[s] \in {"putSpc", "readSync", "putSync"} => args[s].op = "set"
    /\ pc[s] \in {"rmCount", "rmSync", "rmReadSpc", "rmPutSpc"} => args[s].op = "remove"

Typed == TypeOK /\ \A s \in Session : Fits(s)

LEMMA NoCommandType == NoCommand \in Command /\ Accepted(NoCommand)
  BY DEF NoCommand, Command, Op, Accepted

LEMMA GivenType ==
  ASSUME work \in DOMAIN Workloads, NEW s \in Session, NEW c \in Workloads[work].given[s]
  PROVE  c \in Command /\ Accepted(c)
  BY WorkloadAssumption

(* The fields of a command that a step may rest on.                            *)
LEMMA CommandType ==
  ASSUME NEW c \in Command, Accepted(c)
  PROVE  /\ c.map \subseteq Mapping /\ c.secrets \subseteq Secret /\ c.keys \subseteq Key
         /\ c.op \in {"set", "remove", "removeCertificates"} <=> c.name \in SyncName
         /\ c.op \in {"assign", "unassign"} <=> c.identity \in Identity
         /\ c.op = "remove" => \E a \in Secret : c.secrets = {a}
  BY NoneAssumption DEF Command, Accepted

LEMMA SourcesType == \A m \in SUBSET Mapping : Sources(m) \subseteq Secret
  BY DEF Sources, Mapping

LEMMA TypedInit == Init => Typed
  <1> SUFFICES ASSUME Init PROVE Typed
    OBVIOUS
  <1>0. /\ work \in DOMAIN Workloads
        /\ Workloads[work].enabled \in BOOLEAN /\ Workloads[work].vault \subseteq Secret
    BY WorkloadAssumption DEF Init
  <1>1. record \in Record /\ creds \subseteq {"arm", "cluster"} /\ spc \in BOOLEAN
        /\ index \in [spc: BOOLEAN, sync: Syncs] /\ vault \subseteq Secret
    BY <1>0 DEF Init, Record, Syncs, NoSyncs
  <1>2. /\ args \in [Session -> Command] /\ seenRecord \in [Session -> Record]
        /\ seenSpc \in [Session -> Spc] /\ seenSync \in [Session -> Syncs]
        /\ listed \in [Session -> SUBSET SyncName] /\ sync \in Syncs
    BY NoCommandType DEF Init, NoRecord, Record, NoSpc, Spc, NoSyncs, Syncs
  <1>3. /\ credential \in [Identity -> {"none", "federated", "deleted"}]
        /\ pc \in [Session -> Steps \cup CertSteps]
        /\ granted = {} /\ objects = {} /\ stale = FALSE /\ faults \in 0 .. MaxFaults
    BY BoundAssumption DEF Init, Steps
  <1>5. TypeOK
    BY <1>0, <1>1, <1>2, <1>3 DEF TypeOK
  <1>4. ASSUME NEW s \in Session PROVE Fits(s)
    BY NoCommandType DEF Init, Fits
  <1> QED BY <1>4, <1>5 DEF Typed

(* The memory of the processes.                                                *)
MemoryType ==
    /\ pc \in [Session -> Steps \cup CertSteps]
    /\ args \in [Session -> Command]
    /\ seenRecord \in [Session -> Record]
    /\ seenSpc \in [Session -> Spc]
    /\ seenSync \in [Session -> Syncs]
    /\ listed \in [Session -> SUBSET SyncName]

LEMMA FinishType ==
  ASSUME MemoryType, NEW s \in Session, Finish(s)
  PROVE  MemoryType' /\ Fits(s)'
  <1>1. NoRecord \in Record /\ NoSpc \in Spc /\ NoSyncs \in Syncs
    BY DEF NoRecord, Record, NoSpc, Spc, NoSyncs, Syncs
  <1> QED BY <1>1, NoCommandType DEF MemoryType, Finish, Steps, Fits

(* What a step of one process leaves to the others.                            *)
Others(s) ==
    \A t \in Session \ {s} :
       /\ pc'[t] = pc[t] /\ args'[t] = args[t] /\ seenRecord'[t] = seenRecord[t]
       /\ seenSpc'[t] = seenSpc[t] /\ seenSync'[t] = seenSync[t] /\ listed'[t] = listed[t]

Own(s) == Start(s) \/ Step(s) \/ Abort(s)

LEMMA OwnStep ==
  ASSUME MemoryType, NEW s \in Session, Own(s)
  PROVE  Others(s)
  BY DEF MemoryType, Others, Own, Start, Step, Abort, Finish, memory, ReadRecord, Lookup, ReadSpc,
         RemoveRead, FederateIdentity, UnfederateIdentity, PutRecord, Grant, Federate,
         CreateSpc, List, DeleteSyncs, DeleteSpc, PutSpc, ReadSync, PutSync, RemoveCount,
         RemoveFromSync, RemoveReadSpc, RemoveFromSpc

LEMMA IndexedType == TypeOK => Indexed \in [spc: BOOLEAN, sync: Syncs]
  BY DEF TypeOK, Indexed, Current

(* What the process keeps, and what it does to the service, have their types.  *)
ServiceType ==
    /\ record \in Record /\ creds \subseteq {"arm", "cluster"}
    /\ credential \in [Identity -> {"none", "federated", "deleted"}]
    /\ granted \subseteq Identity
    /\ spc \in BOOLEAN /\ objects \subseteq Secret
    /\ sync \in Syncs /\ vault \subseteq Secret

LEMMA StartType ==
  ASSUME Typed, NEW s \in Session, Start(s)
  PROVE  MemoryType' /\ Fits(s)' /\ UNCHANGED <<record, credential, granted, spc, objects, sync,
            vault, index, stale, faults>> /\ creds' \subseteq {"arm", "cluster"}
  <1>1. TypeOK /\ MemoryType
    BY DEF Typed, TypeOK, MemoryType
  <1>2. CASE ReadRecord(s)
    <2>1. PICK c \in Workloads[work].given[s] :
             /\ Takes(s, c, {"disable", "update", "assign", "unassign"})
             /\ args' = [args EXCEPT ![s] = c]
             /\ Goto(s, FirstStep(c))
             /\ seenRecord' = [seenRecord EXCEPT ![s] =
                                  IF FirstStep(c) = "list" THEN NoRecord ELSE record]
      BY <1>2 DEF ReadRecord
    <2>2. c \in Command /\ Accepted(c) /\ NoRecord \in Record
      BY <1>1, GivenType DEF TypeOK, NoRecord, Record
    <2>3. FirstStep(c) \in {"putRecord", "list", "federateIdentity", "unfederate"}
      BY DEF FirstStep
    <2>4. /\ FirstStep(c) = "federateIdentity" => c.op = "assign"
          /\ FirstStep(c) = "unfederate" => c.op = "unassign"
          /\ FirstStep(c) = "list" => c.op = "disable"
      BY DEF FirstStep
    <2> QED BY <1>1, <1>2, <2>1, <2>2, <2>3, <2>4
            DEF ReadRecord, TypeOK, MemoryType, Fits, Steps, service, instance
  <1>3. CASE Lookup(s)
    <2>1. creds' \subseteq {"arm", "cluster"}
      BY <1>1, <1>3 DEF Lookup, Repaired, TypeOK
    <2>2. CASE Finish(s)
      BY <1>1, <1>3, <2>1, <2>2, FinishType DEF Lookup
    <2>3. CASE ~Finish(s)
      <3>1. PICK c \in Workloads[work].given[s] :
               /\ c.op = "enable"
               /\ Goto(s, "federate")
               /\ args' = [args EXCEPT ![s] = c]
               /\ seenRecord' = [seenRecord EXCEPT ![s] = record]
               /\ UNCHANGED <<creds, seenSpc, seenSync, listed>>
        BY <1>3, <2>3 DEF Lookup, Takes
      <3>2. c \in Command /\ Accepted(c)
        BY <1>1, GivenType DEF TypeOK
      <3> QED BY <1>1, <1>3, <2>1, <3>1, <3>2 DEF Lookup, TypeOK, MemoryType, Fits, Steps
    <2> QED BY <2>2, <2>3
  <1>4. CASE ReadSpc(s)
    <2>1. PICK c \in Workloads[work].given[s] : c.op = "set" /\ args' = [args EXCEPT ![s] = c]
      BY <1>4 DEF ReadSpc, Takes
    <2>2. c \in Command /\ Accepted(c) /\ CurrentSpc \in Spc
      BY <1>1, GivenType DEF TypeOK, CurrentSpc, Spc
    <2> QED BY <1>1, <1>4, <2>1, <2>2
            DEF ReadSpc, TypeOK, MemoryType, Fits, Steps, service, instance
  <1>5. CASE RemoveRead(s)
    <2>1. PICK c \in Workloads[work].given[s] :
             /\ c.op = "remove" /\ args' = [args EXCEPT ![s] = c]
             /\ seenSync' = [seenSync EXCEPT ![s][c.name] = sync[c.name]]
      BY <1>5 DEF RemoveRead, Takes
    <2>2. c \in Command /\ Accepted(c) /\ c.name \in SyncName
      BY <1>1, <2>1, GivenType, CommandType DEF TypeOK
    <2>3. seenSync' \in [Session -> Syncs]
      BY <1>1, <2>1, <2>2 DEF TypeOK, Syncs
    <2> QED BY <1>1, <1>5, <2>1, <2>2, <2>3
            DEF RemoveRead, TypeOK, MemoryType, Fits, Steps, service, instance
  <1> QED BY <1>2, <1>3, <1>4, <1>5 DEF Start

LEMMA RecordSentType ==
  ASSUME Typed, NEW s \in Session
  PROVE  RecordSent(s) \in Record
  <1>1. seenRecord[s] \in Record /\ args[s] \in Command /\ Accepted(args[s])
    BY DEF Typed, TypeOK, Fits
  <1>2. args[s].op = "assign" => args[s].identity \in Identity
    BY <1>1, CommandType
  <1> QED BY <1>1, <1>2 DEF RecordSent, Record, Unlinked

LEMMA RecordStepType ==
  ASSUME Typed, NEW s \in Session,
         FederateIdentity(s) \/ UnfederateIdentity(s) \/ PutRecord(s) \/ Grant(s)
  PROVE  MemoryType' /\ Fits(s)' /\ ServiceType' /\ UNCHANGED <<index, faults>> /\ stale' \in BOOLEAN
  <1>1. TypeOK /\ MemoryType /\ Fits(s) /\ args[s] \in Command
    BY DEF Typed, TypeOK, MemoryType
  <1>2. args[s].op \in {"assign", "unassign"} => args[s].identity \in Identity
    BY <1>1, CommandType DEF Fits
  <1>3. CASE FederateIdentity(s)
    BY <1>1, <1>2, <1>3 DEF FederateIdentity, memory, TypeOK, MemoryType, Fits, ServiceType, Steps
  <1>4. CASE UnfederateIdentity(s)
    <2>1. ServiceType' /\ UNCHANGED <<index, faults, stale>>
      BY <1>1, <1>2, <1>4 DEF UnfederateIdentity, TypeOK, ServiceType
    <2>2. MemoryType' /\ Fits(s)'
      BY <1>1, <1>4, FinishType DEF UnfederateIdentity, memory, MemoryType, Fits, Steps
    <2> QED BY <1>1, <2>1, <2>2 DEF TypeOK
  <1>5. CASE PutRecord(s)
    <2>1. ServiceType' /\ UNCHANGED <<index, faults>>
      BY <1>1, <1>5, RecordSentType DEF PutRecord, TypeOK, ServiceType
    <2>2. stale' \in BOOLEAN
      BY <1>1, <1>5 DEF PutRecord, TypeOK, Outdated
    <2>3. NoRecord \in Record
      BY DEF NoRecord, Record
    <2>4. MemoryType' /\ Fits(s)'
      BY <1>1, <1>5, <2>3, FinishType DEF PutRecord, MemoryType, Fits, Steps
    <2> QED BY <2>1, <2>2, <2>4
  <1>6. CASE Grant(s)
    BY <1>1, <1>2, <1>6, FinishType DEF Grant, TypeOK, Fits, ServiceType
  <1> QED BY <1>3, <1>4, <1>5, <1>6

LEMMA EnablingStepType ==
  ASSUME Typed, NEW s \in Session,
         Federate(s) \/ CreateSpc(s) \/ List(s) \/ DeleteSyncs(s) \/ DeleteSpc(s)
  PROVE  MemoryType' /\ Fits(s)' /\ ServiceType' /\ UNCHANGED index
         /\ stale' \in BOOLEAN /\ faults' \in 0 .. MaxFaults
  <1> USE BoundAssumption DEF NoFault, Fault
  <1>1. TypeOK /\ MemoryType /\ Fits(s) /\ Indexed \in [spc: BOOLEAN, sync: Syncs]
    BY IndexedType DEF Typed, TypeOK, MemoryType
  <1>2. CASE Federate(s)
    BY <1>1, <1>2 DEF Federate, Issuers, WithCredential, memory, TypeOK, MemoryType, Fits,
       ServiceType, Steps
  <1>3. CASE CreateSpc(s)
    BY <1>1, <1>3 DEF CreateSpc, instance, memory, TypeOK, MemoryType, Fits, ServiceType, Steps
  <1>4. CASE List(s)
    <2>1. ServiceType' /\ UNCHANGED <<index, faults, stale>>
      BY <1>1, <1>4 DEF List, service, instance, TypeOK, ServiceType
    <2>2. [exists |-> Indexed.spc, objects |-> {}] \in Spc
      BY <1>1 DEF Spc
    <2>3. MemoryType' /\ Fits(s)'
      <3>1. CASE ~Finish(s)
        <4>1. PICK found \in SUBSET SyncName : listed' = [listed EXCEPT ![s] = found]
          BY <1>4, <3>1 DEF List
        <4>2. PICK seen \in Spc : seenSpc' = [seenSpc EXCEPT ![s] = seen]
          BY <1>4, <2>2, <3>1 DEF List
        <4>3. pc[s] = "list" /\ Goto(s, "deleteSyncs") /\ UNCHANGED <<args, seenRecord, seenSync>>
          BY <1>4, <3>1 DEF List
        <4> QED BY <1>1, <4>1, <4>2, <4>3 DEF MemoryType, Fits, Steps
      <3> QED BY <1>1, <3>1, FinishType
    <2> QED BY <1>1, <2>1, <2>3 DEF TypeOK
  <1>5. CASE DeleteSyncs(s)
    <2>1. sync' \in Syncs
      BY <1>1, <1>5 DEF DeleteSyncs, TypeOK, Syncs
    <2> QED BY <1>1, <1>5, <2>1
            DEF DeleteSyncs, instance, memory, TypeOK, MemoryType, Fits, ServiceType, Steps
  <1>6. CASE DeleteSpc(s)
    <2>1. stale' \in BOOLEAN
      BY <1>1, <1>6 DEF DeleteSpc, TypeOK
    <2>2. spc' \in BOOLEAN /\ objects' \subseteq Secret
      BY <1>1, <1>6 DEF DeleteSpc, TypeOK
    <2>3. Fault \/ NoFault
      BY <1>6 DEF DeleteSpc
    <2>4. faults' \in 0 .. MaxFaults
      BY <1>1, <2>3 DEF TypeOK
    <2> QED BY <1>1, <1>6, <2>1, <2>2, <2>4, FinishType DEF DeleteSpc, instance, TypeOK, ServiceType
  <1> QED BY <1>2, <1>3, <1>4, <1>5, <1>6

LEMMA SecretStepType ==
  ASSUME Typed, NEW s \in Session,
         \/ PutSpc(s) \/ ReadSync(s) \/ PutSync(s) \/ RemoveCount(s) \/ RemoveFromSync(s)
         \/ RemoveReadSpc(s) \/ RemoveFromSpc(s)
  PROVE  MemoryType' /\ Fits(s)' /\ ServiceType' /\ UNCHANGED <<index, faults>> /\ stale' \in BOOLEAN
  <1>1. TypeOK /\ MemoryType /\ Fits(s) /\ args[s] \in Command
    BY DEF Typed, TypeOK, MemoryType
  <1>2. /\ args[s].op \in {"set", "remove"} => args[s].name \in SyncName
        /\ args[s].map \subseteq Mapping /\ args[s].secrets \subseteq Secret
        /\ Sources(args[s].map) \subseteq Secret
    BY <1>1, CommandType, SourcesType DEF Fits
  <1>3. CASE PutSpc(s)
    <2>1. WithObjects(s) \subseteq Secret
      BY <1>1, <1>2 DEF WithObjects, TypeOK, Spc
    <2>2. seenSpc' \in [Session -> Spc]
      BY <1>1, <1>3, <2>1 DEF PutSpc, MemoryType, Spc
    <2>3. stale' \in BOOLEAN
      BY <1>1, <1>3 DEF PutSpc, TypeOK
    <2> QED BY <1>1, <1>3, <2>1, <2>2, <2>3
            DEF PutSpc, instance, TypeOK, MemoryType, Fits, ServiceType, Steps
  <1>4. CASE ReadSync(s)
    <2>1. seenSync' \in [Session -> Syncs]
      BY <1>1, <1>2, <1>4 DEF ReadSync, Fits, TypeOK, Syncs
    <2> QED BY <1>1, <1>4, <2>1
            DEF ReadSync, service, instance, TypeOK, MemoryType, Fits, ServiceType, Steps
  <1>5. CASE PutSync(s)
    <2>1. Merged(s, args[s].name) \subseteq Mapping /\ args[s].name \in SyncName
      BY <1>1, <1>2, <1>5 DEF PutSync, Merged, Fits, TypeOK, Syncs
    <2>2. sync' \in Syncs
      BY <1>1, <1>5, <2>1 DEF PutSync, TypeOK, Syncs
    <2> QED BY <1>1, <1>5, <2>2, FinishType DEF PutSync, instance, TypeOK, ServiceType
  <1>6. CASE RemoveCount(s)
    <2>1. seenSync' \in [Session -> Syncs]
      BY <1>1, <1>2, <1>6, IndexedType DEF RemoveCount, Fits, TypeOK, Syncs
    <2> QED BY <1>1, <1>6, <2>1
            DEF RemoveCount, service, instance, TypeOK, MemoryType, Fits, ServiceType, Steps
  <1>7. CASE RemoveFromSync(s)
    <2>1. args[s].name \in SyncName
      BY <1>1, <1>2, <1>7 DEF RemoveFromSync, Fits
    <2>2. Without(seenSync[s][args[s].name], args[s].secrets) \subseteq Mapping
      BY <1>1, <2>1 DEF Without, TypeOK, Syncs
    <2>3. sync' \in Syncs
      BY <1>1, <1>7, <2>1, <2>2 DEF RemoveFromSync, TypeOK, Syncs
    <2>4. MemoryType' /\ Fits(s)'
      BY <1>1, <1>7, FinishType DEF RemoveFromSync, memory, MemoryType, Fits, Steps
    <2> QED BY <1>1, <1>7, <2>3, <2>4 DEF RemoveFromSync, instance, TypeOK, ServiceType
  <1>8. CASE RemoveReadSpc(s)
    <2>1. CurrentSpc \in Spc
      BY <1>1 DEF CurrentSpc, Spc, TypeOK
    <2>2. MemoryType' /\ Fits(s)'
      BY <1>1, <1>8, <2>1, FinishType DEF RemoveReadSpc, MemoryType, Fits, Steps
    <2> QED BY <1>1, <1>8, <2>2 DEF RemoveReadSpc, service, instance, TypeOK, ServiceType
  <1>9. CASE RemoveFromSpc(s)
    <2>1. seenSpc[s].objects \ args[s].secrets \subseteq Secret
      BY <1>1 DEF TypeOK, Spc
    <2>2. stale' \in BOOLEAN
      BY <1>1, <1>9 DEF RemoveFromSpc, TypeOK
    <2> QED BY <1>1, <1>9, <2>1, <2>2, FinishType DEF RemoveFromSpc, instance, TypeOK, ServiceType
  <1> QED BY <1>3, <1>4, <1>5, <1>6, <1>7, <1>8, <1>9

(* The whole of it: a step of a process leaves its command fitting, and        *)
(* everything typed.                                                           *)
LEMMA OwnTyped ==
  ASSUME Typed, NEW s \in Session, Own(s), UNCHANGED work
  PROVE  Typed'
  <1>1. TypeOK /\ MemoryType
    BY DEF Typed, TypeOK, MemoryType
  <1>2. MemoryType' /\ Fits(s)' /\ ServiceType' /\ UNCHANGED index
        /\ stale' \in BOOLEAN /\ faults' \in 0 .. MaxFaults
    <2>1. CASE Start(s)
      BY <1>1, <2>1, StartType DEF TypeOK, ServiceType
    <2>2. CASE Abort(s)
      BY <1>1, <2>2, FinishType, BoundAssumption
         DEF Abort, Fault, service, instance, TypeOK, ServiceType
    <2>3. CASE FederateIdentity(s) \/ UnfederateIdentity(s) \/ PutRecord(s) \/ Grant(s)
      BY <1>1, <2>3, RecordStepType DEF TypeOK
    <2>4. CASE Federate(s) \/ CreateSpc(s) \/ List(s) \/ DeleteSyncs(s) \/ DeleteSpc(s)
      BY <2>4, EnablingStepType
    <2>5. CASE \/ PutSpc(s) \/ ReadSync(s) \/ PutSync(s) \/ RemoveCount(s) \/ RemoveFromSync(s)
               \/ RemoveReadSpc(s) \/ RemoveFromSpc(s)
      BY <1>1, <2>5, SecretStepType DEF TypeOK
    <2> QED BY <2>1, <2>2, <2>3, <2>4, <2>5 DEF Own, Step
  <1>3. TypeOK'
    BY <1>1, <1>2 DEF TypeOK, MemoryType, ServiceType
  <1>4. \A t \in Session \ {s} : Fits(t)'
    BY <1>1, OwnStep DEF Others, Typed, Fits
  <1> QED BY <1>2, <1>3, <1>4 DEF Typed

LEMMA ReindexTyped ==
  ASSUME Typed, Reindex, UNCHANGED work
  PROVE  Typed'
  BY DEF Typed, TypeOK, Fits, Reindex, Current, service, instance, memory

LEMMA TypedStep == Typed /\ [Next /\ UNCHANGED work]_<<work, vars>> => Typed'
  <1> SUFFICES ASSUME Typed, [Next /\ UNCHANGED work]_<<work, vars>> PROVE Typed'
    OBVIOUS
  <1>1. CASE UNCHANGED <<work, vars>>
    BY <1>1 DEF vars, service, instance, memory, Typed, TypeOK, Fits
  <1> QED BY <1>1, OwnTyped, ReindexTyped DEF Next, Own

(* Every reachable state of secret sync is well typed, and every process is at *)
(* a step of the command it was given.                                         *)
THEOREM SecretSyncTypeCorrect == Spec => []TypeOK
  <1>1. Typed => TypeOK
    BY DEF Typed
  <1> QED BY <1>1, TypedInit, TypedStep, PTL DEF Spec

-------------------------------------------------------------------------------
(* What a process rests on                                                     *)

(* A set that comes to the SecretSync has listed its secrets in the SPC, which *)
(* existed when it began; a remove that comes to the SPC has found its secret  *)
(* mapped by no other SecretSync, and the SPC there.  Who writes the SPC has   *)
(* seen a credential, or created one; what is read of the instance had one for *)
(* each of its identities, as the one to assign has.                           *)
Rests(s) ==
    /\ pc[s] \in {"putSpc", "readSync", "putSync", "rmPutSpc"} => seenSpc[s].exists
    /\ pc[s] \in {"readSync", "putSync"} => Sources(args[s].map) \subseteq seenSpc[s].objects
    /\ pc[s] \in {"rmReadSpc", "rmPutSpc"} => ~StillReferenced(s)
    /\ pc[s] \in {"createSpc", "putSpc", "rmPutSpc"} => creds # {}
    /\ \A i \in seenRecord[s].assigned : credential[i] # "none"
    /\ pc[s] = "putRecord" /\ args[s].op = "assign" => credential[args[s].identity] # "none"

Resting ==
    /\ Typed
    /\ LinkedSpcExists
    /\ SpcHasCredential
    /\ AssignedIsFederated
    /\ ~spc => objects = {}
    /\ \A s \in Session : Rests(s)

(* A credential is deleted or replaced, it does not become one that never was. *)
LEMMA CredentialStep ==
  ASSUME Typed, NEW s \in Session, Own(s)
  PROVE  /\ creds # {} => creds' # {}
         /\ \A i \in Identity : credential[i] # "none" => credential'[i] # "none"
  <1>1. TypeOK /\ (pc[s] \in {"federateIdentity", "unfederate"} => args[s].identity \in Identity)
    BY CommandType DEF Typed, TypeOK, Fits
  <1>2. CASE creds' = creds /\ credential' = credential
    BY <1>2
  <1>3. CASE FederateIdentity(s) \/ UnfederateIdentity(s)
    BY <1>1, <1>3 DEF FederateIdentity, UnfederateIdentity, TypeOK
  <1>4. CASE Lookup(s)
    BY <1>4 DEF Lookup, Repaired
  <1>5. CASE Federate(s)
    BY <1>5 DEF Federate, WithCredential
  <1> QED BY <1>2, <1>3, <1>4, <1>5 DEF Own, Start, Step, Abort, service, instance, ReadRecord,
         ReadSpc, RemoveRead, PutRecord, Grant, CreateSpc, List, DeleteSyncs, DeleteSpc, PutSpc,
         ReadSync, PutSync, RemoveCount, RemoveFromSync, RemoveReadSpc, RemoveFromSpc

LEMMA FinishRests ==
  ASSUME MemoryType, NEW s \in Session, Finish(s)
  PROVE  Rests(s)'
  BY DEF MemoryType, Finish, Rests, NoRecord

LEMMA OthersRest ==
  ASSUME Typed, NEW s \in Session, Own(s), NEW t \in Session \ {s}, Rests(t)
  PROVE  Rests(t)'
  <1>1. Others(s)
    BY OwnStep DEF Typed, TypeOK, MemoryType
  <1>2. StillReferenced(t)' <=> StillReferenced(t)
    BY <1>1 DEF Others, StillReferenced, OtherSources
  <1>3. /\ \A i \in seenRecord[t].assigned : i \in Identity
        /\ args[t].op = "assign" => args[t].identity \in Identity
    BY CommandType DEF Typed, TypeOK, Record, Fits
  <1> QED BY <1>1, <1>2, <1>3, CredentialStep DEF Others, Rests

LEMMA OwnRests ==
  ASSUME Resting, NEW s \in Session, Own(s)
  PROVE  Rests(s)'
  <1>1. TypeOK /\ MemoryType /\ Fits(s) /\ Rests(s)
    BY DEF Resting, Typed, TypeOK, MemoryType
  <1>2. /\ \A i \in record.assigned : credential[i] # "none"
        /\ spc => creds # {}
        /\ record.assigned \subseteq Identity /\ seenRecord[s].assigned \subseteq Identity
        /\ args[s].op = "assign" => args[s].identity \in Identity
    BY <1>1, CommandType DEF Resting, AssignedIsFederated, SpcHasCredential, TypeOK, Record, Fits
  <1>3. CASE Finish(s)
    BY <1>1, <1>3, FinishRests
  <1>4. CASE ReadRecord(s)
    <2>1. PICK c \in Workloads[work].given[s] :
             /\ c.op \in {"disable", "update", "assign", "unassign"}
             /\ args' = [args EXCEPT ![s] = c]
             /\ Goto(s, FirstStep(c))
             /\ seenRecord' = [seenRecord EXCEPT ![s] =
                                  IF FirstStep(c) = "list" THEN NoRecord ELSE record]
      BY <1>4 DEF ReadRecord, Takes
    <2>2. /\ FirstStep(c) \in {"putRecord", "list", "federateIdentity", "unfederate"}
          /\ c.op = "assign" => FirstStep(c) = "federateIdentity"
      BY DEF FirstStep
    <2> QED BY <1>1, <1>2, <1>4, <2>1, <2>2
            DEF ReadRecord, service, instance, MemoryType, Rests, NoRecord
  <1>5. CASE Lookup(s) /\ ~Finish(s)
    <2>1. /\ pc'[s] = "federate" /\ seenRecord'[s] = record /\ credential' = credential
      BY <1>1, <1>5 DEF Lookup, MemoryType
    <2> QED BY <1>2, <2>1 DEF Rests
  <1>6. CASE ReadSpc(s)
    BY <1>1, <1>2, <1>6 DEF ReadSpc, service, instance, MemoryType, Rests, CurrentSpc
  <1>7. CASE RemoveRead(s)
    BY <1>1, <1>2, <1>7 DEF RemoveRead, service, instance, MemoryType, Rests
  <1>8. CASE FederateIdentity(s)
    BY <1>1, <1>2, <1>8 DEF FederateIdentity, memory, TypeOK, Rests, Fits
  <1>9. CASE UnfederateIdentity(s) /\ ~Finish(s)
    <2>1. args[s].op = "unassign" /\ args[s].identity \in Identity
      BY <1>1, <1>9, CommandType DEF UnfederateIdentity, Fits, TypeOK
    <2> QED BY <1>1, <1>2, <1>9, <2>1 DEF UnfederateIdentity, memory, TypeOK, Rests
  <1>10. CASE PutRecord(s) /\ ~Finish(s)
    BY <1>1, <1>10 DEF PutRecord, MemoryType, Rests, NoRecord
  <1>11. CASE Federate(s)
    BY <1>1, <1>11 DEF Federate, WithCredential, memory, TypeOK, Rests
  <1>12. CASE CreateSpc(s)
    BY <1>1, <1>12 DEF CreateSpc, instance, memory, TypeOK, Rests, Fits
  <1>13. CASE List(s) /\ ~Finish(s)
    BY <1>1, <1>13 DEF List, service, instance, MemoryType, Rests
  <1>14. CASE DeleteSyncs(s)
    BY <1>1, <1>14 DEF DeleteSyncs, instance, memory, TypeOK, Rests
  <1>15. CASE PutSpc(s)
    BY <1>1, <1>15 DEF PutSpc, instance, MemoryType, Rests, WithObjects
  <1>16. CASE ReadSync(s)
    BY <1>1, <1>16 DEF ReadSync, service, instance, MemoryType, Rests
  <1>17. CASE RemoveCount(s)
    BY <1>1, <1>17 DEF RemoveCount, service, instance, MemoryType, Rests
  <1>18. CASE RemoveFromSync(s) /\ ~Finish(s)
    <2>1. ~StillReferenced(s) /\ pc'[s] = "rmReadSpc"
          /\ UNCHANGED <<args, seenRecord, seenSync, credential>>
      BY <1>1, <1>18 DEF RemoveFromSync, memory, instance, MemoryType
    <2>2. ~StillReferenced(s)'
      BY <2>1 DEF StillReferenced, OtherSources
    <2> QED BY <1>1, <2>1, <2>2 DEF Rests
  <1>19. CASE RemoveReadSpc(s) /\ ~Finish(s)
    <2>1. /\ spc /\ pc[s] = "rmReadSpc" /\ pc'[s] = "rmPutSpc" /\ seenSpc'[s] = CurrentSpc
          /\ UNCHANGED <<args, seenRecord, seenSync, credential, creds>>
      BY <1>1, <1>19 DEF RemoveReadSpc, service, instance, MemoryType
    <2>2. ~StillReferenced(s)'
      BY <1>1, <2>1 DEF StillReferenced, OtherSources, Rests
    <2> QED BY <1>1, <1>2, <2>1, <2>2 DEF Rests, CurrentSpc
  <1> QED BY <1>3, <1>4, <1>5, <1>6, <1>7, <1>8, <1>9, <1>10, <1>11, <1>12, <1>13, <1>14, <1>15,
             <1>16, <1>17, <1>18, <1>19
          DEF Own, Start, Step, Abort, Grant, DeleteSpc, PutSync, RemoveFromSpc

(* Which step of which process changes what.                                   *)
LEMMA RecordChange ==
  ASSUME NEW s \in Session, Own(s), record' # record
  PROVE  PutRecord(s)
  BY DEF Own, Start, Step, Abort, service, instance, ReadRecord, Lookup, ReadSpc, RemoveRead,
         FederateIdentity, UnfederateIdentity, Grant, Federate, CreateSpc, List, DeleteSyncs,
         DeleteSpc, PutSpc, ReadSync, PutSync, RemoveCount, RemoveFromSync, RemoveReadSpc,
         RemoveFromSpc

LEMMA SpcChange ==
  ASSUME NEW s \in Session, Own(s), <<spc, objects>>' # <<spc, objects>>
  PROVE  CreateSpc(s) \/ DeleteSpc(s) \/ PutSpc(s) \/ RemoveFromSpc(s)
  BY DEF Own, Start, Step, Abort, service, instance, ReadRecord, Lookup, ReadSpc, RemoveRead,
         FederateIdentity, UnfederateIdentity, PutRecord, Grant, Federate, List, DeleteSyncs,
         ReadSync, PutSync, RemoveCount, RemoveFromSync, RemoveReadSpc

LEMMA SyncChange ==
  ASSUME NEW s \in Session, Own(s), sync' # sync
  PROVE  DeleteSyncs(s) \/ PutSync(s) \/ RemoveFromSync(s)
  BY DEF Own, Start, Step, Abort, service, instance, ReadRecord, Lookup, ReadSpc, RemoveRead,
         FederateIdentity, UnfederateIdentity, PutRecord, Grant, Federate, CreateSpc, List,
         DeleteSpc, PutSpc, ReadSync, RemoveCount, RemoveReadSpc, RemoveFromSpc

(* A write that rested on an outdated read is remembered.                      *)
LEMMA StaleStays ==
  ASSUME TypeOK, NEW s \in Session, Own(s), stale
  PROVE  stale'
  BY DEF Own, Start, Step, Abort, service, instance, ReadRecord, Lookup, ReadSpc, RemoveRead,
         FederateIdentity, UnfederateIdentity, PutRecord, Grant, Federate, CreateSpc, List,
         DeleteSyncs, DeleteSpc, PutSpc, ReadSync, PutSync, RemoveCount, RemoveFromSync,
         RemoveReadSpc, RemoveFromSpc

LEMMA LinkedStep ==
  ASSUME Resting, NEW s \in Session, Own(s)
  PROVE  LinkedSpcExists'
  <1>1. TypeOK
    BY DEF Resting, Typed
  <1> SUFFICES ASSUME record'.ref, ~stale' PROVE spc'
    BY DEF LinkedSpcExists
  <1>2. ~stale
    BY <1>1, StaleStays
  <1>3. CASE record' = record
    <2>1. spc
      BY <1>2, <1>3 DEF Resting, LinkedSpcExists
    <2>2. CASE DeleteSpc(s) /\ spc' = FALSE
      <3>1. stale' = (stale \/ record.ref # Unlinked \/ \E n \in SyncName \ listed[s] : sync[n] # {})
        BY <2>1, <2>2 DEF DeleteSpc
      <3> QED BY <1>1, <1>3, <3>1 DEF Unlinked, TypeOK, Record
    <2>3. CASE spc' = spc
      BY <2>1, <2>3
    <2> QED BY <1>1, <2>1, <2>2, <2>3, SpcChange
            DEF CreateSpc, DeleteSpc, PutSpc, RemoveFromSpc, TypeOK
  <1>4. CASE PutRecord(s)
    <2>1. spc' = spc /\ record' = RecordSent(s) /\ ~Outdated(s)
          /\ (args[s].op = "enable" => spc)
      BY <1>1, <1>4 DEF PutRecord, TypeOK
    <2>2. CASE args[s].op \in {"enable", "disable"}
      <3>1. seenRecord[s] \in Record
        BY <1>1 DEF TypeOK
      <3> QED BY <2>1, <2>2, <3>1 DEF RecordSent, Unlinked, Record
    <2>3. CASE args[s].op \notin {"enable", "disable"}
      <3>1. RecordSent(s).ref = seenRecord[s].ref
        BY <1>1, <2>3 DEF RecordSent, TypeOK, Record
      <3>2. record.ref
        BY <2>1, <2>3, <3>1 DEF Outdated
      <3> QED BY <1>2, <2>1, <3>2 DEF Resting, LinkedSpcExists
    <2> QED BY <2>2, <2>3
  <1> QED BY <1>3, <1>4, RecordChange

LEMMA CredentialsStep ==
  ASSUME Resting, NEW s \in Session, Own(s)
  PROVE  SpcHasCredential' /\ AssignedIsFederated' /\ (~spc' => objects' = {})
  <1>1. TypeOK /\ Fits(s) /\ Rests(s) /\ args[s] \in Command /\ seenRecord[s] \in Record
    BY DEF Resting, Typed, TypeOK
  <1>2. SpcHasCredential'
    <2>1. CASE spc' = spc
      BY <2>1, CredentialStep DEF Resting, SpcHasCredential
    <2>2. CASE spc' # spc /\ spc'
      <3>1. pc[s] \in {"createSpc", "putSpc", "rmPutSpc"}
        BY <1>1, <2>2, SpcChange DEF CreateSpc, DeleteSpc, PutSpc, RemoveFromSpc, TypeOK
      <3> QED BY <1>1, <3>1, CredentialStep DEF Resting, SpcHasCredential, Rests
    <2> QED BY <2>1, <2>2 DEF SpcHasCredential
  <1>3. AssignedIsFederated'
    <2>1. \A i \in Identity : credential[i] # "none" => credential'[i] # "none"
      BY CredentialStep DEF Resting
    <2>2. CASE record' = record
      BY <1>1, <2>1, <2>2 DEF Resting, AssignedIsFederated, TypeOK, Record
    <2>3. CASE PutRecord(s)
      <3>1. record'.assigned \subseteq seenRecord[s].assigned
              \cup (IF args[s].op = "assign" THEN {args[s].identity} ELSE {})
        BY <1>1, <2>3 DEF PutRecord, RecordSent, Record
      <3>2. args[s].op = "assign" => args[s].identity \in Identity
        BY <1>1, CommandType DEF Fits
      <3> QED BY <1>1, <2>1, <2>3, <3>1, <3>2 DEF PutRecord, AssignedIsFederated, Rests, Record
    <2> QED BY <2>2, <2>3, RecordChange
  <1>4. ~spc' => objects' = {}
    <2>1. CASE UNCHANGED <<spc, objects>>
      BY <2>1 DEF Resting
    <2> QED BY <2>1, SpcChange DEF CreateSpc, DeleteSpc, PutSpc, RemoveFromSpc, Resting
  <1> QED BY <1>2, <1>3, <1>4

LEMMA RestingInit == Init => Resting
  <1> SUFFICES ASSUME Init PROVE Resting
    OBVIOUS
  <1>1. Typed
    BY TypedInit
  <1>2. LinkedSpcExists /\ SpcHasCredential /\ AssignedIsFederated /\ objects = {}
    BY DEF Init, LinkedSpcExists, SpcHasCredential, AssignedIsFederated
  <1>3. ASSUME NEW s \in Session PROVE Rests(s)
    BY DEF Init, Rests, NoRecord
  <1> QED BY <1>1, <1>2, <1>3 DEF Resting

LEMMA OwnResting ==
  ASSUME Resting, NEW s \in Session, Own(s), UNCHANGED work
  PROVE  Resting'
  <1>1. Typed'
    BY OwnTyped DEF Resting
  <1>2. \A t \in Session : Rests(t)'
    BY OwnRests, OthersRest DEF Resting
  <1> QED BY <1>1, <1>2, LinkedStep, CredentialsStep DEF Resting

LEMMA UnchangedResting ==
  ASSUME Resting, Typed', UNCHANGED <<service, pc, memory, stale>>
  PROVE  Resting'
  <1>1. \A s \in Session : Rests(s)'
    BY DEF Resting, Rests, StillReferenced, OtherSources, service, instance, memory
  <1> QED BY <1>1 DEF Resting, LinkedSpcExists, SpcHasCredential, AssignedIsFederated,
                     service, instance, memory

LEMMA RestingStep == Resting /\ [Next /\ UNCHANGED work]_<<work, vars>> => Resting'
  <1> SUFFICES ASSUME Resting, [Next /\ UNCHANGED work]_<<work, vars>> PROVE Resting'
    OBVIOUS
  <1>1. Typed'
    BY TypedStep DEF Resting
  <1>2. CASE UNCHANGED <<work, vars>> \/ Reindex
    BY <1>1, <1>2, UnchangedResting DEF vars, Reindex
  <1> QED BY <1>2, OwnResting DEF Next, Own

(* Whatever fails and whoever else is at work, with any number of processes:   *)
(* the instance refers to no SPC that does not exist, unless a write rested on *)
(* an outdated read,                                                           *)
THEOREM InstanceIsLinked == Spec => []LinkedSpcExists
  <1>1. Resting => LinkedSpcExists
    BY DEF Resting
  <1> QED BY <1>1, RestingInit, RestingStep, PTL DEF Spec

(* the SPC never exists without a federated credential,                        *)
THEOREM SpcIsCredentialed == Spec => []SpcHasCredential
  <1>1. Resting => SpcHasCredential
    BY DEF Resting
  <1> QED BY <1>1, RestingInit, RestingStep, PTL DEF Spec

(* and each identity that the instance uses has been given a credential.       *)
THEOREM IdentityIsFederated == Spec => []AssignedIsFederated
  <1>1. Resting => AssignedIsFederated
    BY DEF Resting
  <1> QED BY <1>1, RestingInit, RestingStep, PTL DEF Spec

-------------------------------------------------------------------------------
(* What is mapped is listed                                                    *)

LEMMA OtherSourcesFact ==
  ASSUME NEW syncs \in Syncs, NEW a
  PROVE  /\ a \in OtherSources(syncs, None)
               <=> \E k \in SyncName : \E m \in syncs[k] : a = m[1]
         /\ \A n \in SyncName : a \in OtherSources(syncs, n)
               <=> \E k \in SyncName \ {n} : \E m \in syncs[k] : a = m[1]
  BY NoneAssumption DEF OtherSources, Sources

(* After a step that rested on no outdated read, a mapped secret that the SPC  *)
(* does not list was mapped and not listed before.                             *)
LEMMA ListingStep ==
  ASSUME Resting, NEW s \in Session, Own(s), UNCHANGED work, ~stale', spc',
         NEW a \in OtherSources(sync', None), a \notin objects'
  PROVE  spc /\ a \in OtherSources(sync, None) /\ a \notin objects
  <1>1. TypeOK /\ Fits(s) /\ Rests(s) /\ args[s] \in Command
    BY DEF Resting, Typed, TypeOK
  <1>2. sync \in Syncs /\ sync' \in Syncs /\ seenSync[s] \in Syncs
    BY OwnTyped DEF Resting, Typed, TypeOK
  <1>3. PICK k \in SyncName : \E m \in sync'[k] : a = m[1]
    BY <1>2, OtherSourcesFact
  <1>4. /\ args[s].op \in {"set", "remove"} => args[s].name \in SyncName
        /\ args[s].op = "remove" => \E b \in Secret : args[s].secrets = {b}
    BY <1>1, CommandType DEF Fits
  <1>5. CASE UNCHANGED <<spc, objects, sync>>
    BY <1>5
  <1>6. CASE CreateSpc(s)
    <2>1. sync' = NoSyncs
      BY <1>1, <1>6 DEF CreateSpc, TypeOK
    <2> QED BY <1>3, <2>1 DEF NoSyncs
  <1>7. CASE DeleteSyncs(s)
    <2>1. spc' = spc /\ objects' = objects
      BY <1>7 DEF DeleteSyncs
    <2>2. sync'[k] \subseteq sync[k]
      BY <1>7 DEF DeleteSyncs
    <2> QED BY <1>2, <1>3, <2>1, <2>2, OtherSourcesFact
  <1>8. CASE DeleteSpc(s)
    BY <1>5, <1>8 DEF DeleteSpc
  <1>9. CASE PutSpc(s)
    <2>1. sync' = sync /\ CurrentSpc = seenSpc[s] /\ pc[s] = "putSpc"
          /\ objects' = WithObjects(s)
      BY <1>1, <1>9 DEF PutSpc, TypeOK
    <2> QED BY <1>1, <2>1 DEF Rests, CurrentSpc, WithObjects
  <1>10. CASE PutSync(s)
    <2>1. /\ CurrentSpc = seenSpc[s] /\ sync[args[s].name] = seenSync[s][args[s].name]
          /\ pc[s] = "putSync" /\ spc' = spc /\ objects' = objects
          /\ sync' = [sync EXCEPT ![args[s].name] = Merged(s, args[s].name)]
      BY <1>1, <1>10 DEF PutSync, TypeOK
    <2>2. a \notin Sources(args[s].map)
      BY <1>1, <2>1 DEF Rests, CurrentSpc
    <2>3. \E m \in sync[k] : a = m[1]
      BY <1>1, <1>2, <1>3, <1>4, <2>1, <2>2 DEF Merged, Sources, Fits, Syncs
    <2> QED BY <1>2, <2>1, <2>3, OtherSourcesFact
  <1>11. CASE RemoveFromSync(s)
    <2>1. /\ sync[args[s].name] = seenSync[s][args[s].name]
          /\ pc[s] = "rmSync" /\ spc' = spc /\ objects' = objects
          /\ sync' = [sync EXCEPT ![args[s].name] =
                         Without(seenSync[s][args[s].name], args[s].secrets)]
      BY <1>1, <1>11 DEF RemoveFromSync, TypeOK
    <2>2. sync'[k] \subseteq sync[k]
      BY <1>1, <1>2, <1>4, <2>1 DEF Without, Fits, Syncs
    <2> QED BY <1>2, <1>3, <2>1, <2>2, OtherSourcesFact
  <1>12. CASE RemoveFromSpc(s)
    <2> DEFINE seen  == seenSync[s]
               after == [seen EXCEPT ![args[s].name] = Without(@, args[s].secrets)]
    <2>1. /\ CurrentSpc = seenSpc[s] /\ pc[s] = "rmPutSpc" /\ sync' = sync
          /\ objects' = seenSpc[s].objects \ args[s].secrets
          /\ OtherSources(sync, None) = OtherSources(after, None)
      BY <1>1, <1>12 DEF RemoveFromSpc, TypeOK
    <2>2. PICK b \in Secret : args[s].secrets = {b}
      BY <1>1, <1>4, <2>1 DEF Fits
    <2>3. args[s].name \in SyncName /\ b \notin OtherSources(seen, args[s].name)
      BY <1>1, <1>4, <2>1, <2>2 DEF Fits, Rests, StillReferenced
    <2>4. after \in Syncs
      BY <1>2, <2>3 DEF Syncs, Without
    <2>7. \A j \in SyncName : after[j] = IF j = args[s].name THEN Without(seen[j], args[s].secrets)
                                          ELSE seen[j]
      BY <1>2 DEF Syncs
    <2> HIDE DEF after
    <2>5. b \notin OtherSources(after, None)
      <3>1. SUFFICES ASSUME NEW j \in SyncName, NEW m \in after[j], b = m[1] PROVE FALSE
        BY <2>4, OtherSourcesFact
      <3>2. CASE j = args[s].name
        BY <2>2, <2>7, <3>1, <3>2 DEF Without
      <3>3. CASE j # args[s].name
        BY <1>2, <2>3, <2>7, <3>1, <3>3, OtherSourcesFact
      <3> QED BY <3>2, <3>3
    <2>6. a # b
      BY <2>1, <2>5
    <2> QED BY <1>1, <2>1, <2>2, <2>6 DEF Rests, CurrentSpc
  <1> QED BY <1>5, <1>6, <1>7, <1>8, <1>9, <1>10, <1>11, <1>12, SpcChange, SyncChange

LEMMA ListedStep ==
  Resting /\ MappedSecretsListed /\ [Next /\ UNCHANGED work]_<<work, vars>>
    => MappedSecretsListed'
  <1> SUFFICES ASSUME Resting, MappedSecretsListed, [Next /\ UNCHANGED work]_<<work, vars>>
               PROVE  MappedSecretsListed'
    OBVIOUS
  <1>1. CASE UNCHANGED <<work, vars>> \/ Reindex
    BY <1>1 DEF vars, Reindex, service, instance, MappedSecretsListed, OtherSources
  <1>2. ASSUME NEW s \in Session, Own(s), UNCHANGED work PROVE MappedSecretsListed'
    <2>1. stale => stale'
      BY <1>2, StaleStays DEF Resting, Typed
    <2> QED BY <1>2, <2>1, ListingStep DEF MappedSecretsListed
  <1> QED BY <1>1, <1>2 DEF Next, Own

(* Unless a write rested on an outdated read, the SPC lists every secret that  *)
(* a SecretSync maps, in whatever order any number of processes set, remove,   *)
(* enable and disable, and wherever they fail.                                 *)
THEOREM MappedIsListed == Spec => []MappedSecretsListed
  <1>1. Init => MappedSecretsListed
    BY DEF Init, MappedSecretsListed, OtherSources, NoSyncs, Sources
  <1> QED BY <1>1, RestingInit, RestingStep, ListedStep, PTL DEF Spec

-------------------------------------------------------------------------------
(* What a command leaves behind                                                *)

(* A process whose step changes was the one to act.                            *)
LEMMA Actor ==
  ASSUME Typed, [Next /\ UNCHANGED work]_<<work, vars>>, NEW s \in Session, pc'[s] # pc[s]
  PROVE  Own(s) /\ UNCHANGED work
  <1>1. Next /\ UNCHANGED work /\ ~Reindex
    BY DEF vars, Reindex
  <1>2. PICK t \in Session : Own(t)
    BY <1>1 DEF Next, Own
  <1>3. t = s
    BY <1>2, OwnStep DEF Typed, TypeOK, MemoryType, Others
  <1> QED BY <1>1, <1>2, <1>3

LEMMA NoAbort ==
  ASSUME Typed, NEW s \in Session, faults' = faults
  PROVE  ~Abort(s)
  BY BoundAssumption DEF Typed, TypeOK, Abort, Fault

(* An identity leaves the instance only when a command removes it, or with a   *)
(* write that rested on an outdated read.                                      *)
THEOREM IdentitiesKept == Spec => IdentityKept
  <1>1. ASSUME Typed, [Next /\ UNCHANGED work]_<<work, vars>>,
               NEW i \in record.assigned \ record'.assigned, ~stale'
        PROVE  \E s \in Session : At(s, "putRecord") /\ args[s].op = "unassign"
                                     /\ args[s].identity = i
    <2>1. PICK s \in Session : PutRecord(s)
      BY <1>1, RecordChange DEF Next, Own, vars, Reindex, service, instance
    <2>2. TypeOK /\ args[s] \in Command /\ Accepted(args[s])
      BY <1>1 DEF Typed, TypeOK, Fits
    <2>3. /\ i \in Identity /\ seenRecord[s] \in Record
          /\ args[s].op \in {"assign", "unassign"} <=> args[s].identity \in Identity
      BY <1>1, <2>2, CommandType DEF TypeOK, Record
    <2>4. record' = RecordSent(s) /\ ~Outdated(s) /\ At(s, "putRecord")
      BY <1>1, <2>1, <2>2 DEF PutRecord, TypeOK
    <2>5. i \in seenRecord[s].assigned \/ args[s].identity = i
      BY <1>1, <2>4 DEF Outdated
    <2>6. args[s].op \in {"assign", "unassign"} /\ args[s].identity = i
      BY <1>1, <2>3, <2>4, <2>5 DEF RecordSent, Record
    <2>7. args[s].op # "assign"
      BY <1>1, <2>3, <2>4, <2>6 DEF RecordSent, Record
    <2> QED BY <2>4, <2>6, <2>7
  <1>2. Typed /\ [Next /\ UNCHANGED work]_<<work, vars>> =>
          [\A i \in record.assigned \ record'.assigned :
             \/ stale'
             \/ \E s \in Session : At(s, "putRecord") /\ args[s].op = "unassign"
                                     /\ args[s].identity = i]_vars
    BY <1>1
  <1> QED BY <1>2, TypedInit, TypedStep, PTL DEF Spec, IdentityKept

(* A set that ends without a failure has mapped what it was asked to beside    *)
(* what was mapped before, and its secrets are listed, unless a write rested   *)
(* on an outdated read.                                                        *)
THEOREM SetIsKept == Spec => SetKeepsMappings
  <1>1. ASSUME Resting, [Next /\ UNCHANGED work]_<<work, vars>>, NEW s \in Session,
               At(s, "putSync"), At(s, "idle")', faults' = faults, ~stale'
        PROVE  /\ args[s].map \cup sync[args[s].name] \subseteq sync'[args[s].name]
               /\ Sources(args[s].map) \subseteq objects'
    <2>1. Typed /\ TypeOK /\ Fits(s) /\ Rests(s) /\ args[s] \in Command
      BY <1>1 DEF Resting, Typed, TypeOK
    <2>2. Own(s)
      BY <1>1, <2>1, Actor
    <2>3. PutSync(s)
      BY <1>1, <2>1, <2>2, NoAbort DEF Own, Start, Step, Takes, ReadRecord, Lookup, ReadSpc,
         RemoveRead, FederateIdentity, UnfederateIdentity, PutRecord, Grant, Federate, CreateSpc,
         List, DeleteSyncs, DeleteSpc, PutSpc, ReadSync, RemoveCount, RemoveFromSync,
         RemoveReadSpc, RemoveFromSpc
    <2>4. args[s].name \in SyncName
      BY <1>1, <2>1, CommandType DEF Fits
    <2>5. /\ CurrentSpc = seenSpc[s] /\ sync[args[s].name] = seenSync[s][args[s].name]
          /\ objects' = objects /\ sync'[args[s].name] = Merged(s, args[s].name)
      BY <1>1, <2>1, <2>3, <2>4 DEF PutSync, TypeOK, Syncs
    <2> QED BY <1>1, <2>1, <2>5 DEF Merged, Rests, CurrentSpc
  <1>2. Resting /\ [Next /\ UNCHANGED work]_<<work, vars>> =>
          [\A s \in Session :
             At(s, "putSync") /\ At(s, "idle")' /\ faults' = faults /\ ~stale'
               => /\ args[s].map \cup sync[args[s].name] \subseteq sync'[args[s].name]
                  /\ Sources(args[s].map) \subseteq objects']_vars
    BY <1>1
  <1> QED BY <1>2, RestingInit, RestingStep, PTL DEF Spec, SetKeepsMappings

(* A remove that ends without a failure leaves its secret in the SPC only if   *)
(* some SecretSync still maps it, unless the references it counted changed     *)
(* meanwhile or a write rested on an outdated read.                            *)
THEOREM RemoveIsClean == Spec => RemoveCleansUp
  <1>1. ASSUME Resting, [Next /\ UNCHANGED work]_<<work, vars>>, NEW s \in Session,
               pc[s] \in {"rmSync", "rmReadSpc", "rmPutSpc"}, At(s, "idle")',
               faults' = faults, ~stale',
               OtherSources(seenSync[s], args[s].name) = OtherSources(sync, args[s].name)
        PROVE  args[s].secrets \cap objects' \subseteq OtherSources(sync', None)
    <2>1. Typed /\ TypeOK /\ Fits(s) /\ Rests(s) /\ args[s] \in Command
      BY <1>1 DEF Resting, Typed, TypeOK
    <2>2. Own(s) /\ UNCHANGED work
      BY <1>1, <2>1, Actor
    <2>3. RemoveFromSync(s) \/ RemoveReadSpc(s) \/ RemoveFromSpc(s)
      BY <1>1, <2>1, <2>2, NoAbort DEF Own, Start, Step, Takes, ReadRecord, Lookup, ReadSpc,
         RemoveRead, FederateIdentity, UnfederateIdentity, PutRecord, Grant, Federate, CreateSpc,
         List, DeleteSyncs, DeleteSpc, PutSpc, ReadSync, PutSync, RemoveCount
    <2>4. args[s].name \in SyncName /\ \E b \in Secret : args[s].secrets = {b}
      BY <1>1, <2>1, CommandType DEF Fits
    <2>5. CASE RemoveFromSync(s)
      <3>1. StillReferenced(s) /\ objects' = objects
        BY <1>1, <2>1, <2>5 DEF RemoveFromSync, memory, TypeOK
      <3>2. \A k \in SyncName \ {args[s].name} : sync'[k] = sync[k]
        BY <2>1, <2>5 DEF RemoveFromSync, TypeOK, Syncs
      <3>3. sync \in Syncs /\ sync' \in Syncs
        BY <2>1, <2>2, OwnTyped DEF Typed, TypeOK
      <3>4. \A a \in OtherSources(sync, args[s].name) : a \in OtherSources(sync', None)
        BY <2>4, <3>2, <3>3, OtherSourcesFact
      <3> QED BY <1>1, <3>1, <3>4 DEF StillReferenced
    <2>6. CASE RemoveReadSpc(s)
      <3>1. ~spc \/ ~(args[s].secrets \subseteq objects)
        BY <1>1, <2>1, <2>6 DEF RemoveReadSpc, TypeOK
      <3>2. objects' = objects
        BY <2>6 DEF RemoveReadSpc, service
      <3> QED BY <1>1, <2>4, <3>1, <3>2 DEF Resting
    <2>7. CASE RemoveFromSpc(s)
      BY <2>7 DEF RemoveFromSpc
    <2> QED BY <2>3, <2>5, <2>6, <2>7
  <1>2. Resting /\ [Next /\ UNCHANGED work]_<<work, vars>> =>
          [\A s \in Session :
             LET n == args[s].name IN
             /\ pc[s] \in {"rmSync", "rmReadSpc", "rmPutSpc"} /\ At(s, "idle")'
             /\ faults' = faults /\ ~stale'
             /\ OtherSources(seenSync[s], n) = OtherSources(sync, n)
             => args[s].secrets \cap objects' \subseteq OtherSources(sync', None)]_vars
    BY <1>1
  <1> QED BY <1>2, RestingInit, RestingStep, PTL DEF Spec, RemoveCleansUp

-------------------------------------------------------------------------------
(* The certificate commands (OpcUaCerts) keep what the commands of SecretSync   *)
(* promise, and their own promises on the SPC's list and the extension's       *)
(* settings.                                                                   *)

(* Types                                                                       *)

Adds == {"trust", "issuer", "client"}

(* The command fits the step its process is at, and once it has read the SPC   *)
(* that was there, with a credential; an add that has written it has listed    *)
(* its secrets.                                                                *)
CertFits(s) ==
    /\ pc[s] \in {"certReadSync", "upload", "certPutSpc", "certPutSync"} => args[s].op \in Adds
    /\ pc[s] \in {"uploadKey", "configure"} => args[s].op = "client"
    /\ pc[s] \in {"certReadSpc", "unmap", "rollback", "unlist", "purge"}
          => args[s].op = "removeCertificates"
    /\ pc[s] \in CertSteps \ {"certReadSpc"} => seenSpc[s].exists /\ creds # {}
    /\ pc[s] = "certPutSync" \/ (pc[s] = "certReadSync" /\ args[s].op = "trust")
          => Sources(args[s].map) \subseteq seenSpc[s].objects

CertResting ==
    /\ Resting
    /\ configured \subseteq Mapping
    /\ taken \subseteq Secret
    /\ \A s \in Session : CertFits(s)

CertOwn(s) == CertStart(s) \/ CertStep(s)

LEMMA NextStepFact ==
  ASSUME NEW s \in Session, NEW steps, steps = AddSteps(args[s].op),
         NEW i \in 1 .. Len(steps), \A j \in 1 .. Len(steps) : steps[j] = pc[s] <=> j = i
  PROVE  NextStep(s) = IF i = Len(steps) THEN "idle" ELSE steps[i + 1]
  <1> DEFINE c == CHOOSE j \in 1 .. Len(AddSteps(args[s].op)) : AddSteps(args[s].op)[j] = pc[s]
  <1>1. c = i
    BY Zenon
  <1>2. NextStep(s) = IF c = Len(AddSteps(args[s].op)) THEN "idle" ELSE AddSteps(args[s].op)[c + 1]
    BY DEF NextStep
  <1> QED BY <1>1, <1>2

(* The steps of an add in their order.                                         *)
LEMMA NextStepValue ==
  ASSUME NEW s \in Session
  PROVE  /\ args[s].op = "trust" =>
               /\ AddSteps("trust")[1] = "upload"
               /\ pc[s] = "upload"       => NextStep(s) = "certPutSpc"
               /\ pc[s] = "certPutSpc"   => NextStep(s) = "certReadSync"
               /\ pc[s] = "certReadSync" => NextStep(s) = "certPutSync"
               /\ pc[s] = "certPutSync"  => NextStep(s) = "idle"
         /\ args[s].op = "issuer" =>
               /\ AddSteps("issuer")[1] = "certReadSync"
               /\ pc[s] = "certReadSync" => NextStep(s) = "upload"
               /\ pc[s] = "upload"       => NextStep(s) = "certPutSpc"
               /\ pc[s] = "certPutSpc"   => NextStep(s) = "certPutSync"
               /\ pc[s] = "certPutSync"  => NextStep(s) = "idle"
         /\ args[s].op = "client" =>
               /\ AddSteps("client")[1] = "certReadSync"
               /\ pc[s] = "certReadSync" => NextStep(s) = "upload"
               /\ pc[s] = "upload"       => NextStep(s) = "uploadKey"
               /\ pc[s] = "uploadKey"    => NextStep(s) = "certPutSpc"
               /\ pc[s] = "certPutSpc"   => NextStep(s) = "certPutSync"
               /\ pc[s] = "certPutSync"  => NextStep(s) = "configure"
               /\ pc[s] = "configure"    => NextStep(s) = "idle"
  <1>1. CASE args[s].op = "trust"
    <2> DEFINE steps == <<"upload", "certPutSpc", "certReadSync", "certPutSync">>
    <2>1. AddSteps("trust") = steps /\ Len(steps) = 4
      BY DEF AddSteps
    <2>2. ASSUME NEW i \in 1 .. 4, pc[s] = steps[i]
          PROVE  NextStep(s) = IF i = 4 THEN "idle" ELSE steps[i + 1]
      <3>1. \A j \in 1 .. 4 : steps[j] = pc[s] <=> j = i
        BY <2>2
      <3>2. steps = AddSteps(args[s].op)
        BY <1>1, <2>1
      <3> HIDE DEF steps
      <3>3. i \in 1 .. Len(steps) /\ \A j \in 1 .. Len(steps) : steps[j] = pc[s] <=> j = i
        BY <2>1, <3>1
      <3>4. NextStep(s) = IF i = Len(steps) THEN "idle" ELSE steps[i + 1]
        BY ONLY <3>2, <3>3, NextStepFact, s \in Session, Zenon
      <3> QED BY <2>1, <3>4
    <2> QED BY <1>1, <2>1, <2>2
  <1>2. CASE args[s].op = "issuer"
    <2> DEFINE steps == <<"certReadSync", "upload", "certPutSpc", "certPutSync">>
    <2>1. AddSteps("issuer") = steps /\ Len(steps) = 4
      BY DEF AddSteps
    <2>2. ASSUME NEW i \in 1 .. 4, pc[s] = steps[i]
          PROVE  NextStep(s) = IF i = 4 THEN "idle" ELSE steps[i + 1]
      <3>1. \A j \in 1 .. 4 : steps[j] = pc[s] <=> j = i
        BY <2>2
      <3>2. steps = AddSteps(args[s].op)
        BY <1>2, <2>1
      <3> HIDE DEF steps
      <3>3. i \in 1 .. Len(steps) /\ \A j \in 1 .. Len(steps) : steps[j] = pc[s] <=> j = i
        BY <2>1, <3>1
      <3>4. NextStep(s) = IF i = Len(steps) THEN "idle" ELSE steps[i + 1]
        BY ONLY <3>2, <3>3, NextStepFact, s \in Session, Zenon
      <3> QED BY <2>1, <3>4
    <2> QED BY <1>2, <2>1, <2>2
  <1>3. CASE args[s].op = "client"
    <2> DEFINE steps == <<"certReadSync", "upload", "uploadKey", "certPutSpc",
                          "certPutSync", "configure">>
    <2>1. AddSteps("client") = steps /\ Len(steps) = 6
      BY DEF AddSteps
    <2>2. ASSUME NEW i \in 1 .. 6, pc[s] = steps[i]
          PROVE  NextStep(s) = IF i = 6 THEN "idle" ELSE steps[i + 1]
      <3>1. \A j \in 1 .. 6 : steps[j] = pc[s] <=> j = i
        BY <2>2
      <3>2. steps = AddSteps(args[s].op)
        BY <1>3, <2>1
      <3> HIDE DEF steps
      <3>3. i \in 1 .. Len(steps) /\ \A j \in 1 .. Len(steps) : steps[j] = pc[s] <=> j = i
        BY <2>1, <3>1
      <3>4. NextStep(s) = IF i = Len(steps) THEN "idle" ELSE steps[i + 1]
        BY ONLY <3>2, <3>3, NextStepFact, s \in Session, Zenon
      <3> QED BY <2>1, <3>4
    <2> QED BY <1>3, <2>1, <2>2
  <1> QED BY <1>1, <1>2, <1>3

LEMMA ListOfType == \A c \in Command : c.op \in Adds => ListOf(c) \in SyncName
  BY ListAssumption DEF ListOf, Adds

LEMMA CertOwnStep ==
  ASSUME MemoryType, NEW s \in Session, CertOwn(s)
  PROVE  Others(s) /\ UNCHANGED <<instance, index>>
  <1> USE DEF MemoryType, Others, Finish, memory, service, instance
  <1>1. CASE AddRead(s) \/ RemoveCertRead(s)
    BY <1>1 DEF AddRead, RemoveCertRead
  <1>2. CASE AddReadSync(s) \/ Declined(s) \/ Upload(s)
    BY <1>2 DEF AddReadSync, Declined, Upload
  <1>3. CASE AddPutSpc(s) \/ AddPutSync(s) \/ Configure(s)
    BY <1>3 DEF AddPutSpc, AddPutSync, Configure
  <1>4. CASE RemoveCertReadSpc(s) \/ Unmap(s)
    BY <1>4 DEF RemoveCertReadSpc, Unmap
  <1>5. CASE Rollback(s) \/ Unlist(s) \/ Purge(s)
    BY <1>5 DEF Rollback, Unlist, Purge
  <1> QED BY <1>1, <1>2, <1>3, <1>4, <1>5, Zenon DEF CertOwn, CertStart, CertStep

(* What a step of a certificate command leaves, all of it typed.               *)
CertTyped(s) ==
    /\ MemoryType /\ Fits(s) /\ ServiceType
    /\ stale \in BOOLEAN /\ faults \in 0 .. MaxFaults
    /\ configured \subseteq Mapping /\ taken \subseteq Secret

LEMMA CertTypedFact ==
  ASSUME CertResting, NEW s \in Session
  PROVE  /\ TypeOK /\ CertTyped(s) /\ CertFits(s) /\ Indexed \in [spc: BOOLEAN, sync: Syncs]
         /\ args[s] \in Command /\ args[s].map \subseteq Mapping /\ args[s].secrets \subseteq Secret
         /\ Sources(args[s].map) \subseteq Secret
         /\ args[s].op \in Adds => ListOf(args[s]) \in SyncName
         /\ args[s].op = "removeCertificates" => args[s].name \in SyncName
         /\ CurrentSpc \in Spc
  <1>1. TypeOK /\ Fits(s) /\ args[s] \in Command
    BY DEF CertResting, Resting, Typed, TypeOK
  <1>2. CurrentSpc \in Spc
    BY <1>1 DEF TypeOK, CurrentSpc, Spc
  <1> QED BY <1>1, <1>2, CommandType, SourcesType, ListOfType, IndexedType
          DEF CertResting, CertTyped, TypeOK, MemoryType, ServiceType, Fits

LEMMA CertStartType ==
  ASSUME CertResting, NEW s \in Session, CertStart(s)
  PROVE  CertTyped(s)' /\ CertFits(s)'
  <1>1. TypeOK /\ CertTyped(s) /\ Indexed \in [spc: BOOLEAN, sync: Syncs] /\ CurrentSpc \in Spc
    BY CertTypedFact
  <1>2. spc => creds # {}
    BY DEF CertResting, Resting, SpcHasCredential
  <1>3. CASE AddRead(s)
    <2>1. PICK c \in Workloads[work].given[s] :
             /\ c.op \in Adds
             /\ args' = [args EXCEPT ![s] = c]
             /\ Goto(s, AddSteps(c.op)[1])
      BY <1>3 DEF AddRead, Takes, Adds
    <2>2. c \in Command /\ Accepted(c)
      BY <1>1, GivenType DEF TypeOK
    <2>3. AddSteps(c.op)[1] = IF c.op = "trust" THEN "upload" ELSE "certReadSync"
      BY <2>1 DEF AddSteps, Adds
    <2>4. /\ UNCHANGED <<service, index, seenRecord, seenSync, listed, stale, faults, certVars>>
          /\ seenSpc' = [seenSpc EXCEPT ![s] = CurrentSpc] /\ spc
      BY <1>3 DEF AddRead
    <2>5. /\ args'[s] = c /\ seenSpc'[s] = CurrentSpc /\ creds' = creds
          /\ pc'[s] = IF c.op = "trust" THEN "upload" ELSE "certReadSync"
      BY <1>1, <2>1, <2>3, <2>4 DEF CertTyped, MemoryType, service, instance
    <2>6. MemoryType'
      BY <1>1, <2>1, <2>2, <2>3, <2>4 DEF CertTyped, MemoryType, CertSteps
    <2>7. Fits(s)' /\ CertFits(s)'
      BY <1>2, <2>1, <2>2, <2>4, <2>5 DEF Fits, CertFits, Adds, CertSteps, CurrentSpc
    <2> QED BY <1>1, <2>4, <2>6, <2>7 DEF CertTyped, ServiceType, service, instance, certVars
  <1>4. CASE RemoveCertRead(s)
    <2>1. PICK c \in Workloads[work].given[s] :
             /\ c.op = "removeCertificates"
             /\ \E first \in [c.keys \cap Keys(ByName(c.name)) -> Secret] :
                   args' = [args EXCEPT ![s] =
                     [c EXCEPT !.secrets = {first[k] : k \in c.keys \cap Keys(ByName(c.name))}]]
             /\ seenSync' = [seenSync EXCEPT ![s][c.name] = ByName(c.name)]
      BY <1>4 DEF RemoveCertRead, Takes
    <2>2. c \in Command /\ Accepted(c) /\ c.name \in SyncName
      BY <1>1, <2>1, GivenType, CommandType DEF TypeOK
    <2>3. PICK gone \in SUBSET Secret : args' = [args EXCEPT ![s] = [c EXCEPT !.secrets = gone]]
      <3> DEFINE found == c.keys \cap Keys(ByName(c.name))
      <3>1. PICK first \in [found -> Secret] :
               args' = [args EXCEPT ![s] = [c EXCEPT !.secrets = {first[k] : k \in found}]]
        BY <2>1
      <3>2. {first[k] : k \in found} \in SUBSET Secret
        BY <3>1
      <3> QED BY <3>1, <3>2
    <2>4. [c EXCEPT !.secrets = gone] \in Command /\ Accepted([c EXCEPT !.secrets = gone])
          /\ [c EXCEPT !.secrets = gone].op = "removeCertificates"
      BY <2>1, <2>2 DEF Command, Accepted
    <2>5. /\ UNCHANGED <<service, index, seenRecord, seenSpc, listed, stale, faults, certVars>>
          /\ Goto(s, "certReadSpc")
      BY <1>4 DEF RemoveCertRead
    <2>6. seenSync' \in [Session -> Syncs]
      BY <1>1, <2>1, <2>2 DEF CertTyped, MemoryType, Syncs, ByName
    <2> HIDE DEF NoCommand
    <2>7. args' \in [Session -> Command] /\ args'[s].op = "removeCertificates" /\ Accepted(args'[s])
      BY <1>1, <2>3, <2>4 DEF CertTyped, MemoryType
    <2>8. MemoryType' /\ pc'[s] = "certReadSpc"
      BY <1>1, <2>5, <2>6, <2>7 DEF CertTyped, MemoryType, CertSteps
    <2>9. Fits(s)' /\ CertFits(s)'
      BY <2>7, <2>8 DEF Fits, CertFits, CertSteps
    <2> QED BY <1>1, <2>5, <2>8, <2>9 DEF CertTyped, ServiceType, service, instance, certVars
  <1> QED BY <1>3, <1>4 DEF CertStart

LEMMA CertFinish ==
  ASSUME MemoryType, NEW s \in Session, Finish(s)
  PROVE  MemoryType' /\ Fits(s)' /\ CertFits(s)' /\ pc'[s] = "idle"
  BY FinishType DEF MemoryType, Finish, CertFits, CertSteps

LEMMA AddStepType ==
  ASSUME CertResting, NEW s \in Session,
         \/ AddReadSync(s) \/ Declined(s) \/ Upload(s) \/ AddPutSpc(s) \/ AddPutSync(s)
         \/ Configure(s)
  PROVE  CertTyped(s)' /\ CertFits(s)'
  <1> DEFINE c == args[s]
  <1>1. /\ TypeOK /\ CertTyped(s) /\ CertFits(s) /\ MemoryType
        /\ Indexed \in [spc: BOOLEAN, sync: Syncs]
        /\ c \in Command /\ c.map \subseteq Mapping /\ Sources(c.map) \subseteq Secret
        /\ c.op \in Adds => ListOf(c) \in SyncName
    BY CertTypedFact DEF CertTyped
  <1>2. pc[s] \in CertSteps => pc[s] = "certReadSpc" \/ (seenSpc[s].exists /\ creds # {})
    BY <1>1 DEF CertFits
  <1>3. CASE AddReadSync(s) /\ ~Finish(s)
    <2>1. /\ pc[s] = "certReadSync" /\ Goto(s, NextStep(s))
          /\ seenSync' = [seenSync EXCEPT ![s][ListOf(c)] = ByName(ListOf(c))]
          /\ UNCHANGED <<args, seenRecord, seenSpc, listed>>
          /\ UNCHANGED <<service, index, stale, faults, certVars>>
      BY <1>3 DEF AddReadSync
    <2>2. c.op \in Adds /\ ListOf(c) \in SyncName
      BY <1>1, <2>1 DEF CertFits
    <2>3. /\ NextStep(s) \in {"certPutSync", "upload"}
          /\ NextStep(s) = "certPutSync" => c.op = "trust"
      BY <2>1, <2>2, NextStepValue DEF Adds
    <2>4. seenSync' \in [Session -> Syncs]
      BY <1>1, <2>1, <2>2 DEF MemoryType, Syncs, ByName
    <2>5. MemoryType' /\ pc'[s] = NextStep(s)
      BY <1>1, <2>1, <2>3, <2>4 DEF MemoryType, CertSteps
    <2>6. Fits(s)' /\ CertFits(s)'
      BY <1>1, <1>2, <2>1, <2>2, <2>3, <2>5
         DEF CertTyped, Fits, CertFits, CertSteps, service, instance
    <2> QED BY <1>1, <2>1, <2>5, <2>6 DEF CertTyped, ServiceType, service, instance, certVars
  <1>4. CASE Finish(s) /\ (AddReadSync(s) \/ Declined(s))
    <2>1. UNCHANGED <<service, index, stale, faults, certVars>>
      BY <1>4 DEF AddReadSync, Declined
    <2> QED BY <1>1, <1>4, <2>1, CertFinish
            DEF CertTyped, ServiceType, service, instance, certVars
  <1>5. CASE Upload(s)
    <2>1. /\ pc[s] \in {"upload", "uploadKey"} /\ Goto(s, NextStep(s))
          /\ UNCHANGED <<instance, spc, objects, sync, index, memory, stale, faults, certVars>>
          /\ vault' \subseteq Secret
      BY <1>1, <1>5 DEF Upload, TypeOK
    <2>2. c.op \in Adds /\ (pc[s] = "uploadKey" => c.op = "client")
      BY <1>1, <2>1 DEF CertFits, Adds
    <2>3. /\ NextStep(s) \in {"uploadKey", "certPutSpc"}
          /\ NextStep(s) = "uploadKey" => c.op = "client"
      BY <2>1, <2>2, NextStepValue DEF Adds
    <2>4. MemoryType' /\ pc'[s] = NextStep(s)
      BY <1>1, <2>1, <2>3 DEF MemoryType, CertSteps, memory
    <2>5. Fits(s)' /\ CertFits(s)'
      BY <1>1, <1>2, <2>1, <2>2, <2>3, <2>4
         DEF CertTyped, Fits, CertFits, CertSteps, memory, instance
    <2> QED BY <1>1, <2>1, <2>4, <2>5 DEF CertTyped, ServiceType, instance, certVars
  <1>6. CASE AddPutSpc(s)
    <2>1. PICK new : /\ new = (seenSpc[s].objects \ Replaced(s)) \cup Sources(c.map)
                     /\ spc' = TRUE /\ objects' = new
                     /\ seenSpc' = [seenSpc EXCEPT ![s] = [exists |-> TRUE, objects |-> new]]
                     /\ taken' = (taken \cup Replaced(s)) \ new
      BY <1>6 DEF AddPutSpc
    <2>2. /\ pc[s] = "certPutSpc" /\ Goto(s, NextStep(s)) /\ stale' = (stale \/ CurrentSpc # seenSpc[s])
          /\ UNCHANGED <<instance, sync, vault, index, args, seenRecord, seenSync, listed,
                        faults, configured>>
      BY <1>6 DEF AddPutSpc
    <2>3. c.op \in Adds
      BY <1>1, <2>2 DEF CertFits
    <2>4. NextStep(s) \in {"certReadSync", "certPutSync"}
      BY <2>2, <2>3, NextStepValue DEF Adds
    <2>5. new \subseteq Secret /\ Replaced(s) \subseteq Secret
      <3>1. seenSpc[s].objects \subseteq Secret
        BY <1>1 DEF TypeOK, Spc
      <3>2. seenSync[s][ClientPair] \in SUBSET Mapping
        BY <1>1, ListAssumption DEF TypeOK, Syncs
      <3>3. Replaced(s) \subseteq Secret
        BY <3>2, SourcesType DEF Replaced
      <3>4. Sources(c.map) \subseteq Secret
        BY <1>1, SourcesType
      <3> QED BY <2>1, <3>1, <3>3, <3>4
    <2>6. seenSpc' \in [Session -> Spc]
      BY <1>1, <2>1, <2>5 DEF MemoryType, Spc
    <2>7. MemoryType' /\ pc'[s] = NextStep(s)
      BY <1>1, <2>2, <2>4, <2>6 DEF MemoryType, CertSteps
    <2>8. Fits(s)' /\ CertFits(s)'
      <3>1. seenSpc'[s].exists /\ Sources(c.map) \subseteq seenSpc'[s].objects
        BY <1>1, <2>1 DEF MemoryType
      <3> QED BY <1>1, <1>2, <2>2, <2>3, <2>4, <2>7, <3>1
          DEF CertTyped, Fits, CertFits, CertSteps, instance
    <2> QED BY <1>1, <2>1, <2>2, <2>5, <2>7, <2>8 DEF CertTyped, ServiceType, instance
  <1>7. CASE AddPutSync(s)
    <2>1. /\ pc[s] = "certPutSync" /\ sync' = [sync EXCEPT ![ListOf(c)] = CertMapping(s, ListOf(c))]
          /\ stale' = (stale \/ CurrentSpc # seenSpc[s] \/ sync[ListOf(c)] # seenSync[s][ListOf(c)])
          /\ UNCHANGED <<instance, spc, objects, vault, index, faults, certVars>>
          /\ Finish(s) \/ (Goto(s, NextStep(s)) /\ UNCHANGED memory /\ NextStep(s) # "idle")
      BY <1>7 DEF AddPutSync
    <2>2. c.op \in Adds /\ ListOf(c) \in SyncName
      BY <1>1, <2>1 DEF CertFits
    <2>3. CertMapping(s, ListOf(c)) \subseteq Mapping
      BY <1>1, <2>2 DEF CertMapping, Without, TypeOK, Syncs
    <2>4. sync' \in Syncs
      BY <1>1, <2>1, <2>3 DEF TypeOK, Syncs
    <2>5. NextStep(s) # "idle" => NextStep(s) = "configure" /\ c.op = "client"
      BY <2>1, <2>2, NextStepValue DEF Adds
    <2>6. MemoryType' /\ Fits(s)' /\ CertFits(s)'
      <3>1. CASE Finish(s)
        BY <1>1, <3>1, CertFinish
      <3>2. CASE ~Finish(s)
        <4>1. MemoryType' /\ pc'[s] = "configure" /\ UNCHANGED <<args, seenSpc>>
          BY <1>1, <2>1, <2>5, <3>2 DEF MemoryType, CertSteps, memory
        <4> QED BY <1>1, <1>2, <2>1, <2>5, <3>2, <4>1
                DEF CertTyped, Fits, CertFits, CertSteps, instance
      <3> QED BY <3>1, <3>2
    <2> QED BY <1>1, <2>1, <2>4, <2>6 DEF CertTyped, ServiceType, instance, certVars
  <1>8. CASE Configure(s)
    BY <1>1, <1>8, CertFinish DEF Configure, CertTyped, ServiceType, service, instance
  <1> QED BY <1>3, <1>4, <1>5, <1>6, <1>7, <1>8 DEF Declined

LEMMA RemoveStepType ==
  ASSUME CertResting, NEW s \in Session,
         RemoveCertReadSpc(s) \/ Unmap(s) \/ Rollback(s) \/ Unlist(s) \/ Purge(s)
  PROVE  CertTyped(s)' /\ CertFits(s)'
  <1> USE DEF NoFault, Fault
  <1> DEFINE c == args[s]
  <1>1. /\ TypeOK /\ CertTyped(s) /\ CertFits(s) /\ MemoryType /\ CurrentSpc \in Spc
        /\ c \in Command /\ c.secrets \subseteq Secret
        /\ c.op = "removeCertificates" => c.name \in SyncName
    BY CertTypedFact DEF CertTyped
  <1>2. /\ pc[s] \in CertSteps => pc[s] = "certReadSpc" \/ (seenSpc[s].exists /\ creds # {})
        /\ spc => creds # {}
    BY <1>1 DEF CertFits, CertResting, Resting, SpcHasCredential
  <1>3. CASE RemoveCertReadSpc(s) /\ ~Finish(s)
    <2>1. /\ pc[s] = "certReadSpc" /\ spc /\ seenSpc' = [seenSpc EXCEPT ![s] = CurrentSpc]
          /\ Goto(s, "unmap") /\ UNCHANGED <<args, seenRecord, seenSync, listed>>
          /\ UNCHANGED <<service, index, stale, faults, certVars>>
      BY <1>3 DEF RemoveCertReadSpc
    <2>2. MemoryType' /\ pc'[s] = "unmap" /\ seenSpc'[s] = CurrentSpc
      BY <1>1, <2>1 DEF MemoryType, CertSteps
    <2>3. Fits(s)' /\ CertFits(s)'
      BY <1>1, <1>2, <2>1, <2>2
         DEF CertTyped, Fits, CertFits, CertSteps, CurrentSpc, service, instance
    <2> QED BY <1>1, <2>1, <2>2, <2>3 DEF CertTyped, ServiceType, service, instance, certVars
  <1>4. CASE Finish(s)
    <2>1. MemoryType' /\ Fits(s)' /\ CertFits(s)'
      BY <1>1, <1>4, CertFinish
    <2>2. CASE RemoveCertReadSpc(s)
      BY <1>1, <2>1, <2>2
         DEF RemoveCertReadSpc, CertTyped, ServiceType, service, instance, certVars
    <2>3. CASE Unlist(s)
      <3>1. objects' \subseteq Secret /\ taken' \subseteq Secret
        BY <1>1, <2>3 DEF Unlist, TypeOK, Spc, CertTyped
      <3> QED BY <1>1, <2>1, <2>3, <3>1 DEF Unlist, CertTyped, ServiceType, instance
    <2>4. CASE Purge(s)
      <3>1. vault' \subseteq Secret /\ faults' \in 0 .. MaxFaults
        BY <1>1, <2>4, BoundAssumption DEF Purge, TypeOK
      <3> QED BY <1>1, <2>1, <2>4, <3>1 DEF Purge, CertTyped, ServiceType, instance, certVars
    <2>5. ~Unmap(s) /\ ~Rollback(s)
      BY <1>1, <1>4 DEF Unmap, Rollback, MemoryType, Finish
    <2> QED BY <2>2, <2>3, <2>4, <2>5
  <1>5. CASE Unmap(s)
    <2>1. pc[s] = "unmap" /\ c.name \in SyncName
      BY <1>1, <1>5 DEF Unmap, CertFits
    <2>2. Rest(s) \subseteq Mapping
      BY <1>1, <2>1 DEF Rest, Without, TypeOK, Syncs
    <2>3. sync' \in Syncs
      BY <1>1, <1>5, <2>2 DEF Unmap, TypeOK, Syncs
    <2>4. MemoryType' /\ pc'[s] \in {"rollback", "unlist"}
      BY <1>1, <1>5 DEF Unmap, MemoryType, memory, CertSteps
    <2>5. UNCHANGED <<args, seenSpc, creds, faults>> /\ stale' \in BOOLEAN
      BY <1>1, <1>5 DEF Unmap, memory, instance, TypeOK
    <2>6. Fits(s)' /\ CertFits(s)'
      BY <1>1, <1>2, <2>1, <2>4, <2>5 DEF CertTyped, Fits, CertFits, CertSteps
    <2> QED BY <1>1, <1>5, <2>3, <2>4, <2>5, <2>6
            DEF Unmap, CertTyped, ServiceType, instance, certVars
  <1>6. CASE Rollback(s)
    <2>1. MemoryType' /\ pc[s] = "rollback" /\ pc'[s] = "unlist"
      BY <1>1, <1>6 DEF Rollback, MemoryType, memory, CertSteps
    <2>2. UNCHANGED <<args, seenSpc, creds, faults>> /\ stale' \in BOOLEAN
      BY <1>1, <1>6 DEF Rollback, memory, service, instance, TypeOK
    <2>3. Fits(s)' /\ CertFits(s)'
      BY <1>1, <1>2, <2>1, <2>2 DEF CertTyped, Fits, CertFits, CertSteps
    <2> QED BY <1>1, <1>6, <2>1, <2>2, <2>3 DEF Rollback, CertTyped, ServiceType, service, instance
  <1>7. CASE Unlist(s) /\ ~Finish(s)
    <2>1. objects' \subseteq Secret /\ taken' \subseteq Secret
      BY <1>1, <1>7 DEF Unlist, TypeOK, Spc, CertTyped
    <2>2. MemoryType' /\ pc[s] = "unlist" /\ pc'[s] = "purge"
      BY <1>1, <1>7 DEF Unlist, MemoryType, memory, CertSteps
    <2>3. UNCHANGED <<args, seenSpc, creds, faults>> /\ stale' \in BOOLEAN
      BY <1>1, <1>7 DEF Unlist, memory, instance, TypeOK
    <2>4. Fits(s)' /\ CertFits(s)'
      BY <1>1, <1>2, <2>2, <2>3 DEF CertTyped, Fits, CertFits, CertSteps
    <2> QED BY <1>1, <1>7, <2>1, <2>2, <2>3, <2>4 DEF Unlist, CertTyped, ServiceType, instance
  <1> QED BY <1>3, <1>4, <1>5, <1>6, <1>7 DEF Purge

-------------------------------------------------------------------------------
(* The promises of SecretSync beside certificate commands                      *)

(* What the other processes rest on is left alone.                             *)
LEMMA CertOthers ==
  ASSUME CertResting, NEW s \in Session, NEW t \in Session \ {s}, Others(s),
         creds # {} => creds' # {}
  PROVE  CertFits(t)' /\ Fits(t)'
  BY DEF Others, CertResting, CertFits, Resting, Typed, Fits

LEMMA CertOwnResting ==
  ASSUME CertResting, NEW s \in Session, CertOwn(s), UNCHANGED work
  PROVE  CertResting'
  <1>1. CertTyped(s)' /\ CertFits(s)'
    BY CertStartType, AddStepType, RemoveStepType DEF CertOwn, CertStep
  <1>2. TypeOK /\ MemoryType /\ \A t \in Session : Rests(t)
    BY DEF CertResting, Resting, Typed, TypeOK, MemoryType
  <1>3. Others(s) /\ UNCHANGED <<record, creds, credential, index>>
    BY <1>2, CertOwnStep DEF instance
  <1>4. TypeOK'
    BY <1>1, <1>2, <1>3 DEF TypeOK, CertTyped, MemoryType, ServiceType
  <1>5. \A t \in Session \ {s} : CertFits(t)' /\ Fits(t)'
    BY <1>3, CertOthers
  <1>6. Typed'
    BY <1>1, <1>4, <1>5 DEF Typed, CertTyped
  <1>7. /\ pc'[s] \in CertSteps \cup {"idle"}
        /\ seenRecord'[s] = seenRecord[s] \/ seenRecord'[s] = NoRecord
    <2>1. CASE Finish(s)
      BY <1>2, <2>1 DEF Finish, MemoryType
    <2>2. CASE ~Finish(s)
      <3>1. seenRecord'[s] = seenRecord[s]
        BY <2>2 DEF CertOwn, CertStart, CertStep, memory, AddRead, RemoveCertRead, AddReadSync,
           Declined, Upload, AddPutSpc, AddPutSync, Configure, RemoveCertReadSpc, Unmap,
           Rollback, Unlist, Purge
      <3>2. CASE AddRead(s)
        <4>1. PICK c \in Workloads[work].given[s] :
                 c.op \in Adds /\ pc' = [pc EXCEPT ![s] = AddSteps(c.op)[1]]
          BY <3>2 DEF AddRead, Takes, Adds
        <4>2. AddSteps(c.op)[1] \in CertSteps
          BY <4>1 DEF AddSteps, Adds, CertSteps
        <4> QED BY <1>2, <3>1, <4>1, <4>2 DEF MemoryType
      <3>3. CASE AddReadSync(s) \/ Upload(s) \/ AddPutSpc(s) \/ AddPutSync(s)
        <4>1. pc[s] \in CertSteps /\ pc' = [pc EXCEPT ![s] = NextStep(s)]
          BY <2>2, <3>3 DEF AddReadSync, Upload, AddPutSpc, AddPutSync, CertSteps
        <4>2. NextStep(s) \in CertSteps \cup {"idle"}
          <5>1. /\ pc[s] \in {"certReadSync", "upload", "uploadKey", "certPutSpc", "certPutSync"}
                /\ args[s].op \in Adds /\ (pc[s] = "uploadKey" => args[s].op = "client")
            BY <3>3 DEF AddReadSync, Upload, AddPutSpc, AddPutSync, CertResting, CertFits, Adds
          <5> QED BY <5>1, NextStepValue DEF Adds, CertSteps
        <4> QED BY <1>2, <3>1, <4>1, <4>2 DEF MemoryType
      <3>4. CASE RemoveCertRead(s) \/ RemoveCertReadSpc(s) \/ Unmap(s) \/ Rollback(s) \/ Unlist(s)
        BY <1>2, <2>2, <3>1, <3>4
           DEF RemoveCertRead, RemoveCertReadSpc, Unmap, Rollback, Unlist, MemoryType, CertSteps
      <3> QED BY <2>2, <3>2, <3>3, <3>4 DEF CertOwn, CertStart, CertStep, Declined, Configure, Purge
    <2> QED BY <2>1, <2>2
  <1>8. Rests(s)'
    BY <1>2, <1>3, <1>7 DEF Rests, CertSteps, NoRecord
  <1>9. \A t \in Session \ {s} : Rests(t)'
    <2>1. ASSUME NEW t \in Session \ {s} PROVE StillReferenced(t)' <=> StillReferenced(t)
      BY <1>3 DEF Others, StillReferenced, OtherSources
    <2> QED BY <1>2, <1>3, <2>1 DEF Others, Rests
  <1>10. /\ spc' = spc \/ (spc' = TRUE /\ creds # {})
         /\ ~spc' => objects' = {}
         /\ stale => stale'
    <2>1. CASE AddPutSpc(s) \/ Unlist(s)
      BY <2>1 DEF AddPutSpc, Unlist, CertResting, CertFits, CertSteps
    <2>2. CASE ~AddPutSpc(s) /\ ~Unlist(s)
      <3>1. UNCHANGED <<spc, objects>>
        BY <2>2 DEF CertOwn, CertStart, CertStep, service, AddRead, RemoveCertRead, AddReadSync,
           Declined, Upload, AddPutSync, Configure, RemoveCertReadSpc, Unmap, Rollback, Purge
      <3>2. stale => stale'
        BY <2>2 DEF CertOwn, CertStart, CertStep, AddRead, RemoveCertRead, AddReadSync,
           Declined, Upload, AddPutSync, Configure, RemoveCertReadSpc, Unmap, Rollback, Purge
      <3> QED BY <3>1, <3>2 DEF CertResting, Resting
    <2> QED BY <2>1, <2>2
  <1>11. LinkedSpcExists' /\ SpcHasCredential' /\ AssignedIsFederated'
    BY <1>3, <1>10 DEF CertResting, Resting, LinkedSpcExists, SpcHasCredential, AssignedIsFederated
  <1> QED BY <1>1, <1>5, <1>6, <1>8, <1>9, <1>10, <1>11 DEF CertResting, Resting, CertTyped

LEMMA OwnCertFits ==
  ASSUME Typed, NEW s \in Session, Own(s)
  PROVE  pc'[s] \notin CertSteps
  <1>1. MemoryType
    BY DEF Typed, TypeOK, MemoryType
  <1>2. ASSUME NEW c PROVE FirstStep(c) \notin CertSteps
    BY DEF FirstStep, CertSteps
  <1>3. CASE Finish(s)
    BY <1>1, <1>3 DEF Finish, MemoryType, CertSteps
  <1>4. CASE Start(s) /\ ~Finish(s)
    BY <1>1, <1>2, <1>4 DEF Start, ReadRecord, Lookup, ReadSpc, RemoveRead, MemoryType, CertSteps
  <1>5. CASE (FederateIdentity(s) \/ UnfederateIdentity(s) \/ PutRecord(s) \/ Federate(s)
              \/ CreateSpc(s) \/ List(s) \/ DeleteSyncs(s)) /\ ~Finish(s)
    BY <1>1, <1>5 DEF FederateIdentity, UnfederateIdentity, PutRecord, Federate, CreateSpc, List,
       DeleteSyncs, MemoryType, CertSteps
  <1>6. CASE (PutSpc(s) \/ ReadSync(s) \/ RemoveCount(s) \/ RemoveFromSync(s)
              \/ RemoveReadSpc(s)) /\ ~Finish(s)
    BY <1>1, <1>6 DEF PutSpc, ReadSync, RemoveCount, RemoveFromSync, RemoveReadSpc,
       MemoryType, CertSteps
  <1> QED BY <1>3, <1>4, <1>5, <1>6 DEF Own, Step, Abort, Grant, DeleteSpc, PutSync, RemoveFromSpc

LEMMA ListingResting ==
  ASSUME CertResting, Listing(Reindex \/ \E s \in Session : Start(s) \/ Step(s) \/ Abort(s)),
         UNCHANGED work
  PROVE  CertResting'
  <1>1. configured' \subseteq Mapping /\ taken' \subseteq Secret
    BY DEF CertResting, Listing
  <1>2. CASE Reindex
    <2>1. Resting'
      BY <1>2, ReindexTyped, UnchangedResting DEF Reindex, CertResting, Resting
    <2> QED BY <1>1, <1>2, <2>1 DEF Reindex, CertResting, CertFits, memory, service, instance
  <1>3. ASSUME NEW s \in Session, Own(s) PROVE CertResting'
    <2>1. Resting' /\ Others(s) /\ (creds # {} => creds' # {})
      BY <1>3, OwnResting, OwnStep, CredentialStep
         DEF CertResting, Resting, Typed, TypeOK, MemoryType
    <2>2. CertFits(s)'
      BY <1>3, OwnCertFits DEF CertFits, CertSteps, CertResting, Resting
    <2> QED BY <1>1, <2>1, <2>2, CertOthers DEF CertResting
  <1> QED BY <1>2, <1>3 DEF Listing, Own

LEMMA CertRestingInit == CertInit => CertResting
  <1> SUFFICES ASSUME CertInit PROVE CertResting
    OBVIOUS
  <1>1. \A s \in Session : CertFits(s)
    BY DEF CertInit, Init, CertFits, CertSteps
  <1> QED BY <1>1, RestingInit DEF CertInit, CertResting

LEMMA CertRestingStep ==
  CertResting /\ [CertNext /\ UNCHANGED work]_<<work, allVars>> => CertResting'
  <1> SUFFICES ASSUME CertResting, [CertNext /\ UNCHANGED work]_<<work, allVars>>
               PROVE  CertResting'
    OBVIOUS
  <1>1. CASE UNCHANGED <<work, allVars>>
    <2>1. Resting'
      <3>1. Typed'
        BY <1>1 DEF allVars, vars, service, instance, memory, CertResting, Resting, Typed, TypeOK,
           Fits
      <3> QED BY <1>1, <3>1, UnchangedResting DEF allVars, vars, CertResting
    <2> QED BY <1>1, <2>1
        DEF allVars, vars, service, instance, memory, certVars, CertResting, CertFits
  <1> QED BY <1>1, CertOwnResting, ListingResting DEF CertNext, CertOwn

(* Beside any number of certificate commands, too, every state is well typed,  *)
(* the instance refers to no SPC that does not exist, and the SPC does not     *)
(* exist without a credential.                                                 *)
THEOREM CertTypeCorrect ==
  CertSpec => [](CertTypeOK /\ LinkedSpcExists /\ SpcHasCredential)
  <1>1. CertResting => CertTypeOK /\ LinkedSpcExists /\ SpcHasCredential
    BY DEF CertResting, Resting, Typed, CertTypeOK
  <1> QED BY <1>1, CertRestingInit, CertRestingStep, PTL DEF CertSpec

-------------------------------------------------------------------------------
(* What is mapped is listed, unless a certificate command took it off the list *)

LEMMA CertListingStep ==
  ASSUME CertResting, ListedUnlessTaken, NEW s \in Session, CertOwn(s), UNCHANGED work
  PROVE  ListedUnlessTaken'
  <1> SUFFICES ASSUME spc', ~stale', NEW a \in OtherSources(sync', None), a \notin taken'
               PROVE  a \in objects'
    BY DEF ListedUnlessTaken
  <1>1. /\ TypeOK /\ CertFits(s) /\ args[s] \in Command
        /\ args[s].op \in Adds => ListOf(args[s]) \in SyncName
        /\ args[s].op = "removeCertificates" => args[s].name \in SyncName
    BY CertTypedFact
  <1>2. sync \in Syncs /\ sync' \in Syncs
    BY <1>1, CertOwnResting DEF CertResting, Resting, Typed, TypeOK
  <1>3. PICK k \in SyncName : \E m \in sync'[k] : a = m[1]
    BY <1>2, OtherSourcesFact
  <1>4. spc /\ ~stale /\ a \in OtherSources(sync, None) /\ a \notin taken => a \in objects
    BY DEF ListedUnlessTaken
  <1>5. CASE UNCHANGED <<spc, objects, sync, taken>> /\ (stale => stale')
    BY <1>4, <1>5
  <1>6. CASE AddPutSpc(s)
    <2>1. /\ pc[s] = "certPutSpc" /\ CurrentSpc = seenSpc[s] /\ ~stale /\ sync' = sync
          /\ objects' = (seenSpc[s].objects \ Replaced(s)) \cup Sources(args[s].map)
          /\ taken' = (taken \cup Replaced(s)) \ objects'
      BY <1>1, <1>6 DEF AddPutSpc, TypeOK
    <2>2. spc /\ seenSpc[s].objects = objects
      BY <1>1, <2>1 DEF CertFits, CertSteps, CurrentSpc
    <2> QED BY <1>4, <2>1, <2>2
  <1>7. CASE AddPutSync(s)
    <2>1. /\ pc[s] = "certPutSync" /\ CurrentSpc = seenSpc[s] /\ ~stale
          /\ sync[ListOf(args[s])] = seenSync[s][ListOf(args[s])]
          /\ UNCHANGED <<spc, objects, taken>>
          /\ sync' = [sync EXCEPT ![ListOf(args[s])] = CertMapping(s, ListOf(args[s]))]
      BY <1>1, <1>7 DEF AddPutSync, certVars, TypeOK
    <2>2. ListOf(args[s]) \in SyncName /\ Sources(args[s].map) \subseteq objects
      BY <1>1, <2>1 DEF CertFits, CurrentSpc
    <2>3. sync'[k] \subseteq sync[k] \cup args[s].map
      BY <1>2, <2>1, <2>2 DEF CertMapping, Without, Syncs
    <2>4. CASE a \in Sources(args[s].map)
      BY <2>1, <2>2, <2>4
    <2>5. CASE a \notin Sources(args[s].map)
      <3>1. \E m \in sync[k] : a = m[1]
        BY <1>3, <2>3, <2>5 DEF Sources
      <3>2. a \in OtherSources(sync, None)
        BY <1>2, <3>1, OtherSourcesFact
      <3> QED BY <1>4, <2>1, <3>2
    <2> QED BY <2>4, <2>5
  <1>8. CASE Unmap(s)
    <2>1. /\ pc[s] = "unmap" /\ sync[args[s].name] = seenSync[s][args[s].name] /\ ~stale
          /\ UNCHANGED <<spc, objects, taken>>
          /\ sync' = [sync EXCEPT ![args[s].name] = Rest(s)]
      BY <1>1, <1>8 DEF Unmap, certVars, TypeOK
    <2>2. sync'[k] \subseteq sync[k]
      BY <1>1, <1>2, <2>1 DEF Rest, Without, Syncs, CertFits
    <2>3. a \in OtherSources(sync, None)
      BY <1>2, <1>3, <2>2, OtherSourcesFact
    <2> QED BY <1>4, <2>1, <2>3
  <1>9. CASE Unlist(s)
    <2>1. /\ pc[s] = "unlist" /\ CurrentSpc = seenSpc[s] /\ ~stale /\ sync' = sync
          /\ objects' = seenSpc[s].objects \ args[s].secrets
          /\ taken' = (taken \cup args[s].secrets) \ objects'
      BY <1>1, <1>9 DEF Unlist, TypeOK
    <2>2. spc /\ seenSpc[s].objects = objects
      BY <1>1, <2>1 DEF CertFits, CertSteps, CurrentSpc
    <2> QED BY <1>4, <2>1, <2>2
  <1>10. CASE ~AddPutSpc(s) /\ ~AddPutSync(s) /\ ~Unmap(s) /\ ~Unlist(s)
    <2>1. UNCHANGED <<spc, objects, sync, taken>>
      BY <1>10 DEF CertOwn, CertStart, CertStep, service, certVars, AddRead, RemoveCertRead,
         AddReadSync, Declined, Upload, Configure, RemoveCertReadSpc, Rollback, Purge
    <2>2. stale => stale'
      BY <1>10 DEF CertOwn, CertStart, CertStep, AddRead, RemoveCertRead,
         AddReadSync, Declined, Upload, Configure, RemoveCertReadSpc, Rollback, Purge
    <2> QED BY <1>5, <2>1, <2>2
  <1> QED BY <1>6, <1>7, <1>8, <1>9, <1>10

LEMMA ListedUnlessTakenStep ==
  CertResting /\ ListedUnlessTaken /\ [CertNext /\ UNCHANGED work]_<<work, allVars>>
    => ListedUnlessTaken'
  <1> SUFFICES ASSUME CertResting, ListedUnlessTaken,
                      [CertNext /\ UNCHANGED work]_<<work, allVars>>
               PROVE  ListedUnlessTaken'
    OBVIOUS
  <1>1. CASE UNCHANGED <<work, allVars>>
    <2>1. UNCHANGED <<spc, objects, sync, stale, taken>>
      BY <1>1 DEF allVars, vars, certVars, service
    <2>2. OtherSources(sync, None)' = OtherSources(sync, None)
      BY <2>1 DEF OtherSources
    <2> QED BY <2>1, <2>2 DEF ListedUnlessTaken
  <1>2. CASE Listing(Reindex) /\ UNCHANGED work
    <2>1. UNCHANGED <<spc, objects, sync, stale>> /\ taken' = taken \ objects
      BY <1>2 DEF Listing, Reindex, service
    <2>2. OtherSources(sync, None)' = OtherSources(sync, None)
      BY <2>1 DEF OtherSources
    <2> QED BY <2>1, <2>2 DEF ListedUnlessTaken
  <1>3. ASSUME NEW s \in Session, Listing(Own(s)), UNCHANGED work PROVE ListedUnlessTaken'
    <2>1. Own(s) /\ taken' = taken \ objects' /\ (stale => stale')
      BY <1>3, StaleStays DEF Listing, CertResting, Resting, Typed
    <2> QED BY <1>3, <2>1, ListingStep DEF ListedUnlessTaken, CertResting
  <1> QED BY <1>1, <1>2, <1>3, CertListingStep DEF CertNext, CertOwn, Own, Listing

(* The SPC lists every secret that a SecretSync maps, unless one of the        *)
(* certificate commands took it from there or a write rested on an outdated    *)
(* read, whatever commands of either kind run side by side.                    *)
THEOREM MappedIsListedUnlessTaken == CertSpec => []ListedUnlessTaken
  <1>1. CertInit => ListedUnlessTaken
    BY DEF CertInit, Init, ListedUnlessTaken, OtherSources, NoSyncs, Sources
  <1> QED BY <1>1, CertRestingInit, CertRestingStep, ListedUnlessTakenStep, PTL DEF CertSpec

-------------------------------------------------------------------------------
(* The extension describes the pair that is mapped                             *)

(* Where the client certificate is left to its own commands, no process is     *)
(* about to write its SecretSync for another one.                              *)
Apart(s) ==
    pc[s] # "idle" => args[s].op \in CertOp \/ args[s].name \notin {ClientPair, None}

Matching ==
    /\ ConfiguredIffMapped
    /\ OnlyCertificates => \A s \in Session : Apart(s)

LEMMA ApartStep ==
  ASSUME CertResting, OnlyCertificates, \A s \in Session : Apart(s),
         NEW s \in Session, Own(s) \/ CertOwn(s), UNCHANGED work
  PROVE  \A t \in Session : Apart(t)'
  <1>1. MemoryType
    BY DEF CertResting, Resting, Typed, TypeOK, MemoryType
  <1>2. Others(s)
    BY <1>1, OwnStep, CertOwnStep
  <1>3. CASE pc'[s] = "idle"
    BY <1>2, <1>3 DEF Others, Apart
  <1>4. CASE args' = args /\ pc[s] # "idle"
    BY <1>2, <1>4 DEF Others, Apart
  <1>5. CASE \E c \in Workloads[work].given[s] :
               args'[s].op = c.op /\ args'[s].name = c.name
    BY <1>2, <1>5 DEF Others, Apart, OnlyCertificates
  <1>6. CASE RemoveCertRead(s)
    <2>1. PICK c \in Workloads[work].given[s], gone \in SUBSET Secret :
             args' = [args EXCEPT ![s] = [c EXCEPT !.secrets = gone]]
      <3>1. PICK c \in Workloads[work].given[s] :
               \E first \in [c.keys \cap Keys(ByName(c.name)) -> Secret] :
                  args' = [args EXCEPT ![s] =
                     [c EXCEPT !.secrets = {first[k] : k \in c.keys \cap Keys(ByName(c.name))}]]
        BY <1>6 DEF RemoveCertRead
      <3> DEFINE found == c.keys \cap Keys(ByName(c.name))
      <3>2. PICK first \in [found -> Secret] :
               args' = [args EXCEPT ![s] = [c EXCEPT !.secrets = {first[k] : k \in found}]]
        BY <3>1
      <3>3. {first[k] : k \in found} \in SUBSET Secret
        BY <3>2
      <3> QED BY <3>2, <3>3
    <2>2. c \in Command
      BY GivenType DEF CertResting, Resting, Typed, TypeOK
    <2>3. args'[s].op = c.op /\ args'[s].name = c.name
      BY <1>1, <2>1, <2>2 DEF MemoryType, Command
    <2> QED BY <1>5, <2>3
  <1>7. CASE Start(s) \/ AddRead(s)
    <2>1. CASE Finish(s)
      BY <1>1, <1>3, <2>1 DEF Finish, MemoryType
    <2>2. CASE ~Finish(s)
      <3>1. \E c \in Workloads[work].given[s] : args' = [args EXCEPT ![s] = c]
        BY <1>7, <2>2 DEF Start, AddRead, ReadRecord, Lookup, ReadSpc, RemoveRead
      <3> QED BY <1>1, <1>5, <3>1 DEF MemoryType
    <2> QED BY <2>1, <2>2
  <1>8. CASE Step(s) \/ Abort(s) \/ CertStep(s)
    <2>1. CASE Finish(s)
      BY <1>1, <1>3, <2>1 DEF Finish, MemoryType
    <2>2. CASE ~Finish(s) /\ Step(s)
      BY <1>4, <2>2 DEF Step, memory, FederateIdentity, UnfederateIdentity, PutRecord, Grant,
         Federate, CreateSpc, List, DeleteSyncs, DeleteSpc, PutSpc, ReadSync, PutSync,
         RemoveCount, RemoveFromSync, RemoveReadSpc, RemoveFromSpc
    <2>3. CASE ~Finish(s) /\ CertStep(s)
      BY <1>4, <2>3 DEF CertStep, memory, AddReadSync, Declined, Upload, AddPutSpc, AddPutSync,
         Configure, RemoveCertReadSpc, Unmap, Rollback, Unlist, Purge
    <2> QED BY <1>8, <2>1, <2>2, <2>3 DEF Abort
  <1> QED BY <1>6, <1>7, <1>8 DEF Own, CertOwn, CertStart

LEMMA FaultsGrow ==
  ASSUME TypeOK, NEW s \in Session, Own(s) \/ CertOwn(s), faults' = 0
  PROVE  faults = 0 /\ ~Abort(s)
  <1>1. Fault \/ NoFault
    BY DEF NoFault, Own, Start, Step, Abort, ReadRecord, Lookup, ReadSpc, RemoveRead,
       FederateIdentity, UnfederateIdentity, PutRecord, Grant, Federate, CreateSpc, List,
       DeleteSyncs, DeleteSpc, PutSpc, ReadSync, PutSync, RemoveCount, RemoveFromSync,
       RemoveReadSpc, RemoveFromSpc, CertOwn, CertStart, CertStep, AddRead, RemoveCertRead,
       AddReadSync, Declined, Upload, AddPutSpc, AddPutSync, Configure, RemoveCertReadSpc, Unmap,
       Rollback, Unlist, Purge
  <1>2. ~Fault
    BY BoundAssumption DEF TypeOK, Fault
  <1> QED BY <1>1, <1>2 DEF NoFault, Abort

(* A process that neither changes the settings nor is going to do so next      *)
(* leaves a client certificate where there is one, and none where there is     *)
(* none.                                                                       *)
LEMMA PairStep ==
  ASSUME CertResting, OnlyCertificates, NEW s \in Session, Apart(s), UNCHANGED work,
         Own(s) \/ CertOwn(s), ~stale', pc'[s] \notin {"configure", "rollback"}
  PROVE  sync'[ClientPair] # {} <=> sync[ClientPair] # {}
  <1>1. /\ TypeOK /\ CertFits(s) /\ Fits(s) /\ args[s] \in Command /\ Accepted(args[s])
        /\ args[s].op \in Adds => ListOf(args[s]) \in SyncName
        /\ ClientPair \in SyncName /\ MemoryType
    BY CertTypedFact, ListAssumption DEF CertTyped, Fits
  <1>2. sync \in Syncs
    BY <1>1 DEF TypeOK
  <1>3. pc[s] # "idle" /\ args[s].op \in Op => args[s].name \notin {ClientPair, None}
    BY DEF Apart, Op, CertOp
  <1>4. CASE sync' = sync
    BY <1>4
  <1>5. CASE DeleteSyncs(s)
    <2>1. pc[s] = "deleteSyncs" /\ args[s].op = "disable"
      BY <1>1, <1>5 DEF DeleteSyncs, Fits
    <2> QED BY <1>1, <1>3, <2>1 DEF Accepted, Op
  <1>6. CASE PutSync(s) \/ RemoveFromSync(s)
    <2>1. pc[s] \in {"putSync", "rmSync"} /\ args[s].op \in Op
      BY <1>1, <1>6 DEF PutSync, RemoveFromSync, Fits, Op
    <2>2. args[s].name # ClientPair
      BY <1>3, <2>1
    <2> QED BY <1>1, <1>2, <1>6, <2>2 DEF PutSync, RemoveFromSync, Syncs
  <1>7. CASE AddPutSync(s)
    <2>1. pc[s] = "certPutSync" /\ args[s].op \in Adds
          /\ sync' = [sync EXCEPT ![ListOf(args[s])] = CertMapping(s, ListOf(args[s]))]
      BY <1>1, <1>7 DEF AddPutSync, CertFits
    <2>2. args[s].op # "client"
      <3>1. SUFFICES ASSUME args[s].op = "client" PROVE FALSE
        OBVIOUS
      <3>2. NextStep(s) = "configure"
        BY <2>1, <3>1, NextStepValue
      <3> QED BY <1>1, <1>7, <3>2 DEF AddPutSync, MemoryType
    <2>3. ListOf(args[s]) # ClientPair
      BY <2>1, <2>2, ListAssumption DEF ListOf, Adds
    <2> QED BY <1>1, <1>2, <2>1, <2>3 DEF Syncs
  <1>8. CASE Unmap(s)
    <2>1. /\ pc[s] = "unmap" /\ args[s].name \in SyncName
          /\ sync[args[s].name] = seenSync[s][args[s].name]
          /\ sync' = [sync EXCEPT ![args[s].name] = Rest(s)]
      BY <1>1, <1>8, CertTypedFact DEF Unmap, CertFits, TypeOK
    <2>2. ~Emptied(s)
      BY <1>1, <1>8 DEF Unmap, MemoryType
    <2>3. Rest(s) \subseteq sync[args[s].name]
      BY <2>1 DEF Rest, Without
    <2> QED BY <1>1, <1>2, <2>1, <2>2, <2>3 DEF Emptied, Syncs
  <1>9. CASE CertOwn(s) /\ ~AddPutSync(s) /\ ~Unmap(s)
    BY <1>4, <1>9 DEF CertOwn, CertStart, CertStep, service, AddRead, RemoveCertRead, AddReadSync,
       Declined, Upload, AddPutSpc, Configure, RemoveCertReadSpc, Rollback, Unlist, Purge
  <1> QED BY <1>4, <1>5, <1>6, <1>7, <1>8, <1>9, SyncChange

LEMMA MatchingOwn ==
  ASSUME CertResting, Matching, NEW s \in Session, UNCHANGED work,
         CertOwn(s) \/ (Own(s) /\ UNCHANGED configured)
  PROVE  ConfiguredIffMapped'
  <1> SUFFICES ASSUME OnlyCertificates, faults' = 0, ~stale',
                      \A t \in Session : pc'[t] \notin {"configure", "rollback"}
               PROVE  configured' # {} <=> sync'[ClientPair] # {}
    BY DEF ConfiguredIffMapped, OnlyCertificates
  <1>1. TypeOK /\ MemoryType
    BY DEF CertResting, Resting, Typed, TypeOK, MemoryType
  <1>2. faults = 0 /\ ~Abort(s)
    BY <1>1, FaultsGrow
  <1>3. CASE Configure(s)
    BY <1>1, <1>3 DEF Configure, service, TypeOK
  <1>4. CASE Rollback(s)
    BY <1>1, <1>4 DEF Rollback, service, TypeOK
  <1>5. CASE ~Configure(s) /\ ~Rollback(s)
    <2>1. pc[s] \notin {"configure", "rollback"} /\ configured' = configured
      <3>1. CASE CertOwn(s)
        BY <1>5, <3>1 DEF CertOwn, CertStart, CertStep, certVars, Takes, AddRead, RemoveCertRead,
           AddReadSync, Declined, Upload, AddPutSpc, AddPutSync, RemoveCertReadSpc, Unmap, Unlist,
           Purge
      <3>2. CASE Own(s) /\ UNCHANGED configured
        BY <1>2, <3>2 DEF Own, Start, Step, Takes, ReadRecord, Lookup, ReadSpc, RemoveRead,
           FederateIdentity, UnfederateIdentity, PutRecord, Grant, Federate, CreateSpc, List,
           DeleteSyncs, DeleteSpc, PutSpc, ReadSync, PutSync, RemoveCount, RemoveFromSync,
           RemoveReadSpc, RemoveFromSpc
      <3> QED BY <3>1, <3>2
    <2>2. \A t \in Session : pc[t] \notin {"configure", "rollback"}
      BY <1>1, <2>1, OwnStep, CertOwnStep DEF Others
    <2>3. ~stale
      <3>1. CASE Own(s)
        BY <1>1, <3>1, StaleStays
      <3>2. CASE CertOwn(s)
        BY <1>1, <3>2 DEF CertOwn, CertStart, CertStep, AddRead, RemoveCertRead, AddReadSync,
           Declined, Upload, AddPutSpc, AddPutSync, Configure, RemoveCertReadSpc, Unmap, Rollback,
           Unlist, Purge
      <3> QED BY <3>1, <3>2
    <2>4. configured # {} <=> sync[ClientPair] # {}
      BY <1>2, <2>2, <2>3 DEF Matching, ConfiguredIffMapped
    <2>5. sync'[ClientPair] # {} <=> sync[ClientPair] # {}
      BY PairStep DEF Matching
    <2> QED BY <2>1, <2>4, <2>5
  <1> QED BY <1>3, <1>4, <1>5

LEMMA MatchingStep ==
  CertResting /\ Matching /\ [CertNext /\ UNCHANGED work]_<<work, allVars>> => Matching'
  <1> SUFFICES ASSUME CertResting, Matching, [CertNext /\ UNCHANGED work]_<<work, allVars>>
               PROVE  Matching'
    OBVIOUS
  <1>1. CASE UNCHANGED <<work, allVars>> \/ (Listing(Reindex) /\ UNCHANGED work)
    <2>1. UNCHANGED <<work, sync, stale, configured, pc, args, faults>>
      BY <1>1 DEF allVars, vars, certVars, service, memory, Listing, Reindex
    <2> QED BY <2>1 DEF Matching, ConfiguredIffMapped, OnlyCertificates, Apart
  <1>2. ASSUME NEW s \in Session, UNCHANGED work,
               CertOwn(s) \/ (Own(s) /\ UNCHANGED configured)
        PROVE  Matching'
    <2>1. ConfiguredIffMapped'
      BY <1>2, MatchingOwn
    <2>2. OnlyCertificates' => \A t \in Session : Apart(t)'
      BY <1>2, ApartStep DEF Matching, OnlyCertificates
    <2> QED BY <2>1, <2>2 DEF Matching
  <1> QED BY <1>1, <1>2 DEF CertNext, CertOwn, Own, Listing

(* Where the client certificate is left to its own commands, and nothing       *)
(* failed or rested on an outdated read, the extension's settings describe a   *)
(* pair exactly when there is one, whenever no process is about to write them. *)
THEOREM SettingsMatch == CertSpec => []ConfiguredIffMapped
  <1>1. CertInit => Matching
    BY ListAssumption
       DEF CertInit, Init, Matching, ConfiguredIffMapped, Apart, NoSyncs
  <1>2. Matching => ConfiguredIffMapped
    BY DEF Matching
  <1> QED BY <1>1, <1>2, CertRestingInit, CertRestingStep, MatchingStep, PTL DEF CertSpec
===============================================================================
