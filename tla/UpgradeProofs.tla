---------------------------- MODULE UpgradeProofs ----------------------------
(* Theorems about Upgrade, for every number of processes, SecretSyncs,       *)
(* versions and failures.                                                    *)
EXTENDS Upgrade, TLAPS

Merge   == <<"merge", "spc">>
Move    == <<"repoint", "sync">>
Drop    == <<"delete", "spc">>
CertMgr == <<"create", "cm">>

-----------------------------------------------------------------------------
(* The order of the steps *)

(* Entries of a concatenation.                                               *)
LEMMA ConcatHead ==
  ASSUME NEW S, NEW A \in Seq(S), NEW B \in Seq(S)
  PROVE  /\ A \o B \in Seq(S) /\ Len(A \o B) = Len(A) + Len(B)
         /\ \A i \in 1 .. Len(A) : (A \o B)[i] = A[i]
  OBVIOUS

LEMMA ConcatTail ==
  ASSUME NEW S, NEW A \in Seq(S), NEW B \in Seq(S)
  PROVE  \A i \in 1 .. Len(B) : (A \o B)[Len(A) + i] = B[i]
  OBVIOUS

LEMMA OrderEntries ==
  /\ DOMAIN Order = 1 .. 13
  /\ Order[2] = CertMgr /\ Order[7] = <<"update", "ops">>
  /\ Order[11] = Merge /\ Order[12] = Move /\ Order[13] = Drop
  <1>1. PICK a1, a3, a4, a5, a6, a7, b1, b2, b3 :
          /\ Order = <<a1, CertMgr, a3, a4, a5, a6, a7>> \o <<b1, b2, b3>>
                       \o <<Merge, Move, Drop>>
          /\ a7 = <<"update", "ops">>
    BY Zenon DEF Order, ExtensionOrder, AuxiliaryOrder, MigrationOrder,
                 CertMgr, Merge, Move, Drop
  <1>2. PICK a2, c1, c2, c3 : a2 = CertMgr /\ c1 = Merge /\ c2 = Move /\ c3 = Drop
    OBVIOUS
  <1>3. PICK S : S = {a1, a2, a3, a4, a5, a6, a7, b1, b2, b3, c1, c2, c3}
    OBVIOUS
  <1>4. PICK A : A = <<a1, a2, a3, a4, a5, a6, a7>> OBVIOUS
  <1>5. PICK B : B = <<b1, b2, b3>> OBVIOUS
  <1>6. PICK C : C = <<c1, c2, c3>> OBVIOUS
  <1>7. A \in Seq(S) /\ Len(A) = 7 /\ A[2] = a2 /\ A[7] = a7
    BY <1>3, <1>4
  <1>8. B \in Seq(S) /\ Len(B) = 3
    BY <1>3, <1>5
  <1>9. C \in Seq(S) /\ Len(C) = 3 /\ C[1] = c1 /\ C[2] = c2 /\ C[3] = c3
    BY <1>3, <1>6
  <1>10. /\ A \o B \in Seq(S) /\ Len(A \o B) = Len(A) + Len(B)
        /\ \A i \in 1 .. Len(A) : (A \o B)[i] = A[i]
    BY <1>7, <1>8, ConcatHead, Zenon
  <1>11. PICK D \in Seq(S) : D = A \o B
    BY <1>10, Zenon
  <1>12. /\ Len(D) = Len(A) + Len(B)
         /\ D[2] = (A \o B)[2] /\ D[7] = (A \o B)[7]
    BY <1>10, <1>11, Zenon
  <1>13. Len(D) = 10 /\ D[2] = a2 /\ D[7] = a7
    <2>1. 2 \in 1 .. Len(A) /\ 7 \in 1 .. Len(A)
      BY <1>7
    <2>2. D[2] = a2 /\ D[7] = a7
      BY <1>7, <1>10, <1>12, <2>1, Zenon
    <2>3. Len(D) = 10
      BY <1>7, <1>8, <1>12
    <2> QED BY <2>2, <2>3
  <1>14. C \in Seq(S)
    BY <1>9
  <1>15. D \o C \in Seq(S) /\ Len(D \o C) = Len(D) + Len(C)
    BY <1>14, ConcatHead, Zenon
  <1>16. \A i \in 1 .. Len(D) : (D \o C)[i] = D[i]
    BY <1>14, ConcatHead, Zenon
  <1>17. \A i \in 1 .. Len(C) : (D \o C)[Len(D) + i] = C[i]
    BY <1>14, ConcatTail, Zenon
  <1>18. PICK F \in Seq(S) : F = D \o C
    BY <1>15, Zenon
  <1>19. Len(F) = 13
    BY <1>9, <1>13, <1>15, <1>18
  <1>20. \A i \in 1 .. 10 : F[i] = D[i]
    BY <1>13, <1>16, <1>18
  <1>21. \A i \in 1 .. 3 : F[10 + i] = C[i]
    BY <1>9, <1>13, <1>17, <1>18
  <1>22. DOMAIN F = 1 .. 13 /\ F[2] = a2 /\ F[7] = a7
    BY <1>13, <1>19, <1>20
  <1>23. F[11] = c1 /\ F[12] = c2 /\ F[13] = c3
    BY <1>9, <1>21
  <1>24. Order = F
    BY <1>1, <1>2, <1>4, <1>5, <1>6, <1>11, <1>18, Zenon
  <1> QED BY <1>1, <1>2, <1>22, <1>23, <1>24, Zenon

LEMMA StepOfOrder ==
  ASSUME NEW x \in Apply
  PROVE  \E i \in DOMAIN Order : x = Order[i]
  BY DEF Apply, Range

LEMMA EntryIsStep ==
  ASSUME NEW i \in DOMAIN Order
  PROVE  Order[i] \in Apply
  BY DEF Apply, Range

LEMMA EarlierByPlace ==
  ASSUME NEW i \in DOMAIN Order, NEW j \in DOMAIN Order, i < j
  PROVE  Order[i] \in Earlier[Order[j]]
  BY EntryIsStep DEF Earlier

(* Of two steps one is applied before the other, so that at most one is due. *)
LEMMA OneIsDue ==
  ASSUME NEW s, plan[s] \subseteq Apply, NEW x \in Due(s), NEW y \in Due(s)
  PROVE  x = y
  <1>1. PICK i \in DOMAIN Order : x = Order[i] BY StepOfOrder DEF Due
  <1>2. PICK j \in DOMAIN Order : y = Order[j] BY StepOfOrder DEF Due
  <1>3. i \in Nat /\ j \in Nat BY OrderEntries
  <1>4. CASE i < j BY <1>4, <1>1, <1>2, EarlierByPlace DEF Due
  <1>5. CASE j < i BY <1>5, <1>1, <1>2, EarlierByPlace DEF Due
  <1> QED BY <1>1, <1>2, <1>3, <1>4, <1>5

(* What a step that is due is applied after.                                 *)
LEMMA DueAfter ==
  ASSUME NEW s
  PROVE  /\ Move \in Due(s) => Merge \notin plan[s]
         /\ Drop \in Due(s) => Merge \notin plan[s] /\ Move \notin plan[s]
         /\ <<"update", "ops">> \in Due(s) => CertMgr \notin plan[s]
  <1>1. /\ Merge \in Earlier[Move] /\ Merge \in Earlier[Drop]
        /\ Move \in Earlier[Drop] /\ CertMgr \in Earlier[<<"update", "ops">>]
    <2>1. \A i, j \in 1 .. 13 : i < j => Order[i] \in Earlier[Order[j]]
      BY OrderEntries, EarlierByPlace
    <2> QED BY <2>1, OrderEntries
  <1> QED BY <1>1 DEF Due

LEMMA MigrationSteps ==
  /\ {Merge, Move, Drop} \subseteq Apply
  /\ Range(MigrationOrder) = {Merge, Move, Drop}
  <1>1. {Merge, Move, Drop} \subseteq Apply
    BY OrderEntries, EntryIsStep
  <1>2. DOMAIN MigrationOrder = 1 .. 3
    BY DEF MigrationOrder
  <1>3. /\ MigrationOrder[1] = Merge /\ MigrationOrder[2] = Move
        /\ MigrationOrder[3] = Drop
    BY DEF MigrationOrder, Merge, Move, Drop
  <1> QED BY <1>1, <1>2, <1>3 DEF Range

-----------------------------------------------------------------------------
(* Type correctness *)

LEMMA FinishTypes ==
  ASSUME TypeOK, NEW s \in Session, Finish(s)
  PROVE  /\ pc' \in [Session -> {"idle", "analyze", "apply"}]
         /\ args' \in [Session -> Argument]
         /\ seen' \in [Session -> Reading]
         /\ plan' \in [Session -> SUBSET Apply]
         /\ rejected' \in [Session -> SUBSET Ext]
  <1>1. NoArguments \in Argument
    BY VersionAssumption DEF NoArguments, Argument
  <1>2. NothingSeen \in Reading
    BY DEF NothingSeen, Reading, Instance
  <1> QED BY <1>1, <1>2 DEF Finish, TypeOK

LEMMA SucceedsTypes ==
  ASSUME TypeOK, NEW s \in Session, Succeeds(s)
  PROVE  /\ UNCHANGED <<pc, args, seen, rejected>>
         /\ plan' \in [Session -> SUBSET Apply]
         /\ faults' \in 0 .. MaxFaults
  BY DEF Succeeds, Advance, NoFault, TypeOK

LEMMA FailsTypes ==
  ASSUME TypeOK, NEW s \in Session, Fails(s)
  PROVE  /\ pc' \in [Session -> {"idle", "analyze", "apply"}]
         /\ args' \in [Session -> Argument]
         /\ seen' \in [Session -> Reading]
         /\ plan' \in [Session -> SUBSET Apply]
         /\ rejected' \in [Session -> SUBSET Ext]
         /\ faults' \in 0 .. MaxFaults
  BY FinishTypes, BoundAssumption DEF Fails, Fault, TypeOK

LEMMA EndsTypes ==
  ASSUME TypeOK, NEW s \in Session, Succeeds(s) \/ Fails(s)
  PROVE  /\ pc' \in [Session -> {"idle", "analyze", "apply"}]
         /\ args' \in [Session -> Argument]
         /\ seen' \in [Session -> Reading]
         /\ plan' \in [Session -> SUBSET Apply]
         /\ rejected' \in [Session -> SUBSET Ext]
         /\ faults' \in 0 .. MaxFaults
  BY SucceedsTypes, FailsTypes DEF TypeOK

LEMMA ProvisionedTypes ==
  ASSUME TypeOK, NEW s \in Session, NEW e \in Ext, NEW up \in BOOLEAN,
         Provisioned(s, e, up)
  PROVE  version' \in [Ext -> 0 .. Latest] /\ failed' \subseteq Ext
  <1>1. args[s].pin \in [Ext -> 0 .. Latest]
    BY DEF TypeOK, Argument
  <1>2. Desired(args[s], e) \in 0 .. Latest
    BY <1>1, VersionAssumption DEF Desired, BuiltIn
  <1> QED BY <1>2 DEF Provisioned, TypeOK

LEMMA TypeInit == ASSUME Init PROVE TypeOK
  <1>1. NoArguments \in Argument
    BY VersionAssumption DEF NoArguments, Argument
  <1>2. NothingSeen \in Reading
    BY DEF NothingSeen, Reading, Instance
  <1>3. /\ version \in [Ext -> 0 .. Latest] /\ spc \subseteq Spc
        /\ registry \in BOOLEAN /\ template \in Template
    BY WorkloadAssumption DEF Init
  <1>4. uses \in [Sync -> Spc \cup {None}]
    BY DEF Init, Spc
  <1>5. objects \in [Spc -> SUBSET Sync]
    BY DEF Init
  <1>6. /\ work \in DOMAIN Workloads /\ instance \in Instance
        /\ failed \subseteq Ext
    BY WorkloadAssumption DEF Init
  <1>9. index \in View /\ overlooked \subseteq Sync
    <2>1. Current \in View
      BY <1>3, <1>4, <1>5 DEF Current, View
    <2> QED BY <2>1 DEF Init, Outdated
  <1>8. faults \in 0 .. MaxFaults
    BY BoundAssumption DEF Init
  <1>7. /\ pc \in [Session -> {"idle", "analyze", "apply"}]
        /\ args \in [Session -> Argument] /\ seen \in [Session -> Reading]
        /\ plan \in [Session -> SUBSET Apply] /\ rejected \in [Session -> SUBSET Ext]
    BY <1>1, <1>2 DEF Init
  <1> QED BY <1>3, <1>4, <1>5, <1>6, <1>7, <1>8, <1>9 DEF TypeOK

LEMMA TypeStep == ASSUME TypeOK, [Next /\ UNCHANGED work]_<<work, vars>> PROVE TypeOK'
  <1>1. CASE UNCHANGED <<work, vars>>
    BY <1>1 DEF vars, cloud, secrets, local, query, TypeOK
  <1>2. CASE Next /\ UNCHANGED work
    <2>1. ASSUME NEW s \in Session, Read(s) PROVE TypeOK'
      <3>1. Workloads[work].given[s] \subseteq Argument
        BY WorkloadAssumption DEF TypeOK
      <3>2. args' \in [Session -> Argument]
        BY <2>1, <3>1 DEF Read, TypeOK
      <3>3. [instance |-> instance, spc |-> index.spc, objects |-> index.objects,
             uses |-> index.uses] \in Reading
        BY DEF TypeOK, Reading, View
      <3>4. seen' \in [Session -> Reading]
        BY <2>1, <3>3 DEF Read, TypeOK
      <3>5. overlooked' \subseteq Sync
        BY <2>1 DEF Read, NoteOverlooked, TypeOK
      <3> QED BY <1>2, <2>1, <3>2, <3>4, <3>5 DEF Read, NoFault, cloud, secrets, query, TypeOK
    <2>2. ASSUME NEW s \in Session, Killed(s) PROVE TypeOK'
      BY <1>2, <2>2, FailsTypes DEF Killed, cloud, secrets, query, TypeOK
    <2>3. ASSUME NEW s \in Session, Analyze(s) PROVE TypeOK'
      <3>1. faults' \in 0 .. MaxFaults
        BY <2>3, BoundAssumption DEF Analyze, Fault, NoFault, TypeOK
      <3>2. CASE Finish(s)
        BY <1>2, <2>3, <3>1, <3>2, FinishTypes DEF Analyze, cloud, secrets, query, TypeOK
      <3>3. CASE ~Finish(s)
        <4>1. PICK steps \in SUBSET Apply : plan' = [plan EXCEPT ![s] = steps]
          BY <2>3, <3>3 DEF Analyze
        <4>2. /\ rejected' \in [Session -> SUBSET Ext]
              /\ pc' \in [Session -> {"idle", "analyze", "apply"}]
              /\ UNCHANGED <<args, seen>>
          BY <2>3, <3>3 DEF Analyze, TypeOK
        <4> QED BY <1>2, <2>3, <3>1, <4>1, <4>2 DEF Analyze, cloud, secrets, query, TypeOK
      <3> QED BY <3>2, <3>3
    <2>4. ASSUME NEW s \in Session, DeletePlatform(s) PROVE TypeOK'
      <3>1. version' \in [Ext -> 0 .. Latest]
        BY <2>4, VersionAssumption DEF DeletePlatform, TypeOK
      <3>2. failed' \subseteq Ext
        BY <2>4 DEF DeletePlatform, Ext, TypeOK
      <3>3. Succeeds(s) \/ Fails(s)
        BY <2>4 DEF DeletePlatform
      <3> QED BY <1>2, <2>4, <3>1, <3>2, <3>3, EndsTypes DEF DeletePlatform, secrets, query, TypeOK
    <2>5. ASSUME NEW s \in Session, CreateCertManager(s) PROVE TypeOK'
      <3>1. version' \in [Ext -> 0 .. Latest] /\ failed' \subseteq Ext
        BY <2>5, ProvisionedTypes DEF CreateCertManager, Ext, TypeOK
      <3> QED BY <1>2, <2>5, <3>1, EndsTypes DEF CreateCertManager, secrets, query, TypeOK
    <2>6. ASSUME NEW s \in Session, NEW e \in Ext, UpdateExtension(s, e) PROVE TypeOK'
      <3>1. version' \in [Ext -> 0 .. Latest] /\ failed' \subseteq Ext
        BY <2>6, ProvisionedTypes DEF UpdateExtension, TypeOK
      <3>2. \/ NoFault /\ Finish(s)
            \/ Succeeds(s) \/ Fails(s)
        BY <2>6 DEF UpdateExtension
      <3>3. CASE NoFault /\ Finish(s)
        BY <1>2, <2>6, <3>1, <3>3, FinishTypes DEF UpdateExtension, NoFault, secrets, query, TypeOK
      <3>4. CASE Succeeds(s) \/ Fails(s)
        BY <1>2, <2>6, <3>1, <3>4, EndsTypes DEF UpdateExtension, secrets, query, TypeOK
      <3> QED BY <3>2, <3>3, <3>4
    <2>7. ASSUME NEW s \in Session, UpdateInstance(s) PROVE TypeOK'
      <3>1. [ns |-> args[s].ns \/ seen[s].instance.ns,
             spc |-> "default" \in seen[s].spc \/ seen[s].instance.spc] \in Instance
        BY DEF TypeOK, Argument, Reading, Instance
      <3>2. instance' \in Instance
        BY <2>7, <3>1 DEF UpdateInstance, TypeOK
      <3> QED BY <1>2, <2>7, <3>2, EndsTypes DEF UpdateInstance, secrets, query, TypeOK
    <2>8. ASSUME NEW s \in Session, CreateRegistry(s) PROVE TypeOK'
      BY <1>2, <2>8, EndsTypes DEF CreateRegistry, secrets, query, TypeOK
    <2>9. ASSUME NEW s \in Session, CreateTemplate(s) PROVE TypeOK'
      BY <1>2, <2>9, EndsTypes DEF CreateTemplate, Template, secrets, query, TypeOK
    <2>10. ASSUME NEW s \in Session, MergeSpc(s) PROVE TypeOK'
      <3>1. Merged(s) \subseteq Sync
        BY DEF TypeOK, Reading, Merged, Spc
      <3>2. objects' \in [Spc -> SUBSET Sync]
        BY <2>10, <3>1 DEF MergeSpc, query, TypeOK
      <3> QED BY <1>2, <2>10, <3>2, EndsTypes DEF MergeSpc, query, TypeOK
    <2>11. ASSUME NEW s \in Session, Repoint(s) PROVE TypeOK'
      <3>1. uses' \in [Sync -> Spc \cup {None}]
        BY <2>11 DEF Repoint, TypeOK, Spc
      <3>2. CASE Succeeds(s) \/ Fails(s)
        BY <1>2, <2>11, <3>1, <3>2, EndsTypes DEF Repoint, query, TypeOK
      <3>3. CASE ~(Succeeds(s) \/ Fails(s))
        <4>1. PICK y \in Sync : seen' = [seen EXCEPT ![s].uses[y] = "default"]
          BY <2>11, <3>3 DEF Repoint
        <4>2. [seen[s] EXCEPT !.uses[y] = "default"] \in Reading
          <5>1. seen[s] \in Reading
            BY DEF TypeOK
          <5>2. seen[s].uses \in [Sync -> Spc \cup {None}]
            BY <5>1 DEF Reading
          <5>3. [seen[s].uses EXCEPT ![y] = "default"] \in [Sync -> Spc \cup {None}]
            BY <5>2 DEF Spc
          <5>4. [seen[s] EXCEPT !.uses = [seen[s].uses EXCEPT ![y] = "default"]] \in Reading
            BY <5>1, <5>3 DEF Reading
          <5> QED BY <5>1, <5>4 DEF Reading
        <4>3. seen' \in [Session -> Reading]
          BY <4>1, <4>2 DEF TypeOK
        <4> QED BY <1>2, <2>11, <3>1, <3>3, <4>3 DEF Repoint, NoFault, query, TypeOK
      <3> QED BY <3>2, <3>3
    <2>12. ASSUME NEW s \in Session, DeleteSpc(s) PROVE TypeOK'
      <3>1. objects' \in [Spc -> SUBSET Sync] /\ spc' \subseteq Spc
        BY <2>12 DEF DeleteSpc, query, TypeOK
      <3> QED BY <1>2, <2>12, <3>1, EndsTypes DEF DeleteSpc, query, TypeOK
    <2>13. ASSUME NEW s \in Session, Done(s) PROVE TypeOK'
      BY <1>2, <2>13, FinishTypes DEF Done, NoFault, cloud, secrets, query, TypeOK
    <2>14. ASSUME TemplateSettles PROVE TypeOK'
      BY <1>2, <2>14 DEF TemplateSettles, Template, secrets, local, query, TypeOK
    <2>15. ASSUME NEW y \in Sync, SetSecret(y) PROVE TypeOK'
      <3>1. overlooked' \subseteq Sync
        BY <2>15 DEF SetSecret, NoteOverlooked, TypeOK
      <3> QED BY <1>2, <2>15, <3>1 DEF SetSecret, local, Spc, TypeOK
    <2>16. ASSUME NEW c \in Spc, ReindexClass(c) PROVE TypeOK'
      <3>1. index' \in View
        BY <2>16 DEF ReindexClass, View, TypeOK
      <3> QED BY <1>2, <2>16, <3>1 DEF ReindexClass, cloud, secrets, local, query, TypeOK
    <2>17. ASSUME NEW y \in Sync, ReindexSync(y) PROVE TypeOK'
      <3>1. index' \in View
        BY <2>17 DEF ReindexSync, View, TypeOK
      <3> QED BY <1>2, <2>17, <3>1 DEF ReindexSync, cloud, secrets, local, query, TypeOK
    <2> QED BY <1>2, <2>1, <2>2, <2>3, <2>4, <2>5, <2>6, <2>7, <2>8, <2>9, <2>10,
               <2>11, <2>12, <2>13, <2>14, <2>15, <2>16, <2>17 DEF Next, Step
  <1> QED BY <1>1, <1>2

(* Every variable keeps its type: in particular what a process has left to   *)
(* apply, and what it read, whatever failed and was run again                *)
(* (apply_upgrades, SecretSyncMigrationManager.__init__).                    *)
THEOREM UpgradeTypeCorrect == Spec => []TypeOK
  <1>1. Init => TypeOK BY TypeInit
  <1>2. TypeOK /\ [Next /\ UNCHANGED work]_<<work, vars>> => TypeOK' BY TypeStep
  <1> QED BY <1>1, <1>2, PTL DEF Spec

-----------------------------------------------------------------------------
(* The migration loses no secret *)

Held ==
  \A y \in Sync \ overlooked :
     uses[y] # None => uses[y] \in spc /\ y \in objects[uses[y]]

(* No one deletes the default class, no one ends the use of a secret: what   *)
(* the Resource Graph shows of them is still there,                          *)
Trailing ==
  /\ "default" \in index.spc => "default" \in spc
  /\ \A y \in Sync : index.uses[y] # None => uses[y] # None

(* and what a process read of them.                                          *)
Remembered(s) ==
  /\ "default" \in seen[s].spc => "default" \in spc
  /\ \A y \in Sync : seen[s].uses[y] # None => uses[y] # None

(* What a process overlooks is known to be overlooked.                       *)
Covered(s) == \A y \in Sync \ overlooked : ~Overlooks(s, y)

(* Without the old class there is nothing to migrate.                        *)
Planned(s) ==
  pc[s] = "apply" /\ plan[s] \cap {Merge, Move, Drop} # {} => "opcua" \in seen[s].spc

(* Between the merge and the move the default class lists every secret in    *)
(* use, between the move and the deletion nothing uses the old class.        *)
Prepared(s) ==
  pc[s] = "apply" /\ ~Unmigrated(s) =>
     /\ Move \in plan[s] /\ Merge \notin plan[s] =>
          \A y \in Sync \ overlooked : uses[y] # None => y \in objects["default"]
     /\ Drop \in plan[s] /\ Move \notin plan[s] =>
          \A y \in Sync \ overlooked : uses[y] # "opcua"

Consistent(s) == Remembered(s) /\ Covered(s) /\ Planned(s) /\ Prepared(s)

Migrating == Held /\ Trailing /\ \A s \in Session : Consistent(s)

(* A step that succeeds is done, and only that.                              *)
LEMMA Steps ==
  ASSUME TypeOK, NEW s \in Session, NEW x \in Due(s), Succeeds(s)
  PROVE  /\ plan' = [plan EXCEPT ![s] = @ \ {x}]
         /\ UNCHANGED <<pc, args, seen, rejected>>
  <1>1. plan[s] \subseteq Apply
    BY DEF TypeOK
  <1>2. Due(s) = {x}
    BY <1>1, OneIsDue
  <1> QED BY <1>2 DEF Succeeds, Advance

LEMMA Finishes ==
  ASSUME TypeOK, NEW s \in Session, Finish(s)
  PROVE  /\ pc'[s] = "idle" /\ args'[s] = NoArguments /\ seen'[s] = NothingSeen
         /\ plan'[s] = {} /\ rejected'[s] = {}
         /\ \A t \in Session \ {s} :
               /\ pc'[t] = pc[t] /\ args'[t] = args[t] /\ seen'[t] = seen[t]
               /\ plan'[t] = plan[t] /\ rejected'[t] = rejected[t]
  BY DEF Finish, TypeOK

(* A process that ends has nothing left to prepare.                          *)
LEMMA EndsMigrating ==
  ASSUME TypeOK, NEW s \in Session, Finish(s)
  PROVE  Consistent(s)'
  <1>1. pc'[s] = "idle" /\ seen'[s] = NothingSeen
    BY Finishes
  <1>2. Remembered(s)'
    BY <1>1 DEF Remembered, NothingSeen
  <1>3. Covered(s)'
    BY <1>1 DEF Covered, Overlooks, NothingSeen, Spc
  <1> QED BY <1>1, <1>2, <1>3 DEF Consistent, Planned, Prepared

(* What a process overlooks depends on what it read and on what uses what.   *)
LEMMA SameCovered ==
  ASSUME NEW s, Covered(s), UNCHANGED <<seen[s], uses, overlooked>>
  PROVE  Covered(s)'
  BY DEF Covered, Overlooks, Merged

(* A process that does not step, while none of the secrets is written.       *)
LEMMA SameConsistent ==
  ASSUME NEW s, Consistent(s), UNCHANGED <<pc[s], seen[s], secrets, overlooked>>,
         pc[s] = "apply" =>
            \A m \in {Merge, Move, Drop} : m \in plan'[s] <=> m \in plan[s]
  PROVE  Consistent(s)'
  <1>1. Covered(s)'
    BY SameCovered DEF Consistent, secrets
  <1>2. Remembered(s)'
    BY DEF Consistent, Remembered, secrets
  <1>3. Planned(s)'
    BY DEF Consistent, Planned
  <1>4. Prepared(s)'
    BY DEF Consistent, Prepared, Unmigrated, secrets
  <1> QED BY <1>1, <1>2, <1>3, <1>4 DEF Consistent

(* The steps that concern neither a class nor a SecretSync.                  *)
LEMMA Elsewhere ==
  ASSUME TypeOK, Migrating, NEW s \in Session, UNCHANGED <<secrets, query>>,
         \/ UNCHANGED <<pc, seen, plan>>
         \/ Finish(s)
         \/ \E x \in Due(s) : Succeeds(s) /\ x \notin {Merge, Move, Drop}
  PROVE  Migrating'
  <1>1. Held' /\ Trailing'
    BY DEF Migrating, Held, Trailing, secrets, query
  <1>2. ASSUME NEW t \in Session PROVE Consistent(t)'
    <2>1. CASE UNCHANGED <<pc, seen, plan>>
      BY <2>1, SameConsistent DEF Migrating, query
    <2>2. CASE Finish(s)
      <3>1. CASE t = s
        BY <2>2, <3>1, EndsMigrating
      <3>2. CASE t # s
        <4>1. UNCHANGED <<pc[t], seen[t], plan[t]>>
          BY <2>2, <3>2, Finishes
        <4> QED BY <4>1, SameConsistent DEF Migrating, query
      <3> QED BY <3>1, <3>2
    <2>3. ASSUME NEW x \in Due(s), Succeeds(s), x \notin {Merge, Move, Drop}
          PROVE  Consistent(t)'
      <3>1. plan' = [plan EXCEPT ![s] = @ \ {x}] /\ UNCHANGED <<pc, seen>>
        BY <2>3, Steps
      <3>2. \A m \in {Merge, Move, Drop} : m \in plan'[t] <=> m \in plan[t]
        BY <2>3, <3>1 DEF TypeOK
      <3> QED BY <3>1, <3>2, SameConsistent DEF Migrating, query
    <2> QED BY <2>1, <2>2, <2>3
  <1> QED BY <1>1, <1>2 DEF Migrating

LEMMA MigratingInit == Init => Migrating
  <1> SUFFICES ASSUME Init PROVE Migrating
    OBVIOUS
  <1>1. Held
    <2>1. ASSUME NEW y \in Sync, uses[y] # None PROVE uses[y] \in spc /\ y \in objects[uses[y]]
      <3>1. uses[y] \in spc /\ uses[y] \in Spc
        BY <2>1 DEF Init, Spc
      <3> QED BY <3>1 DEF Init
    <2> QED BY <2>1 DEF Held
  <1>2. Trailing
    <2>1. CASE index = Current
      BY <2>1 DEF Trailing, Current
    <2>2. CASE index \in Outdated
      BY <2>2 DEF Trailing, Outdated
    <2> QED BY <2>1, <2>2 DEF Init
  <1>3. ASSUME NEW s \in Session PROVE Consistent(s)
    <2>1. seen[s] = NothingSeen /\ pc[s] = "idle"
      BY DEF Init
    <2>2. Remembered(s) /\ Covered(s)
      BY <2>1 DEF Remembered, Covered, Overlooks, NothingSeen, Spc
    <2> QED BY <2>1, <2>2 DEF Consistent, Planned, Prepared
  <1> QED BY <1>1, <1>2, <1>3 DEF Migrating

(* What a step notes as overlooked keeps every process covered.              *)
LEMMA NotesCovered ==
  ASSUME NoteOverlooked
  PROVE  overlooked \subseteq overlooked' /\ \A s \in Session : Covered(s)'
  BY DEF NoteOverlooked, Covered

LEMMA ReadMigrating ==
  ASSUME TypeOK, Migrating, NEW s \in Session, Read(s)
  PROVE  Migrating'
  <1>1. /\ seen'[s].spc = index.spc /\ seen'[s].uses = index.uses
        /\ pc'[s] = "analyze"
        /\ \A t \in Session \ {s} : seen'[t] = seen[t] /\ pc'[t] = pc[t]
        /\ UNCHANGED <<spc, objects, uses, index, plan>>
    BY DEF Read, cloud, secrets, TypeOK
  <1>2. overlooked \subseteq overlooked' /\ \A t \in Session : Covered(t)'
    BY NotesCovered DEF Read
  <1>3. Held' /\ Trailing'
    BY <1>1, <1>2 DEF Migrating, Held, Trailing
  <1>4. Remembered(s)' /\ Planned(s)' /\ Prepared(s)'
    BY <1>1 DEF Migrating, Trailing, Remembered, Planned, Prepared
  <1>5. ASSUME NEW t \in Session \ {s} PROVE Remembered(t)' /\ Planned(t)' /\ Prepared(t)'
    <2>1. Consistent(t)
      BY DEF Migrating
    <2>2. Remembered(t)' /\ Planned(t)'
      BY <1>1, <2>1 DEF Consistent, Remembered, Planned
    <2>3. Prepared(t)'
      BY <1>1, <1>2, <2>1 DEF Consistent, Prepared, Unmigrated
    <2> QED BY <2>2, <2>3
  <1> QED BY <1>2, <1>3, <1>4, <1>5 DEF Migrating, Consistent

LEMMA ReindexMigrating ==
  ASSUME TypeOK, Migrating,
         (\E c \in Spc : ReindexClass(c)) \/ (\E y \in Sync : ReindexSync(y))
  PROVE  Migrating'
  <1>1. UNCHANGED <<pc, seen, plan, secrets, overlooked>>
    BY DEF ReindexClass, ReindexSync, cloud, local
  <1>2. Held' /\ \A s \in Session : Consistent(s)'
    BY <1>1, SameConsistent DEF Migrating, Held, secrets
  <1>3. ASSUME "default" \in index'.spc PROVE "default" \in spc
    <2>1. ASSUME NEW c \in Spc, ReindexClass(c) PROVE "default" \in spc
      <3>1. index'.spc = (index.spc \ {c}) \cup ({c} \cap spc)
        BY <2>1 DEF ReindexClass, TypeOK, View
      <3> QED BY <1>3, <3>1 DEF Migrating, Trailing
    <2>2. ASSUME NEW y \in Sync, ReindexSync(y) PROVE "default" \in spc
      <3>1. index'.spc = index.spc
        BY <2>2 DEF ReindexSync, TypeOK, View
      <3> QED BY <1>3, <3>1 DEF Migrating, Trailing
    <2> QED BY <2>1, <2>2
  <1>4. ASSUME NEW x \in Sync, index'.uses[x] # None PROVE uses[x] # None
    <2>1. ASSUME NEW c \in Spc, ReindexClass(c) PROVE uses[x] # None
      <3>1. index'.uses = index.uses
        BY <2>1 DEF ReindexClass, TypeOK, View
      <3> QED BY <1>4, <3>1 DEF Migrating, Trailing
    <2>2. ASSUME NEW y \in Sync, ReindexSync(y) PROVE uses[x] # None
      <3>1. index'.uses[x] = IF x = y THEN uses[y] ELSE index.uses[x]
        BY <2>2 DEF ReindexSync, TypeOK, View
      <3> QED BY <1>4, <3>1 DEF Migrating, Trailing
    <2> QED BY <2>1, <2>2
  <1> QED BY <1>1, <1>2, <1>3, <1>4 DEF Migrating, Trailing, secrets

(* The three steps of a migration are planned together.                      *)
LEMMA Together ==
  ASSUME NEW s, NEW a, NEW m \in {Merge, Move, Drop}
  PROVE  Needed(s, a, m) <=> Migrates(a) /\ "opcua" \in seen[s].spc
  BY MigrationSteps DEF Needed, Merge, Move, Drop, Ext

LEMMA AnalyzeMigrating ==
  ASSUME TypeOK, Migrating, NEW s \in Session, Analyze(s)
  PROVE  Migrating'
  <1>1. UNCHANGED <<secrets, query>>
    BY DEF Analyze, cloud
  <1>2. CASE Finish(s)
    BY <1>1, <1>2, Elsewhere
  <1>3. CASE ~Finish(s)
    <2>1. PICK unread \in SUBSET {<<"create", "registry">>, <<"create", "template">>} :
             plan' = [plan EXCEPT ![s] = {x \in Apply \ unread : Needed(s, args[s], x)}]
      BY <1>3 DEF Analyze
    <2>2. pc' = [pc EXCEPT ![s] = "apply"] /\ pc[s] = "analyze" /\ UNCHANGED seen
      BY <1>3 DEF Analyze
    <2>3. {Merge, Move, Drop} \subseteq Apply \ unread
      BY MigrationSteps DEF Merge, Move, Drop
    <2>4. /\ Move \in plan'[s] => Merge \in plan'[s]
          /\ Drop \in plan'[s] => Move \in plan'[s]
          /\ plan'[s] \cap {Merge, Move, Drop} # {} => "opcua" \in seen[s].spc
      BY <2>1, <2>3, Together DEF TypeOK
    <2>5. Prepared(s)' /\ Planned(s)'
      BY <2>2, <2>4 DEF Prepared, Planned
    <2>6. Remembered(s)' /\ Covered(s)'
      BY <1>1, <2>2, SameCovered DEF Migrating, Consistent, Remembered, secrets, query
    <2>7. ASSUME NEW t \in Session \ {s} PROVE Consistent(t)'
      <3>1. pc'[t] = pc[t] /\ plan'[t] = plan[t]
        BY <2>1, <2>2 DEF TypeOK
      <3> QED BY <1>1, <2>2, <3>1, SameConsistent DEF Migrating, query
    <2>8. Held' /\ Trailing'
      BY <1>1 DEF Migrating, Held, Trailing, secrets, query
    <2> QED BY <2>5, <2>6, <2>7, <2>8 DEF Migrating, Consistent
  <1> QED BY <1>2, <1>3

LEMMA NotBoth ==
  ASSUME TypeOK, NEW s
  PROVE  ~(Succeeds(s) /\ Fails(s))
  BY BoundAssumption DEF Succeeds, Fails, Fault, NoFault, TypeOK

(* A merge lists every secret in use but those that are overlooked.          *)
LEMMA MergedLists ==
  ASSUME TypeOK, NEW s, Consistent(s), pc[s] = "apply", ~Unmigrated(s),
         plan[s] \cap {Merge, Move, Drop} # {},
         NEW y \in Sync \ overlooked, uses[y] # None
  PROVE  /\ y \in Merged(s)
         /\ uses[y] = "opcua" => seen[s].uses[y] = "opcua"
  <1>1. Spc \subseteq seen[s].spc
    BY DEF Consistent, Planned, Unmigrated, Spc
  <1> QED BY <1>1 DEF Consistent, Covered, Overlooks

LEMMA MergeMigrating ==
  ASSUME TypeOK, Migrating, NEW s \in Session, MergeSpc(s)
  PROVE  Migrating'
  <1>1. /\ pc[s] = "apply" /\ Merge \in Due(s) /\ Merge \in plan[s]
        /\ UNCHANGED <<spc, uses, query>>
    BY DEF MergeSpc, At, Due, Merge
  <1>2. Held /\ Trailing /\ \A t \in Session : Consistent(t)
    BY DEF Migrating
  <1>3. \/ UNCHANGED objects
        \/ ~Unmigrated(s) /\ objects' = [objects EXCEPT !["default"] = Merged(s)]
    BY DEF MergeSpc
  <1>4. ASSUME ~Unmigrated(s), NEW y \in Sync \ overlooked, uses[y] # None
        PROVE  y \in Merged(s)
    BY <1>1, <1>2, <1>4, MergedLists
  <1>5. ASSUME NEW y \in Sync \ overlooked, uses[y] # None, NEW c \in Spc, y \in objects[c]
        PROVE  y \in objects'[c]
    BY <1>3, <1>4, <1>5 DEF TypeOK
  <1>6. Held'
    <2>1. ASSUME NEW y \in Sync \ overlooked, uses[y] # None
          PROVE  uses[y] \in spc /\ y \in objects'[uses[y]]
      <3>1. uses[y] \in spc /\ uses[y] \in Spc /\ y \in objects[uses[y]]
        BY <1>2, <2>1 DEF Held, TypeOK
      <3> QED BY <1>5, <2>1, <3>1
    <2> QED BY <1>1, <2>1 DEF Held, query
  <1>7. Trailing'
    BY <1>1, <1>2 DEF Trailing, query
  <1>8. ASSUME NEW t \in Session, UNCHANGED <<pc[t], seen[t], plan[t]>>
        PROVE  Consistent(t)'
    <2>1. Covered(t)'
      BY <1>1, <1>2, <1>8, SameCovered DEF Consistent, query
    <2>2. Remembered(t)' /\ Planned(t)'
      BY <1>1, <1>2, <1>8 DEF Consistent, Remembered, Planned
    <2>3. Prepared(t)'
      <3>1. Prepared(t) /\ "default" \in Spc
        BY <1>2 DEF Consistent, Spc
      <3> QED BY <1>1, <1>5, <1>8, <3>1 DEF Prepared, Unmigrated, query
    <2> QED BY <2>1, <2>2, <2>3 DEF Consistent
  <1>9. CASE Finish(s)
    <2>1. \A t \in Session \ {s} : UNCHANGED <<pc[t], seen[t], plan[t]>>
      BY <1>9, Finishes
    <2> QED BY <1>6, <1>7, <1>8, <1>9, <2>1, EndsMigrating DEF Migrating
  <1>10. CASE Succeeds(s)
    <2>1. plan' = [plan EXCEPT ![s] = @ \ {Merge}] /\ UNCHANGED <<pc, seen>>
      BY <1>1, <1>10, Steps
    <2>2. \A t \in Session \ {s} : UNCHANGED <<pc[t], seen[t], plan[t]>>
      BY <2>1 DEF TypeOK
    <2>3. plan'[s] = plan[s] \ {Merge}
      BY <2>1 DEF TypeOK
    <2>4. Remembered(s)' /\ Planned(s)'
      BY <1>1, <1>2, <2>1, <2>3 DEF Consistent, Remembered, Planned
    <2>5. Covered(s)'
      BY <1>1, <1>2, <2>1, SameCovered DEF Consistent, query
    <2>6. Prepared(s)'
      <3>1. Move # Merge /\ Drop # Merge
        BY DEF Merge, Move, Drop
      <3>2. Unmigrated(s)' <=> Unmigrated(s)
        BY <2>1 DEF Unmigrated
      <3>3. CASE Unmigrated(s)
        BY <3>2, <3>3 DEF Prepared
      <3>4. CASE ~Unmigrated(s)
        <4>1. objects' = [objects EXCEPT !["default"] = Merged(s)]
          BY <1>10, <3>4, NotBoth DEF MergeSpc
        <4>2. objects'["default"] = Merged(s)
          BY <4>1 DEF TypeOK, Spc
        <4>3. ASSUME NEW y \in Sync \ overlooked, uses[y] # None
              PROVE  y \in objects'["default"]
          BY <1>4, <3>4, <4>2, <4>3
        <4>4. Drop \in plan'[s] /\ Move \notin plan'[s] =>
                \A y \in Sync \ overlooked : uses[y] # "opcua"
          BY <1>1, <1>2, <2>3, <3>1, <3>4 DEF Consistent, Prepared
        <4> QED BY <1>1, <4>3, <4>4 DEF Prepared, query
      <3> QED BY <3>3, <3>4
    <2> QED BY <1>6, <1>7, <1>8, <2>2, <2>4, <2>5, <2>6 DEF Migrating, Consistent
  <1> QED BY <1>9, <1>10 DEF MergeSpc, Fails

(* A SecretSync that a process read, and moves now.                          *)
LEMMA MovedConsistent ==
  ASSUME TypeOK, NEW t, Consistent(t), NEW y \in Sync, uses[y] # None,
         \A x \in Sync : uses'[x] = IF x = y THEN "default" ELSE uses[x],
         UNCHANGED <<spc, objects, overlooked, pc[t], seen[t], plan[t]>>
  PROVE  Consistent(t)'
  <1>1. "default" # None
    BY SyncAssumption DEF Spc
  <1>2. ASSUME NEW x \in Sync
        PROVE  /\ uses'[x] # None <=> uses[x] # None
               /\ uses'[x] = "opcua" => uses[x] = "opcua"
    BY <1>1
  <1>3. Remembered(t)' /\ Planned(t)'
    BY <1>2 DEF Consistent, Remembered, Planned
  <1>4. Covered(t)'
    BY <1>2 DEF Consistent, Covered, Overlooks, Merged
  <1>5. Prepared(t)'
    BY <1>2 DEF Consistent, Prepared, Unmigrated
  <1> QED BY <1>3, <1>4, <1>5 DEF Consistent

LEMMA RepointMigrating ==
  ASSUME TypeOK, Migrating, NEW s \in Session, Repoint(s)
  PROVE  Migrating'
  <1>1. /\ pc[s] = "apply" /\ Move \in Due(s) /\ Move \in plan[s] /\ Merge \notin plan[s]
        /\ UNCHANGED <<spc, objects, query>>
    BY DueAfter DEF Repoint, At, Due, Move
  <1>2. Held /\ Trailing /\ \A t \in Session : Consistent(t)
    BY DEF Migrating
  <1>3. CASE UNCHANGED uses /\ Succeeds(s)
    <2>1. plan' = [plan EXCEPT ![s] = @ \ {Move}] /\ UNCHANGED <<pc, seen>>
      BY <1>1, <1>3, Steps
    <2>2. ASSUME NEW t \in Session \ {s} PROVE Consistent(t)'
      <3>1. plan'[t] = plan[t]
        BY <2>1 DEF TypeOK
      <3> QED BY <1>1, <1>2, <1>3, <2>1, <3>1, SameConsistent DEF secrets, query
    <2>3. plan'[s] = plan[s] \ {Move} /\ plan' # plan
      BY <1>1, <2>1 DEF TypeOK
    <2>4. Remembered(s)' /\ Planned(s)'
      BY <1>1, <1>2, <1>3, <2>1, <2>3 DEF Consistent, Remembered, Planned
    <2>5. Covered(s)'
      BY <1>1, <1>2, <1>3, <2>1, SameCovered DEF Consistent, query
    <2>6. Prepared(s)'
      <3>1. CASE Unmigrated(s)
        BY <2>1, <3>1 DEF Prepared, Unmigrated
      <3>2. CASE ~Unmigrated(s)
        <4>1. {y \in Sync : seen[s].uses[y] = "opcua"} = {}
          BY <1>3, <2>3, <3>2, NotBoth DEF Repoint
        <4>2. ASSUME NEW y \in Sync \ overlooked, uses[y] = "opcua" PROVE FALSE
          <5>1. uses[y] # None
            BY <4>2, SyncAssumption DEF Spc
          <5>2. seen[s].uses[y] = "opcua"
            BY <1>1, <1>2, <3>2, <4>2, <5>1, MergedLists
          <5> QED BY <4>1, <5>2
        <4> QED BY <1>1, <1>3, <2>3, <4>2 DEF Prepared, query
      <3> QED BY <3>1, <3>2
    <2>7. Held' /\ Trailing'
      BY <1>1, <1>2, <1>3 DEF Held, Trailing, query
    <2> QED BY <2>2, <2>4, <2>5, <2>6, <2>7 DEF Migrating, Consistent
  <1>4. CASE UNCHANGED uses /\ Fails(s)
    BY <1>1, <1>4, Elsewhere DEF secrets, Fails
  <1>5. ASSUME NEW y \in Sync, seen[s].uses[y] = "opcua", ~Unmigrated(s),
               uses' = [uses EXCEPT ![y] = "default"],
               \/ Fails(s)
               \/ /\ seen' = [seen EXCEPT ![s].uses[y] = "default"]
                  /\ UNCHANGED <<pc, plan>>
        PROVE  Migrating'
    <2>1. uses[y] # None /\ "default" \in spc
      BY <1>2, <1>5, SyncAssumption DEF Consistent, Remembered, Unmigrated, Spc
    <2>2. \A x \in Sync : uses'[x] = IF x = y THEN "default" ELSE uses[x]
      BY <1>5 DEF TypeOK
    <2>3. "default" # None
      BY SyncAssumption DEF Spc
    <2>4. y \in overlooked \/ y \in objects["default"]
      BY <1>1, <1>2, <1>5, <2>1 DEF Consistent, Prepared
    <2>5. Held' /\ Trailing'
      <3>1. Held'
        BY <1>1, <1>2, <2>1, <2>2, <2>4 DEF Held, query
      <3> QED BY <1>1, <1>2, <2>2, <2>3, <3>1 DEF Trailing, query
    <2>6. ASSUME NEW t \in Session, UNCHANGED <<pc[t], seen[t], plan[t]>>
          PROVE  Consistent(t)'
      BY <1>1, <1>2, <2>1, <2>2, <2>6, MovedConsistent DEF query
    <2>7. CASE Fails(s)
      <3>1. \A t \in Session \ {s} : UNCHANGED <<pc[t], seen[t], plan[t]>>
        BY <2>7, Finishes DEF Fails
      <3> QED BY <2>5, <2>6, <2>7, <3>1, EndsMigrating DEF Migrating, Fails
    <2>8. CASE seen' = [seen EXCEPT ![s].uses[y] = "default"] /\ UNCHANGED <<pc, plan>>
      <3>1. /\ seen[s] \in Reading
            /\ seen'[s] = [seen[s] EXCEPT !.uses[y] = "default"]
            /\ \A t \in Session \ {s} : seen'[t] = seen[t]
        BY <2>8 DEF TypeOK
      <3>2. /\ seen'[s].spc = seen[s].spc /\ seen'[s].objects = seen[s].objects
            /\ \A x \in Sync : seen'[s].uses[x] = IF x = y THEN "default" ELSE seen[s].uses[x]
        BY <3>1 DEF Reading
      <3>3. Remembered(s)' /\ Planned(s)'
        BY <1>1, <1>2, <2>2, <2>3, <2>8, <3>2 DEF Consistent, Remembered, Planned
      <3>4. Covered(s)'
        <4>1. Merged(s)' = Merged(s)
          BY <3>2 DEF Merged
        <4>2. ASSUME NEW x \in Sync \ overlooked, Overlooks(s, x)' PROVE FALSE
          <5>1. ~Overlooks(s, x)
            BY <1>2, <4>2 DEF Consistent, Covered
          <5>2. CASE x = y
            BY <2>1, <2>2, <3>2, <4>1, <4>2, <5>1, <5>2 DEF Overlooks
          <5>3. CASE x # y
            BY <2>2, <3>2, <4>1, <4>2, <5>1, <5>3 DEF Overlooks
          <5> QED BY <5>2, <5>3
        <4> QED BY <1>1, <4>2 DEF Covered, query
      <3>5. Prepared(s)'
        <4>1. Prepared(s) /\ Unmigrated(s)' = Unmigrated(s)
          BY <1>2, <3>2 DEF Consistent, Unmigrated
        <4> QED BY <1>1, <2>1, <2>2, <2>8, <4>1 DEF Prepared, query
      <3> QED BY <2>5, <2>6, <2>8, <3>1, <3>3, <3>4, <3>5 DEF Migrating, Consistent
    <2> QED BY <1>5, <2>7, <2>8
  <1> QED BY <1>3, <1>4, <1>5 DEF Repoint

LEMMA DeleteMigrating ==
  ASSUME TypeOK, Migrating, NEW s \in Session, DeleteSpc(s)
  PROVE  Migrating'
  <1>1. /\ pc[s] = "apply" /\ Drop \in Due(s) /\ Drop \in plan[s]
        /\ Merge \notin plan[s] /\ Move \notin plan[s]
        /\ UNCHANGED <<uses, query>>
    BY DueAfter DEF DeleteSpc, At, Due, Drop
  <1>2. Held /\ Trailing /\ \A t \in Session : Consistent(t)
    BY DEF Migrating
  <1>3. \/ UNCHANGED <<spc, objects>>
        \/ /\ ~Unmigrated(s)
           /\ spc' = spc \ {"opcua"} /\ objects' = [objects EXCEPT !["opcua"] = {}]
    BY DEF DeleteSpc
  <1>4. ~UNCHANGED <<spc, objects>> => \A y \in Sync \ overlooked : uses[y] # "opcua"
    BY <1>1, <1>2, <1>3 DEF Consistent, Prepared
  <1>5. "default" \in spc' <=> "default" \in spc
    BY <1>3
  <1>6. objects'["default"] = objects["default"]
    BY <1>3 DEF TypeOK, Spc
  <1>7. Held'
    <2>1. ASSUME NEW y \in Sync \ overlooked, uses[y] # None
          PROVE  uses[y] \in spc' /\ y \in objects'[uses[y]]
      <3>1. CASE UNCHANGED <<spc, objects>>
        BY <1>2, <2>1, <3>1 DEF Held
      <3>2. CASE ~UNCHANGED <<spc, objects>>
        <4>1. uses[y] = "default"
          BY <1>4, <2>1, <3>2 DEF TypeOK, Spc
        <4> QED BY <1>2, <1>5, <1>6, <2>1, <4>1 DEF Held
      <3> QED BY <3>1, <3>2
    <2> QED BY <1>1, <2>1 DEF Held, query
  <1>8. Trailing'
    BY <1>1, <1>2, <1>5 DEF Trailing, query
  <1>9. ASSUME NEW t \in Session, UNCHANGED <<pc[t], seen[t]>>,
               \A m \in {Merge, Move} : m \in plan'[t] <=> m \in plan[t],
               Drop \in plan'[t] => Drop \in plan[t]
        PROVE  Consistent(t)'
    <2>1. Covered(t)'
      BY <1>1, <1>2, <1>9, SameCovered DEF Consistent, query
    <2>2. Remembered(t)' /\ Planned(t)'
      BY <1>1, <1>2, <1>5, <1>9 DEF Consistent, Remembered, Planned
    <2>3. Prepared(t)'
      <3>1. Prepared(t)
        BY <1>2 DEF Consistent
      <3> QED BY <1>1, <1>6, <1>9, <3>1 DEF Prepared, Unmigrated, query
    <2> QED BY <2>1, <2>2, <2>3 DEF Consistent
  <1>10. CASE Succeeds(s)
    <2>1. plan' = [plan EXCEPT ![s] = @ \ {Drop}] /\ UNCHANGED <<pc, seen>>
      BY <1>1, <1>10, Steps
    <2>2. Merge # Drop /\ Move # Drop
      BY DEF Merge, Move, Drop
    <2>3. ASSUME NEW t \in Session
          PROVE  /\ \A m \in {Merge, Move} : m \in plan'[t] <=> m \in plan[t]
                 /\ Drop \in plan'[t] => Drop \in plan[t]
      BY <2>1, <2>2 DEF TypeOK
    <2> QED BY <1>7, <1>8, <1>9, <2>1, <2>3 DEF Migrating
  <1>11. CASE Fails(s)
    <2>1. \A t \in Session \ {s} : UNCHANGED <<pc[t], seen[t], plan[t]>>
      BY <1>11, Finishes DEF Fails
    <2> QED BY <1>7, <1>8, <1>9, <1>11, <2>1, EndsMigrating DEF Migrating, Fails
  <1> QED BY <1>10, <1>11 DEF DeleteSpc

LEMMA SetMigrating ==
  ASSUME TypeOK, Migrating, NEW y \in Sync, SetSecret(y)
  PROVE  Migrating'
  <1>1. /\ "default" \in spc /\ UNCHANGED <<spc, pc, seen, plan, index>>
        /\ \A x \in Sync : uses'[x] = IF x = y THEN "default" ELSE uses[x]
        /\ objects'["default"] = objects["default"] \cup {y}
        /\ objects'["opcua"] = objects["opcua"]
    BY DEF SetSecret, local, TypeOK, Spc
  <1>2. overlooked \subseteq overlooked' /\ \A t \in Session : Covered(t)'
    BY NotesCovered DEF SetSecret
  <1>3. Held /\ Trailing /\ \A t \in Session : Consistent(t)
    BY DEF Migrating
  <1>4. "default" # None
    BY SyncAssumption DEF Spc
  <1>5. Held'
    <2>1. ASSUME NEW x \in Sync \ overlooked, uses'[x] # None
          PROVE  uses'[x] \in spc /\ x \in objects'[uses'[x]]
      <3>1. CASE x = y
        BY <1>1, <3>1
      <3>2. CASE x # y
        BY <1>1, <1>3, <2>1, <3>2 DEF Held, TypeOK, Spc
      <3> QED BY <3>1, <3>2
    <2> QED BY <1>1, <1>2, <2>1 DEF Held
  <1>6. Trailing'
    BY <1>1, <1>3, <1>4 DEF Trailing
  <1>7. ASSUME NEW t \in Session PROVE Remembered(t)' /\ Planned(t)' /\ Prepared(t)'
    <2>1. Remembered(t)' /\ Planned(t)'
      BY <1>1, <1>3, <1>4 DEF Consistent, Remembered, Planned
    <2>2. Prepared(t)'
      <3>1. Prepared(t)
        BY <1>3 DEF Consistent
      <3>2. ASSUME NEW x \in Sync PROVE uses'[x] = "opcua" => uses[x] = "opcua"
        BY <1>1
      <3>3. ASSUME NEW x \in Sync, uses'[x] # None
            PROVE  uses[x] # None \/ x \in objects'["default"]
        BY <1>1, <3>3
      <3> QED BY <1>1, <1>2, <3>1, <3>2, <3>3 DEF Prepared, Unmigrated
    <2> QED BY <2>1, <2>2
  <1> QED BY <1>2, <1>5, <1>6, <1>7 DEF Migrating, Consistent

LEMMA MigratingStep ==
  ASSUME TypeOK, Migrating, [Next /\ UNCHANGED work]_<<work, vars>>
  PROVE  Migrating'
  <1>1. ASSUME UNCHANGED <<secrets, query, pc, seen, plan>> PROVE Migrating'
    <2>1. Held' /\ Trailing'
      BY <1>1 DEF Migrating, Held, Trailing, secrets, query
    <2> QED BY <1>1, <2>1, SameConsistent DEF Migrating, query
  <1>2. CASE UNCHANGED <<work, vars>>
    BY <1>1, <1>2 DEF vars, cloud, local
  <1>3. CASE Next
    <2>1. ASSUME NEW s \in Session, NEW op, NEW on, At(s, op, on), Succeeds(s) \/ Fails(s),
                 UNCHANGED <<secrets, query>>, <<op, on>> \notin {Merge, Move, Drop}
          PROVE  Migrating'
      BY <2>1, Elsewhere DEF At, Fails
    <2>2. ASSUME NEW s \in Session, NEW e \in Ext, UpdateExtension(s, e) PROVE Migrating'
      <3>1. <<"update", e>> \notin {Merge, Move, Drop}
        BY DEF Merge, Move, Drop
      <3>2. CASE Finish(s)
        BY <2>2, <3>2, Elsewhere DEF UpdateExtension
      <3> QED BY <2>1, <2>2, <3>1, <3>2 DEF UpdateExtension
    <2>3. ASSUME NEW s \in Session, DeletePlatform(s) PROVE Migrating'
      <3>1. <<"delete", "platform">> \notin {Merge, Move, Drop}
        BY DEF Merge, Move, Drop
      <3> QED BY <2>1, <2>3, <3>1 DEF DeletePlatform
    <2>4. ASSUME NEW s \in Session, CreateCertManager(s) PROVE Migrating'
      <3>1. <<"create", "cm">> \notin {Merge, Move, Drop}
        BY DEF Merge, Move, Drop
      <3> QED BY <2>1, <2>4, <3>1 DEF CreateCertManager
    <2>5. ASSUME NEW s \in Session, UpdateInstance(s) PROVE Migrating'
      <3>1. <<"update", "instance">> \notin {Merge, Move, Drop}
        BY DEF Merge, Move, Drop
      <3> QED BY <2>1, <2>5, <3>1 DEF UpdateInstance
    <2>6. ASSUME NEW s \in Session, CreateRegistry(s) PROVE Migrating'
      <3>1. <<"create", "registry">> \notin {Merge, Move, Drop}
        BY DEF Merge, Move, Drop
      <3> QED BY <2>1, <2>6, <3>1 DEF CreateRegistry
    <2>7. ASSUME NEW s \in Session, CreateTemplate(s) PROVE Migrating'
      <3>1. <<"create", "template">> \notin {Merge, Move, Drop}
        BY DEF Merge, Move, Drop
      <3> QED BY <2>1, <2>7, <3>1 DEF CreateTemplate
    <2>8. ASSUME NEW s \in Session, Done(s) \/ Killed(s) PROVE Migrating'
      BY <2>8, Elsewhere DEF Done, Killed, Fails, cloud
    <2>9. ASSUME TemplateSettles PROVE Migrating'
      BY <1>1, <2>9 DEF TemplateSettles, local
    <2> QED BY <1>3, <2>2, <2>3, <2>4, <2>5, <2>6, <2>7, <2>8, <2>9, ReadMigrating,
               ReindexMigrating, AnalyzeMigrating, MergeMigrating, RepointMigrating,
               DeleteMigrating, SetMigrating DEF Next, Step
  <1> QED BY <1>2, <1>3

(* Every secret a SecretSync needs is listed by a secret provider class that *)
(* exists, in every state of any number of migrations that fail, are         *)
(* interrupted, run again and overlap, and whatever the Resource Graph has   *)
(* not yet taken over (migrate_to_v2), unless a migration overlooked that    *)
(* very secret: it was set after the classes were read (upgrade2.py:139), or *)
(* before and not yet shown.                                                 *)
THEOREM MigrationLosesNoSecret == Spec => []NoSecretLost
  <1>1. TypeOK /\ Migrating /\ [Next /\ UNCHANGED work]_<<work, vars>> => Migrating'
    BY MigratingStep
  <1>2. Migrating => NoSecretLost
    BY DEF Migrating, NoSecretLost, Held
  <1> QED BY <1>1, <1>2, MigratingInit, UpgradeTypeCorrect, PTL DEF Spec

-----------------------------------------------------------------------------
(* IoT Operations has its cert-manager extension *)

(* A process that will not create the extension any more finds it installed. *)
Certified ==
  \A s \in Session :
     pc[s] = "apply" /\ Migrates(args[s]) /\ ~args[s].noCm /\ CertMgr \notin plan[s] =>
        version["cm"] # 0

LEMMA ExtensionSteps ==
  Range(ExtensionOrder) =
     {<<"delete", "platform">>, CertMgr} \cup {<<"update", e>> : e \in Ext}
  <1>1. DOMAIN ExtensionOrder = 1 .. 7
    BY DEF ExtensionOrder
  <1>2. Range(ExtensionOrder) =
          {<<"delete", "platform">>, <<"create", "cm">>, <<"update", "cm">>,
           <<"update", "platform">>, <<"update", "ssc">>, <<"update", "acs">>,
           <<"update", "ops">>}
    BY <1>1 DEF Range, ExtensionOrder
  <1> QED BY <1>2 DEF CertMgr, Ext

LEMMA OtherSteps ==
  {<<"update", "instance">>, <<"create", "registry">>, <<"create", "template">>,
   <<"merge", "spc">>, <<"repoint", "sync">>, <<"delete", "spc">>}
     \cap Range(ExtensionOrder) = {}
  BY ExtensionSteps DEF CertMgr, Ext

(* The extensions are written by the steps of one process; what the others   *)
(* do leaves them alone.                                                     *)
Writes(s) ==
  \/ DeletePlatform(s) \/ CreateCertManager(s) \/ \E e \in Ext : UpdateExtension(s, e)

LEMMA ExtensionsApart ==
  ASSUME TypeOK, Next, \A s \in Session : ~Writes(s)
  PROVE  /\ UNCHANGED version
         /\ \/ \E s \in Session : Read(s) \/ Analyze(s) \/ Finish(s)
            \/ UNCHANGED <<pc, args, plan, rejected>>
            \/ \E s \in Session, x \in Apply :
                  /\ x \notin Range(ExtensionOrder)
                  /\ plan' = [plan EXCEPT ![s] = @ \ {x}]
                  /\ UNCHANGED <<pc, args, rejected>>
  <1>1. ASSUME NEW s \in Session, NEW op, NEW on, At(s, op, on), Succeeds(s) \/ Fails(s),
               <<op, on>> \notin Range(ExtensionOrder)
        PROVE  \/ Finish(s)
               \/ \E x \in Apply :
                    /\ x \notin Range(ExtensionOrder)
                    /\ plan' = [plan EXCEPT ![s] = @ \ {x}]
                    /\ UNCHANGED <<pc, args, rejected>>
    <2>1. <<op, on>> \in Due(s) /\ <<op, on>> \in Apply
      BY <1>1 DEF At, Due, TypeOK
    <2> QED BY <1>1, <2>1, Steps DEF Fails
  <1>2. ASSUME NEW s \in Session, UpdateInstance(s)
        PROVE  /\ UNCHANGED version /\ At(s, "update", "instance")
               /\ Succeeds(s) \/ Fails(s)
               /\ <<"update", "instance">> \notin Range(ExtensionOrder)
    BY OtherSteps, <1>2 DEF UpdateInstance
  <1>3. ASSUME NEW s \in Session, CreateRegistry(s)
        PROVE  /\ UNCHANGED version /\ At(s, "create", "registry")
               /\ Succeeds(s) \/ Fails(s)
               /\ <<"create", "registry">> \notin Range(ExtensionOrder)
    BY OtherSteps, <1>3 DEF CreateRegistry
  <1>4. ASSUME NEW s \in Session, CreateTemplate(s)
        PROVE  /\ UNCHANGED version /\ At(s, "create", "template")
               /\ Succeeds(s) \/ Fails(s)
               /\ <<"create", "template">> \notin Range(ExtensionOrder)
    BY OtherSteps, <1>4 DEF CreateTemplate
  <1>5. ASSUME NEW s \in Session, MergeSpc(s)
        PROVE  /\ UNCHANGED version /\ At(s, "merge", "spc")
               /\ Succeeds(s) \/ Fails(s)
               /\ <<"merge", "spc">> \notin Range(ExtensionOrder)
    BY OtherSteps, <1>5 DEF MergeSpc
  <1>6. ASSUME NEW s \in Session, Repoint(s)
        PROVE  /\ UNCHANGED version /\ At(s, "repoint", "sync")
               /\ Succeeds(s) \/ Fails(s) \/ UNCHANGED <<pc, args, plan, rejected>>
               /\ <<"repoint", "sync">> \notin Range(ExtensionOrder)
    BY OtherSteps, <1>6 DEF Repoint
  <1>7. ASSUME NEW s \in Session, DeleteSpc(s)
        PROVE  /\ UNCHANGED version /\ At(s, "delete", "spc")
               /\ Succeeds(s) \/ Fails(s)
               /\ <<"delete", "spc">> \notin Range(ExtensionOrder)
    BY OtherSteps, <1>7 DEF DeleteSpc
  <1>8. ASSUME NEW s \in Session, Done(s) \/ Killed(s)
        PROVE  Finish(s) /\ UNCHANGED version
    BY <1>8 DEF Done, Killed, Fails, cloud
  <1>9. ASSUME \/ TemplateSettles \/ (\E y \in Sync : SetSecret(y) \/ ReindexSync(y))
               \/ \E c \in Spc : ReindexClass(c)
         PROVE  UNCHANGED <<version, pc, args, plan, rejected>>
    BY <1>9 DEF TemplateSettles, SetSecret, ReindexSync, ReindexClass, local, cloud
  <1>10. ASSUME NEW s \in Session, Read(s) \/ Analyze(s)
         PROVE  UNCHANGED version
    BY <1>10 DEF Read, Analyze, cloud
  <1> QED BY <1>1, <1>2, <1>3, <1>4, <1>5, <1>6, <1>7, <1>8, <1>9, <1>10
          DEF Next, Step, Writes

(* A version is only written by a step that is due: the deletion of the      *)
(* platform extension, or the creation or an update that is not refused,     *)
(* with the version that the process wants.                                  *)
LEMMA WhatIsWritten ==
  ASSUME TypeOK, NEW s \in Session, Writes(s)
  PROVE  \E x \in Due(s) :
            /\ x \in Range(ExtensionOrder) /\ x \in plan[s] /\ pc[s] = "apply"
            /\ \/ Finish(s)
               \/ plan' = [plan EXCEPT ![s] = @ \ {x}] /\ UNCHANGED <<pc, args, rejected>>
            /\ \A e \in Ext : version'[e] # version[e] =>
                  \/ version'[e] = 0 /\ e = "platform"
                  \/ /\ version'[e] = Desired(args[s], e) /\ version'[e] # 0
                     /\ \/ x = <<"update", e>> /\ e \notin rejected[s]
                        \/ x = CertMgr /\ e = "cm"
            /\ x = CertMgr => Finish(s) \/ version'["cm"] = Desired(args[s], "cm")
                                        \/ Desired(args[s], "cm") = 0
  <1> DEFINE Ended(x) ==
        \/ Finish(s)
        \/ plan' = [plan EXCEPT ![s] = @ \ {x}] /\ UNCHANGED <<pc, args, rejected>>
  <1>1. ASSUME NEW x \in Due(s), Succeeds(s) \/ Fails(s) PROVE Ended(x)
    BY <1>1, Steps DEF Fails
  <1>2. ASSUME NEW e \in Ext, NEW up, Provisioned(s, e, up), NEW f \in Ext
        PROVE  /\ version'[f] # version[f] =>
                    f = e /\ version'[f] = Desired(args[s], f) /\ version'[f] # 0
               /\ version'[e] = Desired(args[s], e) \/ Desired(args[s], e) = 0
    BY <1>2 DEF Provisioned, TypeOK
  <1>3. CASE DeletePlatform(s)
    <2> DEFINE x == <<"delete", "platform">>
    <2>1. x \in Due(s) /\ pc[s] = "apply" /\ Ended(x)
      BY <1>1, <1>3 DEF DeletePlatform, At
    <2>2. x \in plan[s] /\ x \in Range(ExtensionOrder) /\ x # CertMgr
      BY <2>1, ExtensionSteps DEF Due, CertMgr
    <2>3. version' \in {version, [version EXCEPT !["platform"] = 0]}
      BY <1>3 DEF DeletePlatform
    <2>4. \A e \in Ext : version'[e] # version[e] => version'[e] = 0 /\ e = "platform"
      BY <2>3 DEF TypeOK
    <2> QED BY <2>1, <2>2, <2>4
  <1>4. CASE CreateCertManager(s)
    <2>1. CertMgr \in Due(s) /\ pc[s] = "apply" /\ Ended(CertMgr)
      BY <1>1, <1>4 DEF CreateCertManager, At, CertMgr
    <2>2. CertMgr \in plan[s] /\ CertMgr \in Range(ExtensionOrder)
      BY <2>1, ExtensionSteps DEF Due
    <2>3. \/ Provisioned(s, "cm", TRUE) \/ Provisioned(s, "cm", FALSE)
          \/ Finish(s) /\ UNCHANGED version
      BY <1>4 DEF CreateCertManager, Fails
    <2>4. "cm" \in Ext
      BY DEF Ext
    <2>5. \A e \in Ext : version'[e] # version[e] =>
             e = "cm" /\ version'[e] = Desired(args[s], e) /\ version'[e] # 0
      BY <1>2, <2>3, <2>4
    <2>6. Finish(s) \/ version'["cm"] = Desired(args[s], "cm") \/ Desired(args[s], "cm") = 0
      BY <1>2, <2>3, <2>4
    <2> QED BY <2>1, <2>2, <2>5, <2>6
  <1>5. ASSUME NEW e \in Ext, UpdateExtension(s, e)
        PROVE  \E x \in Due(s) :
                  /\ x = <<"update", e>> /\ pc[s] = "apply" /\ Ended(x)
                  /\ \A f \in Ext : version'[f] # version[f] =>
                        /\ f = e /\ version'[f] = Desired(args[s], f) /\ version'[f] # 0
                        /\ e \notin rejected[s]
    <2> DEFINE x == <<"update", e>>
    <2>1. x \in Due(s) /\ pc[s] = "apply"
      BY <1>5 DEF UpdateExtension, At
    <2>2. Ended(x)
      BY <1>1, <1>5, <2>1 DEF UpdateExtension
    <2>3. \/ UNCHANGED version
          \/ /\ e \notin rejected[s]
             /\ Provisioned(s, e, TRUE) \/ Provisioned(s, e, FALSE)
      BY <1>5 DEF UpdateExtension
    <2>4. \A f \in Ext : version'[f] # version[f] =>
             /\ f = e /\ version'[f] = Desired(args[s], f) /\ version'[f] # 0
             /\ e \notin rejected[s]
      BY <1>2, <2>3
    <2> QED BY <2>1, <2>2, <2>4
  <1>6. ASSUME NEW e \in Ext, UpdateExtension(s, e)
        PROVE  \E x \in Due(s) :
                 /\ x \in Range(ExtensionOrder) /\ x \in plan[s] /\ pc[s] = "apply"
                 /\ Ended(x) /\ x # CertMgr
                 /\ \A f \in Ext : version'[f] # version[f] =>
                       /\ version'[f] = Desired(args[s], f) /\ version'[f] # 0
                       /\ x = <<"update", f>> /\ f \notin rejected[s]
    <2>1. PICK x \in Due(s) :
                  /\ x = <<"update", e>> /\ pc[s] = "apply" /\ Ended(x)
                  /\ \A f \in Ext : version'[f] # version[f] =>
                        /\ f = e /\ version'[f] = Desired(args[s], f) /\ version'[f] # 0
                        /\ e \notin rejected[s]
      BY <1>5, <1>6
    <2>2. x \in plan[s] /\ x \in Range(ExtensionOrder) /\ x # CertMgr
      BY <2>1, ExtensionSteps DEF Due, CertMgr
    <2>3. \A f \in Ext : version'[f] # version[f] =>
                       /\ version'[f] = Desired(args[s], f) /\ version'[f] # 0
                       /\ x = <<"update", f>> /\ f \notin rejected[s]
      BY <2>1
    <2> QED BY <2>1, <2>2, <2>3
  <1> QED BY <1>3, <1>4, <1>6 DEF Writes

LEMMA CertManagerVersion ==
  ASSUME NEW a
  PROVE  Desired(a, "cm") # 0
  BY VersionAssumption DEF Desired, BuiltIn

LEMMA CertifiedStep ==
  ASSUME TypeOK, Certified, [Next /\ UNCHANGED work]_<<work, vars>>
  PROVE  Certified'
  <1>1. CASE UNCHANGED <<work, vars>>
    BY <1>1 DEF vars, cloud, local, Certified, Migrates, Desired
  <1>2. CASE Next /\ \E s \in Session : Writes(s)
    <2>1. PICK s \in Session : Writes(s)
      BY <1>2
    <2>2. PICK x \in Due(s) :
            /\ x \in plan[s]
            /\ \/ Finish(s)
               \/ plan' = [plan EXCEPT ![s] = @ \ {x}] /\ UNCHANGED <<pc, args, rejected>>
            /\ version'["cm"] # version["cm"] => version'["cm"] # 0
            /\ x = CertMgr => Finish(s) \/ version'["cm"] # 0
      <3>1. "cm" \in Ext /\ "cm" # "platform"
        BY DEF Ext
      <3> QED BY <2>1, <3>1, WhatIsWritten, CertManagerVersion
    <2>3. SUFFICES ASSUME NEW t \in Session, pc'[t] = "apply", Migrates(args'[t]),
                          ~args'[t].noCm, CertMgr \notin plan'[t]
                   PROVE  version'["cm"] # 0
      BY DEF Certified, Migrates, Desired
    <2>4. CASE Finish(s)
      <3>1. t # s /\ pc'[t] = pc[t] /\ args'[t] = args[t] /\ plan'[t] = plan[t]
        BY <2>3, <2>4, Finishes
      <3> QED BY <2>2, <2>3, <3>1 DEF Certified
    <2>5. CASE ~Finish(s)
      <3>1. /\ pc'[t] = pc[t] /\ args'[t] = args[t]
            /\ plan'[t] = IF t = s THEN plan[t] \ {x} ELSE plan[t]
        BY <2>2, <2>5 DEF TypeOK
      <3>2. CASE x = CertMgr
        BY <2>2, <2>5, <3>2
      <3>3. CASE x # CertMgr
        BY <2>2, <2>3, <3>1, <3>3 DEF Certified
      <3> QED BY <3>2, <3>3
    <2> QED BY <2>4, <2>5
  <1>3. CASE Next /\ \A s \in Session : ~Writes(s)
    <2>1. UNCHANGED version
      BY <1>3, ExtensionsApart
    <2>2. ASSUME NEW s \in Session, Finish(s) PROVE Certified'
      BY <2>1, <2>2, Finishes DEF Certified, Migrates, Desired
    <2>3. ASSUME NEW s \in Session, Read(s) PROVE Certified'
      <3>1. /\ pc'[s] = "analyze" /\ UNCHANGED plan
            /\ \A t \in Session \ {s} : pc'[t] = pc[t] /\ args'[t] = args[t]
        BY <2>3 DEF Read, TypeOK
      <3> QED BY <2>1, <3>1 DEF Certified, Migrates, Desired
    <2>4. ASSUME NEW s \in Session, Analyze(s), ~Finish(s) PROVE Certified'
      <3>1. PICK unread \in SUBSET {<<"create", "registry">>, <<"create", "template">>} :
               plan' = [plan EXCEPT ![s] = {x \in Apply \ unread : Needed(s, args[s], x)}]
        BY <2>4 DEF Analyze
      <3>2. pc' = [pc EXCEPT ![s] = "apply"] /\ UNCHANGED args
        BY <2>4 DEF Analyze
      <3>3. CertMgr \in Apply \ unread
        <4>1. CertMgr \in Apply
          BY OrderEntries, EntryIsStep
        <4> QED BY <4>1 DEF CertMgr
      <3>4. CertMgr \notin plan'[s] => ~CreatesCertManager(args[s])
        BY <3>1, <3>3 DEF TypeOK, Needed, CertMgr
      <3>5. /\ CertMgr \notin plan'[s] /\ Migrates(args[s]) /\ ~args[s].noCm
            => version["cm"] # 0
        BY <3>4 DEF CreatesCertManager, DeletesPlatform
      <3>6. \A t \in Session \ {s} : pc'[t] = pc[t] /\ plan'[t] = plan[t]
        BY <3>1, <3>2 DEF TypeOK
      <3> QED BY <2>1, <3>2, <3>5, <3>6 DEF Certified, Migrates, Desired
    <2>5. ASSUME UNCHANGED <<pc, args, plan, rejected>> PROVE Certified'
      BY <2>1, <2>5 DEF Certified, Migrates, Desired
    <2>6. ASSUME NEW s \in Session, NEW x \in Apply, x \notin Range(ExtensionOrder),
                 plan' = [plan EXCEPT ![s] = @ \ {x}], UNCHANGED <<pc, args, rejected>>
          PROVE  Certified'
      <3>1. \A t \in Session : CertMgr \in plan'[t] <=> CertMgr \in plan[t]
        BY <2>6, ExtensionSteps DEF TypeOK
      <3> QED BY <2>1, <2>6, <3>1 DEF Certified, Migrates, Desired
    <2> QED BY <1>3, <2>2, <2>3, <2>4, <2>5, <2>6, ExtensionsApart
  <1> QED BY <1>1, <1>2, <1>3

LEMMA CertifiedOps ==
  ASSUME TypeOK, Certified, [Next /\ UNCHANGED work]_<<work, vars>>,
         version'["ops"] # version["ops"], version'["ops"] >= CmMigration
  PROVE  version["cm"] # 0 \/ \E s \in Session : args[s].noCm
  <1>1. Next
    BY DEF vars, cloud
  <1>2. PICK s \in Session : Writes(s)
    BY <1>1, ExtensionsApart
  <1>3. "ops" \in Ext /\ "ops" # "platform" /\ "ops" # "cm"
    BY DEF Ext
  <1>4. PICK x \in Due(s) :
          /\ pc[s] = "apply" /\ x = <<"update", "ops">>
          /\ version'["ops"] = Desired(args[s], "ops")
    BY <1>2, <1>3, WhatIsWritten
  <1>5. CertMgr \notin plan[s]
    BY <1>4, DueAfter
  <1>6. Migrates(args[s])
    BY <1>4 DEF Migrates
  <1> QED BY <1>4, <1>5, <1>6 DEF Certified

(* IoT Operations never reaches a version that needs the cert-manager        *)
(* extension without it, wherever earlier runs stopped and whatever other    *)
(* processes do (_should_create_certmanager), unless the user asked for it.  *)
THEOREM OpsIsCertified == Spec => OpsHasCertManager
  <1>1. Init => Certified
    BY DEF Init, Certified
  <1>2. TypeOK /\ Certified /\ [Next /\ UNCHANGED work]_<<work, vars>> => Certified'
    BY CertifiedStep
  <1>3. TypeOK /\ Certified /\ [Next /\ UNCHANGED work]_<<work, vars>> =>
          [version'["ops"] # version["ops"] /\ version'["ops"] >= CmMigration =>
             version["cm"] # 0 \/ \E s \in Session : args[s].noCm]_vars
    BY CertifiedOps
  <1> QED BY <1>1, <1>2, <1>3, UpgradeTypeCorrect, PTL DEF Spec, OpsHasCertManager

-----------------------------------------------------------------------------
(* No extension goes back *)

(* Of each workload one process at most runs the command, or no command line *)
(* gives a version.                                                          *)
OnePinner ==
  \A w \in DOMAIN Workloads :
     \/ \E s \in Session : \A t \in Session \ {s} : Workloads[w].given[t] = {}
     \/ \A s \in Session : \A a \in Workloads[w].given[s] : \A e \in Ext : a.pin[e] = 0

(* What a process has still to write is no lower than what is there.         *)
Guarded ==
  \A s \in Session : pc[s] = "apply" /\ ~args[s].force =>
     \A e \in Ext :
        /\ \/ <<"update", e>> \in plan[s] /\ e \notin rejected[s]
           \/ e = "cm" /\ CertMgr \in plan[s]
        /\ Desired(args[s], e) # 0
        => Desired(args[s], e) >= version[e]

(* Only the processes that are given a command run one.                      *)
Given ==
  \A s \in Session : pc[s] # "idle" => args[s] \in Workloads[work].given[s]

LEMMA GivenStep ==
  ASSUME TypeOK, Given, [Next /\ UNCHANGED work]_<<work, vars>>
  PROVE  Given'
  <1>1. CASE UNCHANGED <<work, vars>>
    BY <1>1 DEF vars, local, Given
  <1>2. CASE Next /\ UNCHANGED work
    <2>1. ASSUME NEW s \in Session, Finish(s) PROVE Given'
      BY <1>2, <2>1, Finishes DEF Given
    <2>2. ASSUME UNCHANGED <<pc, args>> PROVE Given'
      BY <1>2, <2>2 DEF Given
    <2>3. CASE \E s \in Session : Writes(s)
      BY <2>1, <2>2, <2>3, WhatIsWritten
    <2>4. ASSUME NEW s \in Session, Read(s) PROVE Given'
      <3>1. PICK a \in Workloads[work].given[s] : args' = [args EXCEPT ![s] = a]
        BY <2>4 DEF Read
      <3>2. pc' = [pc EXCEPT ![s] = "analyze"]
        BY <2>4 DEF Read
      <3> QED BY <1>2, <3>1, <3>2 DEF Given, TypeOK
    <2>5. ASSUME NEW s \in Session, Analyze(s), ~Finish(s) PROVE Given'
      <3>1. pc' = [pc EXCEPT ![s] = "apply"] /\ pc[s] = "analyze" /\ UNCHANGED args
        BY <2>5 DEF Analyze
      <3> QED BY <1>2, <3>1 DEF Given, TypeOK
    <2>6. CASE \A s \in Session : ~Writes(s)
      BY <1>2, <2>1, <2>2, <2>4, <2>5, <2>6, ExtensionsApart
    <2> QED BY <2>3, <2>6
  <1> QED BY <1>1, <1>2

(* When another process runs too, no version is given.                       *)
LEMMA Unpinned ==
  ASSUME OnePinner, TypeOK, Given, NEW s \in Session, NEW t \in Session, s # t,
         pc[s] # "idle", pc[t] # "idle", NEW e \in Ext
  PROVE  Desired(args[t], e) \in {0, Latest}
  <1>1. args[s] \in Workloads[work].given[s] /\ args[t] \in Workloads[work].given[t]
    BY DEF Given
  <1>2. work \in DOMAIN Workloads
    BY DEF TypeOK
  <1>3. args[t].pin[e] = 0
    BY <1>1, <1>2 DEF OnePinner
  <1> QED BY <1>3 DEF Desired, BuiltIn

LEMMA GuardedStep ==
  ASSUME OnePinner, TypeOK, Given, Guarded, [Next /\ UNCHANGED work]_<<work, vars>>
  PROVE  Guarded'
  <1>1. CASE UNCHANGED <<work, vars>>
    BY <1>1 DEF vars, cloud, local, Guarded, Desired
  <1>2. CASE Next /\ \E s \in Session : Writes(s)
    <2>1. PICK s \in Session : Writes(s)
      BY <1>2
    <2>2. PICK x \in Due(s) :
            /\ pc[s] = "apply"
            /\ \/ Finish(s)
               \/ plan' = [plan EXCEPT ![s] = @ \ {x}] /\ UNCHANGED <<pc, args, rejected>>
            /\ \A e \in Ext : version'[e] # version[e] =>
                  \/ version'[e] = 0
                  \/ version'[e] = Desired(args[s], e)
      BY <2>1, WhatIsWritten
    <2>3. SUFFICES ASSUME NEW t \in Session, pc'[t] = "apply", ~args'[t].force, NEW e \in Ext,
                          \/ <<"update", e>> \in plan'[t] /\ e \notin rejected'[t]
                          \/ e = "cm" /\ CertMgr \in plan'[t],
                          Desired(args'[t], e) # 0
                   PROVE  Desired(args'[t], e) >= version'[e]
      BY DEF Guarded, Desired
    <2>4. /\ pc[t] = "apply" /\ args'[t] = args[t] /\ rejected'[t] = rejected[t]
          /\ plan'[t] \subseteq plan[t]
      <3>1. CASE Finish(s)
        BY <2>3, <3>1, Finishes
      <3>2. CASE ~Finish(s)
        BY <2>2, <2>3, <3>2 DEF TypeOK
      <3> QED BY <3>1, <3>2
    <2>5. Desired(args[t], e) >= version[e]
      BY <2>3, <2>4 DEF Guarded
    <2>6. Desired(args[t], e) \in 0 .. Latest /\ version'[e] \in 0 .. Latest
      <3>1. args[t].pin[e] \in 0 .. Latest
        BY DEF TypeOK, Argument
      <3>2. version' \in [Ext -> 0 .. Latest]
        BY TypeStep DEF TypeOK
      <3> QED BY <3>1, <3>2, VersionAssumption DEF Desired, BuiltIn
    <2>7. CASE version'[e] = version[e]
      BY <2>4, <2>5, <2>7
    <2>8. CASE version'[e] = 0
      BY <2>4, <2>6, <2>8
    <2>9. CASE version'[e] = Desired(args[s], e)
      <3>1. CASE s = t
        BY <2>4, <2>6, <2>9, <3>1
      <3>2. CASE s # t
        <4>1. Desired(args[t], e) \in {0, Latest}
          BY <2>2, <2>4, <3>2, Unpinned
        <4> QED BY <2>3, <2>4, <2>6, <4>1, VersionAssumption
      <3> QED BY <3>1, <3>2
    <2> QED BY <2>2, <2>7, <2>8, <2>9
  <1>3. CASE Next /\ \A s \in Session : ~Writes(s)
    <2>1. UNCHANGED version
      BY <1>3, ExtensionsApart
    <2>2. ASSUME NEW s \in Session, Finish(s) PROVE Guarded'
      BY <2>1, <2>2, Finishes DEF Guarded, Desired
    <2>3. ASSUME NEW s \in Session, Read(s) PROVE Guarded'
      <3>1. /\ pc'[s] = "analyze" /\ UNCHANGED <<plan, rejected>>
            /\ \A t \in Session \ {s} : pc'[t] = pc[t] /\ args'[t] = args[t]
        BY <2>3 DEF Read, TypeOK
      <3> QED BY <2>1, <3>1 DEF Guarded, Desired
    <2>4. ASSUME NEW s \in Session, Analyze(s), ~Finish(s) PROVE Guarded'
      <3>1. PICK unread \in SUBSET {<<"create", "registry">>, <<"create", "template">>} :
               plan' = [plan EXCEPT ![s] = {x \in Apply \ unread : Needed(s, args[s], x)}]
        BY <2>4 DEF Analyze
      <3>2. /\ pc' = [pc EXCEPT ![s] = "apply"] /\ UNCHANGED args
            /\ rejected' = [rejected EXCEPT ![s] =
                  {e \in Ext : CanUpgrade(args[s], e) /\ ~ValidUpgrade(args[s], e)}]
        BY <2>4 DEF Analyze
      <3>3. ASSUME NEW e \in Ext, <<"update", e>> \in plan'[s], e \notin rejected'[s],
                   ~args[s].force
            PROVE  Desired(args[s], e) >= version[e]
        <4>1. Needed(s, args[s], <<"update", e>>)
          BY <3>1, <3>3 DEF TypeOK
        <4>2. <<"update", e>> \notin Range(MigrationOrder)
          BY MigrationSteps DEF Merge, Move, Drop
        <4>3. CanUpgrade(args[s], e)
          BY <4>1, <4>2 DEF Needed, Ext
        <4>4. ValidUpgrade(args[s], e)
          BY <3>2, <3>3, <4>3 DEF TypeOK
        <4> QED BY <3>3, <4>4 DEF ValidUpgrade
      <3>4. ASSUME CertMgr \in plan'[s]
            PROVE  version["cm"] = 0
        <4>1. Needed(s, args[s], CertMgr)
          BY <3>1, <3>4 DEF TypeOK
        <4>2. CertMgr \notin Range(MigrationOrder)
          BY MigrationSteps DEF Merge, Move, Drop, CertMgr
        <4>3. CreatesCertManager(args[s])
          BY <4>1, <4>2 DEF Needed, CertMgr
        <4> QED BY <4>3 DEF CreatesCertManager
      <3>5. Desired(args[s], "cm") >= 0
        <4>1. args[s].pin["cm"] \in 0 .. Latest
          BY DEF TypeOK, Argument, Ext
        <4> QED BY <4>1, VersionAssumption DEF Desired, BuiltIn
      <3>6. \A t \in Session \ {s} :
               pc'[t] = pc[t] /\ plan'[t] = plan[t] /\ rejected'[t] = rejected[t]
        BY <3>1, <3>2 DEF TypeOK
      <3> QED BY <2>1, <3>2, <3>3, <3>4, <3>5, <3>6 DEF Guarded, Desired
    <2>5. ASSUME UNCHANGED <<pc, args, plan, rejected>> PROVE Guarded'
      BY <2>1, <2>5 DEF Guarded, Desired
    <2>6. ASSUME NEW s \in Session, NEW x \in Apply,
                 plan' = [plan EXCEPT ![s] = @ \ {x}], UNCHANGED <<pc, args, rejected>>
          PROVE  Guarded'
      <3>1. \A t \in Session : plan'[t] \subseteq plan[t]
        BY <2>6 DEF TypeOK
      <3> QED BY <2>1, <2>6, <3>1 DEF Guarded, Desired
    <2> QED BY <1>3, <2>2, <2>3, <2>4, <2>5, <2>6, ExtensionsApart
  <1> QED BY <1>1, <1>2, <1>3

LEMMA GuardedWrite ==
  ASSUME TypeOK, Guarded, [Next /\ UNCHANGED work]_<<work, vars>>,
         NEW e \in Ext, version'[e] < version[e]
  PROVE  version'[e] = 0 \/ \E s \in Session : args[s].force
  <1>1. version'[e] # version[e]
    BY DEF TypeOK
  <1>2. Next
    BY <1>1 DEF vars, cloud
  <1>3. PICK s \in Session : Writes(s)
    BY <1>1, <1>2, ExtensionsApart
  <1>4. CASE version'[e] # 0 /\ ~args[s].force
    <2>1. PICK x \in Due(s) :
             /\ x \in plan[s] /\ pc[s] = "apply"
             /\ version'[e] = Desired(args[s], e)
             /\ \/ x = <<"update", e>> /\ e \notin rejected[s]
                \/ x = CertMgr /\ e = "cm"
      BY <1>1, <1>3, <1>4, WhatIsWritten
    <2>2. version'[e] >= version[e]
      BY <1>4, <2>1 DEF Guarded
    <2>3. version'[e] \in Nat /\ version[e] \in Nat
      BY TypeStep DEF TypeOK
    <2> QED BY <2>2, <2>3
  <1> QED BY <1>4

(* Without --force no extension goes back to a lower version than it has,    *)
(* failures and runs that overlap included, as long as a process that gives  *)
(* versions runs alone (_validate_version_upgrade): beside another each is   *)
(* validated against the version it read, and may undo the other's upgrade.  *)
THEOREM NothingGoesBack == OnePinner /\ Spec => NoDowngrade
  <1> DEFINE Inv == TypeOK /\ Given /\ Guarded
  <1>1. Init => Inv
    BY TypeInit DEF Init, Given, Guarded
  <1>2. OnePinner /\ Inv /\ [Next /\ UNCHANGED work]_<<work, vars>> => Inv'
    BY TypeStep, GivenStep, GuardedStep
  <1>3. Inv /\ [Next /\ UNCHANGED work]_<<work, vars>> =>
          [\A e \in Ext : version'[e] < version[e] =>
              version'[e] = 0 \/ \E s \in Session : args[s].force]_vars
    BY GuardedWrite
  <1>4. ASSUME OnePinner PROVE Spec => NoDowngrade
    <2>1. Inv /\ [Next /\ UNCHANGED work]_<<work, vars>> => Inv'
      BY <1>2, <1>4
    <2> QED BY <1>1, <1>3, <2>1, PTL DEF Spec, NoDowngrade
  <1> QED BY <1>4

===============================================================================
