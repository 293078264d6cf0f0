--------------------------- MODULE DeploymentProofs ---------------------------
(* Theorems about Deployment, for every number of users, default resources     *)
(* and failures, guided or not, whatever the index answers.                    *)
EXTENDS Deployment, TLAPS

USE DEF Extension, Resource, Deployable, Trust, Phase, Step, Command, NoCommand, cluster, local, vars

-------------------------------------------------------------------------------
(* Type correctness *)

LEMMA TypeInit == Init => TypeOK
  BY ArgumentsAssumption, OptionAssumption DEF Init, TypeOK

LEMMA TemplateType ==
  ASSUME NEW step, NEW trust
  PROVE  /\ Template(step, trust) \subseteq Deployable
         /\ "ops" \in Template(step, trust) => step = "extension"
  BY KindAssumption DEF Template

(* Goto, End and Advise keep the types of what they change.                    *)
LEMMA GotoType ==
  ASSUME TypeOK, NEW s \in Session, NEW step \in Step \cup {"done"}, Goto(s, step)
  PROVE  /\ pc' \in [Session -> Step \cup {"idle", "done"}]
         /\ args' \in [Session -> Command]
         /\ advice' \in [Session -> Command]
         /\ work' \in [Session -> SUBSET Deployable]
         /\ orphaned' \subseteq Deployable \X Trust
         /\ faults' \in 0 .. MaxFaults
  BY TemplateType DEF TypeOK, Goto

LEMMA EndType ==
  ASSUME TypeOK, NEW s \in Session, End(s)
  PROVE  /\ pc' \in [Session -> Step \cup {"idle", "done"}]
         /\ args' \in [Session -> Command]
         /\ work' \in [Session -> SUBSET Deployable]
         /\ orphaned' \subseteq Deployable \X Trust
  <1>1. work[s] \subseteq Deployable /\ args[s] \in Command BY DEF TypeOK
  <1>2. work[s] \X {args[s].trust} \subseteq Deployable \X Trust BY <1>1
  <1> QED BY <1>2 DEF TypeOK, End

LEMMA AdviseType ==
  ASSUME TypeOK, NEW s \in Session, NEW trust \in Trust,
         NEW cmd \in {"init", "create", "delete", "none"}, Advise(s, cmd, trust)
  PROVE  advice' \in [Session -> Command]
  BY DEF TypeOK, Advise

LEMMA RefuseType ==
  ASSUME TypeOK, NEW s \in Session, NEW trust \in Trust,
         NEW cmd \in {"init", "create", "delete"}, Refuse(s, cmd, trust)
  PROVE  TypeOK'
  <1>1. End(s) /\ Advise(s, cmd, trust) /\ UNCHANGED <<cluster, faults>>
    BY DEF Refuse
  <1>2. advice' \in [Session -> Command]
    BY <1>1, AdviseType
  <1> QED BY <1>1, <1>2, EndType DEF TypeOK

LEMMA OtherType == \A t \in Trust : Other(t) \in Trust
  BY DEF Other

(* A command begins: with one of the given command lines, or the advised one.  *)
LEMMA StartBegins ==
  ASSUME TypeOK, NEW s \in Session, Start(s) \/ FollowAdvice(s)
  PROVE  \E a \in Command : Begin(s, a)
  <1>1. CASE Start(s)
    <2>1. PICK a \in Arguments[s] : Begin(s, a) BY <1>1 DEF Start
    <2>2. a \in [cmd: {"init", "create", "delete"}, trust: {"system", "customer"}]
      BY ArgumentsAssumption
    <2>3. a \in Command BY <2>2 DEF Command, Trust
    <2> QED BY <2>1, <2>3
  <1>2. CASE FollowAdvice(s)
    BY <1>2 DEF FollowAdvice, TypeOK
  <1> QED BY <1>1, <1>2

LEMMA BeginType ==
  ASSUME TypeOK, NEW s \in Session, NEW a \in Command, Begin(s, a)
  PROVE  TypeOK'
  <1>1. a.cmd \in {"init", "create", "delete", "none"} /\ a.trust \in Trust
    BY DEF Command
  <1>2. advice' \in [Session -> Command]
    BY <1>1, AdviseType DEF Begin
  <1>3. pc' \in [Session -> Step \cup {"idle", "done"}]
    BY DEF Begin, TypeOK, Step
  <1> QED BY <1>2, <1>3 DEF Begin, TypeOK

(* What the service does to the cluster.                                       *)
LEMMA MadeType ==
  ASSUME TypeOK, NEW r \in Resource, NEW trust \in Trust, Made(r, trust)
  PROVE  /\ present' \subseteq Resource
         /\ failed' \subseteq present' \cap Extension
         /\ links' \subseteq {"secretStore", "ops"}
         /\ trusted' \in Trust \cup {"none"}
  BY DEF TypeOK, Made

LEMMA LinkType ==
  ASSUME TypeOK, NEW ids \in SUBSET {"secretStore", "ops"}, Link(ids)
  PROVE  /\ present' \subseteq Resource
         /\ failed' \subseteq present' \cap Extension
         /\ links' \subseteq {"secretStore", "ops"}
         /\ trusted' \in Trust \cup {"none"}
  BY DEF TypeOK, Link

LEMMA TypeStep == TypeOK /\ [Next]_vars => TypeOK'
  <1> SUFFICES ASSUME TypeOK, [Next]_vars PROVE TypeOK'
    OBVIOUS
  <1> USE DEF At
  <1>1. ASSUME NEW s \in Session, Start(s) \/ Progress(s) PROVE TypeOK'
    <2>0. args[s] \in Command /\ args[s].trust \in Trust BY DEF TypeOK
    <2>1. CASE Start(s) \/ FollowAdvice(s)
      BY <2>1, StartBegins, BeginType
    <2>2. CASE Preflight(s) \/ WhatIf(s)
      BY <2>2, GotoType DEF Preflight, WhatIf, TypeOK
    <2>3. CASE CheckFoundation(s)
      <3>1. CASE Goto(s, "detect") /\ UNCHANGED cluster
        BY <3>1, GotoType DEF TypeOK
      <3> QED BY <3>1, <2>3, <2>0, OtherType, RefuseType DEF CheckFoundation
    <2>4. CASE CheckDeployed(s)
      <3>1. CASE Goto(s, "linkDependencies") /\ UNCHANGED cluster
        BY <3>1, GotoType DEF TypeOK
      <3> QED BY <3>1, <2>4, <2>0, RefuseType DEF CheckDeployed
    <2>5. CASE LinkDependencies(s)
      BY <2>5, GotoType, LinkType DEF LinkDependencies, DependencyIds, TypeOK
    <2>6. CASE LinkOps(s)
      BY <2>6, GotoType, LinkType DEF LinkOps, DependencyIds, TypeOK
    <2>7. CASE Await(s)
      <3>1. Following(s) \in Step \cup {"done"} BY <2>7 DEF Await, Following
      <3> QED BY <3>1, <2>7, GotoType DEF Await, TypeOK
    <2>8. CASE AssignRole(s) \/ Removed(s)
      BY <2>8, GotoType DEF AssignRole, Removed, TypeOK
    <2>9. CASE Done(s)
      <3>1. advice' \in [Session -> Command]
        BY <2>9, <2>0, AdviseType DEF Done
      <3> QED BY <3>1, <2>9, EndType DEF Done, TypeOK
    <2>10. CASE Deploy(s)
      <3>1. PICK r \in work[s] :
              /\ Made(r, args[s].trust)
              /\ work' = [work EXCEPT ![s] = @ \ {r}]
              /\ UNCHANGED <<pc, args, advice, orphaned, faults>>
        BY <2>10 DEF Deploy
      <3>2. r \in Deployable BY DEF TypeOK
      <3> QED BY <3>1, <3>2, <2>0, MadeType DEF TypeOK
    <2>11. CASE Remove(s)
      BY <2>11 DEF Remove, TypeOK
    <2> QED BY <1>1, <2>1, <2>2, <2>3, <2>4, <2>5, <2>6, <2>7, <2>8, <2>9, <2>10, <2>11
            DEF Progress
  <1>2. ASSUME NEW s \in Session, Fails(s) PROVE TypeOK'
    <2>1. faults' \in 0 .. MaxFaults BY <1>2, OptionAssumption DEF Fails, Fault, TypeOK
    <2> QED BY <2>1, <1>2, EndType DEF Fails, TypeOK
  <1>3. ASSUME NEW s \in Session, DeployFails(s) PROVE TypeOK'
    <2>0. args[s] \in Command /\ args[s].trust \in Trust BY DEF TypeOK
    <2>1. faults' \in 0 .. MaxFaults
      BY <1>3, OptionAssumption DEF DeployFails, Fault, TypeOK
    <2>2. PICK r \in work[s] :
            /\ present' = present \cup ({r} \cap Extension)
            /\ failed' = failed \cup ({r} \cap Extension)
            /\ trusted' = IF r = "ops" THEN args[s].trust ELSE trusted
            /\ pc' = [pc EXCEPT ![s] = "idle"]
            /\ args' = [args EXCEPT ![s] = NoCommand]
            /\ orphaned' = orphaned \cup
                   ({q \in work[s] \ {r} : r \notin After(q)} \X {args[s].trust})
            /\ work' = [work EXCEPT ![s] = {}]
            /\ UNCHANGED <<links, advice>>
      BY <1>3 DEF DeployFails
    <2>3. orphaned' \subseteq Deployable \X Trust
      BY <2>0, <2>2 DEF TypeOK
    <2> QED BY <2>0, <2>1, <2>2, <2>3 DEF TypeOK
  <1>4. ASSUME NEW made \in BOOLEAN, Orphan(made) PROVE TypeOK'
    <2>1. PICK o \in orphaned :
            /\ orphaned' = orphaned \ {o}
            /\ Made(o[1], o[2]) \/ UNCHANGED cluster
            /\ UNCHANGED <<local, faults>>
      BY <1>4 DEF Orphan
    <2>2. o[1] \in Deployable /\ o[2] \in Trust BY DEF TypeOK
    <2>3. CASE Made(o[1], o[2])
      <3>1. /\ present' \subseteq Resource
            /\ failed' \subseteq present' \cap Extension
            /\ links' \subseteq {"secretStore", "ops"}
            /\ trusted' \in Trust \cup {"none"}
        BY <2>2, <2>3, MadeType
      <3>2. orphaned' \subseteq Deployable \X Trust BY <2>1 DEF TypeOK
      <3>3. UNCHANGED <<pc, args, advice, work, faults>> BY <2>1
      <3> QED BY <3>1, <3>2, <3>3 DEF TypeOK
    <2>4. CASE UNCHANGED cluster
      BY <2>1, <2>4 DEF TypeOK
    <2> QED BY <2>1, <2>3, <2>4
  <1>5. CASE UNCHANGED vars
    BY <1>5 DEF TypeOK
  <1> QED BY <1>1, <1>2, <1>3, <1>4, <1>5 DEF Next

(* Every reachable state of init, create and the deployments they begin is     *)
(* well typed; in particular no custom location is ever linked to              *)
(* cert-manager.                                                               *)
THEOREM TypeIsCorrect == Spec => []TypeOK
  <1> QED BY TypeInit, TypeStep, PTL DEF Spec

-------------------------------------------------------------------------------
(* System trust.  The comparison of the trust settings with the cluster is     *)
(* made once, when create begins; the extension is deployed much later, by     *)
(* the command or by the deployment it leaves behind.                          *)

Compared == {"detect", "linkDependencies", "extension", "linkOps", "instance",
             "resources", "role"}

TrustProgress ==
    /\ \A s \in Session :
          pc[s] \in Compared /\ args[s].trust = "system" => "certManager" \in present
    /\ \A s \in Session : "ops" \in work[s] => pc[s] = "extension"
    /\ <<"ops", "system">> \in orphaned => "certManager" \in present

Trusted == TypeOK /\ TrustProgress /\ TrustIsBacked

LEMMA TrustedInit == Init => Trusted
  BY TypeInit DEF Init, Trusted, TrustProgress, TrustIsBacked, Compared

(* No step takes away a resource, but the removal of one that is neither of    *)
(* the foundation's.                                                           *)
LEMMA PresentGrows ==
  ASSUME [Next]_vars
  PROVE  present \cap {"certManager", "secretStore"} \subseteq present'
  <1>1. ASSUME NEW s \in Session, Start(s) \/ Progress(s) \/ Fails(s) \/ DeployFails(s)
        PROVE  present \cap {"certManager", "secretStore"} \subseteq present'
    <2>1. CASE Start(s) \/ FollowAdvice(s) \/ Preflight(s) \/ WhatIf(s)
      BY <2>1 DEF Start, FollowAdvice, Begin, Preflight, WhatIf
    <2>2. CASE CheckFoundation(s) \/ CheckDeployed(s)
      BY <2>2 DEF CheckFoundation, CheckDeployed, Refuse
    <2>3. CASE LinkDependencies(s) \/ LinkOps(s) \/ Await(s)
      BY <2>3 DEF LinkDependencies, LinkOps, Link, Await
    <2>4. CASE AssignRole(s) \/ Done(s) \/ Removed(s)
      BY <2>4 DEF AssignRole, Done, Removed
    <2>5. CASE Deploy(s)
      BY <2>5 DEF Deploy, Made
    <2>6. CASE Remove(s)
      BY <2>6 DEF Remove, Removable
    <2>7. CASE Fails(s) \/ DeployFails(s)
      BY <2>7 DEF Fails, DeployFails
    <2> QED BY <1>1, <2>1, <2>2, <2>3, <2>4, <2>5, <2>6, <2>7 DEF Progress
  <1>2. ASSUME NEW made \in BOOLEAN, Orphan(made)
        PROVE  present \cap {"certManager", "secretStore"} \subseteq present'
    BY <1>2 DEF Orphan, Made
  <1>3. CASE UNCHANGED vars
    BY <1>3
  <1> QED BY <1>1, <1>2, <1>3 DEF Next

(* Nothing removes the foundation.                                             *)
LEMMA FoundationStays ==
  ASSUME [Next]_vars, "certManager" \in present
  PROVE  "certManager" \in present'
  BY PresentGrows

(* A step of process s that goes on to another, or ends.                       *)
LEMMA GotoTrust ==
  ASSUME Trusted, NEW s \in Session, NEW step \in Step \cup {"done"}, Goto(s, step),
         "certManager" \in present => "certManager" \in present',
         step \in Compared => pc[s] \in Compared \/ TrustApplies(args[s].trust)
  PROVE  TrustProgress'
  <1>1. /\ pc' = [pc EXCEPT ![s] = step]
        /\ work' = [work EXCEPT ![s] = Template(step, args[s].trust)]
        /\ UNCHANGED <<args, orphaned>>
    BY DEF Goto
  <1>2. "ops" \in Template(step, args[s].trust) => step = "extension"
    BY TemplateType
  <1> QED BY <1>1, <1>2 DEF Trusted, TypeOK, TrustProgress, TrustApplies

LEMMA EndTrust ==
  ASSUME Trusted, NEW s \in Session, End(s),
         "certManager" \in present => "certManager" \in present'
  PROVE  TrustProgress'
  <1>1. /\ pc' = [pc EXCEPT ![s] = "idle"]
        /\ args' = [args EXCEPT ![s] = NoCommand]
        /\ orphaned' = orphaned \cup (work[s] \X {args[s].trust})
        /\ work' = [work EXCEPT ![s] = {}]
    BY DEF End
  <1>2. <<"ops", "system">> \in work[s] \X {args[s].trust} => "certManager" \in present
    BY DEF Trusted, TrustProgress, Compared
  <1> QED BY <1>1, <1>2 DEF Trusted, TypeOK, TrustProgress, Compared

LEMMA TrustedStep == Trusted /\ [Next]_vars => Trusted'
  <1> SUFFICES ASSUME Trusted, [Next]_vars PROVE TrustProgress' /\ TrustIsBacked'
    BY TypeStep DEF Trusted
  <1>0. "certManager" \in present => "certManager" \in present'
    BY FoundationStays
  <1> USE DEF At
  <1>1. ASSUME NEW s \in Session, Start(s) \/ Progress(s) PROVE TrustProgress' /\ TrustIsBacked'
    <2>1. CASE Start(s) \/ FollowAdvice(s)
      BY <2>1 DEF Start, FollowAdvice, Begin, Trusted, TypeOK, TrustProgress, TrustIsBacked,
         Compared
    <2>2. CASE Preflight(s) \/ WhatIf(s) \/ AssignRole(s) \/ Removed(s)
      BY <2>2, <1>0, GotoTrust DEF Preflight, WhatIf, AssignRole, Removed, Trusted,
         TrustIsBacked, Compared
    <2>3. CASE CheckFoundation(s)
      <3>1. CASE Goto(s, "detect") /\ UNCHANGED cluster /\ TrustApplies(args[s].trust)
        BY <3>1, <1>0, GotoTrust DEF Trusted, TrustIsBacked
      <3>2. CASE End(s) /\ UNCHANGED cluster
        BY <3>2, EndTrust DEF Trusted, TrustIsBacked
      <3> QED BY <3>1, <3>2, <2>3 DEF CheckFoundation, Refuse
    <2>4. CASE CheckDeployed(s)
      <3>1. CASE Goto(s, "linkDependencies") /\ UNCHANGED cluster
        BY <3>1, <2>4, <1>0, GotoTrust DEF CheckDeployed, Compared, Trusted, TrustIsBacked
      <3>2. CASE End(s) /\ UNCHANGED cluster
        BY <3>2, EndTrust DEF Trusted, TrustIsBacked
      <3> QED BY <3>1, <3>2, <2>4 DEF CheckDeployed, Refuse
    <2>5. CASE LinkDependencies(s) \/ LinkOps(s)
      BY <2>5, <1>0, GotoTrust DEF LinkDependencies, LinkOps, Link, Compared, Trusted,
         TrustIsBacked
    <2>6. CASE Await(s)
      <3>1. Following(s) \in Step \cup {"done"}
            /\ (Following(s) \in Compared => pc[s] \in Compared)
        BY <2>6 DEF Await, Following, Compared
      <3> QED BY <3>1, <2>6, <1>0, GotoTrust DEF Await, Trusted, TrustIsBacked
    <2>7. CASE Done(s)
      BY <2>7, <1>0, EndTrust DEF Done, Trusted, TrustIsBacked
    <2>8. CASE Deploy(s)
      <3>1. PICK r \in work[s] :
              /\ Made(r, args[s].trust)
              /\ work' = [work EXCEPT ![s] = @ \ {r}]
              /\ UNCHANGED <<pc, args, advice, orphaned, faults>>
        BY <2>8 DEF Deploy
      <3>2. TrustProgress'
        BY <3>1, <1>0 DEF Trusted, TypeOK, TrustProgress
      <3>3. TrustIsBacked'
        BY <3>1, <1>0 DEF Made, Trusted, TrustProgress, TrustIsBacked, Compared
      <3> QED BY <3>2, <3>3
    <2>9. CASE Remove(s)
      BY <2>9, <1>0 DEF Remove, Trusted, TrustProgress, TrustIsBacked
    <2> QED BY <1>1, <2>1, <2>2, <2>3, <2>4, <2>5, <2>6, <2>7, <2>8, <2>9 DEF Progress
  <1>2. ASSUME NEW s \in Session, Fails(s) PROVE TrustProgress' /\ TrustIsBacked'
    BY <1>2, <1>0, EndTrust DEF Fails, Trusted, TrustIsBacked
  <1>3. ASSUME NEW s \in Session, DeployFails(s) PROVE TrustProgress' /\ TrustIsBacked'
    <2>1. PICK r \in work[s] :
            /\ trusted' = IF r = "ops" THEN args[s].trust ELSE trusted
            /\ pc' = [pc EXCEPT ![s] = "idle"]
            /\ args' = [args EXCEPT ![s] = NoCommand]
            /\ orphaned' = orphaned \cup
                   ({q \in work[s] \ {r} : r \notin After(q)} \X {args[s].trust})
            /\ work' = [work EXCEPT ![s] = {}]
      BY <1>3 DEF DeployFails
    <2>2. "ops" \in work[s] /\ args[s].trust = "system" => "certManager" \in present
      BY DEF Trusted, TrustProgress, Compared
    <2>3. TrustProgress'
      BY <2>1, <2>2, <1>0 DEF Trusted, TypeOK, TrustProgress, Compared
    <2>4. TrustIsBacked'
      BY <2>1, <2>2, <1>0 DEF Trusted, TrustIsBacked
    <2> QED BY <2>3, <2>4
  <1>4. ASSUME NEW made \in BOOLEAN, Orphan(made) PROVE TrustProgress' /\ TrustIsBacked'
    <2>1. PICK o \in orphaned :
            /\ orphaned' = orphaned \ {o}
            /\ Made(o[1], o[2]) \/ UNCHANGED cluster
            /\ UNCHANGED <<local, faults>>
      BY <1>4 DEF Orphan
    <2>2. o[1] = "ops" /\ o[2] = "system" => o = <<"ops", "system">>
      BY DEF Trusted, TypeOK
    <2>3. TrustProgress'
      BY <2>1, <1>0 DEF Trusted, TrustProgress
    <2>4. TrustIsBacked'
      BY <2>1, <2>2, <1>0 DEF Made, Trusted, TrustProgress, TrustIsBacked
    <2> QED BY <2>3, <2>4
  <1>5. CASE UNCHANGED vars
    BY <1>5 DEF Trusted, TrustProgress, TrustIsBacked
  <1> QED BY <1>1, <1>2, <1>3, <1>4, <1>5 DEF Next

(* An IoT Operations extension with system trust has a cert-manager on its     *)
(* cluster, however many users run init and create, with whatever trust and    *)
(* failures, deployments left behind included.                                 *)
THEOREM SystemTrustIsBacked == Spec => []TrustIsBacked
  <1>1. Spec => []Trusted
    BY TrustedInit, TrustedStep, PTL DEF Spec
  <1> QED BY <1>1, PTL DEF Trusted

-------------------------------------------------------------------------------
(* Dependency order.  What the templates refer to is there by the service's    *)
(* own check; that the secret store is rests on the command's, made once.      *)

StoreProgress ==
    /\ \A s \in Session : pc[s] \in Compared => "secretStore" \in present
    /\ \A s \in Session : "ops" \in work[s] => pc[s] = "extension"
    /\ \A t \in Trust : <<"ops", t>> \in orphaned => "secretStore" \in present

Founded == TypeOK /\ StoreProgress

LEMMA FoundedInit == Init => Founded
  BY TypeInit DEF Init, Founded, StoreProgress, Compared

LEMMA StoreStays ==
  ASSUME [Next]_vars, "secretStore" \in present
  PROVE  "secretStore" \in present'
  BY PresentGrows

LEMMA GotoStore ==
  ASSUME Founded, NEW s \in Session, NEW step \in Step \cup {"done"}, Goto(s, step),
         "secretStore" \in present => "secretStore" \in present',
         step \in Compared => pc[s] \in Compared \/ FoundationReady
  PROVE  StoreProgress'
  <1>1. /\ pc' = [pc EXCEPT ![s] = step]
        /\ work' = [work EXCEPT ![s] = Template(step, args[s].trust)]
        /\ UNCHANGED orphaned
    BY DEF Goto
  <1>2. "ops" \in Template(step, args[s].trust) => step = "extension"
    BY TemplateType
  <1> QED BY <1>1, <1>2 DEF Founded, TypeOK, StoreProgress, FoundationReady

LEMMA EndStore ==
  ASSUME Founded, NEW s \in Session, End(s),
         "secretStore" \in present => "secretStore" \in present'
  PROVE  StoreProgress'
  <1>1. /\ pc' = [pc EXCEPT ![s] = "idle"]
        /\ orphaned' = orphaned \cup (work[s] \X {args[s].trust})
        /\ work' = [work EXCEPT ![s] = {}]
    BY DEF End
  <1>2. "ops" \in work[s] => "secretStore" \in present
    BY DEF Founded, StoreProgress, Compared
  <1>3. ASSUME NEW t \in Trust, <<"ops", t>> \in orphaned' PROVE "secretStore" \in present'
    BY <1>1, <1>2, <1>3 DEF Founded, StoreProgress
  <1> QED BY <1>1, <1>3 DEF Founded, TypeOK, StoreProgress, Compared

LEMMA FoundedStep == Founded /\ [Next]_vars => Founded'
  <1> SUFFICES ASSUME Founded, [Next]_vars PROVE StoreProgress'
    BY TypeStep DEF Founded
  <1>0. "secretStore" \in present => "secretStore" \in present'
    BY StoreStays
  <1> USE DEF At
  <1>1. ASSUME NEW s \in Session, Start(s) \/ Progress(s) PROVE StoreProgress'
    <2>1. CASE Start(s) \/ FollowAdvice(s)
      BY <2>1 DEF Start, FollowAdvice, Begin, Founded, TypeOK, StoreProgress, Compared
    <2>2. CASE Preflight(s) \/ WhatIf(s) \/ AssignRole(s) \/ Removed(s)
      BY <2>2, <1>0, GotoStore DEF Preflight, WhatIf, AssignRole, Removed, Compared
    <2>3. CASE CheckFoundation(s)
      <3>1. CASE Goto(s, "detect") /\ FoundationReady
        BY <3>1, <1>0, GotoStore
      <3>2. CASE End(s)
        BY <3>2, <1>0, EndStore
      <3> QED BY <3>1, <3>2, <2>3 DEF CheckFoundation, Refuse
    <2>4. CASE CheckDeployed(s)
      <3>1. CASE Goto(s, "linkDependencies")
        BY <3>1, <2>4, <1>0, GotoStore DEF CheckDeployed, Compared
      <3>2. CASE End(s)
        BY <3>2, <1>0, EndStore
      <3> QED BY <3>1, <3>2, <2>4 DEF CheckDeployed, Refuse
    <2>5. CASE LinkDependencies(s) \/ LinkOps(s)
      BY <2>5, <1>0, GotoStore DEF LinkDependencies, LinkOps, Compared
    <2>6. CASE Await(s)
      <3>1. Following(s) \in Step \cup {"done"}
            /\ (Following(s) \in Compared => pc[s] \in Compared)
        BY <2>6 DEF Await, Following, Compared
      <3> QED BY <3>1, <2>6, <1>0, GotoStore DEF Await
    <2>7. CASE Done(s)
      BY <2>7, <1>0, EndStore DEF Done
    <2>8. CASE Deploy(s)
      <3>1. PICK r \in work[s] :
              /\ work' = [work EXCEPT ![s] = @ \ {r}]
              /\ UNCHANGED <<pc, args, advice, orphaned, faults>>
        BY <2>8 DEF Deploy
      <3> QED BY <3>1, <1>0 DEF Founded, TypeOK, StoreProgress
    <2>9. CASE Remove(s)
      BY <2>9, <1>0 DEF Remove, Founded, StoreProgress
    <2> QED BY <1>1, <2>1, <2>2, <2>3, <2>4, <2>5, <2>6, <2>7, <2>8, <2>9 DEF Progress
  <1>2. ASSUME NEW s \in Session, Fails(s) PROVE StoreProgress'
    BY <1>2, <1>0, EndStore DEF Fails
  <1>3. ASSUME NEW s \in Session, DeployFails(s) PROVE StoreProgress'
    <2>1. PICK r \in work[s] :
            /\ pc' = [pc EXCEPT ![s] = "idle"]
            /\ orphaned' = orphaned \cup
                   ({q \in work[s] \ {r} : r \notin After(q)} \X {args[s].trust})
            /\ work' = [work EXCEPT ![s] = {}]
      BY <1>3 DEF DeployFails
    <2>2. "ops" \in work[s] => "secretStore" \in present
      BY DEF Founded, StoreProgress, Compared
    <2>3. ASSUME NEW t \in Trust, <<"ops", t>> \in orphaned'
          PROVE  "secretStore" \in present'
      BY <2>1, <2>2, <2>3, <1>0 DEF Founded, StoreProgress
    <2>4. \A q \in Session : pc'[q] \in Compared => "secretStore" \in present'
      BY <2>1, <1>0 DEF Founded, TypeOK, StoreProgress, Compared
    <2>5. \A q \in Session : "ops" \in work'[q] => pc'[q] = "extension"
      BY <2>1 DEF Founded, TypeOK, StoreProgress
    <2> QED BY <2>3, <2>4, <2>5 DEF StoreProgress
  <1>4. ASSUME NEW made \in BOOLEAN, Orphan(made) PROVE StoreProgress'
    BY <1>4, <1>0 DEF Orphan, Founded, StoreProgress
  <1>5. CASE UNCHANGED vars
    BY <1>5 DEF Founded, StoreProgress
  <1> QED BY <1>1, <1>2, <1>3, <1>4, <1>5 DEF Next

(* A resource made where all it needs is there is a step of the order, or      *)
(* none when it was there before.                                              *)
LEMMA MadeInOrder ==
  ASSUME NEW r \in Resource, Needs(r) \subseteq present, present' = present \cup {r}
  PROVE  [Order!Next]_present
  BY DEF Order!Next, Order!Create

LEMMA DeployableNeeds ==
  ASSUME NEW r \in Deployable, Existing(r) \subseteq present,
         r = "ops" => "secretStore" \in present
  PROVE  Needs(r) \subseteq present
  BY KindAssumption DEF Needs, Existing

LEMMA OrderStep == Founded /\ [Next]_vars => [Order!Next]_present
  <1> SUFFICES ASSUME Founded, [Next]_vars, present' # present PROVE [Order!Next]_present
    OBVIOUS
  <1> USE DEF At
  <1>1. ASSUME NEW s \in Session, LinkDependencies(s) \/ LinkOps(s)
        PROVE  [Order!Next]_present
    <2>1. "secretStore" \in present /\ present' = present \cup {"customLocation"}
      BY <1>1 DEF LinkDependencies, LinkOps, Link, Founded, StoreProgress, Compared
    <2>2. Needs("customLocation") \subseteq present
      BY <2>1, KindAssumption DEF Needs
    <2> QED BY <2>1, <2>2, MadeInOrder
  <1>2. ASSUME NEW s \in Session, Deploy(s) PROVE [Order!Next]_present
    <2>1. PICK r \in work[s] : Existing(r) \subseteq present /\ Made(r, args[s].trust)
      BY <1>2 DEF Deploy
    <2>2. r \in Deployable /\ (r = "ops" => "secretStore" \in present)
      BY DEF Founded, TypeOK, StoreProgress, Compared
    <2> QED BY <2>1, <2>2, DeployableNeeds, MadeInOrder DEF Made
  <1>3. ASSUME NEW s \in Session, DeployFails(s) PROVE [Order!Next]_present
    <2>1. PICK r \in work[s] : present' = present \cup ({r} \cap Extension)
      BY <1>3 DEF DeployFails
    <2>2. r \in Deployable /\ (r = "ops" => "secretStore" \in present)
      BY DEF Founded, TypeOK, StoreProgress, Compared
    <2>3. r \in Extension BY <2>1
    <2>4. Needs(r) \subseteq present BY <2>2, <2>3, KindAssumption DEF Needs
    <2>5. present' = present \cup {r} BY <2>1, <2>3
    <2> QED BY <2>2, <2>4, <2>5, MadeInOrder
  <1>4. ASSUME NEW made \in BOOLEAN, Orphan(made) PROVE [Order!Next]_present
    <2>1. PICK o \in orphaned : Existing(o[1]) \subseteq present /\ Made(o[1], o[2])
      BY <1>4 DEF Orphan
    <2>2. o = <<o[1], o[2]>> /\ o[1] \in Deployable /\ o[2] \in Trust
      BY DEF Founded, TypeOK
    <2>3. o[1] = "ops" => "secretStore" \in present
      BY <2>2 DEF Founded, StoreProgress
    <2> QED BY <2>1, <2>2, <2>3, DeployableNeeds, MadeInOrder DEF Made
  <1>5. ASSUME NEW s \in Session, Remove(s) PROVE [Order!Next]_present
    <2>1. PICK r \in Removable : present' = present \ {r}
      BY <1>5 DEF Remove
    <2>2. r \in present /\ r \notin {"certManager", "secretStore"}
          /\ \A q \in present : r \notin Refers(q)
      BY <2>1 DEF Removable
    <2>3. ASSUME NEW q \in present PROVE r \notin Needs(q)
      BY <2>2, KindAssumption DEF Needs, Refers, Existing
    <2>4. r \in Resource BY <2>2 DEF Founded, TypeOK
    <2> QED BY <2>1, <2>2, <2>3, <2>4 DEF Order!Next, Order!Remove
  <1>6. \/ \E s \in Session : LinkDependencies(s) \/ LinkOps(s) \/ Deploy(s)
                                \/ DeployFails(s) \/ Remove(s)
        \/ \E made \in BOOLEAN : Orphan(made)
    BY DEF Next, Progress, Start, FollowAdvice, Begin, Preflight, WhatIf, CheckFoundation,
           CheckDeployed, Await, AssignRole, Done, Removed, Fails, Refuse
  <1> QED BY <1>1, <1>2, <1>3, <1>4, <1>5, <1>6

(* Init and create implement DependencyOrder: whatever overlaps, fails or is   *)
(* left behind, nothing is deployed before what it refers to, and nothing is   *)
(* removed that something refers to.                                           *)
THEOREM ImplementsDependencyOrder == Spec => KeepsDependencies
  <1>1. Init => Order!Init
    BY DEF Init, Order!Init, Order!TypeOK, Order!Closed
  <1> QED BY <1>1, FoundedInit, FoundedStep, OrderStep, PTL DEF Spec, KeepsDependencies, Order!Spec

(* What implements DependencyOrder keeps what it manages closed.               *)
LEMMA OrderKeepsClosed == Order!Spec => [](Order!TypeOK /\ Order!Closed)
  <1>1. Order!Init => Order!TypeOK /\ Order!Closed
    BY DEF Order!Init
  <1>2. (Order!TypeOK /\ Order!Closed) /\ [Order!Next]_present => (Order!TypeOK /\ Order!Closed)'
    <2> SUFFICES ASSUME Order!TypeOK, Order!Closed, [Order!Next]_present
                 PROVE  (Order!TypeOK /\ Order!Closed)'
      OBVIOUS
    <2>1. CASE \E r \in present' \ present : Order!Create(r)
      BY <2>1 DEF Order!Create, Order!TypeOK, Order!Closed
    <2>2. CASE \E r \in present \ present' : Order!Remove(r)
      BY <2>2 DEF Order!Remove, Order!TypeOK, Order!Closed
    <2>3. CASE UNCHANGED present
      BY <2>3 DEF Order!TypeOK, Order!Closed
    <2> QED BY <2>1, <2>2, <2>3 DEF Order!Next
  <1> QED BY <1>1, <1>2, PTL DEF Order!Spec

(* However commands overlap and deployments fail, nothing that is deployed     *)
(* refers to something that is not.                                            *)
THEOREM DeploymentLeavesNothingDangling == Spec => []Order!Closed
  <1> QED BY ImplementsDependencyOrder, OrderKeepsClosed, PTL DEF KeepsDependencies

-------------------------------------------------------------------------------
(* One user, and an index that is up to date: what the custom location is      *)
(* linked to, and what a create that ends has deployed.                        *)

OneUser == \A s, t \in Session : s = t

(* Past the check for an existing deployment the custom location is not linked *)
(* to IoT Operations, until create links it; so there is no instance on it,    *)
(* and no deployment left behind that would make one.                          *)
Linking ==
    /\ \A s \in Session : pc[s] = "linkDependencies" => "ops" \notin links
    /\ \A s \in Session : pc[s] \in {"instance", "resources", "role"}
                            => links = {"secretStore", "ops"}
    /\ \A s \in Session : "instance" \in work[s] => pc[s] = "instance"
    /\ \A t \in Trust : <<"instance", t>> \in orphaned => "ops" \in links

Linked == Founded /\ Linking /\ InstanceLinked

(* The step and the work of a process that goes on, or ends.                   *)
LEMMA GotoWork ==
  ASSUME TypeOK, NEW s \in Session, NEW step \in Step \cup {"done"}, Goto(s, step)
  PROVE  /\ pc'[s] = step
         /\ work'[s] = Template(step, args[s].trust)
         /\ "instance" \in work'[s] => step = "instance"
         /\ orphaned' = orphaned /\ args' = args
  BY KindAssumption DEF TypeOK, Goto, Template

LEMMA EndWork ==
  ASSUME TypeOK, NEW s \in Session, End(s)
  PROVE  /\ pc'[s] = "idle" /\ work'[s] = {}
         /\ \A t \in Trust : <<"instance", t>> \in orphaned'
              => <<"instance", t>> \in orphaned \/ "instance" \in work[s]
  BY DEF TypeOK, End

LEMMA LinkedStep ==
  ASSUME OneUser, ~StaleIndex, Linked, [Next]_vars
  PROVE  Linking' /\ InstanceLinked'
  <1> USE DEF At, Linked, Founded
  <1>1. ASSUME NEW s \in Session, Start(s) \/ Progress(s) \/ Fails(s) \/ DeployFails(s)
        PROVE  Linking' /\ InstanceLinked'
    <2>0. \A t \in Session : t = s
      BY DEF OneUser
    <2>1. ASSUME End(s), UNCHANGED <<present, links>> PROVE Linking' /\ InstanceLinked'
      <3>1. "instance" \in work[s] => "ops" \in links
        BY DEF Linking
      <3> QED BY <2>0, <2>1, <3>1, EndWork DEF Linking, InstanceLinked
    <2>2. CASE Start(s) \/ FollowAdvice(s)
      BY <2>0, <2>2 DEF Start, FollowAdvice, Begin, TypeOK, Linking, InstanceLinked
    <2>3. CASE Preflight(s) \/ WhatIf(s) \/ AssignRole(s) \/ Removed(s)
      <3>1. PICK step \in {"whatIf", "foundation", "enablement", "done"} :
              Goto(s, step) /\ UNCHANGED cluster
        BY <2>3 DEF Preflight, WhatIf, AssignRole, Removed
      <3> QED BY <2>0, <3>1, GotoWork DEF Linking, InstanceLinked
    <2>4. CASE CheckFoundation(s)
      <3>1. CASE Goto(s, "detect") /\ UNCHANGED cluster
        BY <2>0, <3>1, GotoWork DEF Linking, InstanceLinked
      <3> QED BY <2>1, <2>4, <3>1 DEF CheckFoundation, Refuse
    <2>5. CASE CheckDeployed(s)
      <3>1. CASE FALSE \in Detected /\ Goto(s, "linkDependencies") /\ UNCHANGED cluster
        <4>1. "ops" \notin links
          BY <3>1 DEF Detected
        <4> QED BY <2>0, <3>1, <4>1, GotoWork DEF Linking, InstanceLinked
      <3> QED BY <2>1, <2>5, <3>1 DEF CheckDeployed, Refuse
    <2>6. CASE LinkDependencies(s)
      <3>1. "ops" \notin links /\ "instance" \notin present
        BY <2>6 DEF LinkDependencies, Linking, InstanceLinked
      <3>2. "instance" \notin present' /\ \A t \in Trust : <<"instance", t>> \notin orphaned
        BY <2>6, <3>1 DEF LinkDependencies, Link, Linking
      <3>3. Goto(s, "extension")
        BY <2>6 DEF LinkDependencies
      <3> QED BY <2>0, <3>2, <3>3, GotoWork DEF Linking, InstanceLinked
    <2>7. CASE LinkOps(s)
      <3>1. Goto(s, "instance") /\ links' = {"secretStore", "ops"}
        BY <2>7 DEF LinkOps, Link, DependencyIds
      <3> QED BY <2>0, <3>1, GotoWork DEF Linking, InstanceLinked
    <2>8. CASE Await(s)
      <3>1. PICK step \in {"done", "linkOps", "resources", "role"} :
              /\ Goto(s, step) /\ UNCHANGED cluster
              /\ step \in {"resources", "role"} => pc[s] \in {"instance", "resources"}
        BY <2>8 DEF Await, Following
      <3> QED BY <2>0, <3>1, GotoWork DEF Linking, InstanceLinked
    <2>9. CASE Done(s) \/ Fails(s)
      BY <2>1, <2>9 DEF Done, Fails
    <2>10. CASE Deploy(s)
      <3>1. PICK r \in work[s] :
              /\ present' = present \cup {r} /\ links' = links
              /\ work' = [work EXCEPT ![s] = @ \ {r}]
              /\ UNCHANGED <<pc, orphaned>>
        BY <2>10 DEF Deploy, Made
      <3>2. "instance" \in work[s] => "ops" \in links
        BY DEF Linking
      <3>3. InstanceLinked'
        BY <3>1, <3>2 DEF InstanceLinked
      <3>4. work'[s] \subseteq work[s]
        BY <3>1 DEF TypeOK
      <3> QED BY <2>0, <3>1, <3>3, <3>4 DEF Linking
    <2>11. CASE DeployFails(s)
      <3>1. PICK r \in work[s] :
              /\ present' = present \cup ({r} \cap Extension) /\ links' = links
              /\ pc' = [pc EXCEPT ![s] = "idle"]
              /\ orphaned' = orphaned \cup
                     ({q \in work[s] \ {r} : r \notin After(q)} \X {args[s].trust})
              /\ work' = [work EXCEPT ![s] = {}]
        BY <2>11 DEF DeployFails
      <3>2. pc'[s] = "idle" /\ work'[s] = {}
        BY <3>1 DEF TypeOK
      <3>3. \A t \in Trust : <<"instance", t>> \in orphaned'
               => <<"instance", t>> \in orphaned \/ "instance" \in work[s]
        BY <3>1
      <3>4. "instance" \in work[s] => "ops" \in links
        BY DEF Linking
      <3>5. Linking'
        BY <2>0, <3>1, <3>2, <3>3, <3>4 DEF Linking
      <3> QED BY <3>1, <3>5 DEF InstanceLinked
    <2>12. CASE Remove(s)
      <3>1. PICK r \in Removable :
              /\ present' = present \ {r}
              /\ links' = IF r = "customLocation" THEN {} ELSE links
              /\ orphaned' = {o \in orphaned : r \notin Existing(o[1])}
        BY <2>12 DEF Remove
      <3>2. pc[s] = "delete" /\ pc' = pc /\ work' = work
        BY <2>12 DEF Remove
      <3>3. CASE r = "customLocation"
        <4>1. r \in Existing("instance")
          BY <3>3 DEF Existing
        <4>2. "instance" \notin present'
          BY <3>1, <4>1 DEF Removable, Refers
        <4>3. \A t \in Trust : <<"instance", t>> \notin orphaned'
          BY <3>1, <4>1
        <4> QED BY <2>0, <3>2, <4>2, <4>3 DEF Linking, InstanceLinked
      <3>4. CASE r # "customLocation"
        BY <2>0, <3>1, <3>2, <3>4 DEF Linking, InstanceLinked
      <3> QED BY <3>3, <3>4
    <2> QED BY <1>1, <2>2, <2>3, <2>4, <2>5, <2>6, <2>7, <2>8, <2>9, <2>10, <2>11, <2>12
            DEF Progress
  <1>2. ASSUME NEW made \in BOOLEAN, Orphan(made) PROVE Linking' /\ InstanceLinked'
    <2>1. PICK o \in orphaned :
            /\ orphaned' = orphaned \ {o}
            /\ present' = present \cup {o[1]} \/ present' = present
            /\ UNCHANGED <<links, pc, work>>
      BY <1>2 DEF Orphan, Made
    <2>2. o = <<o[1], o[2]>> /\ o[2] \in Trust
      BY DEF TypeOK
    <2>3. o[1] = "instance" => "ops" \in links
      BY <2>2 DEF Linking
    <2> QED BY <2>1, <2>3 DEF Linking, InstanceLinked
  <1>3. CASE UNCHANGED vars
    BY <1>3 DEF Linking, InstanceLinked
  <1> QED BY <1>1, <1>2, <1>3 DEF Next

LEMMA LinkedInit == Init => Linked
  BY FoundedInit DEF Init, Linked, Linking, InstanceLinked

(* With one user and an index that is up to date, the custom location an       *)
(* instance is on is linked to IoT Operations: a create that would cut the     *)
(* link for a while is refused, and no deployment left behind makes an         *)
(* instance on a location without it.                                          *)
THEOREM InstancesAreLinked ==
  ASSUME OneUser, ~StaleIndex
  PROVE  Spec => []InstanceLinked
  <1>1. Init => Linked
    BY LinkedInit
  <1>2. Linked /\ [Next]_vars => Linked'
    BY FoundedStep, LinkedStep DEF Linked
  <1> QED BY <1>1, <1>2, PTL DEF Spec, Linked

(* What a create has deployed at each of its steps; only one with the command  *)
(* line of a create gets to its end this way.                                  *)
Laying ==
    \A s \in Session :
        /\ pc[s] \in {"whatIf", "enablement"} => args[s].cmd = "init"
        /\ pc[s] = "delete" => args[s].cmd = "delete"
        /\ pc[s] \in {"extension", "linkOps", "instance", "resources", "role"}
              => "customLocation" \in present
        /\ pc[s] = "extension" => "ops" \in (present \ failed) \cup work[s]
        /\ pc[s] \in {"linkOps", "instance", "resources", "role"}
              => "ops" \in present \ failed
        /\ pc[s] = "instance" => "instance" \in present \cup work[s]
        /\ pc[s] \in {"resources", "role"} => "instance" \in present
        /\ pc[s] = "resources" => Default \subseteq present \cup work[s]
        /\ pc[s] = "role" => Default \subseteq present

Complete == Linked /\ Laying /\ CompleteIsWhole

LEMMA LaidStep ==
  ASSUME OneUser, ~StaleIndex, Complete, [Next]_vars
  PROVE  Laying' /\ CompleteIsWhole'
  <1> USE DEF At, Complete, Linked, Founded
  <1>1. ASSUME NEW s \in Session, Start(s) \/ Progress(s) \/ Fails(s) \/ DeployFails(s)
        PROVE  Laying' /\ CompleteIsWhole'
    <2>0. \A t \in Session : t = s
      BY DEF OneUser
    <2>1. ASSUME pc'[s] = "idle" PROVE Laying' /\ CompleteIsWhole'
      BY <2>0, <2>1 DEF Laying, CompleteIsWhole
    <2>2. CASE Start(s) \/ FollowAdvice(s)
      <3>1. PICK a \in Command : Begin(s, a)
        BY <2>2, StartBegins
      <3>2. /\ pc'[s] = IF a.cmd = "delete" THEN "delete" ELSE "preflight"
            /\ args'[s] = a
        BY <3>1 DEF Begin, TypeOK
      <3> QED BY <2>0, <3>2 DEF Laying, CompleteIsWhole
    <2>3. CASE Preflight(s) \/ WhatIf(s)
      <3>1. PICK step \in {"whatIf", "foundation", "enablement"} :
              /\ Goto(s, step)
              /\ step \in {"whatIf", "enablement"} => args[s].cmd = "init"
        BY <2>3 DEF Preflight, WhatIf, Laying
      <3> QED BY <2>0, <3>1, GotoWork DEF Laying, CompleteIsWhole
    <2>4. CASE CheckFoundation(s) \/ CheckDeployed(s)
      <3>1. CASE End(s)
        BY <2>1, <3>1, EndWork
      <3>2. ASSUME NEW step \in {"detect", "linkDependencies"}, Goto(s, step)
            PROVE  Laying' /\ CompleteIsWhole'
        BY <2>0, <3>2, GotoWork DEF Laying, CompleteIsWhole
      <3> QED BY <2>4, <3>1, <3>2 DEF CheckFoundation, CheckDeployed, Refuse
    <2>5. CASE LinkDependencies(s)
      <3>1. Goto(s, "extension") /\ "customLocation" \in present'
        BY <2>5 DEF LinkDependencies, Link
      <3>2. "ops" \in work'[s]
        BY <3>1, GotoWork DEF Template
      <3> QED BY <2>0, <3>1, <3>2, GotoWork DEF Laying, CompleteIsWhole
    <2>6. CASE LinkOps(s)
      <3>1. /\ Goto(s, "instance") /\ "customLocation" \in present'
            /\ "ops" \in present' \ failed'
        BY <2>6 DEF LinkOps, Link, Laying
      <3>2. "instance" \in work'[s]
        BY <3>1, GotoWork DEF Template
      <3> QED BY <2>0, <3>1, <3>2, GotoWork DEF Laying, CompleteIsWhole
    <2>7. CASE Await(s)
      <3>0. /\ pc[s] \in Phase /\ work[s] = {} /\ Goto(s, Following(s))
            /\ UNCHANGED <<present, failed, links>>
        BY <2>7 DEF Await, Deployed
      <3>1. CASE pc[s] = "enablement"
        <4>1. Goto(s, "done") /\ args[s].cmd = "init"
          BY <3>0, <3>1 DEF Following, Laying
        <4> QED BY <2>0, <4>1, GotoWork DEF Laying, CompleteIsWhole
      <3>2. CASE pc[s] = "extension"
        <4>1. /\ Goto(s, "linkOps") /\ "ops" \in present \ failed
              /\ "customLocation" \in present
          BY <3>0, <3>2 DEF Following, Laying
        <4> QED BY <2>0, <3>0, <4>1, GotoWork DEF Laying, CompleteIsWhole
      <3>3. CASE pc[s] = "instance"
        <4>1. /\ Goto(s, "resources") /\ "ops" \in present \ failed
              /\ {"customLocation", "instance"} \subseteq present
          BY <3>0, <3>3 DEF Following, Laying
        <4>2. Default \subseteq work'[s]
          BY <4>1, GotoWork DEF Template
        <4> QED BY <2>0, <3>0, <4>1, <4>2, GotoWork DEF Laying, CompleteIsWhole
      <3>4. CASE pc[s] = "resources"
        <4>1. /\ Goto(s, "role") /\ "ops" \in present \ failed
              /\ {"customLocation", "instance"} \cup Default \subseteq present
          BY <3>0, <3>4 DEF Following, Laying
        <4> QED BY <2>0, <3>0, <4>1, GotoWork DEF Laying, CompleteIsWhole
      <3> QED BY <3>0, <3>1, <3>2, <3>3, <3>4
    <2>8. CASE AssignRole(s)
      <3>1. Goto(s, "done") /\ UNCHANGED <<present, failed, links>> /\ pc[s] = "role"
        BY <2>8 DEF AssignRole
      <3>2. Whole
        BY <3>1 DEF Whole, Laying, Linking, StoreProgress, Compared
      <3>3. Whole'
        BY <3>1, <3>2 DEF Whole
      <3> QED BY <2>0, <3>1, <3>3, GotoWork DEF Laying, CompleteIsWhole
    <2>9. CASE Removed(s)
      <3>1. Goto(s, "done") /\ args[s].cmd = "delete"
        BY <2>9 DEF Removed, Laying
      <3> QED BY <2>0, <3>1, GotoWork DEF Laying, CompleteIsWhole
    <2>10. CASE Done(s) \/ Fails(s)
      BY <2>1, <2>10, EndWork DEF Done, Fails
    <2>11. CASE Deploy(s)
      <3>1. PICK r \in work[s] :
              /\ present' = present \cup {r} /\ failed' = failed \ {r} /\ links' = links
              /\ work' = [work EXCEPT ![s] = @ \ {r}]
              /\ pc' = pc /\ args' = args
        BY <2>11 DEF Deploy, Made
      <3>2. work'[s] = work[s] \ {r}
        BY <3>1 DEF TypeOK
      <3>3. Laying'
        BY <2>0, <3>1, <3>2 DEF Laying
      <3>4. Whole => Whole'
        BY <3>1 DEF Whole
      <3> QED BY <3>1, <3>3, <3>4 DEF CompleteIsWhole
    <2>12. CASE DeployFails(s)
      BY <2>1, <2>12 DEF DeployFails, TypeOK
    <2>13. CASE Remove(s)
      <3>1. pc[s] = "delete" /\ pc' = pc /\ args' = args
        BY <2>13 DEF Remove
      <3> QED BY <2>0, <3>1 DEF Laying, CompleteIsWhole
    <2> QED BY <1>1, <2>2, <2>3, <2>4, <2>5, <2>6, <2>7, <2>8, <2>9, <2>10, <2>11, <2>12,
               <2>13 DEF Progress
  <1>2. ASSUME NEW made \in BOOLEAN, Orphan(made) PROVE Laying' /\ CompleteIsWhole'
    <2>1. /\ present \subseteq present' /\ failed' \subseteq failed
          /\ UNCHANGED <<links, pc, args, work>>
      BY <1>2 DEF Orphan, Made
    <2>2. Laying'
      BY <2>1 DEF Laying
    <2>3. Whole => Whole'
      BY <2>1 DEF Whole
    <2> QED BY <2>1, <2>2, <2>3 DEF CompleteIsWhole
  <1>3. CASE UNCHANGED vars
    BY <1>3 DEF Laying, CompleteIsWhole, Whole
  <1> QED BY <1>1, <1>2, <1>3 DEF Next

(* With one user and an index that is up to date, a create that ends without   *)
(* an error has left everything deployed, and the custom location linked to    *)
(* all of it, whatever failed, was run or was left running before.             *)
THEOREM CompletesAreWhole ==
  ASSUME OneUser, ~StaleIndex
  PROVE  Spec => []CompleteIsWhole
  <1>1. Init => Complete
    BY LinkedInit DEF Init, Complete, Laying, CompleteIsWhole, At
  <1>2. Complete /\ [Next]_vars => Complete'
    BY FoundedStep, LinkedStep, LaidStep DEF Complete, Linked
  <1> QED BY <1>1, <1>2, PTL DEF Spec, Complete
===============================================================================
