-------------------------- MODULE MgmtActionsProofs --------------------------
(***************************************************************************)
(* Theorems about MgmtActions, for any number of instances, processes,     *)
(* Event Grid namespaces, profiles and failures.                           *)
(***************************************************************************)
EXTENDS MgmtActions, TLAPS

(* A running enable has its arguments. *)
ArgumentsGiven ==
    \A s \in Session : pc[s] \in EnableSteps =>
        want[s].eg \in EgNamespace /\ want[s].profile \in Profile /\ want[s].auth \in Auth

TypeInv == TypeOK /\ ArgumentsGiven

USE InstanceOfAssumption, ProfileAssumption, NoneAssumption, BoundAssumption,
    IdentityAssumption

LEMMA TypeInit == Init => TypeInv
<1> SUFFICES ASSUME Init PROVE TypeInv
  OBVIOUS
<1>1. adr \in Namespace
  BY DEF Init, Namespace, Endpoints
<1>2. dfEndpoint \in [Instance -> DfEndpoint \cup {NoDfEndpoint}]
  BY DEF Init
<1>3. want \in [Session -> Arguments] /\ plan \in [Session -> Findings]
  BY DEF Init, Arguments, NoArguments, Findings, NoFindings
<1>4. seen \in [Session -> Namespace]
  BY DEF Init, Namespace, Endpoints, NoNamespace
<1>5. pc \in [Session -> Steps] /\ ArgumentsGiven
  BY DEF Init, Steps, EnableSteps, ArgumentsGiven
<1> QED
  BY <1>1, <1>2, <1>3, <1>4, <1>5 DEF Init, TypeInv, TypeOK

LEMMA FinishType ==
    ASSUME NEW s \in Session, TypeInv, Finish(s)
    PROVE  /\ pc' \in [Session -> Steps]
           /\ want' \in [Session -> Arguments]
           /\ seen' \in [Session -> Namespace]
           /\ plan' \in [Session -> Findings]
           /\ ArgumentsGiven'
BY DEF Finish, TypeInv, TypeOK, ArgumentsGiven, Namespace, Endpoints, Arguments,
       NoArguments, Findings, NoFindings, NoNamespace, Steps, EnableSteps,
       DisableSteps, RemoveSteps

LEMMA EnableType ==
    ASSUME NEW s \in Session, TypeInv, StartEnable(s) \/ EnableStep(s)
    PROVE  TypeInv'
<1> USE DEF TypeInv, TypeOK, cloud, eventGrid, aio, roles, At, Goto
<1>1. CASE StartEnable(s)
  BY <1>1 DEF StartEnable, ArgumentsGiven, Arguments, Steps, EnableSteps
<1>2. CASE EnsureTopicSpace(s)
  BY <1>2 DEF EnsureTopicSpace, OwnPlace, ArgumentsGiven, Placement, Steps, EnableSteps
<1>3. CASE EnsurePublisher(s)
  BY <1>3 DEF EnsurePublisher, OwnPlace, ArgumentsGiven, Placement, Steps, EnableSteps
<1>4. CASE EnsureSubscriber(s)
  BY <1>4 DEF EnsureSubscriber, OwnPlace, ArgumentsGiven, Placement, Steps, EnableSteps
<1>5. CASE ReadNamespace(s)
  BY <1>5 DEF ReadNamespace, ArgumentsGiven, Steps, EnableSteps
<1>6. CASE PatchNamespace(s)
  BY <1>6 DEF PatchNamespace, DeepMerge, MergedEndpoints, Namespace, Endpoints,
       ArgumentsGiven, Steps, EnableSteps
<1>7. CASE EnsureDfEndpoint(s)
  BY <1>7 DEF EnsureDfEndpoint, EnsuredDfEndpoint, DfEndpoint, ArgumentsGiven, Steps,
       EnableSteps
<1>8. CASE EnsureGraph(s)
  BY <1>8 DEF EnsureGraph, OwnFlow, ArgumentsGiven, Steps, EnableSteps
<1>9. CASE EnsureResponse(s)
  <2>1. response' \subseteq Instance \X Profile
    BY <1>9 DEF EnsureResponse, OwnFlow, ArgumentsGiven, EnableSteps
  <2>2. CASE Finish(s)
    BY <1>9, <2>1, <2>2, FinishType DEF EnsureResponse
  <2>3. CASE Goto(s, "roles") /\ UNCHANGED <<want, seen, plan>>
    BY <1>9, <2>1, <2>3 DEF EnsureResponse, ArgumentsGiven, Steps, EnableSteps
  <2> QED BY <1>9, <2>2, <2>3 DEF EnsureResponse
<1>10. CASE AssignAdrRoles(s)
  BY <1>10 DEF AssignAdrRoles, ArgumentsGiven, Steps, EnableSteps
<1>11. CASE AssignDataflowRoles(s)
  BY <1>11, FinishType DEF AssignDataflowRoles, ArgumentsGiven, EnableSteps
<1> QED
  BY <1>1, <1>2, <1>3, <1>4, <1>5, <1>6, <1>7, <1>8, <1>9, <1>10, <1>11
  DEF EnableStep

LEMMA DisableType ==
    ASSUME NEW s \in Session, TypeInv, StartDisable(s) \/ DisableStep(s)
    PROVE  TypeInv'
<1> USE DEF TypeInv, TypeOK, cloud, eventGrid, aio, roles, At, Goto
<1>1. CASE StartDisable(s)
  BY <1>1 DEF StartDisable, ArgumentsGiven, Steps, EnableSteps, DisableSteps
<1>2. CASE FindNamespace(s)
  <2>1. adr.endpoints[InstanceOf[s]] \in EgNamespace \cup {None}
    BY DEF Namespace, Endpoints
  <2>2. plan' \in [Session -> Findings]
    <3>1. plan' = [plan EXCEPT ![s].eg = adr.endpoints[InstanceOf[s]]]
      BY <1>2 DEF FindNamespace
    <3>2. plan[s] \in Findings
      OBVIOUS
    <3>3. [plan[s] EXCEPT !.eg = adr.endpoints[InstanceOf[s]]] \in Findings
      BY <2>1, <3>2 DEF Findings
    <3> QED BY <3>1, <3>3
  <2>3. seen' \in [Session -> Namespace]
    BY <1>2 DEF FindNamespace
  <2> QED
    BY <1>2, <2>2, <2>3 DEF FindNamespace, ArgumentsGiven, Steps, EnableSteps, DisableSteps
<1>3. CASE FindAio(s)
  <2> DEFINE i == InstanceOf[s]
  <2>1. PICK p \in FirstProfile(graph, i) :
          \E q \in IF p = None THEN FirstProfile(response, i) ELSE {None} :
             plan' = [plan EXCEPT ![s] = FoundAio(s, p, q)]
    BY <1>3 DEF FindAio
  <2>2. PICK q \in IF p = None THEN FirstProfile(response, i) ELSE {None} :
             plan' = [plan EXCEPT ![s] = FoundAio(s, p, q)]
    BY <2>1
  <2>3. p \in Profile \cup {None} /\ q \in Profile \cup {None}
    BY <2>1, <2>2 DEF FirstProfile
  <2>4. FoundAio(s, p, q) \in Findings
    BY <2>3 DEF FoundAio, Findings
  <2>5. plan' \in [Session -> Findings]
    BY <2>2, <2>4
  <2> QED
    BY <1>3, <2>5 DEF FindAio, ArgumentsGiven, Steps, EnableSteps, DisableSteps
<1>4. CASE FindEventGrid(s)
  <2> DEFINE place == <<InstanceOf[s], plan[s].eg>>
             exist == plan[s].exist
                \cup (IF place \in topicSpace THEN {"topicSpace"} ELSE {})
                \cup (IF place \in publisher THEN {"publisher"} ELSE {})
                \cup (IF place \in subscriber THEN {"subscriber"} ELSE {})
  <2>1. plan' = [plan EXCEPT ![s].exist = exist]
    BY <1>4, Zenon DEF FindEventGrid
  <2>2. plan[s] \in Findings
    OBVIOUS
  <2>3. [plan[s] EXCEPT !.exist = exist] \in Findings
    <3>1. plan[s].exist \subseteq {"dfEndpoint", "topicSpace", "publisher", "subscriber"}
      BY <2>2 DEF Findings
    <3>2. exist \subseteq {"dfEndpoint", "topicSpace", "publisher", "subscriber"}
      BY <3>1
    <3> HIDE DEF exist
    <3> QED BY <2>2, <3>2 DEF Findings
  <2> HIDE DEF exist
  <2>4. plan' \in [Session -> Findings]
    BY <2>1, <2>3
  <2> QED
    BY <1>4, <2>4 DEF FindEventGrid, ArgumentsGiven, Steps, EnableSteps, DisableSteps
<1>5. CASE Answer(s)
  BY <1>5, FinishType DEF Answer, ArgumentsGiven, Steps, EnableSteps, DisableSteps
<1>6. CASE DeleteResponse(s)
  BY <1>6 DEF DeleteResponse, ArgumentsGiven, Steps, EnableSteps, DisableSteps
<1>7. CASE DeleteGraph(s)
  BY <1>7 DEF DeleteGraph, ArgumentsGiven, Steps, EnableSteps, DisableSteps
<1>8. CASE DeleteDfEndpoint(s)
  BY <1>8 DEF DeleteDfEndpoint, ArgumentsGiven, Steps, EnableSteps, DisableSteps
<1>9. CASE PutNamespace(s)
  <2>1. PutPayload(s, InstanceOf[s]) \in Namespace
    BY DEF PutPayload, Namespace, Endpoints
  <2> QED
    BY <1>9, <2>1 DEF PutNamespace, ArgumentsGiven, Steps, EnableSteps, DisableSteps
<1>10. CASE DeletePublisher(s)
  BY <1>10 DEF DeletePublisher, ArgumentsGiven, Steps, EnableSteps, DisableSteps
<1>11. CASE DeleteSubscriber(s)
  BY <1>11 DEF DeleteSubscriber, ArgumentsGiven, Steps, EnableSteps, DisableSteps
<1>12. CASE DeleteTopicSpace(s)
  BY <1>12, FinishType DEF DeleteTopicSpace
<1> QED
  BY <1>1, <1>2, <1>3, <1>4, <1>5, <1>6, <1>7, <1>8, <1>9, <1>10, <1>11, <1>12
  DEF DisableStep

LEMMA RemoveType ==
    ASSUME NEW s \in Session, TypeInv, StartRemove(s) \/ RemoveStep(s) \/ Abort(s)
    PROVE  TypeInv'
<1> USE DEF TypeInv, TypeOK, cloud, eventGrid, aio, roles, At, Goto
<1>1. CASE StartRemove(s)
  <2>1. PICK k \in Instance : want' = [want EXCEPT ![s].key = k]
    BY <1>1 DEF StartRemove
  <2>2. [want[s] EXCEPT !.key = k] \in Arguments
    BY DEF Arguments
  <2>3. want' \in [Session -> Arguments]
    BY <2>1, <2>2
  <2> QED
    BY <1>1, <2>1, <2>3 DEF StartRemove, ArgumentsGiven, Steps, EnableSteps, RemoveSteps
<1>2. CASE RemoveRead(s)
  BY <1>2, FinishType DEF RemoveRead, ArgumentsGiven, Steps, EnableSteps, RemoveSteps
<1>3. CASE RemovePut(s)
  BY <1>3, FinishType DEF RemovePut, PutPayload, Namespace, Endpoints
<1>4. CASE Abort(s)
  BY <1>4, FinishType DEF Abort
<1> QED BY <1>1, <1>2, <1>3, <1>4 DEF RemoveStep

LEMMA TypeStep == TypeInv /\ [Next]_vars => TypeInv'
<1> SUFFICES ASSUME TypeInv, [Next]_vars PROVE TypeInv'
  OBVIOUS
<1>1. CASE UNCHANGED vars
  BY <1>1 DEF vars, cloud, local, eventGrid, aio, roles, TypeInv, TypeOK, ArgumentsGiven
<1>2. CASE Next
  BY <1>2, EnableType, DisableType, RemoveType DEF Next, Start, Step
<1> QED BY <1>1, <1>2

(* The state of the cloud and of every process keeps its type. *)
THEOREM TypeCorrect == Spec => []TypeOK
<1>1. Spec => []TypeInv
  BY TypeInit, TypeStep, PTL DEF Spec
<1> QED BY <1>1, PTL DEF TypeInv

-------------------------------------------------------------------------------
(* Where the endpoints lead.  One process works for an instance at a time;  *)
(* processes for different instances overlap as they like.                  *)

OneProcessPerInstance ==
    \A s, t \in Session : InstanceOf[s] = InstanceOf[t] => s = t

AfterTopicSpace == EnableSteps \ {"topicSpace"}
AfterPublisher  == AfterTopicSpace \ {"publisher"}
AfterSubscriber == AfterPublisher \ {"subscriber"}

(* What a running enable has set up is there. *)
EnableProgress ==
    \A s \in Session :
        /\ pc[s] \in AfterTopicSpace => OwnPlace(s) \in topicSpace
        /\ pc[s] \in AfterPublisher  => OwnPlace(s) \in publisher
        /\ pc[s] \in AfterSubscriber => OwnPlace(s) \in subscriber

BeforeDelSubscriber ==
    {"prompt", "delResponse", "delGraph", "delDfEndpoint", "adrPut", "delPublisher"}

(* A running disable has found, or deleted, the bindings of the place it    *)
(* discovered.                                                              *)
DisableProgress ==
    \A s \in Session : LET place == <<InstanceOf[s], plan[s].eg>> IN
        /\ pc[s] \in BeforeDelSubscriber /\ place \in publisher
              => "publisher" \in plan[s].exist
        /\ pc[s] \in BeforeDelSubscriber \cup {"delSubscriber"} /\ place \in subscriber
              => "subscriber" \in plan[s].exist
        /\ pc[s] \in {"delSubscriber", "delTopicSpace"} => place \notin publisher
        /\ pc[s] = "delTopicSpace" => place \notin subscriber

(* Between its read and its write of the namespace, disable knows of every  *)
(* entry of its instance; after the write there is none.                    *)
EntryGone ==
    ~staleWrite => \A s \in Session :
        /\ pc[s] \in {"findAio", "findEg", "prompt", "delResponse", "delGraph",
                      "delDfEndpoint", "adrPut"}
             /\ seen[s].endpoints[InstanceOf[s]] = None
                => adr.endpoints[InstanceOf[s]] = None
        /\ pc[s] \in {"delPublisher", "delSubscriber", "delTopicSpace"}
                => adr.endpoints[InstanceOf[s]] = None

Backing ==
    /\ TypeInv
    /\ EnableProgress
    /\ DisableProgress
    /\ EntryGone
    /\ BindingsHaveTopicSpace
    /\ EndpointBacked

Act(s) == Start(s) \/ Step(s) \/ Abort(s)

(* A process moves itself only. *)
LEMMA Frame ==
    ASSUME TypeInv, NEW s \in Session, Act(s), NEW t \in Session, t # s
    PROVE  pc'[t] = pc[t] /\ want'[t] = want[t] /\ seen'[t] = seen[t] /\ plan'[t] = plan[t]
<1> USE DEF TypeInv, TypeOK, Goto, Finish
<1>1. CASE Start(s) \/ Abort(s) \/ RemoveStep(s)
  BY <1>1 DEF Start, StartEnable, StartDisable, StartRemove, Abort, RemoveStep,
       RemoveRead, RemovePut
<1>2. CASE EnableStep(s)
  BY <1>2 DEF EnableStep, EnsureTopicSpace, EnsurePublisher, EnsureSubscriber,
       ReadNamespace, PatchNamespace, EnsureDfEndpoint, EnsureGraph, EnsureResponse,
       AssignAdrRoles, AssignDataflowRoles
<1>3. CASE DisableStep(s)
  BY <1>3 DEF DisableStep, FindNamespace, FindAio, FindEventGrid, Answer, DeleteResponse,
       DeleteGraph, DeleteDfEndpoint, PutNamespace, DeletePublisher, DeleteSubscriber,
       DeleteTopicSpace
<1> QED BY <1>1, <1>2, <1>3 DEF Act, Step

(* Event Grid resources of other instances are not touched: the names are   *)
(* derived from the instance.                                               *)
LEMMA OwnResources ==
    ASSUME TypeInv, NEW s \in Session, Act(s),
           NEW i \in Instance, i # InstanceOf[s], NEW e
    PROVE  /\ <<i, e>> \in topicSpace' <=> <<i, e>> \in topicSpace
           /\ <<i, e>> \in publisher' <=> <<i, e>> \in publisher
           /\ <<i, e>> \in subscriber' <=> <<i, e>> \in subscriber
<1> USE DEF cloud, eventGrid
<1>1. CASE Start(s) \/ Abort(s) \/ RemoveStep(s)
  BY <1>1 DEF Start, StartEnable, StartDisable, StartRemove, Abort, RemoveStep,
       RemoveRead, RemovePut
<1>2. CASE EnableStep(s)
  BY <1>2 DEF EnableStep, EnsureTopicSpace, EnsurePublisher, EnsureSubscriber, OwnPlace,
       ReadNamespace, PatchNamespace, EnsureDfEndpoint, EnsureGraph, EnsureResponse,
       AssignAdrRoles, AssignDataflowRoles
<1>3. CASE DisableStep(s)
  BY <1>3 DEF DisableStep, FindNamespace, FindAio, FindEventGrid, Answer, DeleteResponse,
       DeleteGraph, DeleteDfEndpoint, PutNamespace, DeletePublisher, DeleteSubscriber,
       DeleteTopicSpace, Probed
<1> QED BY <1>1, <1>2, <1>3 DEF Act, Step

(* Nor are the dataflow resources of other instances.                       *)
LEMMA OwnFlows ==
    ASSUME TypeInv, NEW s \in Session, Act(s),
           NEW i \in Instance, i # InstanceOf[s]
    PROVE  /\ \A p : <<i, p>> \in graph' <=> <<i, p>> \in graph
           /\ \A p : <<i, p>> \in response' <=> <<i, p>> \in response
           /\ dfEndpoint'[i] = dfEndpoint[i]
<1> USE DEF cloud, aio, TypeInv, TypeOK
<1>1. CASE Start(s) \/ Abort(s) \/ RemoveStep(s)
  BY <1>1 DEF Start, StartEnable, StartDisable, StartRemove, Abort, RemoveStep,
       RemoveRead, RemovePut
<1>2. CASE EnableStep(s)
  BY <1>2 DEF EnableStep, EnsureTopicSpace, EnsurePublisher, EnsureSubscriber, OwnFlow,
       ReadNamespace, PatchNamespace, EnsureDfEndpoint, EnsureGraph, EnsureResponse,
       AssignAdrRoles, AssignDataflowRoles
<1>3. CASE DisableStep(s)
  BY <1>3 DEF DisableStep, FindNamespace, FindAio, FindEventGrid, Answer, DeleteResponse,
       DeleteGraph, DeleteDfEndpoint, PutNamespace, DeletePublisher, DeleteSubscriber,
       DeleteTopicSpace
<1> QED BY <1>1, <1>2, <1>3 DEF Act, Step

(* What a step does to the namespace when no write so far was outdated.     *)
LEMMA NamespaceStep ==
    ASSUME TypeInv, NEW s \in Session, Act(s), ~staleWrite'
    PROVE  /\ ~staleWrite
           /\ \/ adr' = adr
              \/ PatchNamespace(s) /\ adr'.endpoints = [adr.endpoints EXCEPT ![InstanceOf[s]] = want[s].eg]
              \/ PutNamespace(s) /\ adr'.endpoints = [adr.endpoints EXCEPT ![InstanceOf[s]] = None]
              \/ RemovePut(s) /\ adr'.endpoints = [adr.endpoints EXCEPT ![want[s].key] = None]
<1> USE DEF cloud
<1>1. CASE Start(s) \/ Abort(s)
  BY <1>1 DEF Start, StartEnable, StartDisable, StartRemove, Abort
<1>2. CASE PatchNamespace(s)
  <2>1. ~staleWrite /\ adr = seen[s]
    BY <1>2 DEF PatchNamespace
  <2>2. want[s].eg \in EgNamespace
    BY <1>2 DEF PatchNamespace, At, TypeInv, ArgumentsGiven, EnableSteps
  <2>3. adr.endpoints \in [Instance -> EgNamespace \cup {None}]
    BY DEF TypeInv, TypeOK, Namespace, Endpoints
  <2>4. adr'.endpoints = DeepMerge(adr.endpoints, MergedEndpoints(s))
    BY <1>2 DEF PatchNamespace
  <2>5. DeepMerge(adr.endpoints, MergedEndpoints(s))
          = [adr.endpoints EXCEPT ![InstanceOf[s]] = want[s].eg]
    BY <2>1, <2>2, <2>3 DEF DeepMerge, MergedEndpoints
  <2> QED BY <1>2, <2>1, <2>4, <2>5
<1>3. CASE EnableStep(s) /\ ~PatchNamespace(s)
  BY <1>3 DEF EnableStep, EnsureTopicSpace, EnsurePublisher, EnsureSubscriber,
       ReadNamespace, EnsureDfEndpoint, EnsureGraph, EnsureResponse,
       AssignAdrRoles, AssignDataflowRoles
<1>4. CASE PutNamespace(s)
  <2>1. CASE seen[s].endpoints[InstanceOf[s]] # None
    <3>1. ~staleWrite /\ adr = seen[s]
      BY <1>4, <2>1 DEF PutNamespace
    <3>2. adr' = [adr EXCEPT !.endpoints[InstanceOf[s]] = None]
      BY <1>4, <2>1, <3>1 DEF PutNamespace, PutPayload
    <3>3. adr'.endpoints = [adr.endpoints EXCEPT ![InstanceOf[s]] = None]
      BY <3>2 DEF TypeInv, TypeOK, Namespace
    <3> QED BY <1>4, <3>1, <3>3
  <2>2. CASE seen[s].endpoints[InstanceOf[s]] = None
    BY <1>4, <2>2 DEF PutNamespace
  <2> QED BY <2>1, <2>2
<1>5. CASE DisableStep(s) /\ ~PutNamespace(s)
  <2>1. CASE FindNamespace(s) \/ FindAio(s) \/ FindEventGrid(s) \/ Answer(s)
    BY <2>1 DEF FindNamespace, FindAio, FindEventGrid, Answer
  <2>2. CASE DeleteResponse(s) \/ DeleteGraph(s) \/ DeleteDfEndpoint(s)
    BY <2>2 DEF DeleteResponse, DeleteGraph, DeleteDfEndpoint
  <2>3. CASE DeletePublisher(s) \/ DeleteSubscriber(s) \/ DeleteTopicSpace(s)
    BY <2>3 DEF DeletePublisher, DeleteSubscriber, DeleteTopicSpace
  <2> QED BY <1>5, <2>1, <2>2, <2>3 DEF DisableStep
<1>6. CASE RemoveStep(s)
  BY <1>6 DEF RemoveStep, RemoveRead, RemovePut, PutPayload, TypeInv, TypeOK, Namespace
<1> QED BY <1>1, <1>2, <1>3, <1>4, <1>5, <1>6 DEF Act, Step

LEMMA EnableProgressStep ==
    ASSUME OneProcessPerInstance, TypeInv, TypeInv', EnableProgress,
           NEW s \in Session, Act(s)
    PROVE  EnableProgress'
<1> SUFFICES ASSUME NEW t \in Session
             PROVE  /\ pc'[t] \in AfterTopicSpace => OwnPlace(t)' \in topicSpace'
                    /\ pc'[t] \in AfterPublisher  => OwnPlace(t)' \in publisher'
                    /\ pc'[t] \in AfterSubscriber => OwnPlace(t)' \in subscriber'
  BY DEF EnableProgress
<1>1. CASE t # s
  <2>1. InstanceOf[t] # InstanceOf[s] /\ InstanceOf[t] \in Instance
    BY <1>1 DEF OneProcessPerInstance
  <2>2. OwnPlace(t)' = OwnPlace(t) /\ pc'[t] = pc[t]
    BY <1>1, Frame DEF OwnPlace
  <2> QED BY <2>1, <2>2, OwnResources DEF EnableProgress, OwnPlace
<1>2. CASE t = s
  <2> USE DEF TypeInv, TypeOK, Goto, AfterTopicSpace, AfterPublisher, AfterSubscriber,
              EnableSteps, OwnPlace, At
  <2>1. CASE StartEnable(s) \/ StartDisable(s) \/ StartRemove(s)
    BY <1>2, <2>1 DEF StartEnable, StartDisable, StartRemove
  <2>2. CASE Abort(s) \/ RemoveStep(s)
    BY <1>2, <2>2 DEF Abort, RemoveStep, RemoveRead, RemovePut, Finish
  <2>3. CASE EnsureTopicSpace(s)
    BY <1>2, <2>3 DEF EnsureTopicSpace
  <2>4. CASE EnsurePublisher(s)
    BY <1>2, <2>4 DEF EnsurePublisher, EnableProgress
  <2>5. CASE EnsureSubscriber(s)
    BY <1>2, <2>5 DEF EnsureSubscriber, EnableProgress
  <2>6. CASE ReadNamespace(s)
    BY <1>2, <2>6 DEF ReadNamespace, EnableProgress, cloud, eventGrid
  <2>7. CASE PatchNamespace(s)
    BY <1>2, <2>7 DEF PatchNamespace, EnableProgress, eventGrid
  <2>8. CASE EnsureDfEndpoint(s) \/ EnsureGraph(s) \/ EnsureResponse(s)
    BY <1>2, <2>8 DEF EnsureDfEndpoint, EnsureGraph, EnsureResponse, EnableProgress,
         eventGrid, Finish
  <2>9. CASE AssignAdrRoles(s) \/ AssignDataflowRoles(s)
    BY <1>2, <2>9 DEF AssignAdrRoles, AssignDataflowRoles, EnableProgress, eventGrid, Finish
  <2>10. CASE DisableStep(s)
    BY <1>2, <2>10 DEF DisableStep, FindNamespace, FindAio, FindEventGrid, Answer,
         DeleteResponse, DeleteGraph, DeleteDfEndpoint, PutNamespace, DeletePublisher,
         DeleteSubscriber, DeleteTopicSpace, Finish
  <2> QED
    BY <2>1, <2>2, <2>3, <2>4, <2>5, <2>6, <2>7, <2>8, <2>9, <2>10
    DEF Act, Start, Step, EnableStep
<1> QED BY <1>1, <1>2

LEMMA DisableProgressStep ==
    ASSUME OneProcessPerInstance, TypeInv, TypeInv', DisableProgress,
           NEW s \in Session, Act(s)
    PROVE  DisableProgress'
<1> DEFINE Place(t) == <<InstanceOf[t], plan[t].eg>>
<1> SUFFICES ASSUME NEW t \in Session
             PROVE  /\ pc'[t] \in BeforeDelSubscriber /\ Place(t)' \in publisher'
                         => "publisher" \in plan'[t].exist
                    /\ pc'[t] \in BeforeDelSubscriber \cup {"delSubscriber"}
                          /\ Place(t)' \in subscriber' => "subscriber" \in plan'[t].exist
                    /\ pc'[t] \in {"delSubscriber", "delTopicSpace"}
                         => Place(t)' \notin publisher'
                    /\ pc'[t] = "delTopicSpace" => Place(t)' \notin subscriber'
  BY DEF DisableProgress
<1>1. CASE t # s
  <2>1. InstanceOf[t] # InstanceOf[s] /\ InstanceOf[t] \in Instance
    BY <1>1 DEF OneProcessPerInstance
  <2>2. Place(t)' = Place(t) /\ pc'[t] = pc[t] /\ plan'[t] = plan[t]
    BY <1>1, Frame
  <2> QED BY <2>1, <2>2, OwnResources DEF DisableProgress
<1>2. CASE t = s
  <2> USE DEF TypeInv, TypeOK, Goto, BeforeDelSubscriber, At
  <2>1. CASE Start(s)
    BY <1>2, <2>1 DEF Start, StartEnable, StartDisable, StartRemove
  <2>2. CASE Abort(s) \/ RemoveStep(s)
    BY <1>2, <2>2 DEF Abort, RemoveStep, RemoveRead, RemovePut, Finish
  <2>3. CASE EnableStep(s)
    BY <1>2, <2>3 DEF EnableStep, EnsureTopicSpace, EnsurePublisher, EnsureSubscriber,
         ReadNamespace, PatchNamespace, EnsureDfEndpoint, EnsureGraph, EnsureResponse,
         AssignAdrRoles, AssignDataflowRoles, Finish
  <2>4. CASE FindNamespace(s) \/ FindAio(s)
    BY <1>2, <2>4 DEF FindNamespace, FindAio
  <2>5. CASE FindEventGrid(s)
    BY <1>2, <2>5 DEF FindEventGrid, Findings, cloud, eventGrid
  <2>6. CASE Answer(s)
    BY <1>2, <2>6 DEF Answer, DisableProgress, Finish, cloud, eventGrid
  <2>7. CASE DeleteResponse(s) \/ DeleteGraph(s) \/ DeleteDfEndpoint(s) \/ PutNamespace(s)
    BY <1>2, <2>7 DEF DeleteResponse, DeleteGraph, DeleteDfEndpoint, PutNamespace,
         DisableProgress, eventGrid
  <2>8. CASE DeletePublisher(s)
    BY <1>2, <2>8 DEF DeletePublisher, Probed, DisableProgress
  <2>9. CASE DeleteSubscriber(s)
    BY <1>2, <2>9 DEF DeleteSubscriber, Probed, DisableProgress
  <2>10. CASE DeleteTopicSpace(s)
    BY <1>2, <2>10 DEF DeleteTopicSpace, Finish
  <2> QED
    BY <2>1, <2>2, <2>3, <2>4, <2>5, <2>6, <2>7, <2>8, <2>9, <2>10
    DEF Act, Step, DisableStep
<1> QED BY <1>1, <1>2

LEMMA EntryGoneStep ==
    ASSUME OneProcessPerInstance, TypeInv, TypeInv', EntryGone,
           NEW s \in Session, Act(s)
    PROVE  EntryGone'
<1> DEFINE Knowing == {"findAio", "findEg", "prompt", "delResponse", "delGraph",
                       "delDfEndpoint", "adrPut"}
           Done    == {"delPublisher", "delSubscriber", "delTopicSpace"}
<1> SUFFICES ASSUME ~staleWrite', NEW t \in Session
             PROVE  /\ pc'[t] \in Knowing /\ seen'[t].endpoints[InstanceOf[t]] = None
                         => adr'.endpoints[InstanceOf[t]] = None
                    /\ pc'[t] \in Done => adr'.endpoints[InstanceOf[t]] = None
  BY DEF EntryGone
<1>0. ~staleWrite /\ adr.endpoints \in [Instance -> EgNamespace \cup {None}]
  BY NamespaceStep DEF TypeInv, TypeOK, Namespace, Endpoints
<1>1. CASE t # s
  <2>1. InstanceOf[t] # InstanceOf[s] /\ InstanceOf[t] \in Instance
    BY <1>1 DEF OneProcessPerInstance
  <2>2. pc'[t] = pc[t] /\ seen'[t] = seen[t]
    BY <1>1, Frame
  <2>3. adr.endpoints[InstanceOf[t]] = None => adr'.endpoints[InstanceOf[t]] = None
    <3>1. \/ adr'.endpoints = adr.endpoints
          \/ \E e : adr'.endpoints = [adr.endpoints EXCEPT ![InstanceOf[s]] = e]
          \/ \E k : adr'.endpoints = [adr.endpoints EXCEPT ![k] = None]
      BY NamespaceStep
    <3> QED BY <1>0, <2>1, <3>1
  <2> QED BY <1>0, <2>2, <2>3 DEF EntryGone
<1>2. CASE t = s
  <2> USE DEF TypeInv, TypeOK, Goto, At
  <2>1. CASE Start(s)
    BY <1>2, <2>1 DEF Start, StartEnable, StartDisable, StartRemove
  <2>2. CASE Abort(s) \/ RemoveStep(s)
    BY <1>2, <2>2 DEF Abort, RemoveStep, RemoveRead, RemovePut, Finish
  <2>3. CASE EnableStep(s)
    BY <1>2, <2>3 DEF EnableStep, EnsureTopicSpace, EnsurePublisher, EnsureSubscriber,
         ReadNamespace, PatchNamespace, EnsureDfEndpoint, EnsureGraph, EnsureResponse,
         AssignAdrRoles, AssignDataflowRoles, Finish
  <2>4. CASE FindNamespace(s)
    BY <1>2, <2>4 DEF FindNamespace, cloud
  <2>5. CASE FindAio(s) \/ FindEventGrid(s) \/ Answer(s)
    BY <1>0, <1>2, <2>5 DEF FindAio, FindEventGrid, Answer, EntryGone, cloud, Finish
  <2>6. CASE DeleteResponse(s) \/ DeleteGraph(s) \/ DeleteDfEndpoint(s)
    BY <1>0, <1>2, <2>6 DEF DeleteResponse, DeleteGraph, DeleteDfEndpoint, EntryGone
  <2>7. CASE PutNamespace(s)
    <3>1. pc[s] = "adrPut" /\ pc'[s] = "delPublisher"
      BY <2>7 DEF PutNamespace
    <3>2. CASE seen[s].endpoints[InstanceOf[s]] # None
      <4>1. adr'.endpoints[InstanceOf[s]] = None
        BY <2>7, <3>2 DEF PutNamespace, PutPayload, Namespace, Endpoints
      <4> QED BY <1>2, <3>1, <4>1
    <3>3. CASE seen[s].endpoints[InstanceOf[s]] = None
      <4>1. adr' = adr
        BY <2>7, <3>3 DEF PutNamespace
      <4> QED BY <1>0, <1>2, <3>1, <3>3, <4>1 DEF EntryGone
    <3> QED BY <3>2, <3>3
  <2>8. CASE DeletePublisher(s) \/ DeleteSubscriber(s) \/ DeleteTopicSpace(s)
    BY <1>0, <1>2, <2>8 DEF DeletePublisher, DeleteSubscriber, DeleteTopicSpace,
         EntryGone, Finish
  <2> QED
    BY <2>1, <2>2, <2>3, <2>4, <2>5, <2>6, <2>7, <2>8 DEF Act, Step, DisableStep
<1> QED BY <1>1, <1>2

LEMMA BindingsStep ==
    ASSUME OneProcessPerInstance, TypeInv, EnableProgress, DisableProgress,
           BindingsHaveTopicSpace, NEW s \in Session, Act(s)
    PROVE  BindingsHaveTopicSpace'
<1> USE DEF BindingsHaveTopicSpace, cloud, eventGrid
<1>1. CASE Start(s) \/ Abort(s) \/ RemoveStep(s)
  BY <1>1 DEF Start, StartEnable, StartDisable, StartRemove, Abort, RemoveStep,
       RemoveRead, RemovePut
<1>2. CASE EnsurePublisher(s)
  BY <1>2 DEF EnsurePublisher, EnableProgress, AfterTopicSpace, EnableSteps, At
<1>3. CASE EnsureSubscriber(s)
  BY <1>3 DEF EnsureSubscriber, EnableProgress, AfterTopicSpace, EnableSteps, At
<1>4. CASE EnableStep(s) /\ ~EnsurePublisher(s) /\ ~EnsureSubscriber(s)
  BY <1>4 DEF EnableStep, EnsureTopicSpace, ReadNamespace, PatchNamespace,
       EnsureDfEndpoint, EnsureGraph, EnsureResponse, AssignAdrRoles, AssignDataflowRoles
<1>5. CASE DeleteTopicSpace(s)
  <2>1. <<InstanceOf[s], plan[s].eg>> \notin publisher \cup subscriber
    BY <1>5 DEF DeleteTopicSpace, DisableProgress, At
  <2> QED BY <1>5, <2>1 DEF DeleteTopicSpace, Probed
<1>6. CASE DisableStep(s) /\ ~DeleteTopicSpace(s)
  BY <1>6 DEF DisableStep, FindNamespace, FindAio, FindEventGrid, Answer, DeleteResponse,
       DeleteGraph, DeleteDfEndpoint, PutNamespace, DeletePublisher, DeleteSubscriber
<1> QED BY <1>1, <1>2, <1>3, <1>4, <1>5, <1>6 DEF Act, Step

(* An entry of the namespace that is there after a step was there before,   *)
(* or was written by an enable that had set up what it leads to; and no     *)
(* disable removes what a present entry leads to.                           *)
LEMMA BackedStep ==
    ASSUME OneProcessPerInstance, TypeInv, TypeInv', EnableProgress, EntryGone,
           EndpointBacked, NEW s \in Session, Act(s)
    PROVE  EndpointBacked'
<1> DEFINE Backed(i, e) == <<i, e>> \in topicSpace \cap publisher \cap subscriber
<1> SUFFICES ASSUME ~staleWrite', NEW i \in Instance, adr'.endpoints[i] # None
             PROVE  <<i, adr'.endpoints[i]>> \in topicSpace' \cap publisher' \cap subscriber'
  BY DEF EndpointBacked
<1>0. ~staleWrite /\ adr.endpoints \in [Instance -> EgNamespace \cup {None}]
  BY NamespaceStep DEF TypeInv, TypeOK, Namespace, Endpoints
<1>1. CASE PatchNamespace(s) /\ i = InstanceOf[s]
  <2>1. adr'.endpoints = [adr.endpoints EXCEPT ![InstanceOf[s]] = want[s].eg]
    <3>1. ~PutNamespace(s) /\ ~RemovePut(s)
      BY <1>1 DEF PatchNamespace, PutNamespace, RemovePut, At
    <3>2. CASE adr' = adr
      <4>1. ~staleWrite /\ adr = seen[s] /\ want[s].eg # None
        BY <1>1, <3>2 DEF PatchNamespace, TypeInv, ArgumentsGiven, EnableSteps, At
      <4>2. adr'.endpoints = DeepMerge(adr.endpoints, MergedEndpoints(s))
        BY <1>1 DEF PatchNamespace
      <4> QED BY <1>0, <4>1, <4>2 DEF DeepMerge, MergedEndpoints
    <3> QED BY <3>1, <3>2, NamespaceStep
  <2>2. adr'.endpoints[i] = want[s].eg
    BY <1>0, <1>1, <2>1
  <2>3. Backed(i, want[s].eg)
    BY <1>1 DEF PatchNamespace, At, EnableProgress, OwnPlace, AfterSubscriber,
         AfterPublisher, AfterTopicSpace, EnableSteps
  <2>4. UNCHANGED eventGrid
    BY <1>1 DEF PatchNamespace
  <2> QED BY <2>2, <2>3, <2>4 DEF eventGrid
<1>2. CASE ~(PatchNamespace(s) /\ i = InstanceOf[s])
  <2>1. adr'.endpoints[i] = adr.endpoints[i]
    <3>1. \/ adr'.endpoints = adr.endpoints
          \/ i # InstanceOf[s] /\ \E e : adr'.endpoints = [adr.endpoints EXCEPT ![InstanceOf[s]] = e]
          \/ \E k : adr'.endpoints = [adr.endpoints EXCEPT ![k] = None]
      BY <1>2, NamespaceStep
    <3> QED BY <1>0, <3>1
  <2>2. Backed(i, adr.endpoints[i])
    BY <1>0, <2>1 DEF EndpointBacked
  <2>3. CASE i # InstanceOf[s]
    BY <2>1, <2>2, <2>3, OwnResources
  <2>4. CASE DeletePublisher(s) \/ DeleteSubscriber(s) \/ DeleteTopicSpace(s)
    <3>1. adr.endpoints[InstanceOf[s]] = None
      BY <1>0, <2>4 DEF DeletePublisher, DeleteSubscriber, DeleteTopicSpace, At, EntryGone
    <3> QED BY <2>1, <2>3, <3>1
  <2>5. CASE ~(DeletePublisher(s) \/ DeleteSubscriber(s) \/ DeleteTopicSpace(s))
    <3>1. /\ topicSpace \subseteq topicSpace'
          /\ publisher \subseteq publisher'
          /\ subscriber \subseteq subscriber'
      <4> USE DEF cloud, eventGrid
      <4>1. CASE Start(s) \/ Abort(s) \/ RemoveStep(s)
        BY <4>1 DEF Start, StartEnable, StartDisable, StartRemove, Abort, RemoveStep,
             RemoveRead, RemovePut
      <4>2. CASE EnableStep(s)
        BY <4>2 DEF EnableStep, EnsureTopicSpace, EnsurePublisher, EnsureSubscriber,
             ReadNamespace, PatchNamespace, EnsureDfEndpoint, EnsureGraph,
             EnsureResponse, AssignAdrRoles, AssignDataflowRoles
      <4>3. CASE DisableStep(s)
        BY <2>5, <4>3 DEF DisableStep, FindNamespace, FindAio, FindEventGrid, Answer,
             DeleteResponse, DeleteGraph, DeleteDfEndpoint, PutNamespace
      <4> QED BY <4>1, <4>2, <4>3 DEF Act, Step
    <3> QED BY <2>1, <2>2, <3>1
  <2> QED BY <2>3, <2>4, <2>5
<1> QED BY <1>1, <1>2

LEMMA BackingInit == Init => Backing
<1> SUFFICES ASSUME Init PROVE Backing
  OBVIOUS
<1>1. EnableProgress /\ DisableProgress /\ EntryGone
  BY DEF Init, EnableProgress, DisableProgress, EntryGone, AfterTopicSpace,
       AfterPublisher, AfterSubscriber, EnableSteps, BeforeDelSubscriber
<1>2. BindingsHaveTopicSpace /\ EndpointBacked
  BY DEF Init, BindingsHaveTopicSpace, EndpointBacked
<1> QED BY <1>1, <1>2, TypeInit DEF Backing

LEMMA BackingStep == OneProcessPerInstance /\ Backing /\ [Next]_vars => Backing'
<1> SUFFICES ASSUME OneProcessPerInstance, Backing, [Next]_vars PROVE Backing'
  OBVIOUS
<1>1. TypeInv'
  BY TypeStep DEF Backing
<1>2. CASE UNCHANGED vars
  BY <1>2 DEF vars, cloud, local, eventGrid, aio, roles, Backing, TypeInv, TypeOK,
       ArgumentsGiven, EnableProgress, DisableProgress, EntryGone, OwnPlace,
       BindingsHaveTopicSpace, EndpointBacked
<1>3. ASSUME NEW s \in Session, Act(s) PROVE Backing'
  BY <1>1, <1>3, EnableProgressStep, DisableProgressStep, EntryGoneStep, BindingsStep,
     BackedStep DEF Backing
<1> QED BY <1>2, <1>3 DEF Next, Act

(* However commands fail, are run again and overlap with those of other     *)
(* instances: no permission binding is left without its topic space.        *)
THEOREM BindingsAlwaysHaveTopicSpace ==
    ASSUME OneProcessPerInstance
    PROVE  Spec => []BindingsHaveTopicSpace
<1>1. Init => Backing
  BY BackingInit
<1>2. Backing /\ [Next]_vars => Backing'
  BY BackingStep
<1> QED BY <1>1, <1>2, PTL DEF Spec, Backing

(* As long as no namespace write was computed from an outdated read, every  *)
(* management endpoint leads to a namespace set up for its instance.        *)
THEOREM EndpointsAreBacked ==
    ASSUME OneProcessPerInstance
    PROVE  Spec => []EndpointBacked
<1>1. Init => Backing
  BY BackingInit
<1>2. Backing /\ [Next]_vars => Backing'
  BY BackingStep
<1> QED BY <1>1, <1>2, PTL DEF Spec, Backing

-------------------------------------------------------------------------------
(* What a write of the shared namespace may change.                         *)

(* enable takes nobody's endpoint away, however old the map it merges.      *)
THEOREM EnableNeverDropsEntries == Spec => EnableKeepsEntries
<1> DEFINE Kept == \A i \in Instance :
              adr.endpoints[i] # None /\ adr'.endpoints[i] = None
                => \E s \in Session : pc[s] \in {"adrPut", "rmPut"} /\ pc'[s] # pc[s]
<1>1. TypeInv /\ [Next]_vars => [Kept]_vars
  <2> SUFFICES ASSUME TypeInv, NEW s \in Session, Act(s),
                      NEW i \in Instance, adr.endpoints[i] # None, adr'.endpoints[i] = None
               PROVE  pc[s] \in {"adrPut", "rmPut"} /\ pc'[s] # pc[s]
    BY DEF Next, Act
  <2>1. CASE PatchNamespace(s)
    <3>1. adr'.endpoints = DeepMerge(adr.endpoints, MergedEndpoints(s))
      BY <2>1 DEF PatchNamespace
    <3> QED BY <3>1 DEF DeepMerge
  <2>2. CASE PutNamespace(s)
    BY <2>2 DEF PutNamespace, At, Goto, TypeInv, TypeOK
  <2>3. CASE RemovePut(s)
    BY <2>3 DEF RemovePut, At, Finish, TypeInv, TypeOK
  <2>4. CASE Start(s) \/ Abort(s) \/ RemoveRead(s)
    BY <2>4 DEF Start, StartEnable, StartDisable, StartRemove, Abort, RemoveRead, cloud
  <2>5. CASE EnableStep(s) /\ ~PatchNamespace(s)
    BY <2>5 DEF EnableStep, EnsureTopicSpace, EnsurePublisher, EnsureSubscriber,
         ReadNamespace, EnsureDfEndpoint, EnsureGraph, EnsureResponse,
         AssignAdrRoles, AssignDataflowRoles, cloud
  <2>6. CASE DisableStep(s) /\ ~PutNamespace(s)
    BY <2>6 DEF DisableStep, FindNamespace, FindAio, FindEventGrid, Answer,
         DeleteResponse, DeleteGraph, DeleteDfEndpoint, DeletePublisher,
         DeleteSubscriber, DeleteTopicSpace, cloud
  <2> QED BY <2>1, <2>2, <2>3, <2>4, <2>5, <2>6 DEF Act, Step, RemoveStep
<1>2. Spec => []TypeInv
  BY TypeInit, TypeStep, PTL DEF Spec
<1> QED BY <1>1, <1>2, PTL DEF Spec, EnableKeepsEntries

(* A write computed from a current read changes one entry at most.          *)
THEOREM CurrentWritesChangeOneEntry == Spec => OwnEntryOnly
<1> DEFINE One == ~staleWrite' =>
              \A i, j \in Instance :
                 adr.endpoints[i] # adr'.endpoints[i] /\ adr.endpoints[j] # adr'.endpoints[j]
                    => i = j
<1>1. TypeInv /\ [Next]_vars => [One]_vars
  <2> SUFFICES ASSUME TypeInv, NEW s \in Session, Act(s), ~staleWrite',
                      NEW i \in Instance, NEW j \in Instance,
                      adr.endpoints[i] # adr'.endpoints[i],
                      adr.endpoints[j] # adr'.endpoints[j]
               PROVE  i = j
    BY DEF Next, Act
  <2>1. \E k, e : adr'.endpoints = [adr.endpoints EXCEPT ![k] = e]
    BY NamespaceStep
  <2>2. adr.endpoints \in [Instance -> EgNamespace \cup {None}]
    BY DEF TypeInv, TypeOK, Namespace, Endpoints
  <2> QED BY <2>1, <2>2
<1>2. Spec => []TypeInv
  BY TypeInit, TypeStep, PTL DEF Spec
<1> QED BY <1>1, <1>2, PTL DEF Spec, OwnEntryOnly

-------------------------------------------------------------------------------
(* The graph and the response dataflow.                                     *)

(* The graph of a running enable is there when its response dataflow is     *)
(* made; the response dataflow beside a graph that disable is about to      *)
(* delete is gone.                                                          *)
FlowProgress ==
    \A s \in Session :
        /\ pc[s] = "response" => OwnFlow(s) \in graph
        /\ pc[s] = "delGraph" => <<InstanceOf[s], plan[s].graphIn>> \notin response

Flows == TypeInv /\ FlowProgress /\ ResponseHasGraph

LEMMA FlowStep ==
    ASSUME OneProcessPerInstance, Flows, NEW s \in Session, Act(s)
    PROVE  FlowProgress' /\ ResponseHasGraph'
<1> USE DEF Flows
<1>1. ASSUME NEW t \in Session, t # s
      PROVE  /\ pc'[t] = "response" => OwnFlow(t)' \in graph'
             /\ pc'[t] = "delGraph" => <<InstanceOf[t], plan'[t].graphIn>> \notin response'
  <2>1. InstanceOf[t] # InstanceOf[s] /\ InstanceOf[t] \in Instance
    BY <1>1 DEF OneProcessPerInstance
  <2> QED BY <1>1, <2>1, Frame, OwnFlows DEF FlowProgress, OwnFlow
<1>2. /\ pc'[s] = "response" => OwnFlow(s)' \in graph'
      /\ pc'[s] = "delGraph" => <<InstanceOf[s], plan'[s].graphIn>> \notin response'
      /\ ResponseHasGraph'
  <2> USE DEF TypeInv, TypeOK, At, Goto, ResponseHasGraph
  <2>1. CASE Start(s) \/ Abort(s) \/ RemoveStep(s)
    BY <2>1 DEF Start, StartEnable, StartDisable, StartRemove, Abort, RemoveStep,
         RemoveRead, RemovePut, Finish, cloud, aio
  <2>2. CASE EnsureGraph(s)
    BY <2>2 DEF EnsureGraph, OwnFlow
  <2>3. CASE EnsureResponse(s)
    BY <2>3 DEF EnsureResponse, Finish, FlowProgress
  <2>4. CASE EnableStep(s) /\ ~EnsureGraph(s) /\ ~EnsureResponse(s)
    BY <2>4 DEF EnableStep, EnsureTopicSpace, EnsurePublisher, EnsureSubscriber,
         ReadNamespace, PatchNamespace, EnsureDfEndpoint, AssignAdrRoles,
         AssignDataflowRoles, Finish, cloud, aio
  <2>5. CASE DeleteResponse(s)
    <3>1. plan' = plan /\ graph' = graph /\ pc'[s] = "delGraph"
      BY <2>5 DEF DeleteResponse
    <3>2. response' \subseteq response
      BY <2>5 DEF DeleteResponse
    <3>3. <<InstanceOf[s], plan[s].graphIn>> \notin response'
      BY <2>5 DEF DeleteResponse
    <3> QED BY <3>1, <3>2, <3>3
  <2>6. CASE DeleteGraph(s)
    BY <2>6 DEF DeleteGraph, FlowProgress
  <2>7. CASE DisableStep(s) /\ ~DeleteResponse(s) /\ ~DeleteGraph(s)
    BY <2>7 DEF DisableStep, FindNamespace, FindAio, FindEventGrid, Answer,
         DeleteDfEndpoint, PutNamespace, DeletePublisher, DeleteSubscriber,
         DeleteTopicSpace, Finish, cloud, aio
  <2> QED BY <2>1, <2>2, <2>3, <2>4, <2>5, <2>6, <2>7 DEF Act, Step
<1> QED BY <1>1, <1>2 DEF FlowProgress

LEMMA FlowsInit == Init => Flows
<1> SUFFICES ASSUME Init PROVE FlowProgress /\ ResponseHasGraph
  BY TypeInit DEF Flows
<1> QED BY DEF Init, FlowProgress, ResponseHasGraph

LEMMA FlowsStep == OneProcessPerInstance /\ Flows /\ [Next]_vars => Flows'
<1> SUFFICES ASSUME OneProcessPerInstance, Flows, [Next]_vars PROVE Flows'
  OBVIOUS
<1>1. TypeInv'
  BY TypeStep DEF Flows
<1>2. CASE UNCHANGED vars
  BY <1>1, <1>2 DEF vars, cloud, local, aio, Flows, FlowProgress, OwnFlow, ResponseHasGraph
<1>3. ASSUME NEW s \in Session, Act(s) PROVE Flows'
  BY <1>1, <1>3, FlowStep DEF Flows
<1> QED BY <1>2, <1>3 DEF Next, Act

(* However commands fail and are run again, and in however many profiles:   *)
(* a response dataflow has the request graph beside it.                     *)
THEOREM ResponsesHaveGraphs ==
    ASSUME OneProcessPerInstance
    PROVE  Spec => []ResponseHasGraph
<1>1. Init => Flows
  BY FlowsInit
<1>2. Flows /\ [Next]_vars => Flows'
  BY FlowsStep
<1> QED BY <1>1, <1>2, PTL DEF Spec, Flows

-------------------------------------------------------------------------------
(* Where requests are routed.                                               *)

(* A running enable that has seen to the management endpoint leaves no      *)
(* other there; but for that one step before the dataflow endpoint is made  *)
(* the two agree.                                                           *)
RouteProgress ==
    faults = 0 /\ ~staleWrite =>
        /\ \A s \in Session : pc[s] = "dfEndpoint"
               => adr.endpoints[InstanceOf[s]] \in {None, want[s].eg}
        /\ \A i \in Instance :
               \/ \E s \in Session : InstanceOf[s] = i /\ pc[s] = "dfEndpoint"
               \/ adr.endpoints[i] = None
               \/ dfEndpoint[i] = NoDfEndpoint
               \/ dfEndpoint[i].eg = adr.endpoints[i]

Routes == TypeInv /\ RouteProgress

LEMMA RouteStep ==
    ASSUME OneProcessPerInstance, TypeInv, RouteProgress, NEW s \in Session, Act(s)
    PROVE  RouteProgress'
<1> SUFFICES ASSUME faults' = 0, ~staleWrite' PROVE RouteProgress'
  BY DEF RouteProgress
<1> DEFINE Agree(i) == \/ adr.endpoints[i] = None
                      \/ dfEndpoint[i] = NoDfEndpoint
                      \/ dfEndpoint[i].eg = adr.endpoints[i]
           Making(i) == \E t \in Session : InstanceOf[t] = i /\ pc[t] = "dfEndpoint"
<1>1. faults = 0 /\ ~Abort(s)
  <2>1. CASE Abort(s)
    BY <2>1 DEF Abort, TypeInv, TypeOK
  <2>2. CASE ~Abort(s)
    <3>1. faults' = faults
      <4>1. CASE Start(s) \/ RemoveStep(s)
        BY <4>1 DEF Start, StartEnable, StartDisable, StartRemove, RemoveStep,
             RemoveRead, RemovePut
      <4>2. CASE EnableStep(s)
        BY <4>2 DEF EnableStep, EnsureTopicSpace, EnsurePublisher, EnsureSubscriber,
             ReadNamespace, PatchNamespace, EnsureDfEndpoint, EnsureGraph, EnsureResponse,
             AssignAdrRoles, AssignDataflowRoles
      <4>3. CASE DisableStep(s)
        BY <4>3 DEF DisableStep, FindNamespace, FindAio, FindEventGrid, Answer,
             DeleteResponse, DeleteGraph, DeleteDfEndpoint, PutNamespace,
             DeletePublisher, DeleteSubscriber, DeleteTopicSpace
      <4> QED BY <2>2, <4>1, <4>2, <4>3 DEF Act, Step
    <3> QED BY <2>2, <3>1
  <2> QED BY <2>1, <2>2
<1>2. /\ ~staleWrite
      /\ adr.endpoints \in [Instance -> EgNamespace \cup {None}]
      /\ dfEndpoint \in [Instance -> DfEndpoint \cup {NoDfEndpoint}]
  BY NamespaceStep DEF TypeInv, TypeOK, Namespace, Endpoints
<1>3. /\ \A t \in Session : pc[t] = "dfEndpoint"
            => adr.endpoints[InstanceOf[t]] \in {None, want[t].eg}
      /\ \A i \in Instance : Making(i) \/ Agree(i)
  BY <1>1, <1>2 DEF RouteProgress
<1>4. \A i \in Instance \ {InstanceOf[s]} :
         adr'.endpoints[i] \in {None, adr.endpoints[i]}
  <2>1. \/ adr'.endpoints = adr.endpoints
        \/ \E e : adr'.endpoints = [adr.endpoints EXCEPT ![InstanceOf[s]] = e]
        \/ \E k : adr'.endpoints = [adr.endpoints EXCEPT ![k] = None]
    BY NamespaceStep
  <2> QED BY <1>2, <2>1
<1>5. ASSUME NEW t \in Session, pc'[t] = "dfEndpoint"
      PROVE  adr'.endpoints[InstanceOf[t]] \in {None, want'[t].eg}
  <2>1. CASE t # s
    <3>1. InstanceOf[t] # InstanceOf[s] /\ InstanceOf[t] \in Instance
      BY <2>1 DEF OneProcessPerInstance
    <3> QED BY <1>3, <1>4, <1>5, <2>1, <3>1, Frame
  <2>2. CASE t = s
    <3>1. ReadNamespace(s) \/ PatchNamespace(s)
      <4> USE DEF TypeInv, TypeOK, Goto, At
      <4>1. CASE Start(s) \/ RemoveStep(s)
        BY <1>5, <2>2, <4>1 DEF Start, StartEnable, StartDisable, StartRemove,
             RemoveStep, RemoveRead, RemovePut, Finish
      <4>2. CASE EnableStep(s)
        BY <1>5, <2>2, <4>2 DEF EnableStep, EnsureTopicSpace, EnsurePublisher,
             EnsureSubscriber, EnsureDfEndpoint, EnsureGraph,
             EnsureResponse, AssignAdrRoles, AssignDataflowRoles, Finish
      <4>3. CASE DisableStep(s)
        BY <1>5, <2>2, <4>3 DEF DisableStep, FindNamespace, FindAio, FindEventGrid, Answer,
             DeleteResponse, DeleteGraph, DeleteDfEndpoint, PutNamespace,
             DeletePublisher, DeleteSubscriber, DeleteTopicSpace, Finish
      <4> QED BY <1>1, <4>1, <4>2, <4>3 DEF Act, Step
    <3>2. CASE ReadNamespace(s)
      BY <1>5, <2>2, <3>2 DEF ReadNamespace, Goto, cloud, TypeInv, TypeOK
    <3>3. CASE PatchNamespace(s)
      <4>1. ~PutNamespace(s) /\ ~RemovePut(s) /\ want' = want /\ adr = seen[s]
        BY <3>3 DEF PatchNamespace, PutNamespace, RemovePut, At
      <4>2. want[s].eg \in EgNamespace
        BY <3>3 DEF PatchNamespace, At, TypeInv, ArgumentsGiven, EnableSteps
      <4>3. adr'.endpoints = DeepMerge(adr.endpoints, MergedEndpoints(s))
        BY <3>3 DEF PatchNamespace
      <4>4. adr'.endpoints[InstanceOf[s]] = want[s].eg
        BY <1>2, <4>1, <4>2, <4>3 DEF DeepMerge, MergedEndpoints
      <4> QED BY <2>2, <4>1, <4>4
    <3> QED BY <3>1, <3>2, <3>3
  <2> QED BY <2>1, <2>2
<1>6. ASSUME NEW i \in Instance
      PROVE  Making(i)' \/ Agree(i)'
  <2>1. CASE i # InstanceOf[s]
    <3>1. Making(i) => Making(i)'
      BY <2>1, Frame
    <3> QED BY <1>3, <1>4, <2>1, <3>1, OwnFlows
  <2>2. CASE i = InstanceOf[s]
    <3>1. Making(i)' <=> pc'[s] = "dfEndpoint"
      BY <2>2 DEF OneProcessPerInstance
    <3>2. Making(i) <=> pc[s] = "dfEndpoint"
      BY <2>2 DEF OneProcessPerInstance
    <3>3. CASE EnsureDfEndpoint(s)
      <4>1. dfEndpoint'[i].eg = want[s].eg /\ adr' = adr
        BY <1>2, <2>2, <3>3 DEF EnsureDfEndpoint, EnsuredDfEndpoint
      <4>2. adr.endpoints[i] \in {None, want[s].eg}
        BY <1>3, <2>2, <3>3 DEF EnsureDfEndpoint, At
      <4> QED BY <4>1, <4>2
    <3>4. CASE PatchNamespace(s)
      BY <3>1, <3>4 DEF PatchNamespace, Goto, TypeInv, TypeOK
    <3>5. CASE ~EnsureDfEndpoint(s) /\ ~PatchNamespace(s)
      <4>1. adr'.endpoints[i] \in {None, adr.endpoints[i]}
        <5>1. \/ adr'.endpoints = adr.endpoints
              \/ \E k : adr'.endpoints = [adr.endpoints EXCEPT ![k] = None]
          BY <3>5, NamespaceStep
        <5> QED BY <1>2, <5>1
      <4>2. /\ dfEndpoint'[i] \in {NoDfEndpoint, dfEndpoint[i]}
            /\ pc[s] # "dfEndpoint"
        <5> USE DEF TypeInv, TypeOK, At, Goto, cloud, aio
        <5>1. CASE Start(s) \/ RemoveStep(s)
          BY <5>1 DEF Start, StartEnable, StartDisable, StartRemove, RemoveStep,
               RemoveRead, RemovePut
        <5>2. CASE EnableStep(s)
          BY <3>5, <5>2 DEF EnableStep, EnsureTopicSpace, EnsurePublisher,
               EnsureSubscriber, ReadNamespace, EnsureGraph, EnsureResponse,
               AssignAdrRoles, AssignDataflowRoles
        <5>3. CASE DeleteDfEndpoint(s)
          BY <1>2, <2>2, <5>3 DEF DeleteDfEndpoint
        <5>4. CASE DisableStep(s) /\ ~DeleteDfEndpoint(s)
          BY <5>4 DEF DisableStep, FindNamespace, FindAio, FindEventGrid, Answer,
               DeleteResponse, DeleteGraph, PutNamespace, DeletePublisher,
               DeleteSubscriber, DeleteTopicSpace
        <5> QED BY <1>1, <5>1, <5>2, <5>3, <5>4 DEF Act, Step
      <4> QED BY <1>3, <3>2, <4>1, <4>2
    <3> QED BY <3>3, <3>4, <3>5
  <2> QED BY <2>1, <2>2
<1> QED BY <1>5, <1>6 DEF RouteProgress

LEMMA RoutesInit == Init => Routes
<1> SUFFICES ASSUME Init PROVE RouteProgress
  BY TypeInit DEF Routes
<1> QED BY DEF Init, RouteProgress

LEMMA RoutesStep == OneProcessPerInstance /\ Routes /\ [Next]_vars => Routes'
<1> SUFFICES ASSUME OneProcessPerInstance, Routes, [Next]_vars PROVE Routes'
  OBVIOUS
<1>1. TypeInv'
  BY TypeStep DEF Routes
<1>2. CASE UNCHANGED vars
  BY <1>1, <1>2 DEF vars, cloud, local, aio, Routes, RouteProgress
<1>3. ASSUME NEW s \in Session, Act(s) PROVE Routes'
  BY <1>1, <1>3, RouteStep DEF Routes
<1> QED BY <1>2, <1>3 DEF Next, Act

(* show does not compare the endpoint of the namespace with that of the     *)
(* dataflows; when no command failed and no write was outdated they agree.  *)
THEOREM EnabledInstancesAreRouted ==
    ASSUME OneProcessPerInstance
    PROVE  Spec => []EnabledIsRouted
<1>1. Init => Routes
  BY RoutesInit
<1>2. Routes /\ [Next]_vars => Routes'
  BY RoutesStep
<1>3. Routes => EnabledIsRouted
  BY DEF Routes, RouteProgress, EnabledIsRouted, Enabled, Idle
<1> QED BY <1>1, <1>2, <1>3, PTL DEF Spec

-------------------------------------------------------------------------------
(* What disable leaves behind, with one dataflow profile per instance.      *)

OneProfile == Profile = {DefaultProfile}

BeforeDelGraph == {"findEg", "prompt", "delResponse", "delGraph"}
BeforeDelDfEndpoint == BeforeDelGraph \cup {"delDfEndpoint"}
AfterDelDfEndpoint == {"adrPut", "delPublisher", "delSubscriber", "delTopicSpace"}
BeforeDelTopicSpace == BeforeDelSubscriber \cup {"delSubscriber", "delTopicSpace"}

(* What a running disable has not deleted of what there is, it has found.   *)
TeardownProgress ==
    \A s \in Session : LET i == InstanceOf[s] IN
        /\ pc[s] \in BeforeDelGraph =>
              \A p \in Profile : <<i, p>> \in graph => plan[s].graphIn = p
        /\ pc[s] \in {"delDfEndpoint"} \cup AfterDelDfEndpoint =>
              \A p \in Profile : <<i, p>> \notin graph
        /\ pc[s] \in BeforeDelDfEndpoint /\ dfEndpoint[i] # NoDfEndpoint
              => "dfEndpoint" \in plan[s].exist
        /\ pc[s] \in AfterDelDfEndpoint => dfEndpoint[i] = NoDfEndpoint
        /\ pc[s] \in BeforeDelTopicSpace /\ <<i, plan[s].eg>> \in topicSpace
              => "topicSpace" \in plan[s].exist

(* A graph has its dataflow endpoint, and an enable about to make one too.  *)
GraphHasEndpoint ==
    /\ \A i \in Instance, p \in Profile :
          <<i, p>> \in graph => dfEndpoint[i] # NoDfEndpoint
    /\ \A s \in Session :
          pc[s] \in {"graph", "response"} => dfEndpoint[InstanceOf[s]] # NoDfEndpoint

Teardown == Backing /\ Flows /\ TeardownProgress /\ GraphHasEndpoint

LEMMA TeardownProgressStep ==
    ASSUME OneProcessPerInstance, OneProfile, Teardown, NEW s \in Session, Act(s)
    PROVE  TeardownProgress'
<1> USE DEF Teardown, Flows
<1> DEFINE Progress(t) == LET i == InstanceOf[t] IN
        /\ pc[t] \in BeforeDelGraph =>
              \A p \in Profile : <<i, p>> \in graph => plan[t].graphIn = p
        /\ pc[t] \in {"delDfEndpoint"} \cup AfterDelDfEndpoint =>
              \A p \in Profile : <<i, p>> \notin graph
        /\ pc[t] \in BeforeDelDfEndpoint /\ dfEndpoint[i] # NoDfEndpoint
              => "dfEndpoint" \in plan[t].exist
        /\ pc[t] \in AfterDelDfEndpoint => dfEndpoint[i] = NoDfEndpoint
        /\ pc[t] \in BeforeDelTopicSpace /\ <<i, plan[t].eg>> \in topicSpace
              => "topicSpace" \in plan[t].exist
<1>0. \A t \in Session : Progress(t)
  BY DEF TeardownProgress
<1>1. ASSUME NEW t \in Session, t # s PROVE Progress(t)'
  <2>1. InstanceOf[t] # InstanceOf[s] /\ InstanceOf[t] \in Instance
    BY <1>1 DEF OneProcessPerInstance
  <2>2. pc'[t] = pc[t] /\ plan'[t] = plan[t]
    BY <1>1, Frame
  <2> QED BY <1>0, <2>1, <2>2, OwnFlows, OwnResources
<1>2. Progress(s)'
  <2> USE DEF TypeInv, TypeOK, At, Goto, BeforeDelGraph, BeforeDelDfEndpoint,
          AfterDelDfEndpoint, BeforeDelTopicSpace, BeforeDelSubscriber
  <2>1. CASE Start(s) \/ Abort(s) \/ RemoveStep(s)
    BY <2>1 DEF Start, StartEnable, StartDisable, StartRemove, Abort, RemoveStep,
         RemoveRead, RemovePut, Finish
  <2>2. CASE EnableStep(s)
    BY <2>2 DEF EnableStep, EnsureTopicSpace, EnsurePublisher, EnsureSubscriber,
         ReadNamespace, PatchNamespace, EnsureDfEndpoint, EnsureGraph, EnsureResponse,
         AssignAdrRoles, AssignDataflowRoles, Finish
  <2>3. CASE FindNamespace(s)
    BY <2>3 DEF FindNamespace
  <2>4. CASE FindAio(s)
    <3> DEFINE i == InstanceOf[s]
    <3>1. PICK p \in FirstProfile(graph, i) :
            \E q \in IF p = None THEN FirstProfile(response, i) ELSE {None} :
               plan' = [plan EXCEPT ![s] = FoundAio(s, p, q)]
      BY <2>4 DEF FindAio
    <3>2. PICK q : plan'[s] = FoundAio(s, p, q)
      BY <3>1
    <3>3. \A r \in Profile : <<i, r>> \in graph => p = r
      BY <3>1 DEF FirstProfile, OneProfile
    <3>4. pc'[s] = "findEg" /\ graph' = graph /\ dfEndpoint' = dfEndpoint
      BY <2>4 DEF FindAio, cloud, aio
    <3>5. /\ plan'[s].graphIn = p
          /\ dfEndpoint[i] # NoDfEndpoint => "dfEndpoint" \in plan'[s].exist
      BY <3>2 DEF FoundAio
    <3> QED BY <3>3, <3>4, <3>5
  <2>5. CASE FindEventGrid(s)
    <3> DEFINE place == <<InstanceOf[s], plan[s].eg>>
    <3>1. plan[s] \in Findings
      OBVIOUS
    <3>2. /\ plan'[s].eg = plan[s].eg /\ plan'[s].graphIn = plan[s].graphIn
          /\ plan[s].exist \subseteq plan'[s].exist
          /\ place \in topicSpace => "topicSpace" \in plan'[s].exist
      BY <2>5, <3>1 DEF FindEventGrid, Findings
    <3>3. pc[s] = "findEg" /\ pc'[s] = "prompt" /\ UNCHANGED <<graph, dfEndpoint, topicSpace>>
      BY <2>5 DEF FindEventGrid, cloud, aio, eventGrid
    <3> QED BY <1>0, <3>2, <3>3
  <2>6. CASE Answer(s)
    BY <1>0, <2>6 DEF Answer, Finish, cloud, aio, eventGrid
  <2>7. CASE DeleteResponse(s)
    BY <1>0, <2>7 DEF DeleteResponse, eventGrid
  <2>8. CASE DeleteGraph(s)
    BY <1>0, <2>8 DEF DeleteGraph, eventGrid
  <2>9. CASE DeleteDfEndpoint(s)
    <3>1. InstanceOf[s] \in Instance
      OBVIOUS
    <3>2. dfEndpoint'[InstanceOf[s]] = NoDfEndpoint
      BY <1>0, <2>9, <3>1 DEF DeleteDfEndpoint
    <3>3. /\ pc[s] = "delDfEndpoint" /\ pc'[s] = "adrPut"
          /\ UNCHANGED <<graph, topicSpace, plan>>
      BY <2>9 DEF DeleteDfEndpoint, eventGrid
    <3> QED BY <1>0, <3>2, <3>3
  <2>10. CASE PutNamespace(s)
    BY <1>0, <2>10 DEF PutNamespace, eventGrid, aio
  <2>11. CASE DeletePublisher(s) \/ DeleteSubscriber(s)
    BY <1>0, <2>11 DEF DeletePublisher, DeleteSubscriber, aio
  <2>12. CASE DeleteTopicSpace(s)
    BY <2>12 DEF DeleteTopicSpace, Finish
  <2> QED BY <2>1, <2>2, <2>3, <2>4, <2>5, <2>6, <2>7, <2>8, <2>9, <2>10, <2>11, <2>12
          DEF Act, Step, DisableStep
<1> HIDE DEF Progress
<1>3. \A t \in Session : Progress(t)'
  BY <1>1, <1>2
<1> QED BY <1>3 DEF Progress, TeardownProgress

LEMMA GraphHasEndpointStep ==
    ASSUME OneProcessPerInstance, Teardown, NEW s \in Session, Act(s)
    PROVE  GraphHasEndpoint'
<1> USE DEF Teardown, Flows
<1> DEFINE own == InstanceOf[s]
<1>0. own \in Instance
  OBVIOUS
<1>1. ASSUME NEW i \in Instance, i # own, NEW p \in Profile, <<i, p>> \in graph'
      PROVE  dfEndpoint'[i] # NoDfEndpoint
  BY <1>1, OwnFlows DEF GraphHasEndpoint
<1>2. ASSUME NEW t \in Session, t # s, pc'[t] \in {"graph", "response"}
      PROVE  dfEndpoint'[InstanceOf[t]] # NoDfEndpoint
  <2>1. InstanceOf[t] # own /\ InstanceOf[t] \in Instance
    BY <1>2 DEF OneProcessPerInstance
  <2> QED BY <1>2, <2>1, Frame, OwnFlows DEF GraphHasEndpoint
<1>3. /\ \A p \in Profile : <<own, p>> \in graph' => dfEndpoint'[own] # NoDfEndpoint
      /\ pc'[s] \in {"graph", "response"} => dfEndpoint'[own] # NoDfEndpoint
  <2> USE DEF TypeInv, TypeOK, At, Goto
  <2>1. CASE Start(s) \/ Abort(s) \/ RemoveStep(s)
    BY <1>0, <2>1 DEF Start, StartEnable, StartDisable, StartRemove, Abort, RemoveStep,
         RemoveRead, RemovePut, Finish, cloud, aio, GraphHasEndpoint
  <2>2. CASE EnsureDfEndpoint(s)
    <3>1. dfEndpoint'[own].eg = want[s].eg /\ want[s].eg \in EgNamespace
      BY <1>0, <2>2 DEF EnsureDfEndpoint, EnsuredDfEndpoint, ArgumentsGiven, EnableSteps
    <3> QED BY <3>1 DEF NoDfEndpoint
  <2>3. CASE EnsureGraph(s) \/ EnsureResponse(s)
    BY <2>3 DEF EnsureGraph, EnsureResponse, Finish, GraphHasEndpoint
  <2>4. CASE EnableStep(s) /\ ~EnsureDfEndpoint(s) /\ ~EnsureGraph(s) /\ ~EnsureResponse(s)
    BY <1>0, <2>4 DEF EnableStep, EnsureTopicSpace, EnsurePublisher, EnsureSubscriber,
         ReadNamespace, PatchNamespace, AssignAdrRoles, AssignDataflowRoles, Finish,
         cloud, aio, GraphHasEndpoint
  <2>5. CASE DeleteDfEndpoint(s)
    BY <2>5 DEF DeleteDfEndpoint, TeardownProgress
  <2>6. CASE DisableStep(s) /\ ~DeleteDfEndpoint(s)
    BY <1>0, <2>6 DEF DisableStep, FindNamespace, FindAio, FindEventGrid, Answer,
         DeleteResponse, DeleteGraph, PutNamespace, DeletePublisher, DeleteSubscriber,
         DeleteTopicSpace, Finish, cloud, aio, GraphHasEndpoint
  <2> QED BY <2>1, <2>2, <2>3, <2>4, <2>5, <2>6 DEF Act, Step
<1> QED BY <1>1, <1>2, <1>3 DEF GraphHasEndpoint

LEMMA TeardownInit == Init => Teardown
<1> SUFFICES ASSUME Init PROVE TeardownProgress /\ GraphHasEndpoint
  BY BackingInit, FlowsInit DEF Teardown
<1> QED BY DEF Init, TeardownProgress, GraphHasEndpoint, BeforeDelGraph,
          BeforeDelDfEndpoint, AfterDelDfEndpoint, BeforeDelTopicSpace,
          BeforeDelSubscriber

LEMMA TeardownStep ==
    OneProcessPerInstance /\ OneProfile /\ Teardown /\ [Next]_vars => Teardown'
<1> SUFFICES ASSUME OneProcessPerInstance, OneProfile, Teardown, [Next]_vars
             PROVE  Teardown'
  OBVIOUS
<1>1. Backing' /\ Flows'
  BY BackingStep, FlowsStep DEF Teardown
<1>2. CASE UNCHANGED vars
  BY <1>1, <1>2 DEF vars, cloud, local, aio, eventGrid, Teardown, TeardownProgress,
     GraphHasEndpoint
<1>3. ASSUME NEW s \in Session, Act(s) PROVE Teardown'
  BY <1>1, <1>3, TeardownProgressStep, GraphHasEndpointStep DEF Teardown
<1> QED BY <1>2, <1>3 DEF Next, Act

(* With one dataflow profile and no outdated write, a disable that runs to  *)
(* its end has removed every resource of its instance.                      *)
THEOREM DisabledInstancesAreGone ==
    ASSUME OneProcessPerInstance, OneProfile
    PROVE  Spec => DisableLeavesNothing
<1> DEFINE Left == \A s \in Session :
         pc[s] = "delTopicSpace" /\ pc'[s] = "idle" /\ faults' = faults
           /\ ~staleWrite
             => \A e \in EgNamespace \cup {None} :
                   plan[s].eg = e => Gone(InstanceOf[s], e)'
<1>1. Teardown /\ [Next]_vars => [Left]_vars
  <2> SUFFICES ASSUME Teardown, Next, NEW s \in Session,
                      pc[s] = "delTopicSpace", pc'[s] = "idle", faults' = faults,
                      ~staleWrite, NEW e \in EgNamespace \cup {None}, plan[s].eg = e
               PROVE  Gone(InstanceOf[s], e)'
    OBVIOUS
  <2> DEFINE i == InstanceOf[s]
             place == <<i, e>>
  <2> USE DEF Teardown, Flows
  <2>1. DeleteTopicSpace(s)
    <3>1. PICK t \in Session : Act(t)
      BY DEF Next, Act
    <3>2. t = s
      BY <3>1, Frame
    <3>3. ~Abort(s)
      BY DEF Abort, TypeInv, TypeOK
    <3>4. ~Start(s) /\ ~RemoveStep(s) /\ ~EnableStep(s)
      BY DEF Start, StartEnable, StartDisable, StartRemove, RemoveStep, RemoveRead,
         RemovePut, EnableStep, EnsureTopicSpace, EnsurePublisher, EnsureSubscriber,
         ReadNamespace, PatchNamespace, EnsureDfEndpoint, EnsureGraph, EnsureResponse,
         AssignAdrRoles, AssignDataflowRoles, At
    <3> QED BY <3>1, <3>2, <3>3, <3>4 DEF Act, Step, DisableStep, FindNamespace, FindAio,
            FindEventGrid, Answer, DeleteResponse, DeleteGraph, DeleteDfEndpoint,
            PutNamespace, DeletePublisher, DeleteSubscriber, At
  <2>2. /\ adr.endpoints[i] = None
        /\ place \notin publisher /\ place \notin subscriber
    BY DEF Backing, EntryGone, DisableProgress
  <2>3. /\ \A p \in Profile : <<i, p>> \notin graph
        /\ dfEndpoint[i] = NoDfEndpoint
        /\ place \in topicSpace => "topicSpace" \in plan[s].exist
    BY DEF TeardownProgress, AfterDelDfEndpoint, BeforeDelTopicSpace
  <2>4. \A p \in Profile : <<i, p>> \notin graph \cup response
    BY <2>3 DEF ResponseHasGraph
  <2>5. place \notin topicSpace'
    BY <2>1, <2>3 DEF DeleteTopicSpace, Probed
  <2>6. UNCHANGED <<adr, publisher, subscriber, dfEndpoint, graph, response>>
    BY <2>1 DEF DeleteTopicSpace, aio
  <2> QED BY <2>2, <2>3, <2>4, <2>5, <2>6 DEF Gone
<1>2. Spec => []Teardown
  BY TeardownInit, TeardownStep, PTL DEF Spec
<1> QED BY <1>1, <1>2, PTL DEF Spec, DisableLeavesNothing

-------------------------------------------------------------------------------
(* The refinement of DependencyOrder: each step adds one resource, removes  *)
(* one, or touches none.                                                    *)

DfEndpoints == {<<"dfEndpoint", i>> : i \in {k \in Instance : dfEndpoint[k] # NoDfEndpoint}}

(* A name tells the kind of its resource. *)
LEMMA PresentSplit ==
    /\ Present = UNION {Tagged("topicSpace", topicSpace), Tagged("publisher", publisher),
                        Tagged("subscriber", subscriber), Tagged("graph", graph),
                        Tagged("response", response), DfEndpoints}
    /\ \A kind, set : \A r \in Tagged(kind, set) : r[1] = kind
    /\ \A r \in DfEndpoints : r[1] = "dfEndpoint"
BY DEF Present, Tagged, DfEndpoints

LEMMA InPresent ==
    ASSUME TypeOK, NEW i \in Instance
    PROVE  /\ \A e : <<i, e>> \in topicSpace => <<"topicSpace", i, e>> \in Present
           /\ dfEndpoint[i] # NoDfEndpoint => <<"dfEndpoint", i>> \in Present
BY DEF Present, Tagged

LEMMA PresentResource == TypeOK => Present \subseteq Resource
BY DEF TypeOK, Present, Tagged, Resource, Placement

(* What a present resource refers to. *)
LEMMA NeededBy ==
    ASSUME TypeOK, NEW q \in Present, NEW r \in Needs(q)
    PROVE  \/ \E x \in publisher \cup subscriber : r = <<"topicSpace", x[1], x[2]>>
           \/ \E x \in graph \cup response : r = <<"dfEndpoint", x[1]>>
<1>1. CASE q \in Tagged("publisher", publisher) \cup Tagged("subscriber", subscriber)
  BY <1>1 DEF Tagged, Needs
<1>2. CASE q \in Tagged("graph", graph) \cup Tagged("response", response)
  BY <1>2 DEF Tagged, Needs
<1>3. CASE q \in Tagged("topicSpace", topicSpace) \cup DfEndpoints
  <2>1. q[1] \in {"topicSpace", "dfEndpoint"}
    BY <1>3, PresentSplit
  <2> QED BY <2>1 DEF Needs
<1> QED BY <1>1, <1>2, <1>3, PresentSplit

LEMMA Grows ==
    ASSUME NEW r \in Resource, Needs(r) \subseteq Present, Present' = Present \cup {r}
    PROVE  [Order!Next]_Present
BY DEF Order!Next, Order!Create

LEMMA Shrinks ==
    ASSUME NEW r, \A q \in Present \ {r} : r \notin Needs(q), Present' = Present \ {r}
    PROVE  [Order!Next]_Present
BY DEF Order!Next, Order!Remove

LEMMA BuildStep ==
    ASSUME Teardown, NEW s \in Session, EnableStep(s)
    PROVE  [Order!Next]_Present
<1> USE DEF Teardown, Backing, Flows, TypeInv, TypeOK, At
<1> DEFINE i == InstanceOf[s]
<1>0. /\ i \in Instance
      /\ pc[s] \in EnableSteps => want[s].eg \in EgNamespace /\ want[s].profile \in Profile
  BY DEF ArgumentsGiven
<1>1. CASE EnsureTopicSpace(s)
  <2> DEFINE r == <<"topicSpace", i, want[s].eg>>
  <2>1. want[s].eg \in EgNamespace
    BY <1>0, <1>1 DEF EnsureTopicSpace, EnableSteps
  <2>2. Tagged("topicSpace", topicSpace') = Tagged("topicSpace", topicSpace) \cup {r}
    <3>1. OwnPlace(s)[1] = i /\ OwnPlace(s)[2] = want[s].eg
      BY DEF OwnPlace
    <3> QED BY <1>1, <3>1 DEF EnsureTopicSpace, Tagged
  <2>3. UNCHANGED <<publisher, subscriber, graph, response, dfEndpoint>>
    BY <1>1 DEF EnsureTopicSpace, aio
  <2>4. Present' = Present \cup {r}
    BY <2>2, <2>3 DEF Present
  <2>5. r \in Resource /\ Needs(r) = {}
    BY <1>0, <2>1 DEF Resource, Needs
  <2> QED BY <2>4, <2>5, Grows
<1>2. CASE EnsurePublisher(s)
  <2> DEFINE r == <<"publisher", i, want[s].eg>>
  <2>1. want[s].eg \in EgNamespace /\ <<i, want[s].eg>> \in topicSpace
    BY <1>0, <1>2 DEF EnsurePublisher, EnableSteps, EnableProgress, AfterTopicSpace, OwnPlace
  <2>2. Tagged("publisher", publisher') = Tagged("publisher", publisher) \cup {r}
    <3>1. OwnPlace(s)[1] = i /\ OwnPlace(s)[2] = want[s].eg
      BY DEF OwnPlace
    <3> QED BY <1>2, <3>1 DEF EnsurePublisher, Tagged
  <2>3. UNCHANGED <<topicSpace, subscriber, graph, response, dfEndpoint>>
    BY <1>2 DEF EnsurePublisher, aio
  <2>4. Present' = Present \cup {r}
    BY <2>2, <2>3 DEF Present
  <2>5. r \in Resource /\ Needs(r) = {<<"topicSpace", i, want[s].eg>>}
    BY <1>0, <2>1 DEF Resource, Needs
  <2>6. <<"topicSpace", i, want[s].eg>> \in Present
    BY <1>0, <2>1, InPresent
  <2> QED BY <2>4, <2>5, <2>6, Grows
<1>3. CASE EnsureSubscriber(s)
  <2> DEFINE r == <<"subscriber", i, want[s].eg>>
  <2>1. want[s].eg \in EgNamespace /\ <<i, want[s].eg>> \in topicSpace
    BY <1>0, <1>3 DEF EnsureSubscriber, EnableSteps, EnableProgress, AfterTopicSpace, OwnPlace
  <2>2. Tagged("subscriber", subscriber') = Tagged("subscriber", subscriber) \cup {r}
    <3>1. OwnPlace(s)[1] = i /\ OwnPlace(s)[2] = want[s].eg
      BY DEF OwnPlace
    <3> QED BY <1>3, <3>1 DEF EnsureSubscriber, Tagged
  <2>3. UNCHANGED <<topicSpace, publisher, graph, response, dfEndpoint>>
    BY <1>3 DEF EnsureSubscriber, aio
  <2>4. Present' = Present \cup {r}
    BY <2>2, <2>3 DEF Present
  <2>5. r \in Resource /\ Needs(r) = {<<"topicSpace", i, want[s].eg>>}
    BY <1>0, <2>1 DEF Resource, Needs
  <2>6. <<"topicSpace", i, want[s].eg>> \in Present
    BY <1>0, <2>1, InPresent
  <2> QED BY <2>4, <2>5, <2>6, Grows
<1>4. CASE EnsureDfEndpoint(s)
  <2> DEFINE r == <<"dfEndpoint", i>>
  <2>1. want[s].eg \in EgNamespace
    BY <1>0, <1>4 DEF EnsureDfEndpoint, EnableSteps
  <2>2. /\ dfEndpoint' \in [Instance -> DfEndpoint \cup {NoDfEndpoint}]
        /\ dfEndpoint'[i] # NoDfEndpoint
        /\ \A k \in Instance \ {i} : dfEndpoint'[k] = dfEndpoint[k]
    <3>1. EnsuredDfEndpoint(s) \in DfEndpoint /\ EnsuredDfEndpoint(s) # NoDfEndpoint
      BY <1>4, <2>1 DEF EnsureDfEndpoint, EnsuredDfEndpoint, DfEndpoint, NoDfEndpoint,
         ArgumentsGiven, EnableSteps
    <3> QED BY <1>0, <1>4, <3>1 DEF EnsureDfEndpoint
  <2>3. DfEndpoints' = DfEndpoints \cup {r}
    BY <1>0, <2>2 DEF DfEndpoints
  <2>4. UNCHANGED <<topicSpace, publisher, subscriber, graph, response>>
    BY <1>4 DEF EnsureDfEndpoint, eventGrid
  <2>5. Present' = Present \cup {r}
    BY <2>3, <2>4 DEF Present, DfEndpoints
  <2>6. r \in Resource /\ Needs(r) = {}
    BY <1>0 DEF Resource, Needs
  <2> QED BY <2>5, <2>6, Grows
<1>5. CASE EnsureGraph(s)
  <2> DEFINE r == <<"graph", i, want[s].profile>>
  <2>1. want[s].profile \in Profile /\ dfEndpoint[i] # NoDfEndpoint
    BY <1>0, <1>5 DEF EnsureGraph, EnableSteps, GraphHasEndpoint
  <2>2. Tagged("graph", graph') = Tagged("graph", graph) \cup {r}
    <3>1. OwnFlow(s)[1] = i /\ OwnFlow(s)[2] = want[s].profile
      BY DEF OwnFlow
    <3> QED BY <1>5, <3>1 DEF EnsureGraph, Tagged
  <2>3. UNCHANGED <<topicSpace, publisher, subscriber, response, dfEndpoint>>
    BY <1>5 DEF EnsureGraph, eventGrid
  <2>4. Present' = Present \cup {r}
    BY <2>2, <2>3 DEF Present
  <2>5. r \in Resource /\ Needs(r) = {<<"dfEndpoint", i>>}
    BY <1>0, <2>1 DEF Resource, Needs
  <2> QED BY <1>0, <2>1, <2>4, <2>5, InPresent, Grows
<1>6. CASE EnsureResponse(s)
  <2> DEFINE r == <<"response", i, want[s].profile>>
  <2>1. want[s].profile \in Profile /\ dfEndpoint[i] # NoDfEndpoint
    BY <1>0, <1>6 DEF EnsureResponse, EnableSteps, GraphHasEndpoint
  <2>2. Tagged("response", response') = Tagged("response", response) \cup {r}
    <3>1. OwnFlow(s)[1] = i /\ OwnFlow(s)[2] = want[s].profile
      BY DEF OwnFlow
    <3> QED BY <1>6, <3>1 DEF EnsureResponse, Tagged
  <2>3. UNCHANGED <<topicSpace, publisher, subscriber, graph, dfEndpoint>>
    BY <1>6 DEF EnsureResponse, eventGrid
  <2>4. Present' = Present \cup {r}
    BY <2>2, <2>3 DEF Present
  <2>5. r \in Resource /\ Needs(r) = {<<"dfEndpoint", i>>}
    BY <1>0, <2>1 DEF Resource, Needs
  <2> QED BY <1>0, <2>1, <2>4, <2>5, InPresent, Grows
<1>7. CASE \/ ReadNamespace(s) \/ PatchNamespace(s)
           \/ AssignAdrRoles(s) \/ AssignDataflowRoles(s)
  <2>1. UNCHANGED <<eventGrid, aio>>
    BY <1>7 DEF ReadNamespace, PatchNamespace, AssignAdrRoles, AssignDataflowRoles, cloud
  <2> QED BY <2>1 DEF eventGrid, aio, Present
<1> QED BY <1>1, <1>2, <1>3, <1>4, <1>5, <1>6, <1>7 DEF EnableStep

LEMMA DismantleStep ==
    ASSUME Teardown, NEW s \in Session, DisableStep(s)
    PROVE  [Order!Next]_Present
<1> USE DEF Teardown, Backing, Flows, TypeInv, TypeOK, At
<1> DEFINE i == InstanceOf[s]
           e == plan[s].eg
<1>0. i \in Instance
  OBVIOUS
<1>1. ASSUME NEW r \in Present, NEW q \in Present,
             r[1] \in {"graph", "response", "publisher", "subscriber"}
      PROVE  r \notin Needs(q)
  BY <1>1, NeededBy
<1>2. CASE DeleteResponse(s)
  <2>1. PICK p : response' = response \ {<<i, p>>}
    BY <1>2 DEF DeleteResponse
  <2> DEFINE r == <<"response", i, p>>
  <2>2. Tagged("response", response') = Tagged("response", response) \ {r}
    BY <2>1 DEF Tagged
  <2>3. UNCHANGED <<topicSpace, publisher, subscriber, graph, dfEndpoint>>
    BY <1>2 DEF DeleteResponse, eventGrid
  <2>4. Present' = Present \ {r}
    BY <2>2, <2>3, PresentSplit DEF Present, DfEndpoints
  <2> QED BY <1>1, <2>4, Shrinks
<1>3. CASE DeleteGraph(s)
  <2>1. PICK p : graph' = graph \ {<<i, p>>}
    BY <1>3 DEF DeleteGraph
  <2> DEFINE r == <<"graph", i, p>>
  <2>2. Tagged("graph", graph') = Tagged("graph", graph) \ {r}
    BY <2>1 DEF Tagged
  <2>3. UNCHANGED <<topicSpace, publisher, subscriber, response, dfEndpoint>>
    BY <1>3 DEF DeleteGraph, eventGrid
  <2>4. Present' = Present \ {r}
    BY <2>2, <2>3, PresentSplit DEF Present, DfEndpoints
  <2> QED BY <1>1, <2>4, Shrinks
<1>4. CASE DeleteDfEndpoint(s)
  <2> DEFINE r == <<"dfEndpoint", i>>
  <2>1. UNCHANGED <<topicSpace, publisher, subscriber, graph, response>>
    BY <1>4 DEF DeleteDfEndpoint, eventGrid
  <2>2. CASE dfEndpoint' = dfEndpoint
    BY <2>1, <2>2 DEF Present
  <2>3. CASE dfEndpoint' = [dfEndpoint EXCEPT ![i] = NoDfEndpoint]
    <3>1. DfEndpoints' = DfEndpoints \ {r}
      BY <1>0, <2>3 DEF DfEndpoints
    <3>2. Present' = Present \ {r}
      BY <2>1, <3>1, PresentSplit DEF Present, DfEndpoints
    <3>3. \A p \in Profile : <<i, p>> \notin graph \cup response
      BY <1>4 DEF DeleteDfEndpoint, TeardownProgress, ResponseHasGraph
    <3>4. \A q \in Present : r \notin Needs(q)
      BY <3>3, NeededBy
    <3> QED BY <3>2, <3>4, Shrinks
  <2> QED BY <1>4, <2>2, <2>3 DEF DeleteDfEndpoint
<1>5. CASE DeletePublisher(s)
  <2> DEFINE r == <<"publisher", i, e>>
  <2>1. UNCHANGED <<topicSpace, subscriber, graph, response, dfEndpoint>>
    BY <1>5 DEF DeletePublisher, aio
  <2>2. CASE publisher' = publisher
    BY <2>1, <2>2 DEF Present
  <2>3. CASE publisher' = publisher \ {<<i, e>>}
    <3>1. Tagged("publisher", publisher') = Tagged("publisher", publisher) \ {r}
      BY <2>3 DEF Tagged, Placement
    <3>2. Present' = Present \ {r}
      BY <2>1, <3>1, PresentSplit DEF Present, DfEndpoints
    <3> QED BY <1>1, <3>2, Shrinks
  <2> QED BY <1>5, <2>2, <2>3 DEF DeletePublisher, Probed
<1>6. CASE DeleteSubscriber(s)
  <2> DEFINE r == <<"subscriber", i, e>>
  <2>1. UNCHANGED <<topicSpace, publisher, graph, response, dfEndpoint>>
    BY <1>6 DEF DeleteSubscriber, aio
  <2>2. CASE subscriber' = subscriber
    BY <2>1, <2>2 DEF Present
  <2>3. CASE subscriber' = subscriber \ {<<i, e>>}
    <3>1. Tagged("subscriber", subscriber') = Tagged("subscriber", subscriber) \ {r}
      BY <2>3 DEF Tagged, Placement
    <3>2. Present' = Present \ {r}
      BY <2>1, <3>1, PresentSplit DEF Present, DfEndpoints
    <3> QED BY <1>1, <3>2, Shrinks
  <2> QED BY <1>6, <2>2, <2>3 DEF DeleteSubscriber, Probed
<1>7. CASE DeleteTopicSpace(s)
  <2> DEFINE r == <<"topicSpace", i, e>>
  <2>1. UNCHANGED <<publisher, subscriber, graph, response, dfEndpoint>>
    BY <1>7 DEF DeleteTopicSpace, aio
  <2>2. CASE topicSpace' = topicSpace
    BY <2>1, <2>2 DEF Present
  <2>3. CASE topicSpace' = topicSpace \ {<<i, e>>}
    <3>1. Tagged("topicSpace", topicSpace') = Tagged("topicSpace", topicSpace) \ {r}
      BY <2>3 DEF Tagged, Placement
    <3>2. Present' = Present \ {r}
      BY <2>1, <3>1, PresentSplit DEF Present, DfEndpoints
    <3>3. <<i, e>> \notin publisher \cup subscriber
      BY <1>7 DEF DeleteTopicSpace, DisableProgress
    <3>4. \A x \in publisher \cup subscriber : r # <<"topicSpace", x[1], x[2]>>
      BY <3>3 DEF Placement
    <3>5. \A q \in Present : r \notin Needs(q)
      BY <3>4, NeededBy
    <3> QED BY <3>2, <3>5, Shrinks
  <2> QED BY <1>7, <2>2, <2>3 DEF DeleteTopicSpace, Probed
<1>8. CASE \/ FindNamespace(s) \/ FindAio(s) \/ FindEventGrid(s) \/ Answer(s)
           \/ PutNamespace(s)
  <2>1. UNCHANGED <<eventGrid, aio>>
    BY <1>8 DEF FindNamespace, FindAio, FindEventGrid, Answer, PutNamespace, cloud
  <2> QED BY <2>1 DEF eventGrid, aio, Present
<1> QED BY <1>2, <1>3, <1>4, <1>5, <1>6, <1>7, <1>8 DEF DisableStep

LEMMA OrderStep == Teardown /\ [Next]_vars => [Order!Next]_Present
<1> SUFFICES ASSUME Teardown, [Next]_vars PROVE [Order!Next]_Present
  OBVIOUS
<1>1. CASE UNCHANGED <<eventGrid, aio>>
  BY <1>1 DEF eventGrid, aio, Present
<1>2. ASSUME NEW s \in Session, Start(s) \/ RemoveStep(s) \/ Abort(s)
      PROVE  UNCHANGED <<eventGrid, aio>>
  BY <1>2 DEF Start, StartEnable, StartDisable, StartRemove, RemoveStep, RemoveRead,
     RemovePut, Abort, cloud
<1> QED BY <1>1, <1>2, BuildStep, DismantleStep DEF Next, Step, vars, cloud

(* With one dataflow profile and one process per instance, enable and       *)
(* disable implement DependencyOrder: interleaved, failed and run again,    *)
(* they create what is referred to first and remove it last.                *)
THEOREM CommandsKeepDependencies ==
    ASSUME OneProcessPerInstance, OneProfile
    PROVE  Spec => KeepsDependencies
<1>1. Init => Order!Init
  <2> SUFFICES ASSUME Init PROVE Order!Init
    OBVIOUS
  <2>1. Present = {}
    BY DEF Init, Present, Tagged
  <2> QED BY <2>1 DEF Order!Init, Order!TypeOK, Order!Closed
<1>2. Teardown /\ [Next]_vars => Teardown'
  BY TeardownStep
<1>3. Teardown /\ [Next]_vars => [UNCHANGED <<eventGrid, aio>> \/ [Order!Next]_Present]_vars
  BY OrderStep
<1> QED BY <1>1, <1>2, <1>3, TeardownInit, PTL DEF Spec, KeepsDependencies

(* What implements DependencyOrder keeps what it manages closed.               *)
LEMMA OrderKeepsClosed == Order!Spec => [](Order!TypeOK /\ Order!Closed)
  <1>1. Order!Init => Order!TypeOK /\ Order!Closed
    BY DEF Order!Init
  <1>2. (Order!TypeOK /\ Order!Closed) /\ [Order!Next]_Present => (Order!TypeOK /\ Order!Closed)'
    <2> SUFFICES ASSUME Order!TypeOK, Order!Closed, [Order!Next]_Present
                 PROVE  (Order!TypeOK /\ Order!Closed)'
      OBVIOUS
    <2>1. CASE \E r \in Present' \ Present : Order!Create(r)
      BY <2>1 DEF Order!Create, Order!TypeOK, Order!Closed
    <2>2. CASE \E r \in Present \ Present' : Order!Remove(r)
      BY <2>2 DEF Order!Remove, Order!TypeOK, Order!Closed
    <2>3. CASE UNCHANGED Present
      BY <2>3 DEF Order!TypeOK, Order!Closed
    <2> QED BY <2>1, <2>2, <2>3 DEF Order!Next
  <1> QED BY <1>1, <1>2, PTL DEF Order!Spec

(* With one dataflow profile and one process per instance, no binding is       *)
(* without its topic space, no graph and no response dataflow without the      *)
(* endpoint it names, wherever the commands fail.                              *)
THEOREM CommandsLeaveNothingDangling ==
    ASSUME OneProcessPerInstance, OneProfile
    PROVE  Spec => []Order!Closed
  <1>1. UNCHANGED <<eventGrid, aio>> => UNCHANGED Present
    BY DEF eventGrid, aio, Present
  <1>2. [UNCHANGED <<eventGrid, aio>> \/ [Order!Next]_Present]_vars => [Order!Next]_Present
    BY <1>1 DEF vars, cloud
  <1> QED BY <1>2, CommandsKeepDependencies, OrderKeepsClosed, PTL DEF KeepsDependencies, Order!Spec
==============================================================================
