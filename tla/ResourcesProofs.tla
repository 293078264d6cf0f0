----------------------------- MODULE ResourcesProofs -----------------------------
(***************************************************************************)
(* Proofs about Resources: what is stored keeps its type and is in order,  *)
(* and what a step of a command may take away.                             *)
(***************************************************************************)
EXTENDS Resources, TLAPS

-------------------------------------------------------------------------------
(* What a process may be about to do                                         *)

(* The commands that get as far as a step.                                   *)
MayBe(c, step) ==
  LET k == c.id.kind
  IN  CASE step = "get" ->
             \/ c.op = "update" /\ k \in {"profile", "endpoint", "registry", "broker", "template"}
             \/ c.op = "delete" /\ k = "template"
             \/ c.op \in {"addItem", "removeItem"} /\ k = "listener"
             \/ c.op = "addItem" /\ k = "authn"
        [] step = "spc" -> c.op \in {"create", "update", "delete"} /\ k = "template"
        [] step = "read" -> c.op = "apply" /\ k \in {"flow", "graph"}
        [] step = "list" -> c.op = "delete" /\ k = "profile"
        [] step = "container" -> c.op = "create" /\ k = "schemaRegistry"
        [] step = "role" -> c.op = "create" /\ k = "schemaRegistry"
        [] step = "version" -> c.op \in {"create", "addItem", "removeItem"} /\ k = "schema"
        [] OTHER ->   \* write
             \/ c.op = "delete"
             \/ c.op = "create" /\ k \in {"profile", "endpoint", "registry", "schemaRegistry",
                                          "schema", "template", "secretSync"}
             \/ c.op = "update" /\ k \in {"profile", "endpoint", "registry", "broker",
                                          "template"}
             \/ c.op = "apply" /\ k \in {"endpoint", "listener", "authn", "authz"}
             \/ c.op \in {"addItem", "removeItem"} /\ k = "listener"
             \/ c.op = "addItem" /\ k = "authn"

(* A command that works on what it has read of its own resource.             *)
Reads(c) == c.op \in {"update", "addItem", "removeItem"}

(* The commands a process is given.                                          *)
Given(c) ==
  /\ IsCommand(c)
  /\ c.op = "apply" => /\ Sound(c.id.kind, c.body)
                       /\ \A role \in Roles : Refs(c.id, c.body, role) \subseteq Id

Running(s) ==
  IF pc[s] = "idle" THEN cmd[s] = None /\ seen[s] = {}
  ELSE /\ Given(cmd[s]) /\ MayBe(cmd[s], pc[s])
       /\ Reads(cmd[s]) /\ pc[s] \in {"spc", "write"} => \E x \in seen[s] : x.role = "self"
       /\ \A x \in seen[s] : x.role = "self" =>
             /\ x.id = cmd[s].id
             /\ x.body = None => ~Reads(cmd[s]) \/ cmd[s].op = "addItem"
             /\ x.body # None => Sound(x.id.kind, x.body)

Inv ==
  /\ TypeOK
  /\ \A s \in Session : Running(s)
  /\ WellFormed

-------------------------------------------------------------------------------
(* The kinds of steps                                                        *)

(* A process is given a command.                                             *)
Starts(s, c, first) ==
  /\ Given(c) /\ MayBe(c, first)
  /\ Reads(c) => first \notin {"spc", "write"}
  /\ BringsSecrets(c) => first # "write"
  /\ c.op = "delete" /\ c.id.kind = "profile" => first # "write"
  /\ first \in Step
  /\ Begins(s, c, first)

LEMMA FromWorkload ==
  ASSUME TypeOK, NEW s \in Session, NEW c \in work.commands[s]
  PROVE  Given(c)
  BY WorkloadAssumption, SoundAssumption, RefsAssumption DEF TypeOK, Given

LEMMA RunStarts ==
  ASSUME TypeOK, NEW s \in Session, NEW op, NEW kind, NEW first \in Step,
         Run(s, op, kind, first),
         \A c : c.op = op /\ c.id.kind = kind =>
                  MayBe(c, first) /\ (Reads(c) => first \notin {"spc", "write"}),
         first = "write" => kind # "template" /\ ~(op = "delete" /\ kind = "profile")
  PROVE  \E c : Starts(s, c, first)
  BY FromWorkload DEF Run, Starts, BringsSecrets

LEMMA EndpointStarts ==
  ASSUME TypeOK, NEW s \in Session, NEW op \in {"create", "update"}, NEW type \in EndpointType,
         NEW names, NEW implied, NEW first \in {"get", "write"},
         \A o \in DOMAIN names : names[o] \in Option, implied \subseteq Option,
         RunEndpoint(s, op, type, names, implied, first),
         first = IF op = "create" THEN "write" ELSE "get"
  PROVE  \E c : Starts(s, c, first)
<1> PICK c \in work.commands[s] :
       /\ c.op = op /\ c.id.kind = "endpoint" /\ c.type = type
       /\ LET given == {IF o \in DOMAIN names THEN names[o] ELSE o : o \in c.given}
          IN  Begins(s, [c EXCEPT !.given =
                            IF "disable_tls" \in given THEN given ELSE given \cup implied],
                     first)
  BY DEF RunEndpoint
<1> DEFINE given == {IF o \in DOMAIN names THEN names[o] ELSE o : o \in c.given}
           all   == IF "disable_tls" \in given THEN given ELSE given \cup implied
           d     == [c EXCEPT !.given = all]
<1>1. Given(c)
  BY FromWorkload
<1>2. all \subseteq Option
  BY <1>1 DEF Given, IsCommand
<1>3. /\ DOMAIN d = DOMAIN c /\ d.op = c.op /\ d.id = c.id /\ d.given = all
      /\ d.auth = c.auth /\ d.host = c.host /\ d.type = c.type /\ d.body = c.body
      /\ d.item = c.item
  BY <1>1 DEF Given, IsCommand
<1> HIDE DEF all
<1>4. IsCommand(d)
  BY <1>1, <1>2, <1>3 DEF Given, IsCommand, BodyFor, ItemFor
<1>5. MayBe(d, first) /\ d.op \notin {"apply", "delete"} /\ (Reads(d) => first = "get") /\ first \in Step
  BY <1>3 DEF MayBe, Reads, Step
<1>6. Begins(s, d, first)
  BY DEF all
<1>7. ~BringsSecrets(d)
  BY <1>3 DEF BringsSecrets
<1> HIDE DEF d
<1> QED BY <1>4, <1>5, <1>6, <1>7 DEF Starts, Given

(* What the commands on endpoints make of their options are options.         *)
LEMMA OptionNames ==
  /\ \A o \in DOMAIN Sami : Sami[o] \in Option
  /\ \A o \in DOMAIN Token : Token[o] \in Option
  /\ \A o \in DOMAIN Sasl : Sasl[o] \in Option
  /\ \A o \in DOMAIN Sat : Sat[o] \in Option
  /\ \A o \in DOMAIN SamiX509 : SamiX509[o] \in Option
  /\ \A o \in DOMAIN X509 : X509[o] \in Option
  /\ \A o \in DOMAIN <<>> : <<>>[o] \in Option
  /\ {} \subseteq Option /\ TlsOn \subseteq Option
  BY DEF Sami, Token, Sasl, Sat, SamiX509, X509, TlsOn, Option, SettingParam

LEMMA CreateStarts ==
  ASSUME TypeOK, NEW s \in Session, NEW type \in EndpointType, NEW names, NEW implied,
         \A o \in DOMAIN names : names[o] \in Option, implied \subseteq Option,
         Create(s, type, names, implied)
  PROVE  \E c, first : Starts(s, c, first)
  BY EndpointStarts DEF Create

LEMMA UpdateStarts ==
  ASSUME TypeOK, NEW s \in Session, NEW type \in EndpointType, NEW names, NEW implied,
         \A o \in DOMAIN names : names[o] \in Option, implied \subseteq Option,
         Update(s, type, names, implied)
  PROVE  \E c, first : Starts(s, c, first)
  BY EndpointStarts DEF Update

LEMMA BeginEndpointStarts ==
  ASSUME TypeOK, NEW s \in Session, BeginEndpoint(s)
  PROVE  \E c, first : Starts(s, c, first)
<1>a. "adx" \in EndpointType /\ "adls" \in EndpointType /\ "onelake" \in EndpointType /\ "eventhub" \in EndpointType /\ "realtime" \in EndpointType /\ "kafka" \in EndpointType
      /\ "storage" \in EndpointType /\ "local" \in EndpointType /\ "eventgrid" \in EndpointType /\ "mqtt" \in EndpointType /\ "otel" \in EndpointType
  BY DEF EndpointType
<1>1. CASE CreateEndpointAdx(s)
  BY <1>a, <1>1, OptionNames, CreateStarts DEF CreateEndpointAdx
<1>2. CASE CreateEndpointAdls(s)
  BY <1>a, <1>2, OptionNames, CreateStarts DEF CreateEndpointAdls
<1>3. CASE CreateEndpointOnelake(s)
  BY <1>a, <1>3, OptionNames, CreateStarts DEF CreateEndpointOnelake
<1>4. CASE CreateEndpointEventhub(s)
  BY <1>a, <1>4, OptionNames, CreateStarts DEF CreateEndpointEventhub
<1>5. CASE CreateEndpointRealtime(s)
  BY <1>a, <1>5, OptionNames, CreateStarts DEF CreateEndpointRealtime
<1>6. CASE CreateEndpointKafka(s)
  BY <1>a, <1>6, OptionNames, CreateStarts DEF CreateEndpointKafka
<1>7. CASE CreateEndpointStorage(s)
  BY <1>a, <1>7, OptionNames, CreateStarts DEF CreateEndpointStorage
<1>8. CASE CreateEndpointLocal(s)
  BY <1>a, <1>8, OptionNames, CreateStarts DEF CreateEndpointLocal
<1>9. CASE CreateEndpointEventgrid(s)
  BY <1>a, <1>9, OptionNames, CreateStarts DEF CreateEndpointEventgrid
<1>10. CASE CreateEndpointMqtt(s)
  BY <1>a, <1>10, OptionNames, CreateStarts DEF CreateEndpointMqtt
<1>11. CASE CreateEndpointOtel(s)
  BY <1>a, <1>11, OptionNames, CreateStarts DEF CreateEndpointOtel
<1>12. CASE UpdateEndpointAdx(s)
  BY <1>a, <1>12, OptionNames, UpdateStarts DEF UpdateEndpointAdx
<1>13. CASE UpdateEndpointAdls(s)
  BY <1>a, <1>13, OptionNames, UpdateStarts DEF UpdateEndpointAdls
<1>14. CASE UpdateEndpointOnelake(s)
  BY <1>a, <1>14, OptionNames, UpdateStarts DEF UpdateEndpointOnelake
<1>15. CASE UpdateEndpointEventhub(s)
  BY <1>a, <1>15, OptionNames, UpdateStarts DEF UpdateEndpointEventhub
<1>16. CASE UpdateEndpointRealtime(s)
  BY <1>a, <1>16, OptionNames, UpdateStarts DEF UpdateEndpointRealtime
<1>17. CASE UpdateEndpointKafka(s)
  BY <1>a, <1>17, OptionNames, UpdateStarts DEF UpdateEndpointKafka
<1>18. CASE UpdateEndpointStorage(s)
  BY <1>a, <1>18, OptionNames, UpdateStarts DEF UpdateEndpointStorage
<1>19. CASE UpdateEndpointLocal(s)
  BY <1>a, <1>19, OptionNames, UpdateStarts DEF UpdateEndpointLocal
<1>20. CASE UpdateEndpointEventgrid(s)
  BY <1>a, <1>20, OptionNames, UpdateStarts DEF UpdateEndpointEventgrid
<1>21. CASE UpdateEndpointMqtt(s)
  BY <1>a, <1>21, OptionNames, UpdateStarts DEF UpdateEndpointMqtt
<1>22. CASE UpdateEndpointOtel(s)
  BY <1>a, <1>22, OptionNames, UpdateStarts DEF UpdateEndpointOtel
<1>23. CASE ApplyEndpoint(s)
  BY <1>23, RunStarts DEF ApplyEndpoint, MayBe, Reads, Step
<1>24. CASE DeleteEndpoint(s)
  BY <1>24, RunStarts DEF DeleteEndpoint, MayBe, Reads, Step
<1> QED BY <1>1, <1>2, <1>3, <1>4, <1>5, <1>6, <1>7, <1>8, <1>9, <1>10, <1>11, <1>12, <1>13, <1>14, <1>15, <1>16, <1>17, <1>18, <1>19, <1>20, <1>21, <1>22, <1>23, <1>24 DEF BeginEndpoint

LEMMA BeginStarts ==
  ASSUME TypeOK, NEW s \in Session, Begin(s)
  PROVE  \E c, first : Starts(s, c, first)
<1>1. CASE CreateProfile(s)
  BY <1>1, RunStarts DEF CreateProfile, MayBe, Reads, Step
<1>2. CASE UpdateProfile(s)
  BY <1>2, RunStarts DEF UpdateProfile, MayBe, Reads, Step
<1>3. CASE DeleteProfile(s)
  BY <1>3, RunStarts DEF DeleteProfile, MayBe, Reads, Step
<1>4. CASE ApplyDataflow(s)
  BY <1>4, RunStarts DEF ApplyDataflow, MayBe, Reads, Step
<1>5. CASE DeleteDataflow(s)
  BY <1>5, RunStarts DEF DeleteDataflow, MayBe, Reads, Step
<1>6. CASE ApplyGraph(s)
  BY <1>6, RunStarts DEF ApplyGraph, MayBe, Reads, Step
<1>7. CASE DeleteGraph(s)
  BY <1>7, RunStarts DEF DeleteGraph, MayBe, Reads, Step
<1>8. CASE CreateRegistryEndpoint(s)
  BY <1>8, RunStarts DEF CreateRegistryEndpoint, MayBe, Reads, Step
<1>9. CASE UpdateRegistryEndpoint(s)
  BY <1>9, RunStarts DEF UpdateRegistryEndpoint, MayBe, Reads, Step
<1>10. CASE DeleteRegistryEndpoint(s)
  BY <1>10, RunStarts DEF DeleteRegistryEndpoint, MayBe, Reads, Step
<1>11. CASE UpdatePersist(s)
  BY <1>11, RunStarts DEF UpdatePersist, MayBe, Reads, Step
<1>12. CASE DeleteBroker(s)
  BY <1>12, RunStarts DEF DeleteBroker, MayBe, Reads, Step
<1>13. CASE ApplyListener(s)
  BY <1>13, RunStarts DEF ApplyListener, MayBe, Reads, Step
<1>14. CASE AddPort(s)
  BY <1>14, RunStarts DEF AddPort, MayBe, Reads, Step
<1>15. CASE RemovePort(s)
  BY <1>15, RunStarts DEF RemovePort, MayBe, Reads, Step
<1>16. CASE DeleteListener(s)
  BY <1>16, RunStarts DEF DeleteListener, MayBe, Reads, Step
<1>17. CASE ApplyAuthn(s)
  BY <1>17, RunStarts DEF ApplyAuthn, MayBe, Reads, Step
<1>18. CASE AddMethod(s)
  BY <1>18, RunStarts DEF AddMethod, MayBe, Reads, Step
<1>19. CASE DeleteAuthn(s)
  BY <1>19, RunStarts DEF DeleteAuthn, MayBe, Reads, Step
<1>20. CASE ApplyAuthz(s)
  BY <1>20, RunStarts DEF ApplyAuthz, MayBe, Reads, Step
<1>21. CASE DeleteAuthz(s)
  BY <1>21, RunStarts DEF DeleteAuthz, MayBe, Reads, Step
<1>22. CASE CreateSchemaRegistry(s)
  BY <1>22, RunStarts DEF CreateSchemaRegistry, MayBe, Reads, Step
<1>23. CASE DeleteSchemaRegistry(s)
  BY <1>23, RunStarts DEF DeleteSchemaRegistry, MayBe, Reads, Step
<1>24. CASE CreateSchema(s)
  BY <1>24, RunStarts DEF CreateSchema, MayBe, Reads, Step
<1>25. CASE DeleteSchema(s)
  BY <1>25, RunStarts DEF DeleteSchema, MayBe, Reads, Step
<1>26. CASE AddVersion(s)
  BY <1>26, RunStarts DEF AddVersion, MayBe, Reads, Step
<1>27. CASE RemoveVersion(s)
  BY <1>27, RunStarts DEF RemoveVersion, MayBe, Reads, Step
<1>28. CASE UpdateTemplate(s)
  BY <1>28, RunStarts DEF UpdateTemplate, MayBe, Reads, Step
<1>29. CASE DeleteTemplate(s)
  BY <1>29, RunStarts DEF DeleteTemplate, MayBe, Reads, Step
<1>30. CASE EnableSecretSync(s)
  BY <1>30, RunStarts DEF EnableSecretSync, MayBe, Reads, Step
<1>31. CASE DisableSecretSync(s)
  BY <1>31, RunStarts DEF DisableSecretSync, MayBe, Reads, Step
<1>32. CASE CreateTemplate(s)
  BY <1>32, FromWorkload DEF CreateTemplate, MayBe, Reads, Step, Starts
<1>33. CASE BeginEndpoint(s)
  BY <1>33, BeginEndpointStarts
<1> QED BY <1>1, <1>2, <1>3, <1>4, <1>5, <1>6, <1>7, <1>8, <1>9, <1>10, <1>11, <1>12, <1>13, <1>14, <1>15, <1>16, <1>17, <1>18, <1>19, <1>20, <1>21, <1>22, <1>23, <1>24, <1>25, <1>26, <1>27, <1>28, <1>29, <1>30, <1>31, <1>32, <1>33 DEF Begin, BeginTemplate, BeginDataflow,
       BeginRegistryEndpoint, BeginBroker, BeginListener, BeginRules, BeginSchema

-------------------------------------------------------------------------------
(* What each kind of step keeps                                              *)

LEMMA StartsKeeps ==
  ASSUME Inv, NEW s \in Session, NEW c, NEW first, Starts(s, c, first)
  PROVE  Inv'
<1>1. TypeOK'
  BY DEF Inv, TypeOK, Starts, Begins, At, Given, IsCommand
<1>2. Running(s)'
  BY DEF Inv, Running, TypeOK, Starts, Begins, At, Step
<1>3. \A t \in Session \ {s} : Running(t)'
  BY DEF Inv, Running, TypeOK, Starts, Begins
<1>4. WellFormed'
  BY DEF Inv, WellFormed, Starts, Begins
<1> QED BY <1>1, <1>2, <1>3, <1>4 DEF Inv

LEMMA FinishKeeps ==
  ASSUME Inv, NEW s \in Session, Finish(s), faults' \in 0 .. MaxFaults
  PROVE  Inv'
<1>1. TypeOK'
  BY DEF Inv, TypeOK, Finish, Idle
<1>2. \A t \in Session : Running(t)'
  BY DEF Inv, Running, TypeOK, Finish, Idle
<1>3. WellFormed'
  BY DEF Inv, WellFormed, Finish
<1> QED BY <1>1, <1>2, <1>3 DEF Inv

(* What a process has read is what is stored, and what it has read of its    *)
(* own resource lets it go on.                                               *)
LEMMA SawKeeps ==
  ASSUME Inv, NEW s \in Session, pc[s] # "idle", NEW found, Saw(s, found),
         NEW step \in Step, pc' = [pc EXCEPT ![s] = step], MayBe(cmd[s], step),
         \A x \in found : x.role \in Role /\ x.id \in Id /\ x.body = store[x.id],
         \A x \in found : x.role = "self" =>
            x.id = cmd[s].id /\ (x.body = None => ~Reads(cmd[s]) \/ cmd[s].op = "addItem"),
         Reads(cmd[s]) /\ step \in {"spc", "write"} =>
            \E x \in seen[s] \cup found : x.role = "self"
  PROVE  Inv'
<1>1. TypeOK'
  BY DEF Inv, TypeOK, Saw
<1>2. Running(s)'
  <2>1. /\ seen'[s] = seen[s] \cup found /\ pc'[s] = step /\ cmd'[s] = cmd[s]
        /\ store' = store
    BY DEF Saw, Inv, TypeOK
  <2>2. step # "idle"
    BY DEF Step
  <2>3. \A x \in found : x.body # None => Sound(x.id.kind, x.body)
    BY DEF Inv, WellFormed
  <2> QED BY <2>1, <2>2, <2>3 DEF Inv, Running
<1>3. \A t \in Session \ {s} : Running(t)'
  BY DEF Inv, Running, TypeOK, Saw
<1>4. WellFormed'
  BY DEF Inv, WellFormed, Saw
<1> QED BY <1>1, <1>2, <1>3, <1>4 DEF Inv

LEMMA WroteKeeps ==
  ASSUME Inv, NEW s \in Session, pc[s] # "idle", NEW id, NEW body, NEW next,
         Wrote(s, id, body, next),
         \/ id \notin Id
         \/ body = None
         \/ body \in Body(id.kind) /\ Sound(id.kind, body),
         \/ next = "idle"
         \/ next = "write" /\ MayBe(cmd[s], "write") /\ ~Reads(cmd[s])
         \/ next \in {"role", "version"} /\ MayBe(cmd[s], next)
  PROVE  Inv'
<1>1. TypeOK'
  <2>1. /\ DOMAIN store' = Id
        /\ \A r \in Id : store'[r] \in Body(r.kind) \cup {None}
    BY DEF Inv, TypeOK, Wrote
  <2>2. CASE next = "idle"
    <3>1. disturbed' \in [Session -> BOOLEAN]
      BY DEF Inv, TypeOK, Wrote
    <3> QED BY <2>1, <2>2, <3>1 DEF Inv, TypeOK, Wrote, Idle
  <2>3. CASE next # "idle"
    <3>1. disturbed' \in [Session -> BOOLEAN]
      BY DEF Inv, TypeOK, Wrote
    <3>2. next \in Step
      BY <2>3 DEF Step
    <3> QED BY <2>1, <2>3, <3>1, <3>2 DEF Inv, TypeOK, Wrote
  <2> QED BY <2>2, <2>3
<1>2. \A t \in Session : Running(t)'
  <2>1. CASE next = "idle"
    BY <2>1 DEF Inv, Running, TypeOK, Wrote, Idle
  <2>2. CASE next # "idle"
    <3>1. cmd' = cmd /\ seen' = seen /\ pc' = [pc EXCEPT ![s] = next]
      BY <2>2 DEF Wrote
    <3>2. \A t \in Session \ {s} : Running(t)'
      BY <3>1 DEF Inv, Running, TypeOK
    <3>3. Running(s)'
      BY <2>2, <3>1 DEF Inv, Running, TypeOK
    <3> QED BY <3>2, <3>3
  <2> QED BY <2>1, <2>2
<1>3. WellFormed'
  BY DEF Inv, WellFormed, Wrote, TypeOK
<1> QED BY <1>1, <1>2, <1>3 DEF Inv

-------------------------------------------------------------------------------
(* What a command sends                                                      *)

LEMMA OwnRead ==
  ASSUME Inv, NEW s \in Session, pc[s] = "write", Reads(cmd[s])
  PROVE  /\ Own(s) \in Body(cmd[s].id.kind) \cup {None}
         /\ Own(s) = None => cmd[s].op = "addItem"
         /\ Own(s) # None => Sound(cmd[s].id.kind, Own(s))
<1>1. \E x \in seen[s] : x.role = "self"
  BY DEF Inv, Running
<1> DEFINE x == CHOOSE x \in seen[s] : x.role = "self"
<1>2. x \in seen[s] /\ x.role = "self" /\ Own(s) = x.body
  BY <1>1 DEF Own
<1> HIDE DEF x
<1> QED BY <1>2 DEF Inv, Running, TypeOK

LEMMA SettingOfType == \A p : SettingOf(p) \in AuthSetting
  BY DEF SettingOf, AuthSetting

LEMMA RequiredIsParam == \A m : Required(m) \subseteq SettingParam
  BY DEF Required, SettingParam

LEMMA AllowedMethods ==
  \A type : "none" \notin Allowed(type) /\ Allowed(type) \subseteq AuthMethod
  BY DEF Allowed, AuthMethod

LEMMA AuthForType ==
  ASSUME NEW c, IsCommand(c)
  PROVE  AuthFor(c) \in AuthMethod
  BY DEF IsCommand, AuthFor, Identified, AuthMethod

LEMMA ProcessedAuthType ==
  ASSUME NEW c, IsCommand(c), NEW old \in Auth
  PROVE  ProcessedAuth(c, old) \in Auth
<1>1. SettingsGiven(c) \subseteq AuthSetting
  BY SettingOfType DEF SettingsGiven, AuthSetting
<1> QED BY <1>1, AuthForType DEF ProcessedAuth, Auth

(* A method that was there before keeps its settings, another is given what  *)
(* it requires.                                                              *)
LEMMA ProcessedAuthComplete ==
  ASSUME NEW c, IsCommand(c), NEW old \in Auth, AuthComplete(old), ~AuthRefused(c, old)
  PROVE  AuthComplete(ProcessedAuth(c, old))
<1> DEFINE m == AuthFor(c)
           new == ProcessedAuth(c, old)
<1>1. m \in Allowed(c.type) /\ m # "none" /\ new.method = m
  BY AllowedMethods DEF AuthRefused, ProcessedAuth
<1>2. CASE m = old.method
  <2>1. old.settings \subseteq new.settings
    BY <1>2 DEF ProcessedAuth
  <2> QED BY <1>1, <1>2, <2>1 DEF AuthComplete
<1>3. CASE m # old.method
  <2>1. Required(m) \subseteq c.given \cap SettingParam
    BY <1>3, RequiredIsParam DEF AuthRefused
  <2>2. {SettingOf(p) : p \in Required(m)} \subseteq SettingsGiven(c)
    BY <2>1 DEF SettingsGiven
  <2>3. CASE m = "Anonymous"
    BY <1>1, <2>3 DEF AuthComplete, Required
  <2>4. CASE m # "Anonymous"
    BY <1>1, <2>2, <2>4 DEF AuthComplete, ProcessedAuth
  <2> QED BY <2>3, <2>4
<1> QED BY <1>2, <1>3

LEMMA NoAuthComplete == NoAuth \in Auth /\ AuthComplete(NoAuth)
  BY DEF NoAuth, Auth, AuthComplete

LEMMA HostType ==
  ASSUME NEW c, IsCommand(c)
  PROVE  EndpointHost(c) \in Host
  BY DEF EndpointHost, Host, IsCommand

LEMMA TlsType ==
  ASSUME NEW c, NEW old \in {"unset", "enabled", "disabled"}
  PROVE  Tls(c, old) \in {"unset", "enabled", "disabled"}
  BY DEF Tls

LEMMA NewEndpointSound ==
  ASSUME NEW c, IsCommand(c), c.type \in EndpointType,
         c.type # "storage" => ~AuthRefused(c, NoAuth)
  PROVE  NewEndpoint(c) \in Body("endpoint") /\ Sound("endpoint", NewEndpoint(c))
<1>1. NewEndpoint(c).auth \in Auth /\ AuthComplete(NewEndpoint(c).auth)
  BY NoAuthComplete, ProcessedAuthType, ProcessedAuthComplete DEF NewEndpoint
<1>2. Family(c.type) \in {Family(t) : t \in EndpointType}
  OBVIOUS
<1>3. NewEndpoint(c) \in Body("endpoint")
  BY <1>1, <1>2, HostType, TlsType DEF NewEndpoint, Body
<1> QED BY <1>1, <1>3 DEF Sound

LEMMA UpdatedEndpointSound ==
  ASSUME NEW c, IsCommand(c), NEW old \in Body("endpoint"), Sound("endpoint", old),
         ~UpdateRefused(c, old)
  PROVE  UpdatedEndpoint(c, old) \in Body("endpoint") /\ Sound("endpoint", UpdatedEndpoint(c, old))
<1>1. CASE Family(c.type) # old.family
  BY <1>1 DEF UpdatedEndpoint
<1>2. CASE Family(c.type) = old.family
  <2> DEFINE new == UpdatedEndpoint(c, old)
  <2>1. old.auth \in Auth /\ AuthComplete(old.auth)
    BY DEF Body, Sound
  <2>2. new.auth \in Auth /\ AuthComplete(new.auth)
    BY <1>2, <2>1, ProcessedAuthType, ProcessedAuthComplete DEF UpdatedEndpoint, UpdateRefused
  <2>3. new \in Body("endpoint")
    BY <1>2, <2>2, HostType, TlsType DEF UpdatedEndpoint, Body
  <2> QED BY <2>2, <2>3 DEF Sound
<1> QED BY <1>1, <1>2

LEMMA NewRegistrySound ==
  ASSUME NEW c, IsCommand(c), ~RegistryRefused(c)
  PROVE  NewRegistry(c) \in Body("registry") /\ Sound("registry", NewRegistry(c))
<1>1. RegistryMethod(c) \in AuthMethod
  BY DEF IsCommand, RegistryMethod, AuthMethod
<1>2. NewRegistry(c).auth \in Auth
  BY <1>1, SettingOfType DEF NewRegistry, Auth
<1>3. AuthComplete(NewRegistry(c).auth)
  BY DEF NewRegistry, AuthComplete, RegistryRefused
<1> QED BY <1>2, <1>3 DEF Sound, Body, NewRegistry

LEMMA RemodedSound ==
  ASSUME NEW c, NEW old \in Persistence,
         old.items \/ old.dynamic # "absent" => old.mode = "Custom",
         ~PersistRefused(c, old)
  PROVE  LET p == BuiltPersistence(c, old)
         IN  p \in Persistence /\ (p.items \/ p.dynamic # "absent" => p.mode = "Custom")
<1>1. Remoded(c, old) \in Persistence
  <2>1. CASE Modes(c) = {}
    BY <2>1 DEF Remoded
  <2>2. CASE Modes(c) # {}
    <3>1. PICK m : m = (CHOOSE x \in Modes(c) : TRUE)
      OBVIOUS
    <3>2. m \in {"None", "All", "Custom"}
      BY <2>2, <3>1 DEF Modes
    <3> QED BY <2>2, <3>1, <3>2 DEF Remoded, Persistence
  <2> QED BY <2>1, <2>2
<1>2. Remoded(c, old).items \/ Remoded(c, old).dynamic # "absent"
        => Remoded(c, old).mode = "Custom"
  BY DEF Remoded
<1> QED BY <1>1, <1>2 DEF BuiltPersistence, PersistRefused, Persistence

LEMMA UpdatedBrokerSound ==
  ASSUME NEW c, c.item \in Component, NEW old \in Body("broker"), Sound("broker", old),
         old.persistence # None, ~PersistRefused(c, old.persistence[c.item])
  PROVE  UpdatedBroker(c, old) \in Body("broker") /\ Sound("broker", UpdatedBroker(c, old))
<1>1. old.persistence \in [Component -> Persistence]
  BY DEF Body
<1> DEFINE new == [old.persistence EXCEPT ![c.item] = BuiltPersistence(c, @)]
<1>2. LET p == BuiltPersistence(c, old.persistence[c.item])
      IN  p \in Persistence /\ (p.items \/ p.dynamic # "absent" => p.mode = "Custom")
  BY <1>1, RemodedSound DEF Sound
<1>3. /\ new \in [Component -> Persistence]
      /\ \A d \in Component : new[d].items \/ new[d].dynamic # "absent"
                                => new[d].mode = "Custom"
  BY <1>1, <1>2 DEF Sound
<1>4. UpdatedBroker(c, old) = [persistence |-> new]
  BY DEF UpdatedBroker
<1> QED BY <1>3, <1>4 DEF Body, Sound

LEMMA PortsSound ==
  ASSUME NEW c, c.item \in Port, NEW old \in Body("listener")
  PROVE  /\ WithPort(c, None) \in Body("listener") /\ Sound("listener", WithPort(c, None))
         /\ WithPort(c, old) \in Body("listener") /\ Sound("listener", WithPort(c, old))
         /\ WithoutPort(c, old) \in Body("listener")
         /\ c.item \in Ports(old) /\ ~LastPort(c, old) => Sound("listener", WithoutPort(c, old))
<1>1. PortConf(c) \in {"plain", "tls"}
  BY DEF PortConf
<1>2. old \in [Port -> {"absent", "plain", "tls"}]
  BY DEF Body
<1> DEFINE only == [p \in Port |-> IF p = c.item THEN PortConf(c) ELSE "absent"]
           added == [old EXCEPT ![c.item] = PortConf(c)]
           less == WithoutPort(c, old)
<1>3. only \in [Port -> {"absent", "plain", "tls"}] /\ c.item \in Ports(only)
  BY <1>1 DEF Ports
<1>4. added \in [Port -> {"absent", "plain", "tls"}] /\ c.item \in Ports(added)
  BY <1>1, <1>2 DEF Ports
<1>5. \A b : WithPort(c, b) = IF b = None THEN only ELSE [b EXCEPT ![c.item] = PortConf(c)]
  BY DEF WithPort
<1>6. less \in [Port -> {"absent", "plain", "tls"}]
  BY <1>2 DEF WithoutPort
<1>7. ASSUME c.item \in Ports(old), ~LastPort(c, old) PROVE Ports(less) # {}
  <2>1. PICK p \in Ports(old) : p # c.item
    BY <1>7 DEF LastPort
  <2>2. less[p] = old[p]
    BY <1>2, <2>1 DEF WithoutPort, Ports
  <2> QED BY <2>1, <2>2 DEF Ports
<1> HIDE DEF only, added, less
<1> QED BY <1>3, <1>4, <1>5, <1>6, <1>7 DEF Body, Sound, added, less

LEMMA MethodsType ==
  ASSUME NEW c, c.item \in Method
  PROVE  /\ 0 < MaxCopies =>
              [m \in Method |-> IF m = c.item THEN 1 ELSE 0] \in Body("authn")
         /\ \A old \in Body("authn") : old[c.item] < MaxCopies =>
              [old EXCEPT ![c.item] = @ + 1] \in Body("authn")
<1>1. ASSUME 0 < MaxCopies
      PROVE  [m \in Method |-> IF m = c.item THEN 1 ELSE 0] \in [Method -> 0 .. MaxCopies]
  BY <1>1, BoundAssumption
<1>2. ASSUME NEW old \in [Method -> 0 .. MaxCopies], old[c.item] < MaxCopies
      PROVE  [old EXCEPT ![c.item] = @ + 1] \in [Method -> 0 .. MaxCopies]
  <2>1. old[c.item] + 1 \in 0 .. MaxCopies
    BY <1>2, BoundAssumption
  <2> QED BY <1>2, <2>1
<1> QED BY <1>1, <1>2 DEF Body

LEMMA TagType ==
  ASSUME NEW r \in DOMAIN Metadata
  PROVE  TagSettings(Metadata[r]) \in {Metadata[q].tag : q \in DOMAIN Metadata}
           \cup {Metadata[q].version : q \in DOMAIN Metadata} \cup {<<0, 0>>, None}
  BY DEF TagSettings

LEMMA NewTemplateSound ==
  ASSUME NEW given, NEW ref \in DOMAIN Metadata, NEW secrets \in (SUBSET SecretEntry) \cup {None},
         ~CreateRefused(given, ref, secrets)
  PROVE  LET new == BuildTemplateProperties(given, ref, secrets)
         IN  new \in Body("template") /\ Sound("template", new)
<1> DEFINE new == BuildTemplateProperties(given, ref, secrets)
<1>1. new.secrets \subseteq SecretEntry /\ ParsesSecrets(new.secrets)
  <2>1. new.secrets = IF secrets = None THEN {} ELSE secrets
    BY DEF BuildTemplateProperties
  <2>2. ParsesSecrets({})
    BY DEF ParsesSecrets
  <2>3. secrets # None => ParsesSecrets(secrets)
    BY DEF CreateRefused
  <2> HIDE DEF new
  <2>4. CASE secrets = None
    BY <2>1, <2>2, <2>4
  <2>5. CASE secrets # None
    BY <2>1, <2>3, <2>5
  <2> QED BY <2>4, <2>5
<1>2. new \in Template
  BY <1>1, TagType DEF BuildTemplateProperties, Template
<1>3. TemplateSound(new)
  BY <1>1 DEF TemplateSound, BuildTemplateProperties, CreateRefused
<1> QED BY <1>2, <1>3 DEF Body, Sound

LEMMA UpdatedTemplateSound ==
  ASSUME NEW given, NEW ref \in DOMAIN Metadata \cup {None},
         NEW secrets \in (SUBSET SecretEntry) \cup {None}, NEW old \in Body("template"),
         Sound("template", old), ~UpdateTemplateRefused(given, ref, secrets, old)
  PROVE  LET new == UpdatedTemplate(given, ref, secrets, old)
         IN  new \in Body("template") /\ Sound("template", new)
<1> DEFINE new == UpdatedTemplate(given, ref, secrets, old)
<1>1. old \in Template
  BY DEF Body
<1>2. new.secrets \subseteq SecretEntry /\ ParsesSecrets(new.secrets)
  <2>1. new.secrets = IF secrets = None THEN old.secrets ELSE secrets
    BY DEF UpdatedTemplate
  <2>2. ParsesSecrets(old.secrets) /\ old.secrets \subseteq SecretEntry
    BY <1>1 DEF Sound, TemplateSound, Template
  <2>3. secrets # None => ParsesSecrets(secrets)
    BY DEF UpdateTemplateRefused
  <2> HIDE DEF new
  <2>4. CASE secrets = None
    BY <2>1, <2>2, <2>4
  <2>5. CASE secrets # None
    BY <2>1, <2>3, <2>5
  <2> QED BY <2>4, <2>5
<1>3. new.settings \subseteq TemplateSetting
  BY <1>1 DEF UpdatedTemplate, Template
<1>4. new.tag \in {Metadata[q].tag : q \in DOMAIN Metadata}
        \cup {Metadata[q].version : q \in DOMAIN Metadata} \cup {<<0, 0>>, None}
  <2>1. CASE ref = None \/ Metadata[ref].image = "neither"
    BY <1>1, <2>1 DEF UpdatedTemplate, Template
  <2>2. CASE ref # None /\ Metadata[ref].image # "neither"
    BY <2>2, TagType DEF UpdatedTemplate
  <2> QED BY <2>1, <2>2
<1>5. new.bucketized \in BOOLEAN /\ new.sized \in BOOLEAN
  BY <1>1 DEF UpdatedTemplate, Template
<1>6. new \in Template
  BY <1>1, <1>2, <1>3, <1>4, <1>5 DEF UpdatedTemplate, Template
<1>7. TemplateSound(new)
  BY <1>1, <1>2 DEF TemplateSound, UpdatedTemplate, UpdateTemplateRefused, Sound, Template
<1> QED BY <1>6, <1>7 DEF Body, Sound

(* What the service is sent by a command that is not refused.                *)
LEMMA SentSound ==
  ASSUME Inv, NEW s \in Session, pc[s] = "write", ~Refused(s), ~Removes(s),
         Copies(s) < MaxCopies
  PROVE  /\ Sent(s) \in Body(cmd[s].id.kind)
         /\ Sound(cmd[s].id.kind, Sent(s))
<1> DEFINE c == cmd[s]
           k == c.id.kind
           old == Own(s)
<1>1. Given(c) /\ MayBe(c, "write") /\ IsCommand(c) /\ c.op # "delete"
  BY DEF Inv, Running, Removes, Given
<1>2. Reads(c) => /\ old \in Body(k) \cup {None}
                  /\ old = None => c.op = "addItem"
                  /\ old # None => Sound(k, old)
  BY OwnRead
<1>3. CASE c.op = "apply"
  <2>1. c.body \in Body(k)
    BY <1>1, <1>3 DEF MayBe, IsCommand, BodyFor
  <2> QED BY <1>1, <1>3, <2>1 DEF Given, Sent
<1>4. CASE k = "profile"
  <2>1. c.op \in {"create", "update"}
    BY <1>1, <1>4 DEF MayBe
  <2>2. NewProfile(c) \in Body("profile")
    BY DEF NewProfile, Instances, Level, Body
  <2>3. c.op = "update" => UpdatedProfile(c, old) \in Body("profile")
    BY <1>2, <1>4 DEF UpdatedProfile, Instances, Level, Body, Reads
  <2> QED BY <1>4, <2>1, <2>2, <2>3 DEF Sent, Sound
<1>5. CASE k = "endpoint" /\ c.op # "apply"
  <2>1. c.op \in {"create", "update"} /\ c.type \in EndpointType
    BY <1>1, <1>5 DEF MayBe, IsCommand
  <2>2. CASE c.op = "create"
    BY <1>1, <1>5, <2>1, <2>2, NewEndpointSound DEF Sent, Refused
  <2>3. CASE c.op = "update"
    BY <1>1, <1>2, <1>5, <2>3, UpdatedEndpointSound DEF Sent, Refused, Reads
  <2> QED BY <2>1, <2>2, <2>3
<1>6. CASE k = "registry"
  <2>1. c.op \in {"create", "update"}
    BY <1>1, <1>6 DEF MayBe
  <2>2. CASE c.op = "create"
    BY <1>1, <1>6, <2>2, NewRegistrySound DEF Sent, Refused
  <2>3. CASE c.op = "update"
    BY <1>1, <1>2, <1>6, <2>3, NewRegistrySound DEF Sent, Refused, Reads, UpdatedRegistry
  <2> QED BY <2>1, <2>2, <2>3
<1>7. CASE k = "broker"
  <2>1. c.op = "update" /\ c.item \in Component
    BY <1>1, <1>7 DEF MayBe, IsCommand, ItemFor
  <2> QED BY <1>2, <1>7, <2>1, UpdatedBrokerSound DEF Sent, Refused, Reads
<1>8. CASE k = "listener" /\ c.op # "apply"
  <2>1. c.op \in {"addItem", "removeItem"} /\ c.item \in Port
    BY <1>1, <1>8 DEF MayBe, IsCommand, ItemFor
  <2>2. CASE c.op = "addItem"
    <3>1. Sent(s) = WithPort(c, old)
      BY <1>8, <2>2 DEF Sent
    <3> HIDE DEF old
    <3>2. CASE old = None
      <4>1. WithPort(c, None) \in Body("listener") /\ Sound("listener", WithPort(c, None))
        <5>1. [p \in Port |-> "plain"] \in Body("listener")
          BY DEF Body
        <5> QED BY <2>1, <5>1, PortsSound
      <4> QED BY <1>8, <3>1, <3>2, <4>1
    <3>3. CASE old # None
      BY <1>2, <1>8, <2>1, <2>2, <3>1, <3>3, PortsSound DEF Reads
    <3> QED BY <3>2, <3>3
  <2>3. CASE c.op = "removeItem"
    <3>1. Sent(s) = WithoutPort(c, old)
      BY <1>8, <2>3 DEF Sent
    <3>2. c.item \in Ports(old) /\ ~LastPort(c, old) /\ old \in Body("listener")
      BY <1>2, <1>8, <2>3 DEF Refused, Removes, Reads
    <3> QED BY <1>8, <2>1, <3>1, <3>2, PortsSound
  <2> QED BY <2>1, <2>2, <2>3
<1>9. CASE k = "authn" /\ c.op # "apply"
  <2>1. c.op = "addItem" /\ c.item \in Method
    BY <1>1, <1>9 DEF MayBe, IsCommand, ItemFor
  <2>2. Sent(s) = WithMethod(c, old)
    BY <1>9, <2>1 DEF Sent
  <2>3. Copies(s) = IF old # None THEN old[c.item] ELSE 0
    BY <1>9, <2>1 DEF Copies
  <2>4. CASE old # None
    <3>1. old \in Body("authn") /\ old[c.item] < MaxCopies
      BY <1>2, <1>9, <2>1, <2>3, <2>4 DEF Reads
    <3>2. Sent(s) = [old EXCEPT ![c.item] = @ + 1]
      BY <2>2, <2>4 DEF WithMethod
    <3> HIDE DEF old
    <3>3. [old EXCEPT ![c.item] = @ + 1] \in Body("authn")
      BY <2>1, <3>1, MethodsType
    <3> QED BY <1>9, <3>2, <3>3 DEF Sound
  <2>5. CASE old = None
    <3>1. Sent(s) = [m \in Method |-> IF m = c.item THEN 1 ELSE 0] /\ 0 < MaxCopies
      BY <2>2, <2>3, <2>5 DEF WithMethod
    <3>2. [m \in Method |-> IF m = c.item THEN 1 ELSE 0] \in Body("authn")
      BY <2>1, <3>1, MethodsType
    <3> QED BY <1>9, <3>1, <3>2 DEF Sound
  <2> QED BY <2>4, <2>5
<1>10. CASE k = "template"
  <2>1. c.op \in {"create", "update"} /\ c.body \in (SUBSET SecretEntry) \cup {None}
    BY <1>1, <1>10 DEF MayBe, IsCommand, BodyFor
  <2>2. CASE c.op = "create"
    <3>1. c.item \in DOMAIN Metadata
      BY <1>1, <1>10, <2>2 DEF IsCommand, ItemFor
    <3> QED BY <1>10, <2>1, <2>2, <3>1, NewTemplateSound DEF Sent, Refused
  <2>3. CASE c.op = "update"
    <3>1. c.item \in DOMAIN Metadata \cup {None}
      BY <1>1, <1>10, <2>3 DEF IsCommand, ItemFor
    <3> QED BY <1>2, <1>10, <2>1, <2>3, <3>1, UpdatedTemplateSound DEF Sent, Refused, Reads
  <2> QED BY <2>1, <2>2, <2>3
<1>11. CASE k \in {"schemaRegistry", "secretSync"}
  <2>1. c.op = "create"
    BY <1>1, <1>11 DEF MayBe
  <2> QED BY <1>11, <2>1 DEF Sent, Body, Sound
<1>12. CASE k = "schema"
  <2>1. c.op = "create"
    BY <1>1, <1>12 DEF MayBe
  <2>2. store[c.id] \in Body("schema") \cup {None}
    BY <1>1, <1>12 DEF Inv, TypeOK, IsCommand
  <2> QED BY <1>12, <2>1, <2>2 DEF Sent, Body, Sound
<1> QED BY <1>1, <1>3, <1>4, <1>5, <1>6, <1>7, <1>8, <1>9, <1>10, <1>11, <1>12 DEF MayBe, IsCommand, Op

-------------------------------------------------------------------------------
(* Every step keeps types, and what is stored in order                       *)

LEMMA GetKeeps ==
  ASSUME Inv, NEW s \in Session, Get(s)
  PROVE  Inv'
<1> DEFINE c == cmd[s]
           step == IF BringsSecrets(c) THEN "spc" ELSE "write"
           found == {[role |-> "self", id |-> c.id, body |-> store[c.id]]}
<1>1. Given(c) /\ MayBe(c, "get") /\ pc[s] # "idle" /\ c.id \in Id
  BY DEF Inv, Running, Get, At, Given, IsCommand
<1>2. Saw(s, found) /\ pc' = [pc EXCEPT ![s] = step]
  BY DEF Get
<1>3. step \in Step /\ MayBe(c, step)
  BY <1>1 DEF MayBe, BringsSecrets, Step
<1>4. store[c.id] # None \/ c.op = "addItem"
  BY DEF Get
<1> HIDE DEF step
<1>5. \A x \in found : /\ x.role \in Role /\ x.id \in Id /\ x.body = store[x.id]
                       /\ x.id = c.id /\ (x.body = None => c.op = "addItem")
                       /\ x.role = "self"
  BY <1>1, <1>4 DEF Role
<1>6. \E x \in seen[s] \cup found : x.role = "self"
  <2>1. [role |-> "self", id |-> c.id, body |-> store[c.id]] \in found
    OBVIOUS
  <2> HIDE DEF found
  <2> QED BY <2>1, <1>5
<1> HIDE DEF found
<1> QED BY <1>1, <1>2, <1>3, <1>5, <1>6, SawKeeps

LEMMA SecretSyncKeeps ==
  ASSUME Inv, NEW s \in Session, CheckSecretSyncEnabled(s)
  PROVE  Inv'
<1> DEFINE found == {[role |-> "spc", id |-> SecretSyncId, body |-> store[SecretSyncId]]}
<1>1. SecretSyncId \in Id
  <2>1. cmd[s].id \in Id /\ cmd[s].id.kind = "template"
    BY DEF CheckSecretSyncEnabled, At, Inv, Running, Given, IsCommand, MayBe
  <2>2. \E id \in Id : id.kind = "secretSync"
    BY <2>1, IdAssumption
  <2> QED BY <2>2 DEF SecretSyncId
<1>2. /\ pc[s] = "spc" /\ Saw(s, found) /\ pc' = [pc EXCEPT ![s] = "write"]
      /\ MayBe(cmd[s], "spc") /\ "write" \in Step
  BY DEF CheckSecretSyncEnabled, At, Inv, Running, Step
<1>3. MayBe(cmd[s], "write")
  BY <1>2 DEF MayBe
<1>4. \A x \in found : x.role = "spc" /\ x.role \in Role /\ x.id \in Id /\ x.body = store[x.id]
  BY <1>1 DEF Role
<1> HIDE DEF found
<1>5. Reads(cmd[s]) => \E x \in seen[s] : x.role = "self"
  BY <1>2 DEF Inv, Running
<1> QED BY <1>2, <1>3, <1>4, <1>5, SawKeeps

LEMMA ReadRefKeeps ==
  ASSUME Inv, NEW s \in Session, ReadRef(s)
  PROVE  Inv'
<1>1. PICK ref \in Pending(s) :
         Saw(s, {[role |-> ref[1], id |-> ref[2], body |-> store[ref[2]]]})
  BY DEF ReadRef
<1>2. ref[1] \in Roles /\ ref[2] \in Id
  BY DEF Pending
<1> DEFINE found == {[role |-> ref[1], id |-> ref[2], body |-> store[ref[2]]]}
<1>3. /\ pc[s] = "read" /\ pc' = [pc EXCEPT ![s] = "read"] /\ MayBe(cmd[s], "read")
      /\ "read" \in Step
  BY DEF ReadRef, At, Inv, Running, TypeOK, Step
<1>4. \A x \in found : x.role # "self" /\ x.role \in Role /\ x.id \in Id
                         /\ x.body = store[x.id]
  BY <1>2 DEF Role, Roles
<1>5. Saw(s, found)
  BY <1>1
<1> HIDE DEF found
<1> QED BY <1>3, <1>4, <1>5, SawKeeps

LEMMA ListFlowsKeeps ==
  ASSUME Inv, NEW s \in Session, ListFlows(s)
  PROVE  Inv'
<1> DEFINE c == cmd[s]
           children == {[role |-> "child", id |-> f, body |-> store[f]] :
                           f \in {r \in Id : r.kind = "flow" /\ Parent(r) = c.id
                                               /\ store[r] # None}}
           found == {[role |-> "self", id |-> c.id, body |-> store[c.id]]} \cup children
<1>1. /\ pc[s] = "list" /\ Saw(s, found) /\ pc' = [pc EXCEPT ![s] = "write"]
      /\ MayBe(c, "list") /\ c.id \in Id /\ "write" \in Step
  BY DEF ListFlows, At, Inv, Running, Given, IsCommand, Step
<1>2. MayBe(c, "write") /\ ~Reads(c)
  BY <1>1 DEF MayBe, Reads
<1>3. \A x \in found : /\ x.role \in Role /\ x.id \in Id /\ x.body = store[x.id]
                       /\ x.role = "self" => x.id = c.id
  BY <1>1 DEF Role
<1> HIDE DEF found
<1> QED BY <1>1, <1>2, <1>3, SawKeeps

LEMMA PutKeeps ==
  ASSUME Inv, NEW s \in Session, Put(s)
  PROVE  Inv'
<1>1. /\ pc[s] = "write" /\ MayBe(cmd[s], "write")
      /\ Wrote(s, cmd[s].id, Sent(s), Then(cmd[s]))
  BY DEF Put, At, Inv, Running
<1>2. Sent(s) \in Body(cmd[s].id.kind) /\ Sound(cmd[s].id.kind, Sent(s))
  BY SentSound DEF Put, At
<1>3. \/ Then(cmd[s]) = "idle"
      \/ Then(cmd[s]) = "role" /\ MayBe(cmd[s], "role")
      \/ Then(cmd[s]) = "version" /\ MayBe(cmd[s], "version")
  BY DEF Then, MayBe
<1> QED BY <1>1, <1>2, <1>3, WroteKeeps

LEMMA OtherWritesKeep ==
  ASSUME Inv, NEW s \in Session,
         \/ ApplyChecked(s) \/ Drop(s) \/ EnsureContainer(s) \/ ApplyRoleAssignment(s)
         \/ PutVersion(s) \/ DropVersion(s)
  PROVE  Inv'
<1> DEFINE c == cmd[s]
<1>1. pc[s] # "idle" => Given(c) /\ IsCommand(c) /\ MayBe(c, pc[s])
  BY DEF Inv, Running, Given
<1>2. CASE ApplyChecked(s)
  <2>1. pc[s] = "read" /\ Wrote(s, c.id, c.body, "idle") /\ c.op = "apply"
          /\ c.id.kind \in {"flow", "graph"}
    BY <1>1, <1>2 DEF ApplyChecked, At, MayBe
  <2>2. c.body \in Body(c.id.kind) /\ Sound(c.id.kind, c.body)
    BY <1>1, <2>1 DEF Given, IsCommand, BodyFor
  <2> QED BY <2>1, <2>2, WroteKeeps
<1>3. CASE Drop(s)
  <2>1. pc[s] # "idle" /\ Wrote(s, c.id, None, "idle")
    BY <1>3 DEF Drop, At
  <2> QED BY <2>1, WroteKeeps
<1>4. CASE EnsureContainer(s)
  <2>1. /\ pc[s] = "container" /\ Wrote(s, ContainerId(c.id), "there", "write")
        /\ MayBe(c, "container")
    BY <1>1, <1>4 DEF EnsureContainer, At
  <2>2. MayBe(c, "write") /\ ~Reads(c)
    BY <2>1 DEF MayBe, Reads
  <2>3. LET k == ContainerId(c.id).kind IN "there" \in Body(k) /\ Sound(k, "there")
    BY DEF ContainerId, Body, Sound
  <2> QED BY <2>1, <2>2, <2>3, WroteKeeps
<1>5. CASE ApplyRoleAssignment(s)
  <2>1. pc[s] = "role" /\ Wrote(s, RoleId(c.id), "there", "idle")
    BY <1>5 DEF ApplyRoleAssignment, At
  <2>2. LET k == RoleId(c.id).kind IN "there" \in Body(k) /\ Sound(k, "there")
    BY DEF RoleId, Body, Sound
  <2> QED BY <2>1, <2>2, WroteKeeps
<1>6. CASE PutVersion(s) \/ DropVersion(s)
  <2>1. pc[s] = "version" /\ c.id.kind = "schema" /\ c.op # "delete" /\ c.id \in Id
    BY <1>1, <1>6 DEF PutVersion, DropVersion, At, MayBe, IsCommand
  <2>2. store[c.id] \in SUBSET Version /\ c.item \in Version
    BY <1>1, <1>6, <2>1 DEF PutVersion, DropVersion, Inv, TypeOK, Body, IsCommand, ItemFor
  <2>3. \A b \in SUBSET Version : b \in Body(c.id.kind) /\ Sound(c.id.kind, b)
    BY <2>1 DEF Body, Sound
  <2>4. CASE PutVersion(s)
    <3>1. Wrote(s, c.id, store[c.id] \cup {c.item}, "idle")
      BY <2>4 DEF PutVersion
    <3>2. store[c.id] \cup {c.item} \in SUBSET Version
      BY <2>2
    <3> QED BY <2>1, <2>3, <3>1, <3>2, WroteKeeps
  <2>5. CASE DropVersion(s)
    <3>1. Wrote(s, c.id, store[c.id] \ {c.item}, "idle")
      BY <2>5 DEF DropVersion
    <3>2. store[c.id] \ {c.item} \in SUBSET Version
      BY <2>2
    <3> QED BY <2>1, <2>3, <3>1, <3>2, WroteKeeps
  <2> QED BY <1>6, <2>4, <2>5
<1> QED BY <1>2, <1>3, <1>4, <1>5, <1>6

LEMMA InvInit == Init => Inv
<1> SUFFICES ASSUME Init PROVE Inv
  OBVIOUS
<1>1. TypeOK
  BY WorkloadAssumption, BoundAssumption DEF Init, TypeOK
<1>2. \A s \in Session : Running(s)
  BY DEF Init, Running
<1>3. WellFormed
  BY SoundAssumption DEF Init, WellFormed
<1> QED BY <1>1, <1>2, <1>3 DEF Inv

LEMMA InvStep == Inv /\ [Next]_vars => Inv'
<1> SUFFICES ASSUME Inv, [Next]_vars PROVE Inv'
  OBVIOUS
<1>1. ASSUME NEW s \in Session, Begin(s) PROVE Inv'
  BY <1>1, BeginStarts, StartsKeeps DEF Inv
<1>2. ASSUME NEW s \in Session, Continue(s) PROVE Inv'
  <2>1. CASE Get(s)
    BY <2>1, GetKeeps
  <2>2. CASE CheckSecretSyncEnabled(s)
    BY <2>2, SecretSyncKeeps
  <2>3. CASE ReadRef(s)
    BY <2>3, ReadRefKeeps
  <2>4. CASE ListFlows(s)
    BY <2>4, ListFlowsKeeps
  <2>5. CASE Put(s)
    BY <2>5, PutKeeps
  <2>6. CASE \/ ApplyChecked(s) \/ Drop(s) \/ EnsureContainer(s) \/ ApplyRoleAssignment(s)
             \/ PutVersion(s) \/ DropVersion(s)
    BY <2>6, OtherWritesKeep
  <2>7. CASE Refuse(s)
    BY <2>7, FinishKeeps DEF Refuse, Inv, TypeOK
  <2> QED BY <1>2, <2>1, <2>2, <2>3, <2>4, <2>5, <2>6, <2>7 DEF Continue
<1>3. ASSUME NEW s \in Session, Fail(s) PROVE Inv'
  <2>1. faults' \in 0 .. MaxFaults
    BY <1>3, BoundAssumption DEF Fail, Inv, TypeOK
  <2> QED BY <1>3, <2>1, FinishKeeps DEF Fail
<1>4. CASE UNCHANGED vars
  BY <1>4 DEF vars, Inv, TypeOK, Running, WellFormed
<1> QED BY <1>1, <1>2, <1>3, <1>4 DEF Next

LEMMA Invariance == Spec => []Inv
  BY InvInit, InvStep, PTL DEF Spec

(* Every reachable state of the commands on single resources is well typed:  *)
(* what a command sends is a resource of the kind it is about.               *)
THEOREM ResourcesTypeCorrect == Spec => []TypeOK
<1>1. Inv => TypeOK
  BY DEF Inv
<1> QED BY <1>1, Invariance, PTL

(* What is stored is in order by itself, whatever options the commands are   *)
(* given, wherever they fail and however many run side by side, as long as   *)
(* what was there and what files bring is.                                   *)
THEOREM StoredIsWellFormed == Spec => []WellFormed
<1>1. Inv => WellFormed
  BY DEF Inv
<1> QED BY <1>1, Invariance, PTL

-------------------------------------------------------------------------------
(* What a process knows is what is stored, unless another has overtaken it   *)

(* What its reads have shown a process, whatever is stored by now.           *)
Learned(s) ==
  LET c == cmd[s]
  IN  /\ c.id.kind \in {"schemaRegistry", "schema"} => seen[s] = {}
      /\ pc[s] = "read" => \A x \in seen[s] : /\ x.role \in Roles /\ x.body # None
                                              /\ Suits(c.id, c.body, x.role, x.body)
      /\ pc[s] = "write" /\ c.op = "delete" /\ c.id.kind = "profile" =>
            \E x \in seen[s] : x.id = c.id
      /\ pc[s] = "write" /\ BringsSecrets(c) =>
            \E x \in seen[s] : x.id = SecretSyncId /\ x.body # None

(* What still holds of it.                                                   *)
Current(s) ==
  /\ \A x \in seen[s] : x.body = store[x.id]
  /\ pc[s] = "write" /\ cmd[s].op = "delete" /\ cmd[s].id.kind = "profile" =>
        \A f \in Id : f.kind = "flow" /\ Parent(f) = cmd[s].id /\ store[f] # None
                        => \E x \in seen[s] : x.id = f

Abreast ==
  /\ Inv
  /\ \A s \in Session : pc[s] # "idle" => Learned(s) /\ (disturbed[s] \/ Current(s))

LEMMA ParentKind ==
  \A id : Parent(id) = None \/ Parent(id).kind \in {"profile", "broker", "schemaRegistry"}
  BY DEF Parent

(* A write either disturbs a process or leaves what it knows as it is.       *)
LEMMA OvertakenOrCurrent ==
  ASSUME Abreast, NEW s \in Session, NEW t \in Session \ {s}, pc[t] # "idle",
         NEW id, NEW body, NEW next, Wrote(s, id, body, next),
         id.kind = "flow" => id \in Id
  PROVE  /\ pc'[t] # "idle"
         /\ Learned(t)'
         /\ disturbed'[t] \/ Current(t)'
<1> DEFINE touched == {id} \cup IF id.kind = "flow" THEN {Parent(id)}
                                ELSE {r \in Id : body = None /\ Parent(r) = id}
<1>1. pc'[t] = pc[t] /\ cmd'[t] = cmd[t] /\ seen'[t] = seen[t]
  <2>1. CASE next = "idle"
    BY <2>1 DEF Wrote, Idle, Abreast, Inv, TypeOK
  <2>2. CASE next # "idle"
    BY <2>2 DEF Wrote, Abreast, Inv, TypeOK
  <2> QED BY <2>1, <2>2
<1>2. Learned(t)'
  BY <1>1 DEF Abreast, Learned
<1>3. disturbed'[t] = (disturbed[t] \/ \E x \in seen[t] : x.id \in touched)
  BY DEF Wrote
<1>4. ASSUME Current(t), \A x \in seen[t] : x.id \notin touched
      PROVE  Current(t)'
  <2>1. \A r \in Id : store'[r] = IF r = id THEN body
                                  ELSE IF body = None /\ Parent(r) = id THEN None
                                  ELSE store[r]
    BY DEF Wrote
  <2>2. \A x \in seen[t] : x.id \in Id
    BY DEF Abreast, Inv, TypeOK
  <2>3. \A r \in Id : r \notin touched => store'[r] = store[r]
    <3>1. ASSUME NEW r \in Id, id.kind = "flow" PROVE Parent(r) # id
      BY <3>1, ParentKind, NoneAssumption
    <3> QED BY <2>1, <3>1
  <2>4. \A x \in seen[t] : x.body = store'[x.id]
    BY <1>4, <2>2, <2>3 DEF Current
  <2>5. ASSUME pc[t] = "write", cmd[t].op = "delete", cmd[t].id.kind = "profile",
               NEW f \in Id, f.kind = "flow", Parent(f) = cmd[t].id, store'[f] # None
        PROVE  \E x \in seen[t] : x.id = f
    <3>1. CASE f = id
      <4>1. Parent(f) \in touched
        BY <2>5, <3>1
      <4>2. \E x \in seen[t] : x.id = cmd[t].id
        BY <2>5 DEF Abreast, Learned
      <4> QED BY <1>4, <2>5, <4>1, <4>2
    <3>2. CASE f # id
      <4>1. store[f] # None
        BY <2>1, <2>5, <3>2
      <4> QED BY <1>4, <2>5, <4>1 DEF Current
    <3> QED BY <3>1, <3>2
  <2> HIDE DEF touched
  <2> QED BY <1>1, <2>4, <2>5 DEF Current
<1>5. disturbed[t] \/ Current(t)
  BY DEF Abreast
<1> HIDE DEF touched
<1> QED BY <1>1, <1>2, <1>3, <1>4, <1>5 DEF Abreast, Inv, TypeOK

(* Behind a write that does not end its command there is nothing to know.    *)
LEMMA WroteAbreast ==
  ASSUME Abreast, NEW s \in Session, pc[s] # "idle", NEW id, NEW body, NEW next,
         Wrote(s, id, body, next), Inv', id.kind = "flow" => id \in Id,
         \/ next = "idle"
         \/ next \in {"write", "role", "version"} /\ cmd[s].op = "create"
              /\ cmd[s].id.kind \in {"schemaRegistry", "schema"}
  PROVE  Abreast'
<1>1. \A t \in Session \ {s} : pc'[t] # "idle" => pc[t] # "idle"
  BY DEF Wrote, Idle, Abreast, Inv, TypeOK
<1>2. ASSUME NEW t \in Session \ {s}, pc'[t] # "idle"
      PROVE  Learned(t)' /\ (disturbed'[t] \/ Current(t)')
  BY <1>1, <1>2, OvertakenOrCurrent
<1>3. CASE next = "idle"
  <2>1. pc'[s] = "idle"
    BY <1>3 DEF Wrote, Idle, Abreast, Inv, TypeOK
  <2> QED BY <1>2, <2>1 DEF Abreast
<1>4. CASE next # "idle"
  <2>1. /\ pc'[s] = next /\ cmd'[s] = cmd[s] /\ seen'[s] = seen[s]
        /\ cmd[s].op = "create" /\ cmd[s].id.kind \in {"schemaRegistry", "schema"}
        /\ next # "read"
    BY <1>4 DEF Wrote, Abreast, Inv, TypeOK
  <2>2. seen[s] = {}
    BY <2>1 DEF Abreast, Learned
  <2>3. Learned(s)'
    BY <2>1, <2>2 DEF Learned, BringsSecrets
  <2>4. Current(s)'
    BY <2>1, <2>2 DEF Current
  <2> QED BY <1>2, <2>3, <2>4 DEF Abreast
<1> QED BY <1>3, <1>4

LEMMA SawAbreast ==
  ASSUME Abreast, NEW s \in Session, pc[s] # "idle", NEW found, Saw(s, found), Inv',
         NEW step, pc' = [pc EXCEPT ![s] = step],
         \A x \in found : x.body = store[x.id],
         Learned(s)',
         ~(cmd[s].op = "delete" /\ cmd[s].id.kind = "profile")
  PROVE  Abreast'
<1>1. \A t \in Session \ {s} : /\ pc'[t] = pc[t] /\ cmd'[t] = cmd[t] /\ seen'[t] = seen[t]
                               /\ store' = store /\ disturbed' = disturbed
  BY DEF Saw, Abreast, Inv, TypeOK
<1>2. \A t \in Session \ {s} : pc'[t] # "idle" => Learned(t)' /\ (disturbed'[t] \/ Current(t)')
  BY <1>1 DEF Abreast, Learned, Current
<1>3. /\ seen'[s] = seen[s] \cup found /\ cmd'[s] = cmd[s] /\ store' = store
      /\ disturbed' = disturbed
  BY DEF Saw, Abreast, Inv, TypeOK
<1>4. disturbed'[s] \/ Current(s)'
  BY <1>3 DEF Abreast, Current
<1> QED BY <1>2, <1>4 DEF Abreast

LEMMA StartsAbreast ==
  ASSUME Abreast, NEW s \in Session, NEW c, NEW first, Starts(s, c, first), Inv'
  PROVE  Abreast'
<1>1. \A t \in Session \ {s} : /\ pc'[t] = pc[t] /\ cmd'[t] = cmd[t] /\ seen'[t] = seen[t]
                               /\ store' = store /\ disturbed' = disturbed
  BY DEF Starts, Begins, Abreast, Inv, TypeOK
<1>2. \A t \in Session \ {s} : pc'[t] # "idle" => Learned(t)' /\ (disturbed'[t] \/ Current(t)')
  BY <1>1 DEF Abreast, Learned, Current
<1>3. /\ pc'[s] = first /\ cmd'[s] = c /\ seen'[s] = {}
      /\ BringsSecrets(c) => first # "write"
      /\ c.op = "delete" /\ c.id.kind = "profile" => first # "write"
  BY DEF Starts, Begins, At, Abreast, Inv, TypeOK, Running
<1>4. Learned(s)' /\ Current(s)'
  BY <1>3 DEF Learned, Current
<1> QED BY <1>2, <1>4 DEF Abreast

LEMMA FinishAbreast ==
  ASSUME Abreast, NEW s \in Session, Finish(s), Inv'
  PROVE  Abreast'
<1>1. \A t \in Session \ {s} :
         /\ pc'[t] = pc[t] /\ cmd'[t] = cmd[t] /\ seen'[t] = seen[t]
         /\ store' = store /\ disturbed'[t] = disturbed[t]
  BY DEF Finish, Idle, Abreast, Inv, TypeOK
<1>2. \A t \in Session \ {s} : pc'[t] # "idle" => Learned(t)' /\ (disturbed'[t] \/ Current(t)')
  BY <1>1 DEF Abreast, Learned, Current
<1>3. pc'[s] = "idle"
  BY DEF Finish, Idle, Abreast, Inv, TypeOK
<1> QED BY <1>2, <1>3 DEF Abreast

LEMMA GetAbreast ==
  ASSUME Abreast, NEW s \in Session, Get(s), Inv'
  PROVE  Abreast'
<1> DEFINE c == cmd[s]
           step == IF BringsSecrets(c) THEN "spc" ELSE "write"
           found == {[role |-> "self", id |-> c.id, body |-> store[c.id]]}
<1>1. pc[s] = "get" /\ MayBe(c, "get") /\ Saw(s, found) /\ pc' = [pc EXCEPT ![s] = step]
  BY DEF Get, At, Abreast, Inv, Running
<1>2. c.id.kind \notin {"schemaRegistry", "schema"} /\ ~(c.op = "delete" /\ c.id.kind = "profile")
  BY <1>1 DEF MayBe
<1>3. pc'[s] = step /\ cmd'[s] = c
  BY <1>1 DEF Abreast, Inv, TypeOK, Saw
<1>4. Learned(s)'
  BY <1>2, <1>3 DEF Learned
<1>5. \A x \in found : x.body = store[x.id]
  OBVIOUS
<1> HIDE DEF found, step
<1> QED BY <1>1, <1>2, <1>4, <1>5, SawAbreast

LEMMA SecretSyncAbreast ==
  ASSUME Abreast, NEW s \in Session, CheckSecretSyncEnabled(s), Inv'
  PROVE  Abreast'
<1> DEFINE f == [role |-> "spc", id |-> SecretSyncId, body |-> store[SecretSyncId]]
<1>1. /\ pc[s] = "spc" /\ MayBe(cmd[s], "spc") /\ Saw(s, {f}) /\ f.body # None
      /\ pc' = [pc EXCEPT ![s] = "write"]
  BY DEF CheckSecretSyncEnabled, HasDefaultSpc, At, Abreast, Inv, Running
<1>2. cmd[s].id.kind = "template"
  BY <1>1 DEF MayBe
<1>3. pc'[s] = "write" /\ cmd'[s] = cmd[s] /\ f \in seen'[s]
  BY <1>1 DEF Abreast, Inv, TypeOK, Saw
<1>4. f.id = SecretSyncId /\ f.body = store[f.id]
  OBVIOUS
<1> HIDE DEF f
<1>5. Learned(s)'
  BY <1>1, <1>2, <1>3, <1>4 DEF Learned
<1>6. \A x \in {f} : x.body = store[x.id]
  BY <1>4
<1>7. \E found : Saw(s, found) /\ \A x \in found : x.body = store[x.id]
  BY <1>1, <1>6
<1> QED BY <1>1, <1>2, <1>5, <1>7, SawAbreast

LEMMA ReadRefAbreast ==
  ASSUME Abreast, NEW s \in Session, ReadRef(s), Inv'
  PROVE  Abreast'
<1>1. PICK ref \in Pending(s) :
         /\ Usable(s, ref)
         /\ Saw(s, {[role |-> ref[1], id |-> ref[2], body |-> store[ref[2]]]})
  BY DEF ReadRef
<1> DEFINE f == [role |-> ref[1], id |-> ref[2], body |-> store[ref[2]]]
<1>2. f.role \in Roles /\ f.body # None /\ Suits(cmd[s].id, cmd[s].body, f.role, f.body)
        /\ f.body = store[f.id]
  BY <1>1 DEF Pending, Usable
<1>3. pc[s] = "read" /\ MayBe(cmd[s], "read") /\ pc' = [pc EXCEPT ![s] = "read"]
  BY DEF ReadRef, At, Abreast, Inv, Running, TypeOK
<1>4. cmd[s].id.kind \in {"flow", "graph"}
  BY <1>3 DEF MayBe
<1>5. Saw(s, {f})
  BY <1>1
<1> HIDE DEF f
<1>6. pc'[s] = "read" /\ cmd'[s] = cmd[s] /\ seen'[s] = seen[s] \cup {f}
  BY <1>3, <1>5 DEF Abreast, Inv, TypeOK, Saw
<1>7. Learned(s)'
  BY <1>2, <1>3, <1>4, <1>6 DEF Abreast, Learned
<1>8. \A x \in {f} : x.body = store[x.id]
  BY <1>2
<1>9. \E found : Saw(s, found) /\ \A x \in found : x.body = store[x.id]
  BY <1>5, <1>8
<1> QED BY <1>3, <1>4, <1>7, <1>9, SawAbreast

LEMMA ListFlowsAbreast ==
  ASSUME Abreast, NEW s \in Session, ListFlows(s), Inv'
  PROVE  Abreast'
<1> DEFINE c == cmd[s]
           child(f) == [role |-> "child", id |-> f, body |-> store[f]]
           self == [role |-> "self", id |-> c.id, body |-> store[c.id]]
           flows == {r \in Id : r.kind = "flow" /\ Parent(r) = c.id /\ store[r] # None}
           found == {self} \cup {child(f) : f \in flows}
<1>1. /\ pc[s] = "list" /\ MayBe(c, "list") /\ Saw(s, found)
      /\ pc' = [pc EXCEPT ![s] = "write"]
  BY DEF ListFlows, At, Abreast, Inv, Running
<1>2. c.id.kind = "profile" /\ c.op = "delete"
  BY <1>1 DEF MayBe
<1>3. self \in found /\ self.id = c.id /\ \A x \in found : x.body = store[x.id]
  OBVIOUS
<1>4. \A f \in flows : \E x \in found : x.id = f
  <2>1. ASSUME NEW f \in flows PROVE child(f) \in found /\ child(f).id = f
    OBVIOUS
  <2> HIDE DEF child, found, flows
  <2> QED BY <2>1
<1> HIDE DEF found, self
<1>5. \A t \in Session \ {s} : /\ pc'[t] = pc[t] /\ cmd'[t] = cmd[t] /\ seen'[t] = seen[t]
                               /\ store' = store /\ disturbed' = disturbed
  BY <1>1 DEF Saw, Abreast, Inv, TypeOK
<1>6. \A t \in Session \ {s} : pc'[t] # "idle" => Learned(t)' /\ (disturbed'[t] \/ Current(t)')
  BY <1>5 DEF Abreast, Learned, Current
<1>7. /\ pc'[s] = "write" /\ cmd'[s] = c /\ seen'[s] = seen[s] \cup found /\ store' = store
      /\ disturbed' = disturbed
  BY <1>1 DEF Saw, Abreast, Inv, TypeOK
<1>8. Learned(s)'
  BY <1>2, <1>3, <1>7 DEF Learned, BringsSecrets
<1>9. disturbed'[s] \/ Current(s)'
  <2>1. CASE disturbed[s]
    BY <1>7, <2>1
  <2>2. CASE Current(s)
    <3>1. \A x \in seen'[s] : x.body = store'[x.id]
      BY <1>3, <1>7, <2>2 DEF Current
    <3> QED BY <1>4, <1>7, <3>1 DEF Current
  <2> QED BY <1>1, <2>1, <2>2 DEF Abreast
<1> QED BY <1>6, <1>8, <1>9 DEF Abreast

(* The steps that change what is stored.                                     *)
Writes(s) ==
  \/ ApplyChecked(s) \/ Put(s) \/ Drop(s) \/ EnsureContainer(s) \/ ApplyRoleAssignment(s)
  \/ PutVersion(s) \/ DropVersion(s)

LEMMA WritesAbreast ==
  ASSUME Abreast, NEW s \in Session, Writes(s), Inv'
  PROVE  Abreast'
<1> DEFINE c == cmd[s]
<1>1. pc[s] # "idle" => c.id \in Id /\ MayBe(c, pc[s])
  BY DEF Abreast, Inv, Running, Given, IsCommand
<1>2. CASE Put(s)
  <2>1. pc[s] = "write" /\ Wrote(s, c.id, Sent(s), Then(c))
    BY <1>2 DEF Put, At
  <2>2. \/ Then(c) = "idle"
        \/ Then(c) \in {"write", "role", "version"} /\ c.op = "create"
              /\ c.id.kind \in {"schemaRegistry", "schema"}
    BY DEF Then
  <2> QED BY <1>1, <2>1, <2>2, WroteAbreast
<1>3. CASE EnsureContainer(s)
  <2>1. pc[s] = "container" /\ Wrote(s, ContainerId(c.id), "there", "write")
    BY <1>3 DEF EnsureContainer, At
  <2>2. c.op = "create" /\ c.id.kind = "schemaRegistry" /\ ContainerId(c.id).kind # "flow"
    BY <1>1, <2>1 DEF MayBe, ContainerId
  <2> QED BY <2>1, <2>2, WroteAbreast
<1>4. CASE ApplyRoleAssignment(s)
  <2>1. pc[s] = "role" /\ Wrote(s, RoleId(c.id), "there", "idle") /\ RoleId(c.id).kind # "flow"
    BY <1>4 DEF ApplyRoleAssignment, At, RoleId
  <2> QED BY <2>1, WroteAbreast
<1>5. CASE ApplyChecked(s) \/ Drop(s) \/ PutVersion(s) \/ DropVersion(s)
  <2>1. pc[s] # "idle" /\ \E body : Wrote(s, c.id, body, "idle")
    BY <1>5 DEF ApplyChecked, Drop, PutVersion, DropVersion, At
  <2> QED BY <1>1, <2>1, WroteAbreast
<1> QED BY <1>2, <1>3, <1>4, <1>5 DEF Writes

LEMMA AbreastStep == Abreast /\ [Next]_vars => Abreast'
<1> SUFFICES ASSUME Abreast, [Next]_vars PROVE Abreast'
  OBVIOUS
<1>a. Inv'
  BY InvStep DEF Abreast
<1>1. ASSUME NEW s \in Session, Begin(s) PROVE Abreast'
  BY <1>a, <1>1, BeginStarts, StartsAbreast DEF Abreast, Inv
<1>2. ASSUME NEW s \in Session, Continue(s) PROVE Abreast'
  <2>1. CASE Get(s)
    BY <1>a, <2>1, GetAbreast
  <2>2. CASE CheckSecretSyncEnabled(s)
    BY <1>a, <2>2, SecretSyncAbreast
  <2>3. CASE ReadRef(s)
    BY <1>a, <2>3, ReadRefAbreast
  <2>4. CASE ListFlows(s)
    BY <1>a, <2>4, ListFlowsAbreast
  <2>5. CASE Writes(s)
    BY <1>a, <2>5, WritesAbreast
  <2>6. CASE Refuse(s)
    BY <1>a, <2>6, FinishAbreast DEF Refuse
  <2> QED BY <1>2, <2>1, <2>2, <2>3, <2>4, <2>5, <2>6 DEF Continue, Writes
<1>3. ASSUME NEW s \in Session, Fail(s) PROVE Abreast'
  BY <1>a, <1>3, FinishAbreast DEF Fail
<1>4. CASE UNCHANGED vars
  BY <1>a, <1>4 DEF vars, Abreast, Learned, Current
<1> QED BY <1>1, <1>2, <1>3, <1>4 DEF Next

LEMMA AbreastInit == Init => Abreast
  BY InvInit DEF Init, Abreast

LEMMA AbreastAlways == Spec => []Abreast
  BY AbreastInit, AbreastStep, PTL DEF Spec

-------------------------------------------------------------------------------
(* What a step that changes a resource is                                    *)

LEMMA ChangesAreWrites ==
  ASSUME Abreast, Next, store' # store
  PROVE  \E s \in Session : Writes(s)
<1>1. ASSUME NEW s \in Session, Begin(s) PROVE FALSE
  <2>1. PICK c, first : Starts(s, c, first)
    BY <1>1, BeginStarts DEF Abreast, Inv
  <2> QED BY <2>1 DEF Starts, Begins
<1>2. ASSUME NEW s \in Session, Continue(s) PROVE Writes(s)
  BY <1>2 DEF Continue, Writes, Get, CheckSecretSyncEnabled, ReadRef, ListFlows, Saw,
              Refuse, Finish
<1>3. ASSUME NEW s \in Session, Fail(s) PROVE FALSE
  BY <1>3 DEF Fail, Finish
<1> QED BY <1>1, <1>2, <1>3 DEF Next

(* What an undisturbed process has read of its own resource is stored.       *)
LEMMA OwnIsStored ==
  ASSUME Abreast, NEW s \in Session, pc[s] = "write", Reads(cmd[s]), ~disturbed[s]
  PROVE  Own(s) = store[cmd[s].id]
<1>1. \E x \in seen[s] : x.role = "self"
  BY DEF Abreast, Inv, Running
<1> DEFINE x == CHOOSE x \in seen[s] : x.role = "self"
<1>2. x \in seen[s] /\ x.role = "self" /\ Own(s) = x.body
  BY <1>1 DEF Own
<1> HIDE DEF x
<1> QED BY <1>2 DEF Abreast, Current, Inv, Running

(* A resource is sent by a command about it: a data flow or a graph is       *)
(* applied, another is put.  A container and a role are there or not.        *)
LEMMA SentTo ==
  ASSUME Abreast, NEW s \in Session, Writes(s), NEW id \in Id,
         store'[id] # None, store'[id] # store[id]
  PROVE  \/ id = cmd[s].id /\ ApplyChecked(s) /\ store'[id] = cmd[s].body
         \/ id = cmd[s].id /\ Put(s) /\ store'[id] = Sent(s)
         \/ id.kind \in {"container", "role"} /\ store'[id] = "there" /\ store[id] = None
         \/ id = cmd[s].id /\ PutVersion(s) /\ store'[id] = store[id] \cup {cmd[s].item}
         \/ id = cmd[s].id /\ DropVersion(s) /\ store'[id] = store[id] \ {cmd[s].item}
<1>1. ASSUME NEW w, NEW body, NEW next, Wrote(s, w, body, next)
      PROVE  id = w /\ store'[id] = body
  BY <1>1 DEF Wrote
<1>2. CASE ApplyChecked(s)
  BY <1>1, <1>2 DEF ApplyChecked
<1>3. CASE Put(s)
  BY <1>1, <1>3 DEF Put
<1>4. CASE Drop(s)
  BY <1>1, <1>4 DEF Drop
<1>5. CASE EnsureContainer(s)
  <2>1. id = ContainerId(cmd[s].id) /\ store'[id] = "there"
    BY <1>1, <1>5 DEF EnsureContainer
  <2>2. id.kind = "container"
    BY <2>1 DEF ContainerId
  <2>3. store[id] \in {"there", None}
    BY <2>2 DEF Abreast, Inv, TypeOK, Body
  <2> QED BY <2>1, <2>2, <2>3
<1>6. CASE ApplyRoleAssignment(s)
  <2>1. id = RoleId(cmd[s].id) /\ store'[id] = "there"
    BY <1>1, <1>6 DEF ApplyRoleAssignment
  <2>2. id.kind = "role"
    BY <2>1 DEF RoleId
  <2>3. store[id] \in {"there", None}
    BY <2>2 DEF Abreast, Inv, TypeOK, Body
  <2> QED BY <2>1, <2>2, <2>3
<1>7. CASE PutVersion(s)
  BY <1>1, <1>7 DEF PutVersion
<1>8. CASE DropVersion(s)
  BY <1>1, <1>8 DEF DropVersion
<1> QED BY <1>2, <1>3, <1>4, <1>5, <1>6, <1>7, <1>8 DEF Writes

(* The command of a process that is at work, and what becomes of it.         *)
LEMMA AtWork ==
  ASSUME Abreast, NEW s \in Session
  PROVE  /\ ApplyChecked(s) => /\ pc[s] = "read" /\ pc'[s] = "idle"
                               /\ cmd[s].op = "apply" /\ cmd[s].id.kind \in {"flow", "graph"}
         /\ Put(s) => /\ pc[s] = "write" /\ MayBe(cmd[s], "write") /\ cmd[s].op # "delete"
                      /\ Then(cmd[s]) = "idle" => pc'[s] = "idle"
         /\ PutVersion(s) \/ DropVersion(s) =>
               pc[s] = "version" /\ cmd[s].id.kind = "schema" /\ pc'[s] = "idle"
         /\ Drop(s) => /\ pc[s] = "write" /\ MayBe(cmd[s], "write") /\ pc'[s] = "idle"
                       /\ Wrote(s, cmd[s].id, None, "idle")
                       /\ \/ cmd[s].op = "delete"
                          \/ cmd[s].op = "removeItem" /\ LastPort(cmd[s], Own(s))
         /\ pc[s] # "idle" => Given(cmd[s]) /\ IsCommand(cmd[s]) /\ cmd[s].id \in Id
<1>1. pc[s] # "idle" => Given(cmd[s]) /\ IsCommand(cmd[s]) /\ cmd[s].id \in Id
                          /\ MayBe(cmd[s], pc[s])
  BY DEF Abreast, Inv, Running, Given, IsCommand
<1>2. ASSUME NEW w, NEW body, Wrote(s, w, body, "idle") PROVE pc'[s] = "idle"
  BY <1>2 DEF Wrote, Idle, Abreast, Inv, TypeOK
<1>3. ApplyChecked(s) => /\ pc[s] = "read" /\ pc'[s] = "idle"
                         /\ cmd[s].op = "apply" /\ cmd[s].id.kind \in {"flow", "graph"}
  BY <1>1, <1>2 DEF ApplyChecked, At, MayBe
<1>4. Put(s) => /\ pc[s] = "write" /\ MayBe(cmd[s], "write") /\ cmd[s].op # "delete"
                /\ Then(cmd[s]) = "idle" => pc'[s] = "idle"
  BY <1>1, <1>2 DEF Put, At, Removes
<1>5. PutVersion(s) \/ DropVersion(s) =>
        pc[s] = "version" /\ cmd[s].id.kind = "schema" /\ pc'[s] = "idle"
  BY <1>1, <1>2 DEF PutVersion, DropVersion, At, MayBe
<1>6. Drop(s) => /\ pc[s] = "write" /\ MayBe(cmd[s], "write") /\ pc'[s] = "idle"
                 /\ Wrote(s, cmd[s].id, None, "idle")
                 /\ \/ cmd[s].op = "delete"
                    \/ cmd[s].op = "removeItem" /\ LastPort(cmd[s], Own(s))
  BY <1>1, <1>2 DEF Drop, At, Removes
<1> QED BY <1>1, <1>3, <1>4, <1>5, <1>6

-------------------------------------------------------------------------------
(* Versions of connectors                                                    *)

(* An update that is not refused and changes the tag raises the minor        *)
(* version, when the image has the version of its metadata.                  *)
LEMMA UpdateRaises ==
  ASSUME NEW given, NEW ref \in DOMAIN Metadata \cup {None}, NEW secrets,
         NEW old \in Body("template"), old.tag # None,
         ~UpdateTemplateRefused(given, ref, secrets, old),
         UpdatedTemplate(given, ref, secrets, old).tag # old.tag,
         Metadata[ref].tag = Metadata[ref].version
  PROVE  IsUpgrade(old.tag, UpdatedTemplate(given, ref, secrets, old).tag)
<1> DEFINE m == Metadata[ref]
<1>1. /\ ref # None /\ m.image # "neither"
      /\ UpdatedTemplate(given, ref, secrets, old).tag = TagSettings(m)
  BY DEF UpdatedTemplate
<1>2. ref \in DOMAIN Metadata /\ IsValidVersionUpgrade(old.tag, m.version)
  BY <1>1 DEF UpdateTemplateRefused
<1>3. m.image = "tag" /\ TagSettings(m) = m.version /\ m.version \in Nat \X Nat
  BY <1>1, <1>2, MetadataAssumption DEF IsValidVersionUpgrade, TagSettings, TemplateVersion
<1>4. old.tag \in Nat \X Nat
  BY MetadataAssumption DEF Body, Template, TemplateVersion
<1>5. \A v, w \in Nat \X Nat : v[1] = w[1] /\ v[2] = w[2] => v = w
  OBVIOUS
<1>6. m.version # old.tag
  BY <1>1, <1>3
<1> HIDE DEF m
<1>7. m.version[1] = old.tag[1] /\ m.version[2] >= old.tag[2]
  BY <1>2 DEF IsValidVersionUpgrade
<1>8. m.version[2] \in Nat /\ old.tag[2] \in Nat
  BY <1>3, <1>4
<1>9. m.version[2] # old.tag[2]
  BY <1>3, <1>4, <1>5, <1>6, <1>7
<1> QED BY <1>1, <1>3, <1>7, <1>8, <1>9 DEF IsUpgrade, m

LEMMA TemplateStep ==
  ASSUME Abreast, [Next]_vars, NEW id \in Id, id.kind = "template",
         store[id] # None, store'[id] # None, store[id].tag # None,
         store'[id].tag # store[id].tag
  PROVE  \E s \in Session :
            /\ ~At(s, "idle") /\ At(s, "idle")' /\ cmd[s].id = id
            /\ \/ cmd[s].op = "create" \/ disturbed[s]
               \/ Metadata[cmd[s].item].tag # Metadata[cmd[s].item].version
               \/ IsUpgrade(store[id].tag, store'[id].tag)
<1>1. store' # store /\ Next /\ store'[id] # store[id]
  BY DEF vars
<1>2. PICK s \in Session : Writes(s)
  BY <1>1, ChangesAreWrites
<1> DEFINE c == cmd[s]
<1>3. id = c.id /\ Put(s) /\ store'[id] = Sent(s)
  BY <1>1, <1>2, SentTo, AtWork
<1>4. /\ pc[s] = "write" /\ pc'[s] = "idle" /\ c.op \in {"create", "update"} /\ IsCommand(c)
  BY <1>3, AtWork DEF MayBe, Then
<1>5. ASSUME c.op = "update", ~disturbed[s],
             Metadata[c.item].tag = Metadata[c.item].version
      PROVE  IsUpgrade(store[id].tag, store'[id].tag)
  <2>1. Own(s) = store[id] /\ Own(s) \in Body("template")
    BY <1>3, <1>4, <1>5, OwnIsStored DEF Reads, Abreast, Inv, TypeOK
  <2>2. store'[id] = UpdatedTemplate(c.given, c.item, c.body, store[id])
    BY <1>3, <1>5, <2>1 DEF Sent
  <2>3. ~UpdateTemplateRefused(c.given, c.item, c.body, store[id])
    BY <1>3, <1>5, <2>1 DEF Put, Refused
  <2>4. c.item \in DOMAIN Metadata \cup {None}
    BY <1>3, <1>4, <1>5 DEF IsCommand, ItemFor
  <2> QED BY <1>5, <2>1, <2>2, <2>3, <2>4, UpdateRaises
<1> QED BY <1>3, <1>4, <1>5 DEF At

(* Connectors never go back a version, whatever the metadata: no update that *)
(* another has not overtaken lowers a connector's version, or changes the    *)
(* major one.                                                                *)
THEOREM ConnectorsAreNotDowngraded == Spec => NoTemplateDowngrade
<1>1. Abreast /\ [Next]_vars =>
        [\A id \in {r \in Id : r.kind = "template"} :
           /\ store[id] # None /\ store'[id] # None
           /\ store[id].tag # None /\ store'[id].tag # store[id].tag
           => \E s \in Session :
                /\ ~At(s, "idle") /\ At(s, "idle")' /\ cmd[s].id = id
                /\ \/ cmd[s].op = "create" \/ disturbed[s]
                   \/ Metadata[cmd[s].item].tag # Metadata[cmd[s].item].version
                   \/ IsUpgrade(store[id].tag, store'[id].tag)]_vars
  BY TemplateStep
<1> QED BY <1>1, AbreastAlways, PTL DEF Spec, NoTemplateDowngrade

-------------------------------------------------------------------------------
(* What may be lost                                                          *)

(* What is sent in place of a resource has its items but for those the       *)
(* command names.                                                            *)
LEMMA PutLoses ==
  ASSUME Abreast, NEW s \in Session, Put(s), store[cmd[s].id] # None,
         NEW i \in Items(cmd[s].id, store[cmd[s].id]) \ Items(cmd[s].id, Sent(s))
  PROVE  /\ pc[s] # "idle" /\ pc'[s] = "idle"
         /\ disturbed[s] \/ AsksFor(s, cmd[s].id, i)
<1> DEFINE c == cmd[s]
           k == c.id.kind
           old == store[c.id]
           new == Sent(s)
<1>1. /\ pc[s] = "write" /\ MayBe(c, "write") /\ c.op # "delete" /\ IsCommand(c) /\ c.id \in Id
      /\ Then(c) = "idle" => pc'[s] = "idle"
  BY AtWork
<1>2. new \in Body(k) /\ old \in Body(k)
  <2>1. ~Refused(s) /\ ~Removes(s) /\ Copies(s) < MaxCopies
    BY DEF Put
  <2>2. Inv
    BY DEF Abreast
  <2> QED BY <1>1, <2>1, <2>2, SentSound DEF Inv, TypeOK
<1>3. k \in Kind /\ new # None
  BY <1>1, <1>2, IdAssumption, NoneAssumption DEF Body
<1>4. k \in {"listener", "authn", "schema", "template"}
  BY <1>2, <1>3 DEF Items
<1>5. CASE k = "schema"
  <2>1. c.op = "create" /\ new = old
    BY <1>1, <1>5 DEF MayBe, Sent
  <2> QED BY <2>1
<1>6. ~disturbed[s] /\ Reads(c) => Own(s) = old
  BY <1>1, OwnIsStored
<1>7. CASE c.op = "apply"
  BY <1>1, <1>7 DEF AsksFor, Then
<1>8. CASE k = "listener" /\ c.op # "apply"
  <2>1. c.op \in {"addItem", "removeItem"} /\ pc'[s] = "idle"
    BY <1>1, <1>8 DEF MayBe, Then
  <2> SUFFICES ASSUME ~disturbed[s] PROVE AsksFor(s, c.id, i)
    BY <1>1, <2>1
  <2>2. Own(s) = old /\ old \in [Port -> {"absent", "plain", "tls"}]
    BY <1>2, <1>6, <1>8, <2>1 DEF Reads, Body
  <2>3. i \in Port /\ old[i] # "absent" /\ i \notin Ports(new)
    BY <1>3, <1>8 DEF Items, Ports
  <2>4. CASE c.op = "addItem"
    <3>1. new = [old EXCEPT ![c.item] = PortConf(c)]
      BY <1>8, <2>2, <2>4 DEF Sent, WithPort
    <3> QED BY <2>2, <2>3, <3>1 DEF Ports, PortConf
  <2>5. CASE c.op = "removeItem"
    <3>1. new = [old EXCEPT ![c.item] = "absent"]
      BY <1>8, <2>2, <2>5 DEF Sent, WithoutPort
    <3>2. i = c.item
      BY <2>2, <2>3, <3>1 DEF Ports
    <3> QED BY <2>5, <3>2 DEF AsksFor
  <2> QED BY <2>1, <2>4, <2>5
<1>9. CASE k = "authn" /\ c.op # "apply"
  <2>1. c.op = "addItem" /\ pc'[s] = "idle" /\ c.item \in Method
    BY <1>1, <1>9 DEF MayBe, Then, IsCommand, ItemFor
  <2> SUFFICES ASSUME ~disturbed[s] PROVE FALSE
    BY <1>1, <2>1
  <2>2. Own(s) = old /\ old \in [Method -> 0 .. MaxCopies]
    BY <1>2, <1>6, <1>9, <2>1 DEF Reads, Body
  <2>3. i \in Method /\ old[i] > 0 /\ ~(new[i] > 0)
    BY <1>3, <1>9 DEF Items
  <2>4. new = [old EXCEPT ![c.item] = @ + 1]
    BY <1>9, <2>1, <2>2 DEF Sent, WithMethod
  <2> QED BY <2>2, <2>3, <2>4, BoundAssumption
<1>10. CASE k = "template"
  <2>1. c.op \in {"create", "update"} /\ pc'[s] = "idle"
    BY <1>1, <1>10 DEF MayBe, Then
  <2>2. Items(c.id, old) = {"itself"} \cup old.settings \cup {"secrets" : x \in old.secrets}
    BY <1>10 DEF Items
  <2>3. Items(c.id, new) = {"itself"} \cup new.settings \cup {"secrets" : x \in new.secrets}
    BY <1>3, <1>10 DEF Items
  <2>4. i # "itself" /\ i \notin new.settings
    BY <2>3
  <2>5. CASE c.op = "create"
    BY <1>1, <1>10, <2>1, <2>4, <2>5 DEF AsksFor
  <2>6. CASE c.op = "update"
    <3> SUFFICES ASSUME ~disturbed[s] PROVE AsksFor(s, c.id, i)
      BY <1>1, <2>1
    <3>1. Own(s) = old
      BY <1>6, <2>6 DEF Reads
    <3>2. new = UpdatedTemplate(c.given, c.item, c.body, old)
      BY <1>10, <2>6, <3>1 DEF Sent
    <3>3. old.settings \subseteq TemplateSetting
      BY <1>2, <1>10 DEF Body, Template
    <3>4. /\ new.secrets = IF c.body = None THEN old.secrets ELSE c.body
          /\ new.settings = IF "clear" \in c.given
                            THEN old.settings \ (c.given \cap TemplateSetting)
                            ELSE old.settings \cup (c.given \cap TemplateSetting)
      <4> HIDE DEF old, new
      <4> QED BY <3>2 DEF UpdatedTemplate
    <3>5. i \in Items(c.id, old) /\ i \notin Items(c.id, new)
      BY <1>3
    <3> HIDE DEF old, new
    <3>6. CASE i = "secrets"
      <4>1. old.secrets # {} /\ new.secrets = {}
        <5>1. "secrets" \notin old.settings
          BY <3>3 DEF TemplateSetting
        <5>2. i \in {"secrets" : x \in old.secrets}
          BY <2>2, <2>4, <3>5, <3>6, <5>1
        <5>3. i \notin {"secrets" : x \in new.secrets}
          BY <2>3, <3>5
        <5>4. old.secrets # {}
          BY <5>2
        <5> QED BY <3>6, <5>3, <5>4
      <4>2. c.body = {}
        BY <3>4, <4>1
      <4> QED BY <1>10, <2>6, <3>6, <4>2 DEF AsksFor
    <3>7. CASE i # "secrets"
      <4>1. i \in old.settings
        BY <2>2, <2>4, <3>5, <3>7
      <4>2. "clear" \in c.given /\ i \in c.given
        BY <2>4, <3>4, <4>1
      <4> QED BY <1>10, <2>6, <3>7, <4>2 DEF AsksFor
    <3> QED BY <3>6, <3>7
  <2> QED BY <2>1, <2>5, <2>6
<1> QED BY <1>4, <1>5, <1>7, <1>8, <1>9, <1>10

(* What a deletion takes with it.                                            *)
LEMMA DropLoses ==
  ASSUME Abreast, NEW s \in Session, Drop(s), NEW id \in Id, store[id] # None,
         store'[id] # store[id], NEW i \in Items(id, store[id])
  PROVE  disturbed[s] \/ AsksFor(s, id, i)
<1> DEFINE c == cmd[s]
<1>1. /\ pc[s] = "write" /\ MayBe(c, "write") /\ Wrote(s, c.id, None, "idle")
      /\ c.op = "delete" \/ (c.op = "removeItem" /\ LastPort(c, Own(s)))
      /\ c.id \in Id
  BY AtWork
<1>2. id = c.id \/ Parent(id) = c.id
  BY <1>1 DEF Wrote
<1> SUFFICES ASSUME ~disturbed[s] PROVE AsksFor(s, id, i)
  OBVIOUS
<1>3. CASE c.op = "delete" /\ id = c.id
  BY <1>3 DEF AsksFor
<1>4. CASE c.op = "delete" /\ Parent(id) = c.id
  <2>1. ASSUME id.kind = "flow" PROVE \E x \in seen[s] : x.id = id
    <3>1. c.id.kind = "profile"
      BY <1>4, <2>1 DEF Parent
    <3>2. Current(s)
      BY <1>1 DEF Abreast
    <3> QED BY <1>1, <1>4, <2>1, <3>1, <3>2 DEF Current
  <2> QED BY <1>4, <2>1 DEF AsksFor
<1>5. CASE c.op = "removeItem"
  <2>1. c.id.kind = "listener"
    BY <1>1, <1>5 DEF MayBe
  <2>2. id = c.id
    BY <1>1, <1>2, <2>1, ParentKind, NoneAssumption
  <2>3. Own(s) = store[id]
    BY <1>1, <1>5, <2>2, OwnIsStored DEF Reads
  <2>4. i \in Ports(store[id])
    BY <2>1, <2>2 DEF Items
  <2> QED BY <1>1, <1>5, <2>2, <2>3, <2>4 DEF LastPort, AsksFor
<1> QED BY <1>1, <1>2, <1>3, <1>4, <1>5

LEMMA LossStep ==
  ASSUME Abreast, [Next]_vars, NEW id \in Id,
         NEW i \in Items(id, store[id]) \ Items(id, store'[id])
  PROVE  \E s \in Session : /\ ~At(s, "idle") /\ At(s, "idle")'
                            /\ disturbed[s] \/ AsksFor(s, id, i)
<1>1. store[id] # None /\ store'[id] # store[id]
  BY DEF Items
<1>2. store' # store /\ Next
  BY <1>1 DEF vars
<1>3. PICK s \in Session : Writes(s)
  BY <1>2, ChangesAreWrites
<1> SUFFICES pc[s] # "idle" /\ pc'[s] = "idle" /\ (disturbed[s] \/ AsksFor(s, id, i))
  BY DEF At
<1>4. CASE store'[id] = None
  <2>1. CASE Drop(s)
    BY <1>1, <2>1, DropLoses, AtWork
  <2>2. CASE ~Drop(s)
    <3>1. ASSUME NEW w, NEW body, NEW next, Wrote(s, w, body, next), body # None
          PROVE  FALSE
      BY <1>1, <1>4, <3>1 DEF Wrote
    <3>2. \A v \in SUBSET Version : v # None
      BY NoneAssumption
    <3>3. "there" # None
      <4>1. "container" \in Kind \ {"schema"} /\ "there" \in Body("container")
        BY DEF Kind, Body
      <4> QED BY <4>1, NoneAssumption
    <3>4. CASE ApplyChecked(s)
      <4>1. cmd[s].body \in Body(cmd[s].id.kind) /\ cmd[s].id.kind \in Kind \ {"schema"}
        BY <3>4, AtWork DEF IsCommand, BodyFor, Kind
      <4> QED BY <3>1, <3>4, <4>1, NoneAssumption DEF ApplyChecked
    <3>5. CASE Put(s)
      <4>1. Sent(s) \in Body(cmd[s].id.kind) /\ cmd[s].id.kind \in Kind
        BY <3>5, AtWork, SentSound, IdAssumption DEF Put, Abreast
      <4>2. Sent(s) # None
        BY <3>2, <4>1, NoneAssumption DEF Body
      <4> QED BY <3>1, <3>5, <4>2 DEF Put
    <3>6. CASE EnsureContainer(s)
      BY <3>1, <3>3, <3>6 DEF EnsureContainer
    <3>7. CASE ApplyRoleAssignment(s)
      BY <3>1, <3>3, <3>7 DEF ApplyRoleAssignment
    <3>8. CASE PutVersion(s) \/ DropVersion(s)
      <4>1. /\ store[cmd[s].id] \in SUBSET Version /\ cmd[s].item \in Version
            /\ cmd[s].id.kind = "schema"
        <5>1. cmd[s].id.kind = "schema" /\ cmd[s].id \in Id /\ store[cmd[s].id] # None
                /\ IsCommand(cmd[s]) /\ pc[s] = "version" /\ MayBe(cmd[s], "version")
          BY <3>8, AtWork DEF PutVersion, DropVersion, Abreast, Inv, Running
        <5> QED BY <5>1 DEF Abreast, Inv, TypeOK, Body, IsCommand, ItemFor, MayBe
      <4>2. CASE PutVersion(s)
        <5>1. store[cmd[s].id] \cup {cmd[s].item} # None
          BY <3>2, <4>1
        <5> QED BY <3>1, <4>2, <5>1 DEF PutVersion
      <4>3. CASE DropVersion(s)
        <5>1. store[cmd[s].id] \ {cmd[s].item} # None
          BY <3>2, <4>1
        <5> QED BY <3>1, <4>3, <5>1 DEF DropVersion
      <4> QED BY <3>8, <4>2, <4>3
    <3> QED BY <1>3, <2>2, <3>4, <3>5, <3>6, <3>7, <3>8 DEF Writes
  <2> QED BY <2>1, <2>2
<1>5. CASE store'[id] # None
  <2>1. CASE id = cmd[s].id /\ ApplyChecked(s)
    BY <2>1, AtWork DEF AsksFor
  <2>2. CASE id = cmd[s].id /\ Put(s) /\ store'[id] = Sent(s)
    BY <1>1, <2>2, PutLoses
  <2>3. CASE id = cmd[s].id /\ PutVersion(s) /\ store'[id] = store[id] \cup {cmd[s].item}
    <3>1. id.kind = "schema"
      BY <2>3, AtWork
    <3> QED BY <1>1, <1>5, <2>3, <3>1 DEF Items
  <2>4. CASE id = cmd[s].id /\ DropVersion(s) /\ store'[id] = store[id] \ {cmd[s].item}
    <3>1. id.kind = "schema" /\ pc[s] = "version" /\ pc'[s] = "idle"
      BY <2>4, AtWork
    <3>2. i = cmd[s].item
      BY <1>1, <1>5, <2>4, <3>1 DEF Items
    <3>3. cmd[s].op = "removeItem"
      BY <2>4 DEF DropVersion
    <3> QED BY <2>4, <3>1, <3>2, <3>3 DEF AsksFor
  <2> QED BY <1>1, <1>3, <1>5, <2>1, <2>2, <2>3, <2>4, SentTo
<1> QED BY <1>4, <1>5

(* A port, a method, a version, a data flow, a template's settings and       *)
(* secrets are lost only to a command that asks for it or to one that        *)
(* another has overtaken: no command sends back less than it read.           *)
THEOREM NothingIsLostUnasked == Spec => NothingLost
<1>1. Abreast /\ [Next]_vars =>
        [\A id \in Id : \A i \in Items(id, store[id]) \ Items(id, store'[id]) :
           \E s \in Session : /\ ~At(s, "idle") /\ At(s, "idle")'
                              /\ disturbed[s] \/ AsksFor(s, id, i)]_vars
  BY LossStep
<1> QED BY <1>1, AbreastAlways, PTL DEF Spec, NothingLost

-------------------------------------------------------------------------------
(* What is stored fits                                                       *)

(* When nothing is left to read, every resource referred to has been read,   *)
(* a data flow's for the side it is on.                                      *)
LEMMA AllRead ==
  ASSUME NEW s \in Session, Given(cmd[s]), cmd[s].op = "apply", Pending(s) = {},
         NEW role \in Roles, NEW r \in Refs(cmd[s].id, cmd[s].body, role)
  PROVE  \E x \in seen[s] : x.id = r /\ (cmd[s].id.kind = "flow" => x.role = role)
<1>1. \A p \in Roles : Unread(s, p) \subseteq Id
  BY DEF Given, Unread
<1>2. \A p \in Roles : \A q \in Unread(s, p) : \E e \in Before(p) : Unread(s, e) # {}
  <2> SUFFICES ASSUME NEW p \in Roles, NEW q \in Unread(s, p),
                      \A e \in Before(p) : Unread(s, e) = {}
               PROVE  FALSE
    OBVIOUS
  <2>1. <<p, q>> \in Roles \X Id /\ <<p, q>>[1] = p /\ <<p, q>>[2] = q
    BY <1>1
  <2>2. <<p, q>> \in Pending(s)
    BY <2>1 DEF Pending
  <2> QED BY <2>2
<1>3. Unread(s, "source") = {}
  BY <1>2 DEF Before, Roles
<1>4. Unread(s, "destination") = {}
  BY <1>2, <1>3 DEF Before, Roles
<1>5. Unread(s, "registry") = {}
  BY <1>2, <1>3, <1>4 DEF Before, Roles
<1>6. r \notin Unread(s, role)
  BY <1>3, <1>4, <1>5 DEF Roles
<1> QED BY <1>6 DEF Unread

(* What has been read of it is what is stored, and can be used.              *)
LEMMA AppliedFits ==
  ASSUME Abreast, NEW s \in Session, ApplyChecked(s), ~disturbed[s]
  PROVE  Fits(cmd[s].id, cmd[s].body, store)
<1> DEFINE c == cmd[s]
<1>1. /\ pc[s] = "read" /\ c.op = "apply" /\ c.id.kind \in {"flow", "graph"}
      /\ Given(c) /\ Pending(s) = {} /\ \E fetched \in BOOLEAN : Checked(s, fetched)
  BY AtWork DEF ApplyChecked
<1>2. \A x \in seen[s] : /\ x.body = store[x.id] /\ x.body # None
                         /\ Suits(c.id, c.body, x.role, x.body)
  BY <1>1 DEF Abreast, Learned, Current
<1>3. ASSUME NEW role \in Roles, NEW r \in Refs(c.id, c.body, role)
      PROVE  /\ store[r] # None
             /\ Sees(s, role, r) = store[r]
             /\ c.id.kind = "flow" => Suits(c.id, c.body, role, store[r])
  <2>1. \E x \in seen[s] : x.id = r /\ (c.id.kind = "flow" => x.role = role)
    BY <1>1, <1>3, AllRead
  <2> DEFINE y == CHOOSE x \in seen[s] : x.id = r /\ (c.id.kind = "flow" => x.role = role)
  <2>2. /\ y \in seen[s] /\ y.id = r /\ (c.id.kind = "flow" => y.role = role)
        /\ Sees(s, role, r) = y.body
    BY <2>1 DEF Sees
  <2> HIDE DEF y
  <2> QED BY <1>2, <2>2
<1>4. ASSUME NEW role \in Roles \cup {"spc"}, NEW r \in Refs(c.id, c.body, role)
      PROVE  store[r] # None /\ Suits(c.id, c.body, role, store[r])
  <2>1. role \in Roles
    BY <1>1, <1>4 DEF Refs
  <2>2. CASE c.id.kind = "flow"
    BY <1>3, <1>4, <2>1, <2>2
  <2>3. CASE c.id.kind = "graph" /\ role \in {"source", "destination"}
    <3>1. PICK fetched \in BOOLEAN : ValidGraph(s, fetched)
      BY <1>1, <2>3 DEF Checked
    <3>2. Suits(c.id, c.body, role, Sees(s, role, r))
      BY <1>4, <2>3, <3>1 DEF ValidGraph
    <3> QED BY <1>3, <1>4, <2>1, <3>2
  <2>4. CASE c.id.kind = "graph" /\ role = "registry"
    BY <1>3, <1>4, <2>1, <2>4 DEF Suits
  <2> QED BY <1>1, <2>1, <2>2, <2>3, <2>4 DEF Roles
<1>5. ASSUME c.id.kind = "flow" PROVE \E r \in RefsOf(c.id, c.body) : LocalMqtt(store[r])
  <2> DEFINE src == EndpointId(c.body.source)
             dst == EndpointId(c.body.destination)
  <2>1. src \in Refs(c.id, c.body, "source") /\ dst \in Refs(c.id, c.body, "destination")
    BY <1>5 DEF Refs
  <2>2. src \in RefsOf(c.id, c.body) /\ dst \in RefsOf(c.id, c.body)
    BY <2>1 DEF RefsOf, Roles
  <2>3. ValidFlow(s)
    BY <1>1, <1>5 DEF Checked
  <2>4. Sees(s, "source", src) = store[src] /\ Sees(s, "destination", dst) = store[dst]
    BY <1>3, <2>1 DEF Roles
  <2> QED BY <2>2, <2>3, <2>4 DEF ValidFlow
<1> QED BY <1>4, <1>5 DEF Fits

(* A template fits when secret sync is enabled, if it has secrets at all.    *)
LEMMA TemplateFits ==
  ASSUME NEW id \in Id, id.kind = "template", NEW body, NEW resources
  PROVE  Fits(id, body, resources) <=> (body.secrets # {} => resources[SecretSyncId] # None)
<1>1. \A role : Refs(id, body, role) =
                  IF role = "spc" /\ body.secrets # {} THEN {SecretSyncId} ELSE {}
  BY DEF Refs
<1>2. \A role, r : Suits(id, body, role, r)
  BY DEF Suits
<1> QED BY <1>1, <1>2 DEF Fits

LEMMA FitStep ==
  ASSUME Abreast, [Next]_vars, NEW id \in Id,
         id.kind \in {"flow", "graph", "template"}, store'[id] # None,
         ~Fits(id, store'[id], store')
  PROVE  \/ /\ store[id] # None /\ ~Fits(id, store[id], store)
            /\ id.kind = "template" \/ store'[id] = store[id]
         \/ \E r \in RefsOf(id, store'[id]) : store'[r] # store[r]
         \/ \E s \in Session : disturbed[s] /\ ~At(s, "idle") /\ At(s, "idle")'
<1> SUFFICES ASSUME \A r \in RefsOf(id, store'[id]) : store'[r] = store[r]
             PROVE  \/ /\ store[id] # None /\ ~Fits(id, store[id], store)
                       /\ id.kind = "template" \/ store'[id] = store[id]
                    \/ \E s \in Session : disturbed[s] /\ ~At(s, "idle") /\ At(s, "idle")'
  OBVIOUS
<1>1. ~Fits(id, store'[id], store)
  <2> DEFINE body == store'[id]
  <2>1. \A role \in Roles \cup {"spc"} : Refs(id, body, role) \subseteq RefsOf(id, body)
    BY DEF RefsOf
  <2>2. \A r \in RefsOf(id, body) : store'[r] = store[r]
    OBVIOUS
  <2>3. ~Fits(id, body, store')
    OBVIOUS
  <2> HIDE DEF body
  <2>4. ~Fits(id, body, store)
    BY <2>1, <2>2, <2>3 DEF Fits
  <2> QED BY <2>4 DEF body
<1>2. CASE store'[id] = store[id]
  BY <1>1, <1>2
<1>3. CASE store'[id] # store[id]
  <2>1. store' # store /\ Next
    BY <1>3 DEF vars
  <2>2. PICK s \in Session : Writes(s)
    BY <2>1, ChangesAreWrites
  <2> DEFINE c == cmd[s]
  <2>3. \/ id = c.id /\ ApplyChecked(s) /\ store'[id] = c.body
        \/ id = c.id /\ Put(s) /\ store'[id] = Sent(s)
    BY <1>3, <2>2, SentTo, AtWork
  <2>4. CASE ApplyChecked(s) /\ id = c.id /\ store'[id] = c.body
    <3>1. disturbed[s]
      BY <1>1, <2>4, AppliedFits
    <3> QED BY <2>4, <3>1, AtWork DEF At
  <2>5. CASE Put(s) /\ id = c.id /\ store'[id] = Sent(s)
    <3>1. /\ pc[s] = "write" /\ c.op \in {"create", "update"} /\ id.kind = "template"
          /\ pc'[s] = "idle" /\ IsCommand(c)
      BY <2>5, AtWork DEF MayBe, Then
    <3> SUFFICES ASSUME ~disturbed[s]
                 PROVE  store[id] # None /\ ~Fits(id, store[id], store)
      BY <3>1 DEF At
    <3>2. Sent(s).secrets # {} /\ store[SecretSyncId] = None
      BY <1>1, <2>5, <3>1, TemplateFits
    <3>3. ~BringsSecrets(c)
      <4>1. ASSUME BringsSecrets(c) PROVE \E x \in seen[s] : x.id = SecretSyncId /\ x.body # None
        BY <3>1, <4>1 DEF Abreast, Learned
      <4> QED BY <3>1, <3>2, <4>1 DEF Abreast, Current
    <3>4. c.body \in {None, {}}
      BY <2>5, <3>1, <3>3 DEF BringsSecrets
    <3>5. CASE c.op = "create"
      <4>1. Sent(s) = BuildTemplateProperties(c.given, c.item, c.body)
        BY <2>5, <3>1, <3>5 DEF Sent
      <4> QED BY <3>2, <3>4, <4>1 DEF BuildTemplateProperties
    <3>6. CASE c.op = "update"
      <4>1. Own(s) = store[id] /\ Own(s) # None
        BY <2>5, <3>1, <3>6, OwnIsStored, OwnRead DEF Reads, Abreast
      <4>2. Sent(s) = UpdatedTemplate(c.given, c.item, c.body, store[id])
        BY <2>5, <3>1, <3>6, <4>1 DEF Sent
      <4>3. store[id].secrets # {}
        BY <3>2, <3>4, <4>2 DEF UpdatedTemplate
      <4> QED BY <3>1, <3>2, <4>1, <4>3, TemplateFits
    <3> QED BY <3>1, <3>5, <3>6
  <2> QED BY <2>3, <2>4, <2>5
<1> QED BY <1>2, <1>3

(* A data flow, a graph or a template that is stored fits what is stored     *)
(* beside it, until somebody changes that or did so while it was applied:    *)
(* the checks of a command cover every resource its config refers to.        *)
THEOREM AppliedFitsUntilTouched == Spec => FitsUntilTouched
<1>1. Abreast /\ [Next]_vars =>
        [\A id \in Id :
           id.kind \in {"flow", "graph", "template"} /\ store'[id] # None
             /\ ~Fits(id, store'[id], store')
           => \/ /\ store[id] # None /\ ~Fits(id, store[id], store)
                 /\ id.kind = "template" \/ store'[id] = store[id]
              \/ \E r \in RefsOf(id, store'[id]) : store'[r] # store[r]
              \/ \E s \in Session : disturbed[s] /\ ~At(s, "idle") /\ At(s, "idle")']_vars
  BY FitStep
<1> QED BY <1>1, AbreastAlways, PTL DEF Spec, FitsUntilTouched
===============================================================================
