---------------------------- MODULE GatewayStatus ----------------------------
(***************************************************************************)
(* One Gateway through gateway.Reconcile (controller/internal/gateway/     *)
(* reconciler.go) and the status writers of controller/internal/status/    *)
(* writer.go, on top of the per-key queue (KeyQueue) that calls it.        *)
(*                                                                         *)
(* The member API server's newest version of the Gateway is the end of     *)
(* <<cache>> \o stream: every Get of the controller reads cache, the watch *)
(* moves versions from stream into it.  Each Mark function is a Get, a     *)
(* comparison and a Status().Update, retried on conflict.  The infra       *)
(* cluster's Secrets are not watched; a member ReferenceGrant is.          *)
(***************************************************************************)
EXTENDS Naturals, Sequences, SequencesExt, FiniteSets

CONSTANTS
  Gw,             \* the Gateway's key
  N,              \* number of listeners; spec.listeners has a fixed length
  Refs, NoRef,    \* certificate references, and a listener without one
  Specs,          \* the specs users choose from
  Lag,            \* FALSE: the watch is faster than the goroutine
  MaxAttempts,    \* 3 in reconcileWithRetries
  ConflictSteps,  \* 5, the steps of retry.DefaultRetry
  MaxEdits,       \* bound: changes of the Gateway by users
  MaxAssets,      \* bound: changes of Secrets and grants
  MaxFailures     \* bound: failed API calls and failed waits

Listeners == 1 .. N

ASSUME RefAssumption == NoRef \notin Refs
ASSUME SpecAssumption ==
  Specs \subseteq [ours : BOOLEAN, want : [Listeners -> Refs \cup {NoRef}],
                   backend : Refs \cup {NoRef}]
ASSUME BoundsAssumption ==
  /\ N \in Nat /\ Lag \in BOOLEAN
  /\ MaxAttempts \in Nat \ {0} /\ ConflictSteps \in Nat \ {0}
  /\ MaxEdits \in Nat /\ MaxAssets \in Nat /\ MaxFailures \in Nat

VARIABLES
  cache, stream,    \* the Gateway in the informer's cache, versions after it
  events,           \* handler calls the informer still has to make
  permitted,        \* refs a ReferenceGrant or the same namespace permits
  present,          \* refs whose infra Secret exists with the required keys
  infra,            \* the data plane objects of the Gateway
  phase, dirty,     \* the queue
  pc, attempt,      \* of the goroutine in Reconcile
  gw,               \* generation and spec that Reconcile's first Get returned
  bad,              \* listener and reason of a listenerRefsError
  read,             \* the version that the Get of a Mark function returned
  newest,           \* it is still the newest version
  tries,            \* conflicts met by the current RetryOnConflict
  gaveUp,           \* the last reconcileWithRetries ended with an error
  swallowed,        \* the last reconcile logged a MarkProgrammed error
  validated,        \* generations whose TLS assets passed validation
  edits, assets, failures

userVars == <<edits, assets, failures>>
queueVars == <<phase, dirty>>
storeVars == <<cache, stream, events>>
worldVars == <<permitted, present, infra>>
callVars == <<gw, bad, read, newest, tries>>
outcomeVars == <<gaveUp, swallowed, validated>>
vars == <<cache, stream, events, permitted, present, infra, phase, dirty, pc,
          attempt, gw, bad, read, newest, tries, gaveUp, swallowed, validated,
          edits, assets, failures>>

Queue == INSTANCE KeyQueue WITH Keys <- {Gw}

(* A condition: its status (or, for ResolvedRefs=False, its reason) and    *)
(* its observedGeneration.  "none" is a condition that is not there.       *)
Conditions ==
  [st : {"none", "Unknown", "True", "InvalidCertificateRef", "RefNotPermitted"},
   og : Nat]

(* What upsertCondition leaves of a condition's type: the new status and   *)
(* generation.                                                             *)
Cond(st, g) == [st |-> st, og |-> g]

Versions ==
  [gen : Nat, spec : Specs, acc : Nat, prog : Conditions,
   ls : [Listeners -> [prog : Conditions, res : Conditions]]]

(* A Gateway as its creator wrote it, without status.                      *)
NewGateway(s) ==
  [gen |-> 1, spec |-> s, acc |-> 0, prog |-> Cond("none", 0),
   ls |-> [l \in Listeners |-> [prog |-> Cond("none", 0), res |-> Cond("none", 0)]]]

Api == Last(<<cache>> \o stream)
Exists(v) == v.gen > 0

(* The agentgateway Deployment and Service.                                *)
InfraStates == [dep : {"absent", "pending", "available"},
                svc : {"absent", "pending", "addressed"}]
NoInfra == [dep |-> "absent", svc |-> "absent"]

Stages == {"accept", "resolve", "program"}
PCs == {"off", "get", "cleanup", "validate", "provision", "waitAvailable",
        "waitAddress", "backoff", "done"} \cup Stages
       \cup {"accept!", "resolve!", "program!"}

TypeOK ==
  /\ cache \in Versions /\ stream \in Seq(Versions)
  /\ events \in Nat
  /\ permitted \subseteq Refs /\ present \subseteq Refs
  /\ infra \in InfraStates
  /\ Queue!TypeOK
  /\ pc \in PCs
  /\ attempt \in 0 .. MaxAttempts
  /\ gw \in [gen : Nat, spec : Specs]
  /\ bad \in [l : 0 .. N, reason : {"", "InvalidCertificateRef", "RefNotPermitted"}]
  /\ read \in Versions /\ newest \in BOOLEAN
  /\ tries \in 0 .. ConflictSteps
  /\ gaveUp \in BOOLEAN /\ swallowed \in BOOLEAN
  /\ validated \subseteq Nat
  /\ edits \in 0 .. MaxEdits /\ assets \in 0 .. MaxAssets
  /\ failures \in 0 .. MaxFailures

NoGateway == [gen |-> 0, spec |-> CHOOSE s \in Specs : TRUE]
NotRead == [NewGateway(CHOOSE s \in Specs : TRUE) EXCEPT !.gen = 0]
NoBad == [l |-> 0, reason |-> ""]

(* The controller starts: the informer lists an existing Gateway and calls *)
(* the handler's AddFunc for it.                                           *)
Init ==
  /\ \E s \in Specs : cache = NewGateway(s)
  /\ stream = <<>> /\ events = 1
  /\ permitted \in SUBSET Refs /\ present \in SUBSET Refs
  /\ infra = NoInfra
  /\ Queue!Init
  /\ pc = "off" /\ attempt = 0
  /\ gw = NoGateway /\ bad = NoBad /\ read = NotRead /\ newest = FALSE /\ tries = 0
  /\ gaveUp = FALSE /\ swallowed = FALSE /\ validated = {}
  /\ edits = 0 /\ assets = 0 /\ failures = 0

-----------------------------------------------------------------------------
(***************************************************************************)
(* The member API server, its users, and the infra cluster.                *)
(***************************************************************************)

(* A new version of the Gateway is stored: what was read is not newest.    *)
Store(v) ==
  /\ stream' = Append(stream, v)
  /\ newest' = FALSE

Edit(s) ==
  /\ edits < MaxEdits
  /\ Exists(Api) /\ s # Api.spec
  /\ Store([Api EXCEPT !.gen = @ + 1, !.spec = s])
  /\ edits' = edits + 1
  /\ UNCHANGED <<cache, events, worldVars, queueVars, pc, attempt, gw, bad, read,
                 tries, outcomeVars, assets, failures>>

Delete ==
  /\ edits < MaxEdits
  /\ Exists(Api)
  /\ Store([Api EXCEPT !.gen = 0])
  /\ edits' = edits + 1
  /\ UNCHANGED <<cache, events, worldVars, queueVars, pc, attempt, gw, bad, read,
                 tries, outcomeVars, assets, failures>>

(* S with r added if it was missing, removed if it was there.              *)
Toggle(S, r) == (S \ {r}) \cup ({r} \ S)

(* A ReferenceGrant is created or deleted; the refresh handler calls       *)
(* enqueueAll, which lists the Gateways in the cache.                      *)
GrantChanges(r) ==
  /\ assets < MaxAssets
  /\ assets' = assets + 1
  /\ permitted' = Toggle(permitted, r)
  /\ events' = IF Exists(cache) THEN events + 1 ELSE events
  /\ UNCHANGED <<cache, stream, present, infra, queueVars, pc, attempt, callVars,
                 outcomeVars, edits, failures>>

(* An infra Secret is created, deleted or loses a key.  No event.          *)
SecretChanges(r) ==
  /\ assets < MaxAssets
  /\ assets' = assets + 1
  /\ present' = Toggle(present, r)
  /\ UNCHANGED <<storeVars, permitted, infra, queueVars, pc, attempt, callVars,
                 outcomeVars, edits, failures>>

DeploymentAvailable ==
  /\ infra.dep = "pending"
  /\ infra' = [infra EXCEPT !.dep = "available"]
  /\ UNCHANGED <<storeVars, permitted, present, queueVars, pc, attempt, callVars,
                 outcomeVars, userVars>>

AddressAssigned ==
  /\ infra.svc = "pending"
  /\ infra' = [infra EXCEPT !.svc = "addressed"]
  /\ UNCHANGED <<storeVars, permitted, present, queueVars, pc, attempt, callVars,
                 outcomeVars, userVars>>

-----------------------------------------------------------------------------
(***************************************************************************)
(* The informer, newGatewayHandler and the queue.                          *)
(***************************************************************************)

(* objectChanged for updates; deletions always call the handler.           *)
ObjectChanged(old, new) == old.gen # new.gen

Sync ==
  /\ stream # <<>>
  /\ cache' = Head(stream)
  /\ stream' = Tail(stream)
  /\ events' = IF ObjectChanged(cache, Head(stream)) THEN events + 1 ELSE events
  /\ UNCHANGED <<worldVars, queueVars, pc, attempt, callVars, outcomeVars, userVars>>

HandleEvent ==
  /\ events > 0
  /\ events' = events - 1
  /\ Queue!Enqueue(Gw)
  /\ UNCHANGED <<cache, stream, worldVars, pc, attempt, callVars, outcomeVars, userVars>>

(* Mutant: no periodic refresh.                                            *)
PeriodicRefreshOff == FALSE /\ UNCHANGED vars

(* startGatewayPeriodicRefresh: every three hours, for listed Gateways.    *)
PeriodicRefresh ==
  /\ Exists(cache)
  /\ Queue!Enqueue(Gw)
  /\ UNCHANGED <<storeVars, worldVars, pc, attempt, callVars, outcomeVars, userVars>>

-----------------------------------------------------------------------------
(***************************************************************************)
(* reconcileWithRetries around Reconcile.                                  *)
(***************************************************************************)
Begin ==
  /\ pc = "off"
  /\ Queue!Begin(Gw)
  /\ pc' = "get" /\ attempt' = 1
  /\ gaveUp' = FALSE /\ swallowed' = FALSE
  /\ UNCHANGED <<storeVars, worldVars, callVars, validated, userVars>>

(* Mutant: one attempt too many.                                           *)
RetryOffByOne ==
  /\ pc = "backoff"
  /\ IF attempt <= MaxAttempts
     THEN pc' = "get" /\ attempt' = attempt + 1 /\ UNCHANGED gaveUp
     ELSE pc' = "done" /\ gaveUp' = TRUE /\ UNCHANGED attempt
  /\ gw' = NoGateway /\ bad' = NoBad /\ read' = NotRead /\ newest' = FALSE /\ tries' = 0
  /\ UNCHANGED <<storeVars, worldVars, queueVars, swallowed, validated, userVars>>

Retry ==
  /\ pc = "backoff"
  /\ IF attempt < MaxAttempts
     THEN pc' = "get" /\ attempt' = attempt + 1 /\ UNCHANGED gaveUp
     ELSE pc' = "done" /\ gaveUp' = TRUE /\ UNCHANGED attempt
  /\ gw' = NoGateway /\ bad' = NoBad /\ read' = NotRead /\ newest' = FALSE /\ tries' = 0
  /\ UNCHANGED <<storeVars, worldVars, queueVars, swallowed, validated, userVars>>

Finish ==
  /\ pc = "done"
  /\ Queue!Finish(Gw)
  /\ pc' = "off" /\ attempt' = 0
  /\ gw' = NoGateway /\ bad' = NoBad /\ read' = NotRead /\ newest' = FALSE /\ tries' = 0
  /\ UNCHANGED <<storeVars, worldVars, outcomeVars, userVars>>

(* Apply creates what is missing and updates what is there.                *)
ApplyDeployment(i) == IF i.dep = "absent" THEN [i EXCEPT !.dep = "pending"] ELSE i
ApplyService(i) == IF i.svc = "absent" THEN [i EXCEPT !.svc = "pending"] ELSE i

(* What a failed attempt may leave of the data plane: the calls before the *)
(* failed one have taken effect.                                           *)
LeftBehind ==
  CASE pc = "provision" -> {infra, ApplyDeployment(infra)}
    [] pc = "cleanup"   -> {infra, [infra EXCEPT !.dep = "absent"], NoInfra}
    [] OTHER            -> {infra}

(* A call to either API server fails, or a wait runs into the deadline of  *)
(* the attempt: Reconcile returns the error, except that MarkProgrammed's  *)
(* is only logged.                                                         *)
Fails ==
  /\ failures < MaxFailures
  /\ failures' = failures + 1
  /\ infra' \in LeftBehind
  /\ \/ /\ pc \in {"cleanup", "accept!", "resolve!", "provision", "waitAvailable",
                   "waitAddress"}
        /\ pc' = "backoff"
        /\ UNCHANGED swallowed
     \/ /\ pc = "program!"
        /\ pc' = "done"
        /\ swallowed' = TRUE
  /\ UNCHANGED <<storeVars, permitted, present, queueVars, attempt, callVars, gaveUp,
                 validated, edits, assets>>

-----------------------------------------------------------------------------
(***************************************************************************)
(* The status writers, as functions of the version they read.              *)
(***************************************************************************)

(* Programmed is reset unless it is True for this generation.              *)
Pending(c, g) == IF c.st = "True" /\ c.og = g THEN c ELSE Cond("Unknown", g)

(* Mutant: Programmed is reset by every reconcile.                         *)
MarkAcceptedResets(v) ==
  [v EXCEPT !.acc = v.gen,
            !.prog = Cond("Unknown", v.gen),
            !.ls = [l \in Listeners |-> [prog |-> Cond("Unknown", v.gen),
                                         res |-> Cond("True", v.gen)]]]

MarkAccepted(v) ==
  [v EXCEPT !.acc = v.gen,
            !.prog = Pending(v.prog, v.gen),
            !.ls = [l \in Listeners |-> [prog |-> Pending(v.ls[l].prog, v.gen),
                                         res |-> Cond("True", v.gen)]]]

(* Only listeners that have a status entry are touched.                    *)
MarkProgrammed(v) ==
  [v EXCEPT !.prog = Cond("True", v.gen),
            !.ls = [l \in Listeners |->
                      IF v.ls[l].res.st = "none" THEN v.ls[l]
                      ELSE [v.ls[l] EXCEPT !.prog = Cond("True", v.gen)]]]

MarkListenerResolvedRefs(v, l, reason) ==
  IF v.ls[l].res.st = "none" THEN v
  ELSE [v EXCEPT !.ls[l].res = Cond(reason, v.gen)]

Mark(stage, v) ==
  CASE stage = "accept"  -> MarkAccepted(v)
    [] stage = "program" -> MarkProgrammed(v)
    [] stage = "resolve" -> MarkListenerResolvedRefs(v, bad.l, bad.reason)

(* Where Reconcile goes when a writer returned nil, or an error.           *)
AfterMark(stage) ==
  CASE stage = "accept"  -> "validate"
    [] stage = "program" -> "done"
    [] stage = "resolve" -> "backoff"

(* Mutant: no writer's error ends the attempt.                             *)
AfterMarkErrorSwallowed(stage) == "done"

AfterMarkError(stage) == IF stage = "program" THEN "done" ELSE "backoff"

Writing(stage) ==
  CASE stage = "accept"  -> "accept!"
    [] stage = "program" -> "program!"
    [] stage = "resolve" -> "resolve!"

(* With Lag = FALSE the goroutine never reads a cache that is behind.      *)
CacheReady == Lag \/ stream = <<>>

(* The Get of a Mark function and the DeepEqual of old and new status.     *)
ReadStatus(stage) ==
  /\ pc = stage /\ CacheReady
  /\ IF ~Exists(cache)
     THEN pc' = AfterMarkError(stage) /\ UNCHANGED <<read, newest>>
     ELSE IF Mark(stage, cache) = cache
     THEN pc' = AfterMark(stage) /\ UNCHANGED <<read, newest>>
     ELSE pc' = Writing(stage) /\ read' = cache /\ newest' = (stream = <<>>)
  /\ UNCHANGED <<storeVars, worldVars, queueVars, attempt, gw, bad, tries, outcomeVars,
                 userVars>>

(* Mutant: the update is not conditional on the resourceVersion.           *)
WriteStatusUnchecked(stage) ==
  /\ pc = Writing(stage)
  /\ Exists(Api)
  /\ Store([Mark(stage, read) EXCEPT !.gen = Api.gen, !.spec = Api.spec])
  /\ pc' = AfterMark(stage)
  /\ read' = NotRead /\ tries' = 0
  /\ UNCHANGED <<cache, events, worldVars, queueVars, attempt, gw, bad,
                 outcomeVars, userVars>>

(* What was read goes back with its status rewritten; the API server takes *)
(* it while the resourceVersion is that of the newest version.             *)
WriteStatus(stage) ==
  /\ pc = Writing(stage)
  /\ newest
  /\ Store(Mark(stage, read))
  /\ pc' = AfterMark(stage)
  /\ read' = NotRead /\ tries' = 0
  /\ UNCHANGED <<cache, events, worldVars, queueVars, attempt, gw, bad,
                 outcomeVars, userVars>>

(* A conflict is retried with a new Get; a Gateway that is gone is not.    *)
WriteConflict(stage) ==
  /\ pc = Writing(stage)
  /\ ~newest
  /\ IF Exists(Api) /\ tries + 1 < ConflictSteps
     THEN pc' = stage /\ tries' = tries + 1 /\ UNCHANGED swallowed
     ELSE /\ pc' = AfterMarkError(stage) /\ tries' = 0
          /\ swallowed' = (swallowed \/ stage = "program")
  /\ read' = NotRead
  /\ UNCHANGED <<storeVars, worldVars, queueVars, attempt, gw, bad, newest,
                 gaveUp, validated, userVars>>

-----------------------------------------------------------------------------
(***************************************************************************)
(* Reconcile itself.                                                       *)
(***************************************************************************)
GetGateway ==
  /\ pc = "get" /\ CacheReady
  /\ gw' = [gen |-> cache.gen, spec |-> cache.spec]
  /\ pc' = IF Exists(cache) /\ cache.spec.ours THEN "accept" ELSE "cleanup"
  /\ UNCHANGED <<storeVars, worldVars, queueVars, attempt, bad, read, newest, tries,
                 outcomeVars, userVars>>

(* deleteAgentGateway and RefreshIstiod, whose error counts here, for a    *)
(* Gateway that is gone or whose class is not ours.                        *)
Cleanup ==
  /\ pc = "cleanup"
  /\ infra' = NoInfra
  /\ pc' = "done"
  /\ UNCHANGED <<storeVars, permitted, present, queueVars, attempt, callVars, outcomeVars,
                 userVars>>

(* Of a ref: the permission is checked before the Secret.                  *)
Verdict(r) ==
  CASE r = NoRef -> "ok"
    [] r # NoRef /\ r \notin permitted -> "RefNotPermitted"
    [] r \in permitted /\ r \notin present -> "InvalidCertificateRef"
    [] OTHER -> "ok"

BadListeners(s) == {l \in Listeners : Verdict(s.want[l]) # "ok"}

AssetsOK(s) == BadListeners(s) = {} /\ Verdict(s.backend) = "ok"

(* Mutant: a bad certificate is logged and ignored.                        *)
ValidateGatewayTLSAssetsLenient ==
  /\ pc = "validate"
  /\ pc' = "provision"
  /\ UNCHANGED <<storeVars, worldVars, queueVars, attempt, callVars, outcomeVars, userVars>>

(* validateGatewayTLSAssets on the version read first: the first listener  *)
(* with a bad ref is reported; a bad backend ref is an error without one.  *)
ValidateGatewayTLSAssets ==
  /\ pc = "validate"
  /\ IF AssetsOK(gw.spec)
     THEN /\ pc' = "provision"
          /\ validated' = validated \cup {gw.gen}
          /\ UNCHANGED bad
     ELSE IF BadListeners(gw.spec) = {}
     THEN pc' = "backoff" /\ UNCHANGED <<bad, validated>>
     ELSE LET l == Min(BadListeners(gw.spec))
          IN  /\ bad' = [l |-> l, reason |-> Verdict(gw.spec.want[l])]
              /\ pc' = "resolve"
              /\ UNCHANGED validated
  /\ UNCHANGED <<storeVars, worldVars, queueVars, attempt, gw, read, newest, tries,
                 gaveUp, swallowed, userVars>>

(* The ServiceAccount, the member token, the Deployment and the Service    *)
(* are applied, then istiod is refreshed (its error is only logged).       *)
Provision ==
  /\ pc = "provision"
  /\ infra' = ApplyService(ApplyDeployment(infra))
  /\ pc' = "waitAvailable"
  /\ UNCHANGED <<storeVars, permitted, present, queueVars, attempt, callVars, outcomeVars,
                 userVars>>

WaitForAgentGatewayAvailable ==
  /\ pc = "waitAvailable"
  /\ infra.dep = "available"
  /\ pc' = "waitAddress"
  /\ UNCHANGED <<storeVars, worldVars, queueVars, attempt, callVars, outcomeVars, userVars>>

WaitForAgentGatewayAddresses ==
  /\ pc = "waitAddress"
  /\ infra.svc = "addressed"
  /\ pc' = "program"
  /\ UNCHANGED <<storeVars, worldVars, queueVars, attempt, callVars, outcomeVars, userVars>>

-----------------------------------------------------------------------------
Reconcile ==
  \/ GetGateway \/ Cleanup \/ ValidateGatewayTLSAssets \/ Provision
  \/ WaitForAgentGatewayAvailable \/ WaitForAgentGatewayAddresses
  \/ \E stage \in Stages : ReadStatus(stage) \/ WriteStatus(stage) \/ WriteConflict(stage)

Goroutine == Begin \/ Reconcile \/ Fails \/ Retry \/ Finish

Environment ==
  \/ \E s \in Specs : Edit(s)
  \/ Delete
  \/ \E r \in Refs : GrantChanges(r) \/ SecretChanges(r)
  \/ DeploymentAvailable \/ AddressAssigned

Next == Environment \/ Sync \/ HandleEvent \/ PeriodicRefresh \/ Goroutine

Spec == Init /\ [][Next]_vars

(* The watch and the goroutine make progress, the infra cluster brings up  *)
(* what was applied, and the ticker of the periodic refresh fires.  Users  *)
(* owe nothing, and failures are bounded by MaxFailures only.              *)
FairSpec ==
  /\ Spec
  /\ WF_vars(Sync) /\ WF_vars(HandleEvent) /\ WF_vars(Goroutine)
  /\ WF_vars(DeploymentAvailable) /\ WF_vars(AddressAssigned)
  /\ WF_vars(PeriodicRefresh /\ phase[Gw] = "idle")

-----------------------------------------------------------------------------
(***************************************************************************)
(* Properties.                                                             *)
(***************************************************************************)
ProgrammedNow(v) == v.prog = Cond("True", v.gen)

AtRest == phase[Gw] = "idle" /\ events = 0 /\ stream = <<>>

(* A status write of the controller lands on the version it was computed   *)
(* from: it leaves generation and spec alone and every condition it        *)
(* changes is stamped with the generation the API server then holds, even  *)
(* though each Mark function reads a lagging cache.                        *)
StatusWritesAreCurrent ==
  [][ LET written == stream' # stream /\ Len(stream') > Len(stream) /\ edits' = edits
          Stamped(old, new) == new # old => new.og = Api.gen
      IN  written =>
            /\ Api'.gen = Api.gen /\ Api'.spec = Api.spec
            /\ Stamped(Api.prog, Api'.prog)
            /\ \A l \in Listeners :
                 /\ Stamped(Api.ls[l].prog, Api'.ls[l].prog)
                 /\ Stamped(Api.ls[l].res, Api'.ls[l].res) ]_vars

(* A Gateway that is Programmed for its generation does not flap: neither  *)
(* a refresh nor a failed reconcile resets the condition while the spec    *)
(* stays as it is.                                                         *)
ProgrammedIsStable ==
  [][ ProgrammedNow(Api) /\ Api'.gen = Api.gen => ProgrammedNow(Api') ]_vars

(* Programmed=True is never written before the TLS assets of some version  *)
(* of the spec, this one or an earlier one, passed validation.             *)
ProgrammedAfterValidation ==
  Exists(Api) /\ Api.prog.st = "True" => \E g \in validated : g <= Api.prog.og

(* When all events are processed and the last reconcile did not give up,   *)
(* status and data plane are those of the last version: a Gateway of ours  *)
(* is Programmed=True for its generation, on itself and every listener,    *)
(* unless MarkProgrammed's error was swallowed; one that was deleted or    *)
(* moved to another class leaves no data plane behind.                     *)
SettledGateway ==
  AtRest /\ ~gaveUp =>
    IF Exists(Api) /\ Api.spec.ours
    THEN swallowed \/ /\ Api.acc = Api.gen
                      /\ ProgrammedNow(Api)
                      /\ \A l \in Listeners : Api.ls[l].prog = Cond("True", Api.gen)
    ELSE infra = NoInfra

(* If users leave a Gateway with valid TLS assets alone, it ends up        *)
(* Programmed for its last generation, although infra Secrets raise no     *)
(* events and MarkProgrammed's errors are swallowed: the periodic refresh  *)
(* repairs both.                                                           *)
EventuallyProgrammed ==
  <>[](Exists(Api) /\ Api.spec.ours /\ AssetsOK(Api.spec)) => <>[]ProgrammedNow(Api)

-----------------------------------------------------------------------------
(* README.md: "Declared frontend/backend TLS assets must exist with        *)
(* required keys before a Gateway can become Programmed=True".  At rest, a *)
(* Gateway that is Programmed for its generation had the assets of that    *)
(* generation validated.                                                   *)
ProgrammedAssetsExist ==
  AtRest /\ Exists(Api) /\ ProgrammedNow(Api) => Api.gen \in validated
=============================================================================
