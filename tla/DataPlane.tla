------------------------------ MODULE DataPlane ------------------------------
(***************************************************************************)
(* The infra objects of one name, request by request: provisioner.Apply    *)
(* (controller/internal/provisioner/apply.go) and                          *)
(* deleteManagedGatewayObject (controller/internal/gateway/reconciler.go), *)
(* called by the goroutines of the Gateways that have this object name.    *)
(* AgentGatewayObjectName is gw-<namespace>-<name>, so there may be more   *)
(* than one (a/b-c and a-b/c); Gateways of other names touch other         *)
(* objects.                                                                *)
(*                                                                         *)
(* Reads come from the manager's cache of the infra cluster, which lags:   *)
(* cache is what a Get returns, stream the versions after it.  An update   *)
(* carries the resourceVersion that was read; a creation and a deletion    *)
(* carry nothing.                                                          *)
(***************************************************************************)
EXTENDS Naturals, Sequences, SequencesExt

CONSTANTS
  Gateways,       \* Gateways of our class with this object name
  Kinds,          \* the objects of a Gateway, in the order of the calls
  MaxAttempts,    \* 3 in reconcileWithRetries
  MaxEdits,       \* bound: changes by users and other owners
  MaxFailures     \* bound: failed requests and waits

ASSUME KindsAssumption == Kinds \in Seq(STRING) /\ Kinds # <<>>
ASSUME BoundsAssumption ==
  MaxAttempts \in Nat \ {0} /\ MaxEdits \in Nat /\ MaxFailures \in Nat

Objects == Range(Kinds)

VARIABLES
  want,           \* generation of each member Gateway, 0 when it does not exist
  known,          \* the Gateways that have existed
  cache, stream,  \* of each object
  phase, dirty,   \* the queue of Gateways
  pc, attempt,    \* of each Gateway's goroutine
  gen,            \* the generation its attempt read, 0 for a cleanup
  step,           \* index in Kinds of the object it is at
  newest,         \* the version it is about to update is still the newest
  failed,         \* Gateways whose last run gave up
  misled,         \* Gateways whose last run believed a cache that was behind
  edits, failures

queueVars == <<phase, dirty>>
storeVars == <<cache, stream>>
runVars == <<pc, attempt, gen, step, newest>>
outcomeVars == <<failed, misled>>
vars == <<want, known, cache, stream, phase, dirty, pc, attempt, gen, step, newest,
          failed, misled, edits, failures>>

Queue == INSTANCE KeyQueue WITH Keys <- Gateways

(* A version: who manages it by its label (nobody when it does not exist,  *)
(* "" without a label), the Gateway of its annotations and the generation  *)
(* it was rendered from.                                                   *)
Versions ==
  [by : {"nobody", "", "other"}] \cup [by : {"ours"}, gw : Gateways, gen : Nat]

Absent == [by |-> "nobody"]
Rendered(g, n) == [by |-> "ours", gw |-> g, gen |-> n]

Api(o) == Last(<<cache[o]>> \o stream[o])
There(v) == v.by # "nobody"
At(g) == Kinds[step[g]]

PCs == {"off", "get", "create", "update", "delete", "wait", "error"}

TypeOK ==
  /\ want \in [Gateways -> Nat] /\ known \subseteq Gateways
  /\ cache \in [Objects -> Versions] /\ stream \in [Objects -> Seq(Versions)]
  /\ Queue!TypeOK
  /\ pc \in [Gateways -> PCs]
  /\ attempt \in [Gateways -> 0 .. MaxAttempts]
  /\ gen \in [Gateways -> Nat]
  /\ step \in [Gateways -> 1 .. Len(Kinds)]
  /\ newest \in [Gateways -> BOOLEAN]
  /\ failed \subseteq Gateways /\ misled \subseteq Gateways
  /\ edits \in 0 .. MaxEdits /\ failures \in 0 .. MaxFailures

Init ==
  /\ known \in SUBSET Gateways
  /\ want = [g \in Gateways |-> IF g \in known THEN 1 ELSE 0]
  /\ cache = [o \in Objects |-> Absent] /\ stream = [o \in Objects |-> <<>>]
  /\ phase = [g \in Gateways |-> IF g \in known THEN "queued" ELSE "idle"] /\ dirty = {}
  /\ pc = [g \in Gateways |-> "off"] /\ attempt = [g \in Gateways |-> 0]
  /\ gen = [g \in Gateways |-> 0] /\ step = [g \in Gateways |-> 1]
  /\ newest = [g \in Gateways |-> FALSE]
  /\ failed = {} /\ misled = {}
  /\ edits = 0 /\ failures = 0

-----------------------------------------------------------------------------
(***************************************************************************)
(* Users, other owners of objects, and the manager's cache.                *)
(***************************************************************************)
Store(o, v) ==
  /\ stream' = [stream EXCEPT ![o] = Append(@, v)]
  /\ newest' = [g \in Gateways |-> newest[g] /\ At(g) # o]
  /\ UNCHANGED cache

(* A Gateway is changed, deleted or created; its event is enqueued.        *)
EditGateway(g) ==
  /\ edits < MaxEdits
  /\ edits' = edits + 1
  /\ \E n \in {edits + 2} \cup (IF want[g] > 0 THEN {0} ELSE {}) :
       want' = [want EXCEPT ![g] = n]
  /\ known' = known \cup {g}
  /\ Queue!Enqueue(g)
  /\ UNCHANGED <<storeVars, runVars, outcomeVars, failures>>

(* Somebody creates an object of that name, labels ours as theirs, or      *)
(* writes the status of ours, which changes its resourceVersion only.      *)
OthersWrite(o, v) ==
  /\ edits < MaxEdits
  /\ edits' = edits + 1
  /\ v = Api(o) => There(v)
  /\ Store(o, v)
  /\ UNCHANGED <<want, known, queueVars, pc, attempt, gen, step, outcomeVars, failures>>

Sync(o) ==
  /\ stream[o] # <<>>
  /\ cache' = [cache EXCEPT ![o] = Head(stream[o])]
  /\ stream' = [stream EXCEPT ![o] = Tail(@)]
  /\ UNCHANGED <<want, known, queueVars, runVars, outcomeVars, edits, failures>>

-----------------------------------------------------------------------------
(***************************************************************************)
(* The goroutine of a Gateway.                                             *)
(***************************************************************************)
Goto(g, l) == pc' = [pc EXCEPT ![g] = l]

(* The next object, or, after the last one, the waits of a provisioning    *)
(* reconcile; a cleanup has none.                                          *)
Proceed(g) ==
  IF step[g] < Len(Kinds)
  THEN Goto(g, "get") /\ step' = [step EXCEPT ![g] = @ + 1]
  ELSE Goto(g, "wait") /\ UNCHANGED step

(* An attempt starts: Reconcile reads the Gateway.                         *)
StartAttempt(g) ==
  /\ Goto(g, "get")
  /\ attempt' = [attempt EXCEPT ![g] = @ + 1]
  /\ gen' = [gen EXCEPT ![g] = want[g]]
  /\ step' = [step EXCEPT ![g] = 1]

Begin(g) ==
  /\ Queue!Begin(g)
  /\ StartAttempt(g)
  /\ failed' = failed \ {g} /\ misled' = misled \ {g}
  /\ UNCHANGED <<want, known, storeVars, newest, edits, failures>>

(* Mutant: the managed-by label of an existing object is not looked at.    *)
RefusedNever(v) == FALSE

(* prepareForUpdate: an object without the label is adopted.               *)
Refused(v) == v.by = "other"

(* How Apply goes on after reading v.                                      *)
CreateOrUpdate(v) ==
  IF There(v) THEN IF Refused(v) THEN "error" ELSE "update" ELSE "create"

(* Mutant: the annotations are compared the wrong way round.               *)
DeletableOthers(v, g) == v.by = "ours" /\ v.gw # g

(* The label and the annotations in deleteManagedGatewayObject.            *)
Deletable(v, g) == v.by = "ours" /\ v.gw = g

(* The Get of Apply, or of deleteManagedGatewayObject, from the cache.  A  *)
(* run is misled if it acts on an absence, or skips a deletion, that the   *)
(* API server would not confirm.                                           *)
Get(g) ==
  LET o == At(g)  v == cache[o]
  IN  /\ pc[g] = "get"
      /\ IF gen[g] > 0
         THEN /\ Goto(g, CreateOrUpdate(v))
              /\ UNCHANGED <<step, misled>>
         ELSE IF Deletable(v, g)
              THEN Goto(g, "delete") /\ UNCHANGED <<step, misled>>
              ELSE /\ Proceed(g)
                   /\ misled' = IF Deletable(Api(o), g) THEN misled \cup {g} ELSE misled
      /\ newest' = [newest EXCEPT ![g] = (pc'[g] = "update" /\ stream[o] = <<>>)]
      /\ UNCHANGED <<want, known, storeVars, queueVars, attempt, gen, failed, edits, failures>>

(* AlreadyExists is swallowed: the object stays as it is.                  *)
Create(g) ==
  /\ pc[g] = "create"
  /\ Proceed(g)
  /\ IF There(Api(At(g)))
     THEN misled' = misled \cup {g} /\ UNCHANGED <<storeVars, newest>>
     ELSE Store(At(g), Rendered(g, gen[g])) /\ UNCHANGED misled
  /\ UNCHANGED <<want, known, queueVars, attempt, gen, failed, edits, failures>>

(* Mutant: a conflict is taken for success.                                *)
UpdateIgnoresConflict(g) ==
  /\ pc[g] = "update"
  /\ Proceed(g)
  /\ IF newest[g] THEN Store(At(g), Rendered(g, gen[g])) ELSE UNCHANGED <<storeVars, newest>>
  /\ UNCHANGED <<want, known, queueVars, attempt, gen, outcomeVars, edits, failures>>

(* Apply does not retry a conflict: the attempt ends.                      *)
Update(g) ==
  /\ pc[g] = "update"
  /\ IF newest[g]
     THEN Proceed(g) /\ Store(At(g), Rendered(g, gen[g]))
     ELSE Goto(g, "error") /\ UNCHANGED <<step, storeVars, newest>>
  /\ UNCHANGED <<want, known, queueVars, attempt, gen, outcomeVars, edits, failures>>

(* The deletion has no precondition: it takes whatever has the name now.   *)
Delete(g) ==
  /\ pc[g] = "delete"
  /\ IF There(Api(At(g)))
     THEN Proceed(g) /\ Store(At(g), Absent)
     ELSE Goto(g, "error") /\ UNCHANGED <<step, storeVars, newest>>
  /\ UNCHANGED <<want, known, queueVars, attempt, gen, outcomeVars, edits, failures>>

Leave(g) ==
  /\ Queue!Finish(g)
  /\ Goto(g, "off")
  /\ attempt' = [attempt EXCEPT ![g] = 0]
  /\ gen' = [gen EXCEPT ![g] = 0]
  /\ step' = [step EXCEPT ![g] = 1]
  /\ newest' = [newest EXCEPT ![g] = FALSE]
  /\ UNCHANGED <<want, known, storeVars, edits>>

(* The waits poll the cache until the objects are there and ready.         *)
Succeed(g) ==
  /\ pc[g] = "wait"
  /\ gen[g] > 0 => \A o \in Objects : There(cache[o])
  /\ Leave(g)
  /\ UNCHANGED <<outcomeVars, failures>>

(* A request fails, or a wait reaches the deadline of the attempt.         *)
Fails(g) ==
  /\ failures < MaxFailures
  /\ failures' = failures + 1
  /\ pc[g] \in {"get", "create", "update", "delete", "wait"}
  /\ Goto(g, "error")
  /\ newest' = [newest EXCEPT ![g] = FALSE]
  /\ UNCHANGED <<want, known, storeVars, queueVars, attempt, gen, step, outcomeVars, edits>>

(* Mutant: one attempt too many.                                           *)
RetryOffByOne(g) ==
  /\ pc[g] = "error" /\ attempt[g] <= MaxAttempts
  /\ StartAttempt(g)
  /\ misled' = misled \ {g}
  /\ UNCHANGED <<want, known, storeVars, queueVars, newest, failed, edits, failures>>

Retry(g) ==
  /\ pc[g] = "error" /\ attempt[g] < MaxAttempts
  /\ StartAttempt(g)
  /\ misled' = misled \ {g}
  /\ UNCHANGED <<want, known, storeVars, queueVars, newest, failed, edits, failures>>

GiveUp(g) ==
  /\ pc[g] = "error" /\ attempt[g] = MaxAttempts
  /\ Leave(g)
  /\ failed' = failed \cup {g}
  /\ UNCHANGED <<misled, failures>>

-----------------------------------------------------------------------------
Goroutine(g) ==
  \/ Begin(g) \/ Get(g) \/ Create(g) \/ Update(g) \/ Delete(g)
  \/ Succeed(g) \/ Fails(g) \/ Retry(g) \/ GiveUp(g)

Next ==
  \/ \E g \in Gateways : EditGateway(g) \/ Goroutine(g)
  \/ \E o \in Objects : \/ Sync(o)
                        \/ \E v \in {Api(o), [by |-> ""], [by |-> "other"]} : OthersWrite(o, v)

Spec == Init /\ [][Next]_vars

-----------------------------------------------------------------------------
(***************************************************************************)
(* Properties.                                                             *)
(***************************************************************************)
AtRest ==
  /\ \A o \in Objects : stream[o] = <<>>
  /\ \A g \in Gateways : phase[g] = "idle"

Alone(g) == known = {g}

(* Apply never overwrites an object that another manager has labelled,     *)
(* even one that was relabelled between Apply's Get and its Update or that *)
(* the lagging cache still shows as ours.                                  *)
OverwritesOnlyOwn ==
  [][ \A o \in Objects :
        Api(o).by = "other" /\ edits' = edits => Api(o)'.by # "ours" ]_vars

(* When every event is processed, each object of a Gateway that never      *)
(* shared its object name is rendered from the current generation, or gone *)
(* if the Gateway is, unless the last run gave up, was misled by the       *)
(* cache, or somebody else has taken the object since: partial attempts    *)
(* and retries leave nothing behind.                                       *)
SettledObjects ==
  AtRest => \A g \in Gateways \ (failed \cup misled) : Alone(g) =>
    \A o \in Objects :
      LET v == cache[o]
      IN  /\ want[g] > 0 => There(v) /\ (v.by = "ours" => v = Rendered(g, want[g]))
          /\ want[g] = 0 => v.by # "ours"

(* With names that collide too, no object stays annotated with a Gateway   *)
(* that is gone, under the same conditions: the annotations and not the    *)
(* name decide whose cleanup deletes it.                                   *)
NoOrphans ==
  AtRest /\ failed = {} /\ misled = {} =>
    \A o \in Objects : cache[o].by = "ours" => want[cache[o].gw] > 0
=============================================================================
