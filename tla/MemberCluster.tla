---------------------------- MODULE MemberCluster ----------------------------
(***************************************************************************)
(* The event path of one tenant: informers of the member cluster, the      *)
(* handlers of controller/internal/membercluster/handler.go, the fan-out   *)
(* to all Gateways, the periodic refresh and a restart of the controller.  *)
(* Work is queued per Gateway as KeyQueue promises; a reconcile reads the  *)
(* caches and writes the Gateway's objects in the infra cluster.           *)
(*                                                                         *)
(* Service, Secret, ConfigMap and Namespace objects have no                *)
(* metadata.generation; Gateway API objects do.  A version of an object is *)
(* [there, gen, rev], where rev changes with every change of its content.  *)
(***************************************************************************)
EXTENDS Naturals, Sequences, SequencesExt

CONSTANTS
  Gateways,       \* keys of Gateways
  Routes,         \* other watched objects with a generation
  Services,       \* watched objects without one
  MaxEdits,       \* bound: writes by users
  MaxFailures,    \* bound: runs in which all attempts fail
  MaxCrashes      \* bound: restarts of the controller

ASSUME KindsAssumption ==
  Gateways \cap Routes = {} /\ Gateways \cap Services = {} /\ Routes \cap Services = {}
ASSUME BoundsAssumption == MaxEdits \in Nat /\ MaxFailures \in Nat /\ MaxCrashes \in Nat

Others == Routes \cup Services
Objects == Gateways \cup Others

VARIABLES
  cache, stream,  \* of each object: the informer's version, the ones after it
  pending,        \* objects whose handler call has not been made yet
  missed,         \* objects replaced by another without a handler call
  phase, dirty,   \* the queue, one key per Gateway
  saw,            \* of each Gateway: what its running reconcile read
  infra,          \* of each Gateway: what its objects were rendered from
  failed,         \* Gateways whose last run gave up
  edits, failures, crashes

storeVars == <<cache, stream, pending, missed>>
queueVars == <<phase, dirty>>
bounds == <<edits, failures, crashes>>
vars == <<cache, stream, pending, missed, phase, dirty, saw, infra, failed, edits, failures,
          crashes>>

Queue == INSTANCE KeyQueue WITH Keys <- Gateways

Versions == [there : BOOLEAN, gen : Nat, rev : Nat]
Absent(rev) == [there |-> FALSE, gen |-> 0, rev |-> rev]

(* What the rendering of Gateway k depends on.                             *)
Inputs(k) == {k} \cup Others
NoInfra == <<>>

Api(o) == Last(<<cache[o]>> \o stream[o])

TypeOK ==
  /\ cache \in [Objects -> Versions]
  /\ stream \in [Objects -> Seq(Versions)]
  /\ pending \subseteq Objects /\ missed \subseteq Objects
  /\ Queue!TypeOK
  /\ \A k \in Gateways : saw[k] \in [Inputs(k) -> Versions] \cup {NoInfra}
  /\ \A k \in Gateways : infra[k] \in [Inputs(k) -> Versions] \cup {NoInfra}
  /\ failed \subseteq Gateways
  /\ edits \in 0 .. MaxEdits /\ failures \in 0 .. MaxFailures /\ crashes \in 0 .. MaxCrashes

(* A controller that starts with empty caches against these objects: the   *)
(* informers list what is there and report each object as added.           *)
Listing(objs) ==
  /\ cache' = [o \in Objects |-> Absent(objs[o].rev)]
  /\ stream' = [o \in Objects |-> IF objs[o].there THEN <<objs[o]>> ELSE <<>>]

NewGeneration(o, g) == IF o \in Services THEN 0 ELSE g + 1

Init ==
  /\ cache = [o \in Objects |-> Absent(0)]
  /\ \E S \in SUBSET Objects :
       stream = [o \in Objects |->
                   IF o \in S
                   THEN <<[there |-> TRUE, gen |-> NewGeneration(o, 0), rev |-> 0]>>
                   ELSE <<>>]
  /\ pending = {} /\ missed = {}
  /\ Queue!Init
  /\ saw = [k \in Gateways |-> NoInfra]
  /\ infra = [k \in Gateways |-> NoInfra]
  /\ failed = {}
  /\ edits = 0 /\ failures = 0 /\ crashes = 0

-----------------------------------------------------------------------------
(* Users create, change or delete an object.                               *)
Edit(o) ==
  /\ edits < MaxEdits
  /\ edits' = edits + 1
  /\ \E v \in {[there |-> TRUE, gen |-> NewGeneration(o, Api(o).gen), rev |-> Api(o).rev + 1]}
            \cup (IF Api(o).there THEN {Absent(Api(o).rev + 1)} ELSE {}) :
       stream' = [stream EXCEPT ![o] = Append(@, v)]
  /\ UNCHANGED <<cache, pending, missed, queueVars, saw, infra, failed, failures, crashes>>

-----------------------------------------------------------------------------
(***************************************************************************)
(* Informers and handlers.  A second call for an object whose first call   *)
(* is still to be made adds nothing, so the calls are a set.               *)
(***************************************************************************)

(* Mutant: updates are not reported.                                       *)
HandlerCallsNoUpdate(old, new) == old.there # new.there

(* AddFunc, DeleteFunc, and UpdateFunc if objectChanged: the last compares *)
(* generations only (and deletion timestamps, which these objects lack).   *)
HandlerCalls(old, new) == old.there # new.there \/ old.gen # new.gen

(* The cache moves on to the n-th of the versions to come, and the handler *)
(* sees that one and the one before.                                       *)
Observe(o, n) ==
  /\ cache' = [cache EXCEPT ![o] = stream[o][n]]
  /\ stream' = [stream EXCEPT ![o] = SubSeq(@, n + 1, Len(@))]
  /\ IF HandlerCalls(cache[o], stream[o][n])
     THEN pending' = pending \cup {o} /\ missed' = missed \ {o}
     ELSE pending' = pending /\ missed' = IF n > 1 THEN missed \cup {o} ELSE missed
  /\ UNCHANGED <<queueVars, saw, infra, failed, bounds>>

Sync(o) == stream[o] # <<>> /\ Observe(o, 1)

(* A watch that broke is replaced by a list: what happened between is      *)
(* never seen, and a deletion and re-creation looks like an update.        *)
Relist(o) == Len(stream[o]) > 1 /\ Observe(o, Len(stream[o]))

(* enqueueAllGateways: the Gateways listed in the cache.                   *)
EnqueueAllGateways == Queue!EnqueueAll({k \in Gateways : cache[k].there})

(* newGatewayHandler for a Gateway, newGatewayRefreshHandler for others.   *)
HandleEvent(o) ==
  /\ o \in pending
  /\ pending' = pending \ {o}
  /\ IF o \in Gateways THEN Queue!Enqueue(o) ELSE EnqueueAllGateways
  /\ UNCHANGED <<cache, stream, missed, saw, infra, failed, bounds>>

(* Mutant: the ticker is never started.                                    *)
PeriodicRefreshOff == FALSE /\ UNCHANGED vars

PeriodicRefresh ==
  /\ EnqueueAllGateways
  /\ UNCHANGED <<storeVars, saw, infra, failed, bounds>>

-----------------------------------------------------------------------------
(***************************************************************************)
(* One run of reconcileWithRetries for Gateway k.                          *)
(***************************************************************************)
Read(k) == saw' = [saw EXCEPT ![k] = [o \in Inputs(k) |-> cache[o]]]

Begin(k) ==
  /\ Queue!Begin(k)
  /\ Read(k)
  /\ UNCHANGED <<storeVars, infra, failed, bounds>>

(* A failed attempt is followed by one that reads again.                   *)
NextAttempt(k) ==
  /\ phase[k] = "busy"
  /\ Read(k)
  /\ UNCHANGED <<storeVars, queueVars, infra, failed, bounds>>

(* Mutant: what the Gateway refers to is left out.                         *)
OutcomeAlone(k) == IF saw[k][k].there THEN [o \in {k} |-> saw[k][o]] ELSE NoInfra

(* Reconcile renders the Gateway's objects, or deletes them.               *)
Outcome(k) == IF saw[k][k].there THEN saw[k] ELSE NoInfra

Succeed(k) ==
  /\ Queue!Finish(k)
  /\ infra' = [infra EXCEPT ![k] = Outcome(k)]
  /\ failed' = failed \ {k}
  /\ saw' = [saw EXCEPT ![k] = NoInfra]
  /\ UNCHANGED <<storeVars, bounds>>

(* All attempts failed; some of the objects may have been written.         *)
GiveUp(k) ==
  /\ failures < MaxFailures
  /\ failures' = failures + 1
  /\ Queue!Finish(k)
  /\ \E v \in {infra[k], Outcome(k)} : infra' = [infra EXCEPT ![k] = v]
  /\ failed' = failed \cup {k}
  /\ saw' = [saw EXCEPT ![k] = NoInfra]
  /\ UNCHANGED <<storeVars, edits, crashes>>

(* The process dies, or loses the lease, at any point; the next leader     *)
(* starts with nothing but the two clusters.                               *)
Crash ==
  /\ crashes < MaxCrashes
  /\ crashes' = crashes + 1
  /\ Listing([o \in Objects |-> Api(o)])
  /\ pending' = {} /\ missed' = {}
  /\ phase' = [k \in Gateways |-> "idle"] /\ dirty' = {}
  /\ saw' = [k \in Gateways |-> NoInfra]
  /\ failed' = {}
  /\ UNCHANGED <<infra, edits, failures>>

-----------------------------------------------------------------------------
Next ==
  \/ \E o \in Objects : Edit(o) \/ Sync(o) \/ Relist(o) \/ HandleEvent(o)
  \/ PeriodicRefresh
  \/ \E k \in Gateways : Begin(k) \/ NextAttempt(k) \/ Succeed(k) \/ GiveUp(k)
  \/ Crash

Spec == Init /\ [][Next]_vars

(* Watches deliver, handlers run, a run of the retry loop ends, and the    *)
(* ticker fires.                                                           *)
FairSpec ==
  /\ Spec
  /\ \A o \in Objects : WF_vars(Sync(o)) /\ WF_vars(HandleEvent(o))
  /\ \A k \in Gateways : WF_vars(Begin(k)) /\ WF_vars(Succeed(k) \/ GiveUp(k))
  /\ WF_vars(PeriodicRefresh)

-----------------------------------------------------------------------------
AtRest ==
  /\ \A o \in Objects : stream[o] = <<>>
  /\ pending = {}
  /\ \A k \in Gateways : phase[k] = "idle"

(* What an event must carry into the infra cluster: of objects with a      *)
(* generation everything, of the others, and of an object deleted and      *)
(* re-created while the watch was broken, whether it exists.               *)
Fresh(k, o) ==
  IF o \in Services \cup missed
  THEN infra[k][o].there = cache[o].there
  ELSE infra[k][o] = cache[o]

(* When every event has been processed, the infra objects of a Gateway are *)
(* rendered from what the member cluster holds, whatever the order in      *)
(* which watches, relists, fan-outs, running reconciles and restarts met,  *)
(* and those of a deleted Gateway are gone if the controller was there all *)
(* the time, unless the last run gave up.  Fresh says what no event tells. *)
Converged ==
  AtRest => \A k \in Gateways \ failed :
    IF cache[k].there
    THEN infra[k] # NoInfra /\ \A o \in Inputs(k) : Fresh(k, o)
    ELSE crashes > 0 \/ infra[k] = NoInfra

(* With the periodic refresh, every existing Gateway is eventually         *)
(* rendered from the final state of everything it depends on, updates of   *)
(* objects without a generation, runs that gave up and relists included.   *)
EventuallyFresh ==
  <>[](\A k \in Gateways : Api(k).there => infra[k] = [o \in Inputs(k) |-> Api(o)])

-----------------------------------------------------------------------------
(* docs/design.md: "Clean up managed infra objects when a Gateway is       *)
(* deleted or no longer targets this controller".                          *)
DeletedMeansCleanedUp ==
  AtRest /\ failed = {} => \A k \in Gateways : ~cache[k].there => infra[k] = NoInfra
=============================================================================
