-------------------------- MODULE GatewayProcessor --------------------------
(***************************************************************************)
(* The per-key work processor of controller/internal/membercluster/        *)
(* handler.go (gatewayProcessor: enqueue, run, reconcileWithRetries).      *)
(*                                                                         *)
(* Event handlers call enqueue from informer goroutines; enqueue starts a  *)
(* goroutine per key and leaves a dirty bit when one is already running;   *)
(* the goroutine reconciles with up to three attempts and then, under the  *)
(* mutex, either ends or starts over when the bit was set.                 *)
(*                                                                         *)
(* The critical sections under p.mu are single actions.  The reconcile     *)
(* call is abstracted to what it must do for level-triggered control: it   *)
(* reads the world when an attempt starts and either succeeds or fails.    *)
(***************************************************************************)
EXTENDS Naturals

CONSTANTS
  Keys,           \* Gateways, by namespaced name
  Goroutines,     \* identities for the goroutines started by "go p.run"
  NoKey,          \* the key of a goroutine that does not exist
  MaxAttempts,    \* 3 in reconcileWithRetries
  MaxChanges      \* bound: changes of one Gateway's world

ASSUME NoKeyAssumption == NoKey \notin Keys
ASSUME MaxAttemptsAssumption == MaxAttempts \in Nat \ {0}
ASSUME MaxChangesAssumption == MaxChanges \in Nat

VARIABLES
  running,        \* keys with an entry in p.states (its running field is TRUE)
  dirty,          \* keys whose entry has dirty = TRUE
  pc, job,        \* of each goroutine: where it is, and the key it serves
  attempt,        \* of each goroutine: the loop variable of reconcileWithRetries
  saw,            \* of each goroutine: the world its current attempt read
  cancelled,      \* p.parentCtx is done
  world,          \* of each key: how often what reconcile depends on changed
  undelivered,    \* keys that changed and whose event has not reached enqueue
  served,         \* of each key: the world the last successful attempt read
  abandoned       \* of each key: the world the last given-up attempt read

threadVars == <<pc, job, attempt, saw>>
lockVars == <<running, dirty>>
worldVars == <<world, undelivered>>
outcomeVars == <<served, abandoned>>
vars == <<running, dirty, pc, job, attempt, saw, cancelled,
          world, undelivered, served, abandoned>>

PCs == {"idle", "attempt", "reconcile", "backoff", "settle"}

TypeOK ==
  /\ running \subseteq Keys
  /\ dirty \subseteq Keys
  /\ pc \in [Goroutines -> PCs]
  /\ job \in [Goroutines -> Keys \cup {NoKey}]
  /\ attempt \in [Goroutines -> 0 .. MaxAttempts]
  /\ saw \in [Goroutines -> 0 .. MaxChanges]
  /\ cancelled \in BOOLEAN
  /\ world \in [Keys -> 0 .. MaxChanges]
  /\ undelivered \subseteq Keys
  /\ served \in [Keys -> 0 .. MaxChanges]
  /\ abandoned \in [Keys -> 0 .. MaxChanges]

Init ==
  /\ running = {} /\ dirty = {}
  /\ pc = [g \in Goroutines |-> "idle"]
  /\ job = [g \in Goroutines |-> NoKey]
  /\ attempt = [g \in Goroutines |-> 0]
  /\ saw = [g \in Goroutines |-> 0]
  /\ cancelled = FALSE
  /\ world = [k \in Keys |-> 0]
  /\ undelivered = {}
  /\ served = [k \in Keys |-> 0]
  /\ abandoned = [k \in Keys |-> 0]

-----------------------------------------------------------------------------
(***************************************************************************)
(* Environment.                                                            *)
(***************************************************************************)

(* Something reconcile(k) depends on changes in the member cluster and in  *)
(* the informer's cache; its event is now on its way to the handler.  The  *)
(* informers stop with the context.                                        *)
Change(k) ==
  /\ world[k] < MaxChanges
  /\ world' = [world EXCEPT ![k] = @ + 1]
  /\ undelivered' = IF cancelled THEN undelivered ELSE undelivered \cup {k}
  /\ UNCHANGED <<lockVars, threadVars, cancelled, outcomeVars>>

(* The manager shuts down, or this replica loses the lease.                *)
Cancel ==
  /\ ~cancelled
  /\ cancelled' = TRUE
  /\ UNCHANGED <<lockVars, threadVars, worldVars, outcomeVars>>

-----------------------------------------------------------------------------
(***************************************************************************)
(* enqueue: the critical section, and "go p.run" when it fell through.     *)
(* Besides the event of a change, enqueue is called by the periodic        *)
(* refresh, so it is enabled with nothing undelivered too.  The ticker     *)
(* stops with the context; an event already on its way still arrives, as   *)
(* enqueue does not look at the context.                                   *)
(***************************************************************************)

(* Mutant: an event for a running key is dropped.                          *)
MarkDirtyDropped(k) ==
  /\ k \in running
  /\ UNCHANGED <<running, dirty, threadVars>>

MarkDirty(k) ==
  /\ k \in running
  /\ dirty' = dirty \cup {k}
  /\ UNCHANGED <<running, threadVars>>

Spawn(k, g) ==
  /\ pc[g] = "idle"
  /\ running' = running \cup {k}
  /\ pc' = [pc EXCEPT ![g] = "attempt"]
  /\ job' = [job EXCEPT ![g] = k]
  /\ attempt' = [attempt EXCEPT ![g] = 0]
  /\ UNCHANGED <<dirty, saw>>

(* Mutant: state.running is not tested.                                    *)
StartUnguarded(k) == \E g \in Goroutines : Spawn(k, g)

Start(k) ==
  /\ k \notin running
  /\ \E g \in Goroutines : Spawn(k, g)

Enqueue(k) ==
  /\ ~cancelled \/ k \in undelivered
  /\ MarkDirty(k) \/ Start(k)
  /\ undelivered' = undelivered \ {k}
  /\ UNCHANGED <<cancelled, world, outcomeVars>>

-----------------------------------------------------------------------------
(***************************************************************************)
(* reconcileWithRetries.                                                   *)
(***************************************************************************)

(* The head of the loop: the next attempt calls p.reconcile, whose reads   *)
(* see the world as it is from here on.                                    *)
BeginAttempt(g) ==
  /\ pc[g] = "attempt"
  /\ pc' = [pc EXCEPT ![g] = "reconcile"]
  /\ attempt' = [attempt EXCEPT ![g] = @ + 1]
  /\ saw' = [saw EXCEPT ![g] = world[job[g]]]
  /\ UNCHANGED <<lockVars, job, cancelled, worldVars, outcomeVars>>

(* p.reconcile returned nil.                                               *)
Succeed(g) ==
  /\ pc[g] = "reconcile"
  /\ pc' = [pc EXCEPT ![g] = "settle"]
  /\ served' = [served EXCEPT ![job[g]] = saw[g]]
  /\ UNCHANGED <<lockVars, job, attempt, saw, cancelled, worldVars, abandoned>>

(* p.reconcile returned an error, its own 30 second timeout included.      *)
Fail(g) ==
  /\ pc[g] = "reconcile"
  /\ pc' = [pc EXCEPT ![g] = "backoff"]
  /\ UNCHANGED <<lockVars, job, attempt, saw, cancelled, worldVars, outcomeVars>>

(* Mutant: one attempt too many.                                           *)
RetryAfterOffByOne(g) ==
  /\ pc[g] = "backoff"
  /\ attempt[g] <= MaxAttempts
  /\ pc' = [pc EXCEPT ![g] = "attempt"]
  /\ UNCHANGED <<lockVars, job, attempt, saw, cancelled, worldVars, outcomeVars>>

(* The timer of the select fires and attempts are left.                    *)
RetryAfter(g) ==
  /\ pc[g] = "backoff"
  /\ attempt[g] < MaxAttempts
  /\ pc' = [pc EXCEPT ![g] = "attempt"]
  /\ UNCHANGED <<lockVars, job, attempt, saw, cancelled, worldVars, outcomeVars>>

(* The last timer fires, or the context is done: reconcileWithRetries      *)
(* returns and the error is dropped.                                       *)
GiveUp(g) ==
  /\ pc[g] = "backoff"
  /\ attempt[g] = MaxAttempts \/ cancelled
  /\ pc' = [pc EXCEPT ![g] = "settle"]
  /\ abandoned' = [abandoned EXCEPT ![job[g]] = saw[g]]
  /\ UNCHANGED <<lockVars, job, attempt, saw, cancelled, worldVars, served>>

-----------------------------------------------------------------------------
(***************************************************************************)
(* run: the critical section after reconcileWithRetries.                   *)
(***************************************************************************)

EndRun(g) ==
  /\ running' = running \ {job[g]}
  /\ pc' = [pc EXCEPT ![g] = "idle"]
  /\ job' = [job EXCEPT ![g] = NoKey]
  /\ attempt' = [attempt EXCEPT ![g] = 0]
  /\ saw' = [saw EXCEPT ![g] = 0]
  /\ UNCHANGED dirty

(* Mutant: state.dirty is not reset before the loop starts over.           *)
RunAgainStaysDirty(g) ==
  /\ pc' = [pc EXCEPT ![g] = "attempt"]
  /\ attempt' = [attempt EXCEPT ![g] = 0]
  /\ UNCHANGED <<running, dirty, job, saw>>

RunAgain(g) ==
  /\ dirty' = dirty \ {job[g]}
  /\ pc' = [pc EXCEPT ![g] = "attempt"]
  /\ attempt' = [attempt EXCEPT ![g] = 0]
  /\ UNCHANGED <<running, job, saw>>

(* Mutant: the bit is tested and the entry deleted without starting over.  *)
SettleIgnoresDirty(g) ==
  /\ pc[g] = "settle"
  /\ running' = running \ {job[g]}
  /\ dirty' = dirty \ {job[g]}
  /\ pc' = [pc EXCEPT ![g] = "idle"]
  /\ job' = [job EXCEPT ![g] = NoKey]
  /\ attempt' = [attempt EXCEPT ![g] = 0]
  /\ UNCHANGED <<saw, cancelled, worldVars, outcomeVars>>

Settle(g) ==
  /\ pc[g] = "settle"
  /\ IF job[g] \in dirty THEN RunAgain(g) ELSE EndRun(g)
  /\ UNCHANGED <<cancelled, worldVars, outcomeVars>>

-----------------------------------------------------------------------------
Step(g) == BeginAttempt(g) \/ Succeed(g) \/ Fail(g) \/ RetryAfter(g)
           \/ GiveUp(g) \/ Settle(g)

Next ==
  \/ \E k \in Keys : Change(k) \/ Enqueue(k)
  \/ \E g \in Goroutines : Step(g)
  \/ Cancel

Spec == Init /\ [][Next]_vars

(***************************************************************************)
(* A goroutine that exists is scheduled, a reconcile call returns (its     *)
(* context times out after 30 seconds), a timer fires, and the informer    *)
(* delivers the event of a change it has seen.  Nothing is assumed about   *)
(* the periodic refresh, or about success.                                 *)
(***************************************************************************)
Fairness ==
  /\ \A g \in Goroutines : WF_vars(Step(g))
  /\ \A k \in Keys : WF_vars(k \in undelivered /\ Enqueue(k))

FairSpec == Spec /\ Fairness

-----------------------------------------------------------------------------
(***************************************************************************)
(* Properties.                                                             *)
(***************************************************************************)
Serves(g, k) == pc[g] # "idle" /\ job[g] = k

(* The mutex and the map entry keep two goroutines from reconciling one    *)
(* Gateway at the same time: two live goroutines serve different keys.     *)
MutualExclusion ==
  \A g, h \in Goroutines :
    pc[g] # "idle" /\ pc[h] # "idle" /\ job[g] = job[h] => g = h

(* The goroutine g will still make an attempt, or is making one that read  *)
(* the world as it is now.                                                 *)
WillObserve(g) ==
  \/ pc[g] = "attempt"
  \/ pc[g] = "reconcile" /\ saw[g] = world[job[g]]
  \/ pc[g] = "backoff" /\ (attempt[g] < MaxAttempts \/ saw[g] = world[job[g]])

(* Why the current world of k is not forgotten.                            *)
Accounted(k) ==
  \/ world[k] = served[k]
  \/ world[k] = abandoned[k]
  \/ k \in undelivered
  \/ k \in dirty
  \/ \E g \in Goroutines : Serves(g, k) /\ WillObserve(g)

(* No change is lost between enqueue, the dirty bit and the end of run: if *)
(* nobody reconciled the world as it is now, then its event has not been   *)
(* delivered, or the dirty bit is set, or a live goroutine will look       *)
(* again, unless the retries at exactly this world were used up or the     *)
(* processor is shutting down.                                             *)
NoLostEvent == \A k \in Keys : Accounted(k) \/ cancelled

(* What a key's entry in p.states means: there is one exactly while a      *)
(* goroutine serves the key, and only such a key is dirty.                 *)
EntryMeansGoroutine ==
  /\ \A k \in Keys : k \in running <=> \E g \in Goroutines : Serves(g, k)
  /\ dirty \subseteq running

(* The processor implements the promise that the other modules rely on.    *)
PhaseOf(k) ==
  IF ~ \E g \in Goroutines : Serves(g, k) THEN "idle"
  ELSE IF \E g \in Goroutines : Serves(g, k) /\ pc[g] = "attempt" /\ attempt[g] = 0
       THEN "queued" ELSE "busy"

Promise == INSTANCE KeyQueue
             WITH phase <- [k \in Keys |-> PhaseOf(k)], dirty <- dirty

ImplementsKeyQueue == Promise!Spec

(* Every change whose event is on its way is eventually reconciled, or     *)
(* all attempts at the world as it then is have failed, or the process     *)
(* shuts down.                                                             *)
EventuallyObserved ==
  \A k \in Keys : k \in undelivered ~>
    (world[k] = served[k] \/ world[k] = abandoned[k] \/ cancelled)

(* A cancelled processor winds down: every goroutine ends, also one that   *)
(* was in backoff or had its dirty bit set.                                *)
WindsDown == cancelled ~> \A g \in Goroutines : pc[g] = "idle"
=============================================================================
