------------------------ MODULE GatewayClassProcessor ------------------------
(***************************************************************************)
(* The GatewayClass side of the member-cluster package: the informer's     *)
(* handler, the in-flight map of newGatewayClassProcessor, and the status  *)
(* write status.MarkGatewayClassAccepted (controller/internal/             *)
(* membercluster/handler.go and controller/internal/status/writer.go).     *)
(*                                                                         *)
(* One class name.  The API server's history of the object is the sequence *)
(* log, so a version's index is its resourceVersion; the informer's cache, *)
(* which every Get of the controller reads, is the prefix up to seen.      *)
(* Unlike a Gateway, a class has no dirty bit: LoadOrStore drops an event  *)
(* that finds the name in flight.                                          *)
(***************************************************************************)
EXTENDS Naturals, Sequences, SequencesExt

CONSTANTS
  MaxAttempts,    \* 3 in newGatewayClassProcessor
  ConflictSteps,  \* 5, the steps of retry.DefaultRetry
  MaxEdits,       \* bound: writes by users and other controllers
  MaxFailures     \* bound: status updates that fail for another reason

ASSUME BoundsAssumption ==
  /\ MaxAttempts \in Nat \ {0}
  /\ ConflictSteps \in Nat \ {0}
  /\ MaxEdits \in Nat
  /\ MaxFailures \in Nat

VARIABLES
  log,            \* every version of the class the API server has stored
  seen,           \* index of the version in the informer's cache
  events,         \* handler calls the informer still has to make
  pc, attempt,    \* of the goroutine started for the name
  tries,          \* conflicts met by the current RetryOnConflict
  base,           \* index of the version MarkGatewayClassAccepted read
  edits, failures,\* counted against MaxEdits and MaxFailures
  missed          \* something the class needed was lost since the last reconcile

flight == <<pc, attempt, tries, base>>
vars == <<log, seen, events, pc, attempt, tries, base, edits, failures, missed>>

(* A version: its generation (0 when the class does not exist), whether    *)
(* spec.controllerName is ours, and the observedGeneration of Accepted=True*)
(* (0 when there is no such condition).                                    *)
Versions == [gen : Nat, ours : BOOLEAN, accepted : Nat]

NoClass == [gen |-> 0, ours |-> FALSE, accepted |-> 0]

Current == Last(log)
Cached == log[seen]

TypeOK ==
  /\ log \in Seq(Versions) /\ log # <<>>
  /\ seen \in 1 .. Len(log)
  /\ events \in Nat
  /\ pc \in {"idle", "check", "read", "update", "backoff", "exit"}
  /\ attempt \in 0 .. MaxAttempts
  /\ tries \in 0 .. ConflictSteps
  /\ base \in 0 .. Len(log)
  /\ edits \in 0 .. MaxEdits
  /\ failures \in 0 .. MaxFailures
  /\ missed \in BOOLEAN

Init ==
  /\ log = <<NoClass>> /\ seen = 1 /\ events = 0
  /\ pc = "idle" /\ attempt = 0 /\ tries = 0 /\ base = 0
  /\ edits = 0 /\ failures = 0 /\ missed = FALSE

-----------------------------------------------------------------------------
(***************************************************************************)
(* Users, other controllers and the API server.  controllerName is         *)
(* immutable, so a class changes owner only by being deleted and created   *)
(* again.                                                                  *)
(***************************************************************************)
Store(v) ==
  /\ edits < MaxEdits
  /\ edits' = edits + 1
  /\ log' = Append(log, v)
  /\ UNCHANGED <<seen, events, flight, failures, missed>>

Create(ours) == Current.gen = 0 /\ Store([gen |-> 1, ours |-> ours, accepted |-> 0])

Edit == Current.gen > 0 /\ Store([Current EXCEPT !.gen = @ + 1])

Delete == Current.gen > 0 /\ Store(NoClass)

(* Another writer of the status takes the condition away (kubectl edit     *)
(* --subresource=status, a controller that replaces the conditions): the   *)
(* generation stays.                                                       *)
Wipe == Current.accepted > 0 /\ Store([Current EXCEPT !.accepted = 0])

-----------------------------------------------------------------------------
(***************************************************************************)
(* The informer.  Its watch replays the versions in order; a relist after  *)
(* the watch was lost shows only the newest, as one update from the version*)
(* in the cache.  The handler has an AddFunc, an UpdateFunc that asks      *)
(* objectChanged, and no DeleteFunc.                                       *)
(***************************************************************************)

(* Mutant: an object that appears is taken for a status-only update.       *)
HandlerCallsUpdateOnly(old, new) == old.gen > 0 /\ new.gen > 0 /\ new.gen # old.gen

HandlerCalls(old, new) == new.gen > 0 /\ new.gen # old.gen

(* An update that keeps the generation while the class wants its condition:*)
(* the class was deleted and created again in a gap of the watch, or its   *)
(* condition was taken away.  objectChanged drops it.                      *)
Lost(old, new) == new.gen > 0 /\ new.gen = old.gen /\ new.accepted # new.gen

Deliver(i) ==
  /\ seen' = i
  /\ events' = IF HandlerCalls(log[seen], log[i]) THEN events + 1 ELSE events
  /\ missed' = (missed \/ Lost(log[seen], log[i]))
  /\ UNCHANGED <<log, flight, edits, failures>>

Sync == seen < Len(log) /\ Deliver(seen + 1)

Relist == seen + 1 < Len(log) /\ Deliver(Len(log))

(* process(name): LoadOrStore, and a goroutine unless the name was loaded. *)
(* What was missed until then, the goroutine sees.                         *)
Process ==
  /\ events > 0
  /\ events' = events - 1
  /\ IF pc = "idle"
     THEN pc' = "check" /\ attempt' = 1 /\ missed' = FALSE
     ELSE missed' = TRUE /\ UNCHANGED <<pc, attempt>>
  /\ UNCHANGED <<log, seen, tries, base, edits, failures>>

-----------------------------------------------------------------------------
(***************************************************************************)
(* The goroutine: reconcileGatewayClass, with MarkGatewayClassAccepted's   *)
(* Get and Status().Update as two steps.                                   *)
(***************************************************************************)
ReconcileGatewayClass ==
  /\ pc = "check"
  /\ IF Cached.gen > 0 /\ Cached.ours
     THEN pc' = "read" /\ tries' = 0
     ELSE pc' = "exit" /\ UNCHANGED tries
  /\ UNCHANGED <<log, seen, events, attempt, base, edits, failures, missed>>

(* The Get inside RetryOnConflict.  A class that is gone is an error here; *)
(* conditions and features that would not change end it.                   *)
ReadFresh ==
  /\ pc = "read"
  /\ pc' = CASE Cached.gen = 0 -> "backoff"
             [] Cached.gen > 0 /\ Cached.accepted = Cached.gen -> "exit"
             [] OTHER -> "update"
  /\ base' = seen
  /\ UNCHANGED <<log, seen, events, attempt, tries, edits, failures, missed>>

Accepted(v) == [v EXCEPT !.accepted = v.gen]

(* Mutant: the write does not carry the resourceVersion that was read.     *)
WriteStatusUnchecked ==
  /\ pc = "update"
  /\ Current.gen > 0
  /\ log' = Append(log, [Current EXCEPT !.accepted = log[base].gen])
  /\ pc' = "exit"
  /\ UNCHANGED <<seen, events, attempt, tries, base, edits, failures, missed>>

WriteStatus ==
  /\ pc = "update"
  /\ base = Len(log)
  /\ log' = Append(log, Accepted(log[base]))
  /\ pc' = "exit"
  /\ UNCHANGED <<seen, events, attempt, tries, base, edits, failures, missed>>

(* The object has moved on: a conflict is retried at once with a new Get,  *)
(* up to ConflictSteps calls in all; a class that is gone is NotFound.     *)
WriteRefused ==
  /\ pc = "update"
  /\ base # Len(log)
  /\ tries' = tries + 1
  /\ pc' = IF Current.gen > 0 /\ tries + 1 < ConflictSteps THEN "read" ELSE "backoff"
  /\ UNCHANGED <<log, seen, events, attempt, base, edits, failures, missed>>

(* Any other failure of the request, its timeout included.                 *)
WriteFails ==
  /\ pc = "update"
  /\ failures < MaxFailures
  /\ failures' = failures + 1
  /\ pc' = "backoff"
  /\ UNCHANGED <<log, seen, events, attempt, tries, base, edits, missed>>

Backoff ==
  /\ pc = "backoff"
  /\ IF attempt < MaxAttempts
     THEN pc' = "check" /\ attempt' = attempt + 1 /\ UNCHANGED missed
     ELSE pc' = "exit" /\ missed' = TRUE /\ UNCHANGED attempt
  /\ UNCHANGED <<log, seen, events, tries, base, edits, failures>>

(* Mutant: the goroutine ends and the name stays in the map.               *)
ExitKeepsEntry == pc = "exit" /\ UNCHANGED vars

(* The deferred inflight.Delete, the goroutine's last step.                *)
Exit ==
  /\ pc = "exit"
  /\ pc' = "idle" /\ attempt' = 0 /\ tries' = 0 /\ base' = 0
  /\ UNCHANGED <<log, seen, events, edits, failures, missed>>

-----------------------------------------------------------------------------
Goroutine == ReconcileGatewayClass \/ ReadFresh \/ WriteStatus \/ WriteRefused
             \/ WriteFails \/ Backoff \/ Exit

Next ==
  \/ \E ours \in BOOLEAN : Create(ours)
  \/ Edit \/ Delete \/ Wipe
  \/ Sync \/ Relist \/ Process
  \/ Goroutine

Spec == Init /\ [][Next]_vars

(* The watch makes progress, the informer calls its handlers, and the      *)
(* goroutine is scheduled; users owe nothing, and the watch need not break.*)
FairSpec == Spec /\ WF_vars(Sync) /\ WF_vars(Process) /\ WF_vars(Goroutine)

-----------------------------------------------------------------------------
AtRest == pc = "idle" /\ events = 0 /\ seen = Len(log)

(* MarkGatewayClassAccepted stamps the generation the API server holds at  *)
(* that moment, whatever its cache showed, and never touches anything      *)
(* else: a status written from a stale read cannot land.                   *)
StampsCurrent ==
  [][ log' # log /\ edits' = edits =>
        Current' = [Current EXCEPT !.accepted = Current.gen] ]_vars

(* When everything has been processed, an owned class carries Accepted at  *)
(* its current generation, unless since the last goroutine was started for *)
(* it one of four things happened: an event met a goroutine in flight, all *)
(* attempts failed, the class was created again in a gap of the watch, or  *)
(* another writer took the condition away.  No periodic refresh covers     *)
(* classes, so these stay until the next event; nothing else loses a class.*)
AcceptedUnlessMissed ==
  AtRest /\ ~missed /\ Current.gen > 0 /\ Current.ours =>
    Current.accepted = Current.gen

(* Retries are bounded: once users stop, the class processor comes to rest *)
(* (conflicts against the lagging cache cannot keep it going).             *)
ComesToRest == <>[]AtRest
=============================================================================
