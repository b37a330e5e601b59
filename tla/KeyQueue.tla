------------------------------ MODULE KeyQueue ------------------------------
(***************************************************************************)
(* What the per-key work processor of the member-cluster package promises  *)
(* to the event handlers: for every key there is at most one reconcile in  *)
(* flight, and an event that arrives while one is in flight is remembered  *)
(* until that one has finished and is then reconciled again.               *)
(*                                                                         *)
(* This is the abstraction of controller/internal/membercluster/handler.go *)
(* lines 25-82: goroutines, retries and backoff are gone and only the      *)
(* phase of each key and its dirty bit are left.  GatewayProcessor is      *)
(* shown to implement it, and the composed modules are built on it.        *)
(***************************************************************************)
CONSTANT Keys           \* the Gateways, by namespaced name

VARIABLES
  phase,                \* phase[k]: what the processor is doing for key k
  dirty                 \* keys enqueued again while not idle

queueVars == <<phase, dirty>>

Phases == {"idle", "queued", "busy"}

TypeOK ==
  /\ phase \in [Keys -> Phases]
  /\ dirty \subseteq Keys

Init ==
  /\ phase = [k \in Keys |-> "idle"]
  /\ dirty = {}

(***************************************************************************)
(* An event for k arrives: start work on an idle key, mark any other one   *)
(* dirty.                                                                  *)
(***************************************************************************)
Enqueue(k) ==
  \/ /\ phase[k] = "idle"
     /\ phase' = [phase EXCEPT ![k] = "queued"]
     /\ UNCHANGED dirty
  \/ /\ phase[k] # "idle"
     /\ dirty' = dirty \cup {k}
     /\ UNCHANGED phase

(***************************************************************************)
(* The same for a set of keys at once, used by the handlers that fan an    *)
(* event out to every Gateway.                                             *)
(***************************************************************************)
EnqueueAll(S) ==
  /\ phase' = [k \in Keys |-> IF k \in S /\ phase[k] = "idle" THEN "queued"
                                                             ELSE phase[k]]
  /\ dirty' = dirty \cup {k \in S : phase[k] # "idle"}

(***************************************************************************)
(* The goroutine of k calls reconcile for the first time since it was      *)
(* queued.  Its reads come after this step.                                *)
(***************************************************************************)
Begin(k) ==
  /\ phase[k] = "queued"
  /\ phase' = [phase EXCEPT ![k] = "busy"]
  /\ UNCHANGED dirty

(***************************************************************************)
(* reconcileWithRetries returned: a dirty key is queued again and its bit  *)
(* cleared, any other key becomes idle.                                    *)
(***************************************************************************)
Finish(k) ==
  /\ phase[k] = "busy"
  /\ phase' = [phase EXCEPT ![k] = IF k \in dirty THEN "queued" ELSE "idle"]
  /\ dirty' = dirty \ {k}

Next == \E k \in Keys : Enqueue(k) \/ Begin(k) \/ Finish(k)

Spec == Init /\ [][Next]_queueVars
=============================================================================
