----------------------------- MODULE MemberToken -----------------------------
(***************************************************************************)
(* The member-cluster token of one Gateway's data plane, against time:     *)
(* ensureAgentGatewayMemberToken and tokenSecretCurrent of                 *)
(* controller/internal/gateway/reconciler.go, driven by the three-hour     *)
(* ticker of controller/internal/membercluster/handler.go.                 *)
(*                                                                         *)
(* No clock is kept.  A token, and an expiration written in an annotation, *)
(* is the time it has left, which every Tick reduces.  The ticker is urgent*)
(* and a run, all its attempts and backoffs included, takes at most Delay. *)
(*                                                                         *)
(* The Secret is read from the manager's cache, which may be any time      *)
(* behind.  Only this goroutine renews the token, and it updates only the  *)
(* version it has read, so one flag says whether the cache is behind.      *)
(* Who may update an object that somebody else manages is in DataPlane.    *)
(***************************************************************************)
EXTENDS Naturals

CONSTANTS
  Gw,             \* the Gateway, which exists throughout and is ours
  Life,           \* lifetime of a granted token: 12 hours
  Refresh,        \* a token with no more than this left is renewed: 4 hours
  Period,         \* of the ticker that enqueues every Gateway: 3 hours
  Delay,          \* bound: duration of a run, 3 * 30 s and the backoffs
  MaxAttempts,    \* 3 in reconcileWithRetries
  MaxFaults       \* bound: failed requests, restarts, damage by others

ASSUME TimesAssumption ==
  /\ Life \in Nat /\ Refresh \in Nat /\ Period \in Nat /\ Delay \in Nat
  /\ 0 < Delay /\ Delay <= Period
  /\ Period + Delay <= Refresh
  /\ Refresh + Delay < Life
ASSUME BoundsAssumption == MaxAttempts \in Nat \ {0} /\ MaxFaults \in Nat

VARIABLES
  secret,         \* the token Secret in the infra cluster
  cache, behind,  \* what a Get returns, and whether it is an older version
  deployment,     \* the expiration stamped on the Deployment's pod template
  since,          \* time since the ticker fired
  phase, dirty,   \* the queue
  waited,         \* time since the current run was queued
  pc, attempt,    \* of the goroutine
  token,          \* time left of the token, or expiration, it has in hand
  newest,         \* the version it is about to update is still the newest
  misled,         \* in which ways the run has believed the cache
  ok,             \* the last run succeeded and did not miss the Secret
  tampered,       \* others have damaged the Secret since it was written
  faults

queueVars == <<phase, dirty>>
storeVars == <<secret, cache, behind>>
runVars == <<pc, attempt, token, newest, misled>>
vars == <<secret, cache, behind, deployment, since, phase, dirty, waited, pc, attempt,
          token, newest, misled, ok, tampered, faults>>

Queue == INSTANCE KeyQueue WITH Keys <- {Gw}

(* An object that carries a token or its expiration.  One without a usable *)
(* token has nothing left.                                                 *)
Versions == [there : BOOLEAN, left : 0 .. Life]

Absent == [there |-> FALSE, left |-> 0]
Holding(n) == [there |-> TRUE, left |-> n]

PCs == {"off", "check", "request", "get", "create", "update", "deploy", "wait", "error"}

TypeOK ==
  /\ secret \in Versions /\ cache \in Versions /\ deployment \in Versions
  /\ behind \in BOOLEAN
  /\ since \in 0 .. Period /\ waited \in 0 .. Delay
  /\ Queue!TypeOK
  /\ pc \in PCs /\ attempt \in 0 .. MaxAttempts
  /\ token \in 0 .. Life /\ newest \in BOOLEAN
  /\ misled \subseteq {"stale", "secret", "deployment"}
  /\ ok \in BOOLEAN /\ tampered \in BOOLEAN
  /\ faults \in 0 .. MaxFaults

Init ==
  /\ secret = Absent /\ cache = Absent /\ behind = FALSE /\ deployment = Absent
  /\ since = 0 /\ waited = 0
  /\ phase = [k \in {Gw} |-> "queued"] /\ dirty = {}
  /\ pc = "off" /\ attempt = 0 /\ token = 0 /\ newest = FALSE /\ misled = {}
  /\ ok = FALSE /\ tampered = FALSE /\ faults = 0

-----------------------------------------------------------------------------
(***************************************************************************)
(* Time, the ticker, events and the manager's cache.                       *)
(***************************************************************************)
Less(n) == IF n = 0 THEN 0 ELSE n - 1
Aged(v) == [v EXCEPT !.left = Less(@)]

Tick ==
  /\ since < Period
  /\ phase[Gw] # "idle" => waited < Delay
  /\ since' = since + 1
  /\ waited' = IF phase[Gw] = "idle" THEN waited ELSE waited + 1
  /\ secret' = Aged(secret) /\ cache' = Aged(cache) /\ deployment' = Aged(deployment)
  /\ token' = Less(token)
  /\ UNCHANGED <<behind, queueVars, pc, attempt, newest, misled, ok, tampered, faults>>

(* Mutant: the ticker enqueues nothing.                                    *)
PeriodicRefreshOff ==
  /\ since = Period
  /\ since' = 0
  /\ UNCHANGED <<storeVars, deployment, queueVars, waited, runVars, ok, tampered, faults>>

PeriodicRefresh ==
  /\ since = Period
  /\ since' = 0
  /\ Queue!Enqueue(Gw)
  /\ UNCHANGED <<storeVars, deployment, waited, runVars, ok, tampered, faults>>

(* Any other event that enqueues the Gateway.                              *)
Event ==
  /\ Queue!Enqueue(Gw)
  /\ UNCHANGED <<storeVars, deployment, since, waited, runVars, ok, tampered, faults>>

Sync ==
  /\ behind
  /\ cache' = secret /\ behind' = FALSE
  /\ UNCHANGED <<secret, deployment, since, queueVars, waited, runVars, ok, tampered, faults>>

(* Somebody deletes the Secret or empties it.                              *)
Tamper(v) ==
  /\ faults < MaxFaults
  /\ faults' = faults + 1
  /\ secret.there
  /\ secret' = v /\ behind' = TRUE /\ newest' = FALSE
  /\ tampered' = TRUE
  /\ UNCHANGED <<cache, deployment, since, queueVars, waited, pc, attempt, token, misled, ok>>

(* A restart, or another leader: a new ticker, and new caches whose        *)
(* initial list enqueues the Gateway.                                      *)
Restart ==
  /\ faults < MaxFaults
  /\ faults' = faults + 1
  /\ cache' = secret /\ behind' = FALSE
  /\ since' = 0 /\ waited' = 0
  /\ phase' = [phase EXCEPT ![Gw] = "queued"] /\ dirty' = {}
  /\ pc' = "off" /\ attempt' = 0 /\ token' = 0 /\ newest' = FALSE /\ misled' = {}
  /\ ok' = FALSE
  /\ UNCHANGED <<secret, deployment, tampered>>

-----------------------------------------------------------------------------
(***************************************************************************)
(* The goroutine of the Gateway.                                           *)
(***************************************************************************)
Begin ==
  /\ Queue!Begin(Gw)
  /\ pc' = "check" /\ attempt' = 1 /\ misled' = {}
  /\ UNCHANGED <<storeVars, deployment, since, waited, token, newest, ok, tampered, faults>>

(* Mutant: a token is used until it has expired.                           *)
TokenSecretCurrentLate(v) == v.left > 0

TokenSecretCurrent(v) == v.left > Refresh

(* ensureAgentGatewayMemberToken gets the Secret; a current one ends it    *)
(* with the expiration that the cached version has.                        *)
Check ==
  /\ pc = "check"
  /\ IF TokenSecretCurrent(cache)
     THEN /\ pc' = "deploy" /\ token' = cache.left
          /\ misled' = IF behind THEN misled \cup {"stale"} ELSE misled
     ELSE pc' = "request" /\ UNCHANGED <<token, misled>>
  /\ UNCHANGED <<storeVars, deployment, since, queueVars, waited, attempt, newest, ok,
                 tampered, faults>>

(* The TokenRequest in the member cluster.                                 *)
Request ==
  /\ pc = "request"
  /\ pc' = "get" /\ token' = Life
  /\ UNCHANGED <<storeVars, deployment, since, queueVars, waited, attempt, newest, misled,
                 ok, tampered, faults>>

(* The Get of Apply.                                                       *)
GetSecret ==
  /\ pc = "get"
  /\ pc' = IF cache.there THEN "update" ELSE "create"
  /\ newest' = ~behind
  /\ UNCHANGED <<storeVars, deployment, since, queueVars, waited, attempt, token, misled,
                 ok, tampered, faults>>

Store ==
  /\ secret' = Holding(token) /\ behind' = TRUE /\ newest' = FALSE
  /\ tampered' = FALSE
  /\ UNCHANGED cache

(* AlreadyExists is swallowed: the new token is lost.                      *)
CreateSecret ==
  /\ pc = "create"
  /\ pc' = "deploy"
  /\ IF secret.there
     THEN misled' = misled \cup {"secret"} /\ UNCHANGED <<storeVars, newest, tampered>>
     ELSE Store /\ UNCHANGED misled
  /\ UNCHANGED <<deployment, since, queueVars, waited, attempt, token, ok, faults>>

(* Mutant: a conflict is taken for success.                                *)
UpdateSecretIgnoresConflict ==
  /\ pc = "update"
  /\ pc' = "deploy"
  /\ IF newest THEN Store ELSE UNCHANGED <<storeVars, newest, tampered>>
  /\ UNCHANGED <<deployment, since, queueVars, waited, attempt, token, misled, ok, faults>>

UpdateSecret ==
  /\ pc = "update"
  /\ IF newest
     THEN pc' = "deploy" /\ Store
     ELSE pc' = "error" /\ UNCHANGED <<storeVars, newest, tampered>>
  /\ UNCHANGED <<deployment, since, queueVars, waited, attempt, token, misled, ok, faults>>

(* Apply of the Deployment with the expiration.  Its cache is not kept     *)
(* here: one that misses the Deployment makes Apply leave it as it is.     *)
ApplyDeployment ==
  /\ pc = "deploy"
  /\ pc' = "wait"
  /\ \/ deployment' = Holding(token) /\ UNCHANGED misled
     \/ /\ deployment.there
        /\ misled' = misled \cup {"deployment"} /\ UNCHANGED deployment
  /\ UNCHANGED <<storeVars, since, queueVars, waited, attempt, token, newest, ok, tampered,
                 faults>>

Leave ==
  /\ Queue!Finish(Gw)
  /\ pc' = "off" /\ attempt' = 0 /\ token' = 0 /\ newest' = FALSE
  /\ waited' = 0
  /\ UNCHANGED <<storeVars, deployment, since, misled, tampered, faults>>

Succeed ==
  /\ pc = "wait"
  /\ ok' = ("secret" \notin misled)
  /\ Leave

(* A request or a wait fails, before the token too: a Gateway whose TLS    *)
(* assets are not valid never gets to it.                                  *)
Fails ==
  /\ faults < MaxFaults
  /\ faults' = faults + 1
  /\ pc \in PCs \ {"off", "error"}
  /\ pc' = "error"
  /\ UNCHANGED <<storeVars, deployment, since, queueVars, waited, attempt, token, newest,
                 misled, ok, tampered>>

(* Mutant: one attempt too many.                                           *)
RetryOffByOne ==
  /\ pc = "error" /\ attempt <= MaxAttempts
  /\ pc' = "check" /\ attempt' = attempt + 1 /\ misled' = {}
  /\ UNCHANGED <<storeVars, deployment, since, queueVars, waited, token, newest, ok,
                 tampered, faults>>

Retry ==
  /\ pc = "error" /\ attempt < MaxAttempts
  /\ pc' = "check" /\ attempt' = attempt + 1 /\ misled' = {}
  /\ UNCHANGED <<storeVars, deployment, since, queueVars, waited, token, newest, ok,
                 tampered, faults>>

GiveUp ==
  /\ pc = "error" /\ attempt = MaxAttempts
  /\ ok' = FALSE
  /\ Leave

-----------------------------------------------------------------------------
Goroutine ==
  \/ Begin \/ Check \/ Request \/ GetSecret \/ CreateSecret \/ UpdateSecret
  \/ ApplyDeployment \/ Succeed \/ Retry \/ GiveUp

Next ==
  \/ Tick \/ PeriodicRefresh \/ Event \/ Sync \/ Goroutine \/ Fails \/ Restart
  \/ \E v \in {Absent, Holding(0)} : Tamper(v)

Spec == Init /\ [][Next]_vars

(* Time passes, the ticker fires, caches catch up and goroutines run; no   *)
(* event has to come.                                                      *)
FairSpec ==
  /\ Spec
  /\ WF_vars(Tick) /\ WF_vars(PeriodicRefresh) /\ WF_vars(Sync) /\ WF_vars(Goroutine)

-----------------------------------------------------------------------------
(***************************************************************************)
(* Properties.                                                             *)
(***************************************************************************)
Valid == secret.there /\ secret.left > 0

(* From a successful run on, the token in the Secret is valid at every     *)
(* moment, between the ticks and while the next run is on its way, unless  *)
(* others damage the Secret or that next run gives up: four hours are      *)
(* enough margin for a ticker of three.                                    *)
TokenValid == ok /\ ~tampered => Valid

(* After a successful run the Deployment carries the expiration of the     *)
(* token that the Secret holds, so that a renewal rolls the pods, unless   *)
(* the run believed a cache that was behind.                               *)
RolledWithToken ==
  phase[Gw] = "idle" /\ ok /\ ~tampered /\ misled = {} => deployment.left = secret.left

(* However runs fail, are cut off by restarts or believe a cache that is   *)
(* hours behind, a token that is missing, damaged or expired is replaced:  *)
(* the ticker alone sees to it, no event is needed.                        *)
TokenRecovers == ~Valid ~> Valid
=============================================================================
