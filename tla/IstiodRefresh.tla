---------------------------- MODULE IstiodRefresh ----------------------------
(***************************************************************************)
(* The tenant's Istiod Deployment and who renders it: RefreshIstiod of     *)
(* controller/internal/gateway/reconciler.go, called at the end of every   *)
(* Gateway's reconcile and every minute by istiodResyncLoop, and the apply *)
(* at startup (controller/cmd/controller/main.go).                         *)
(*                                                                         *)
(* Nothing serialises them: each lists Gateways, lists policies, reads the *)
(* Deployment from the manager's cache and writes it, and another may do   *)
(* so in between.  Of the Deployment the certificates it mounts matter and *)
(* whether its managed-by label names another manager; of its cached copy  *)
(* that label, whether it is there and whether it is behind, which is what *)
(* Apply goes by: it refuses to update an object of another manager.       *)
(***************************************************************************)
EXTENDS Naturals

CONSTANTS
  Gateways,       \* Gateways, by namespaced name
  Policies,       \* BackendTLSPolicies
  Certs,          \* names of Secrets in the infra namespace
  Declarations,   \* the sets of certificates each source may refer to
  Volumes,        \* names of volumes in the Deployment
  Volume,         \* the volume name safeDNSLabel makes of a certificate's name
  MaxAttempts,    \* 3 in reconcileWithRetries
  MaxEdits,       \* bound: changes by users and other writers
  MaxFaults       \* bound: failed requests and waits, restarts

Sources == Gateways \cup Policies
Refreshers == Gateways \cup {"resync", "boot"}

ASSUME VolumeAssumption == Volume \in [Certs -> Volumes]
ASSUME SourcesAssumption ==
  /\ Gateways \cap Policies = {}
  /\ "resync" \notin Gateways /\ "boot" \notin Gateways
ASSUME DeclarationsAssumption == Declarations \in [Sources -> SUBSET SUBSET Certs]
ASSUME BoundsAssumption ==
  MaxAttempts \in Nat \ {0} /\ MaxEdits \in Nat /\ MaxFaults \in Nat

VARIABLES
  ours,           \* the Gateways that exist and have our class
  declared,       \* the certificates each source refers to
  deployment,     \* Istiod's Deployment: whose it is, if there, and what it mounts
  shown, behind,  \* its cached copy: whose it is, whether it is old
  phase, dirty,   \* the queue of Gateways
  attempt,        \* of each Gateway's goroutine
  cleaning,       \* Gateways whose attempt found the Gateway gone
  pc,             \* of each refresher
  certs,          \* what it has listed
  newest,         \* the version it is about to update is still the newest
  steady,         \* <<source, certificate>> declared ever since it listed
  edits, faults

queueVars == <<phase, dirty>>
memberVars == <<ours, declared>>
storeVars == <<deployment, shown, behind>>
runVars == <<pc, certs, newest, steady>>
vars == <<ours, declared, deployment, shown, behind, phase, dirty, attempt, cleaning, pc,
          certs, newest, steady, edits, faults>>

Queue == INSTANCE KeyQueue WITH Keys <- Gateways

(* Whose the Deployment is by its label; one without the label is ours.    *)
Owners == {"nobody", "ours", "other"}
Deployments == [owner : Owners, mounts : SUBSET Certs]
Absent == [owner |-> "nobody", mounts |-> {}]
Mounting(C) == [owner |-> "ours", mounts |-> C]
TakenOver == [owner |-> "other", mounts |-> deployment.mounts]

Declared == {p \in Sources \X Certs : p[2] \in declared[p[1]]}
Union == UNION {declared[s] : s \in Sources}

PCs == {"off", "gateways", "policies", "get", "create", "update", "wait", "error"}

TypeOK ==
  /\ ours \subseteq Gateways /\ declared \in [Sources -> SUBSET Certs]
  /\ deployment \in Deployments /\ shown \in Owners /\ behind \in BOOLEAN
  /\ Queue!TypeOK
  /\ attempt \in [Gateways -> 0 .. MaxAttempts] /\ cleaning \subseteq Gateways
  /\ pc \in [Refreshers -> PCs]
  /\ certs \in [Refreshers -> SUBSET Certs]
  /\ newest \in [Refreshers -> BOOLEAN]
  /\ steady \in [Refreshers -> SUBSET (Sources \X Certs)]
  /\ edits \in 0 .. MaxEdits /\ faults \in 0 .. MaxFaults

(* The controller starts: the cache of Gateways has called the handler for *)
(* each, and Start is at its initial apply, whose parameters name no       *)
(* certificate.                                                            *)
Booting(r) == IF r = "boot" THEN "get" ELSE "off"
AfterStart(g) == IF g \in ours THEN "queued" ELSE "idle"

Init ==
  /\ ours \in SUBSET Gateways
  /\ declared \in [Sources -> SUBSET Certs]
  /\ \A s \in Sources : declared[s] \in IF s \in Gateways \ ours THEN {{}} ELSE Declarations[s]
  /\ deployment = Absent /\ shown = "nobody" /\ behind = FALSE
  /\ phase = [g \in Gateways |-> AfterStart(g)] /\ dirty = {}
  /\ attempt = [g \in Gateways |-> 0] /\ cleaning = {}
  /\ pc = [r \in Refreshers |-> Booting(r)]
  /\ certs = [r \in Refreshers |-> {}]
  /\ newest = [r \in Refreshers |-> FALSE]
  /\ steady = [r \in Refreshers |-> IF r = "boot" THEN Declared ELSE {}]
  /\ edits = 0 /\ faults = 0

-----------------------------------------------------------------------------
(***************************************************************************)
(* Users, other writers, the caches and restarts.                          *)
(***************************************************************************)
StillDeclared == [r \in Refreshers |-> {p \in steady[r] : p[2] \in declared'[p[1]]}]

(* The member cache gets a version of a Gateway, and its handler enqueues  *)
(* the Gateway.                                                            *)
GatewayChanges(g, C) ==
  /\ edits < MaxEdits
  /\ edits' = edits + 1
  /\ ours' = ours \cup {g} /\ declared' = [declared EXCEPT ![g] = C]
  /\ Queue!Enqueue(g)
  /\ steady' = StillDeclared
  /\ UNCHANGED <<storeVars, attempt, cleaning, pc, certs, newest, faults>>

(* The Gateway is deleted or moves to another controller's class.          *)
GatewayGoes(g) ==
  /\ edits < MaxEdits
  /\ edits' = edits + 1
  /\ g \in ours
  /\ ours' = ours \ {g} /\ declared' = [declared EXCEPT ![g] = {}]
  /\ Queue!Enqueue(g)
  /\ steady' = StillDeclared
  /\ UNCHANGED <<storeVars, attempt, cleaning, pc, certs, newest, faults>>

(* The same for a policy: its handler enqueues every Gateway.              *)
PolicyChanges(p, C) ==
  /\ edits < MaxEdits
  /\ edits' = edits + 1
  /\ declared' = [declared EXCEPT ![p] = C]
  /\ Queue!EnqueueAll(ours)
  /\ steady' = StillDeclared
  /\ UNCHANGED <<ours, storeVars, attempt, cleaning, pc, certs, newest, faults>>

Store(d) ==
  /\ deployment' = d /\ behind' = TRUE
  /\ newest' = [r \in Refreshers |-> FALSE]
  /\ UNCHANGED shown

(* Somebody edits, labels or deletes the Deployment, or a controller       *)
(* writes its status, which changes nothing but the version.               *)
OthersWrite(d) ==
  /\ edits < MaxEdits
  /\ edits' = edits + 1
  /\ deployment.owner # "nobody"
  /\ Store(d)
  /\ UNCHANGED <<memberVars, queueVars, attempt, cleaning, pc, certs, steady, faults>>

Sync ==
  /\ behind
  /\ shown' = deployment.owner /\ behind' = FALSE
  /\ UNCHANGED <<memberVars, deployment, queueVars, attempt, cleaning, runVars, edits, faults>>

Restart ==
  /\ faults < MaxFaults
  /\ faults' = faults + 1
  /\ shown' = deployment.owner /\ behind' = FALSE
  /\ phase' = [g \in Gateways |-> AfterStart(g)] /\ dirty' = {}
  /\ attempt' = [g \in Gateways |-> 0] /\ cleaning' = {}
  /\ pc' = [r \in Refreshers |-> Booting(r)]
  /\ certs' = [r \in Refreshers |-> {}]
  /\ newest' = [r \in Refreshers |-> FALSE]
  /\ steady' = [r \in Refreshers |-> IF r = "boot" THEN Declared ELSE {}]
  /\ UNCHANGED <<memberVars, deployment, edits>>

-----------------------------------------------------------------------------
(***************************************************************************)
(* RefreshIstiod, by any refresher; the startup apply enters at its Get.   *)
(***************************************************************************)
Goto(r, l) == pc' = [pc EXCEPT ![r] = l]

ListGateways(r) ==
  /\ pc[r] = "gateways"
  /\ Goto(r, "policies")
  /\ certs' = [certs EXCEPT ![r] = UNION {declared[g] : g \in ours}]
  /\ steady' = [steady EXCEPT ![r] = Declared]
  /\ UNCHANGED <<memberVars, storeVars, queueVars, attempt, cleaning, newest, edits, faults>>

(* Mutant: the resync loop forgets the policies.                           *)
ListPoliciesInGateways(r) ==
  /\ pc[r] = "policies"
  /\ Goto(r, "get")
  /\ certs' = IF r \notin Gateways THEN certs
              ELSE [certs EXCEPT ![r] = @ \cup UNION {declared[p] : p \in Policies}]
  /\ UNCHANGED <<memberVars, storeVars, queueVars, attempt, cleaning, newest, steady, edits,
                 faults>>

ListPolicies(r) ==
  /\ pc[r] = "policies"
  /\ Goto(r, "get")
  /\ certs' = [certs EXCEPT ![r] = @ \cup UNION {declared[p] : p \in Policies}]
  /\ UNCHANGED <<memberVars, storeVars, queueVars, attempt, cleaning, newest, steady, edits,
                 faults>>

(* The Get of Apply and, for an object that is there, prepareForUpdate.    *)
Get(r) ==
  /\ pc[r] = "get"
  /\ shown # "other"
  /\ Goto(r, IF shown = "ours" THEN "update" ELSE "create")
  /\ newest' = [newest EXCEPT ![r] = ~behind]
  /\ UNCHANGED <<memberVars, storeVars, queueVars, attempt, cleaning, certs, steady, edits,
                 faults>>

(* What the caller makes of the result: provisioning logs an error and     *)
(* goes on to its waits, a cleanup returns it, the loop and the startup    *)
(* log it.                                                                 *)
Outcome(r, success) ==
  IF r \notin Gateways THEN "off"
  ELSE IF success \/ r \notin cleaning THEN "wait" ELSE "error"

Conclude(r, success) ==
  /\ Goto(r, Outcome(r, success))
  /\ certs' = [certs EXCEPT ![r] = {}]
  /\ steady' = [steady EXCEPT ![r] = {}]
  /\ UNCHANGED <<memberVars, queueVars, attempt, cleaning, edits>>

(* prepareForUpdate refuses an object that another manager has labelled.   *)
Refuse(r) ==
  /\ pc[r] = "get"
  /\ shown = "other"
  /\ Conclude(r, FALSE)
  /\ UNCHANGED <<storeVars, newest, faults>>

(* The API server's validation: volume names are unique.                   *)
Rejected(C) == \E c \in C, d \in C : c # d /\ Volume[c] = Volume[d]

(* AlreadyExists is swallowed.                                             *)
Create(r) ==
  /\ pc[r] = "create"
  /\ Conclude(r, ~Rejected(certs[r]))
  /\ IF Rejected(certs[r]) \/ deployment.owner # "nobody"
     THEN UNCHANGED <<storeVars, newest>>
     ELSE Store(Mounting(certs[r]))
  /\ UNCHANGED faults

(* A conflict is an error and not retried; an update that changes nothing  *)
(* makes no new version.                                                   *)
Update(r) ==
  /\ pc[r] = "update"
  /\ Conclude(r, newest[r] /\ ~Rejected(certs[r]))
  /\ IF ~newest[r] \/ Rejected(certs[r]) \/ deployment = Mounting(certs[r])
     THEN UNCHANGED <<storeVars, newest>>
     ELSE Store(Mounting(certs[r]))
  /\ UNCHANGED faults

RequestFails(r) ==
  /\ faults < MaxFaults
  /\ faults' = faults + 1
  /\ pc[r] \in {"get", "create", "update"}
  /\ Conclude(r, FALSE)
  /\ UNCHANGED <<storeVars, newest>>

(* Mutant: the loop never fires.                                           *)
ResyncTickOff ==
  /\ pc["boot"] = "off" /\ pc["resync"] = "off"
  /\ UNCHANGED vars

(* istiodResyncLoop; Start begins it after the initial apply.              *)
ResyncTick ==
  /\ pc["boot"] = "off" /\ pc["resync"] = "off"
  /\ Goto("resync", "gateways")
  /\ UNCHANGED <<memberVars, storeVars, queueVars, attempt, cleaning, certs, newest, steady,
                 edits, faults>>

-----------------------------------------------------------------------------
(***************************************************************************)
(* Reconcile around it: what comes before and after the refresh is in the  *)
(* other modules and here only succeeds or fails.                          *)
(***************************************************************************)
StartAttempt(g) ==
  /\ Goto(g, "gateways")
  /\ attempt' = [attempt EXCEPT ![g] = @ + 1]
  /\ cleaning' = IF g \in ours THEN cleaning \ {g} ELSE cleaning \cup {g}
  /\ UNCHANGED <<memberVars, storeVars, certs, newest, steady, edits, faults>>

Begin(g) == Queue!Begin(g) /\ StartAttempt(g)

(* A failure before the refresh, or of the waits after it.                 *)
ReconcileFails(g) ==
  /\ faults < MaxFaults
  /\ faults' = faults + 1
  /\ pc[g] \in {"gateways", "wait"}
  /\ Goto(g, "error")
  /\ UNCHANGED <<memberVars, storeVars, queueVars, attempt, cleaning, certs, newest, steady,
                 edits>>

(* Mutant: one attempt too many.                                           *)
RetryOffByOne(g) ==
  /\ pc[g] = "error" /\ attempt[g] <= MaxAttempts
  /\ StartAttempt(g)
  /\ UNCHANGED queueVars

Retry(g) ==
  /\ pc[g] = "error" /\ attempt[g] < MaxAttempts
  /\ StartAttempt(g)
  /\ UNCHANGED queueVars

Leave(g) ==
  /\ Queue!Finish(g)
  /\ Goto(g, "off")
  /\ attempt' = [attempt EXCEPT ![g] = 0] /\ cleaning' = cleaning \ {g}
  /\ UNCHANGED <<memberVars, storeVars, certs, newest, steady, edits, faults>>

Succeed(g) == pc[g] = "wait" /\ Leave(g)
GiveUp(g) == pc[g] = "error" /\ attempt[g] = MaxAttempts /\ Leave(g)

-----------------------------------------------------------------------------
Refresh(r) ==
  ListGateways(r) \/ ListPolicies(r) \/ Get(r) \/ Refuse(r) \/ Create(r) \/ Update(r)
Goroutine(g) == Begin(g) \/ Retry(g) \/ Succeed(g) \/ GiveUp(g)

Next ==
  \/ \E g \in Gateways : Goroutine(g) \/ ReconcileFails(g)
  \/ \E r \in Refreshers : Refresh(r) \/ RequestFails(r)
  \/ ResyncTick \/ Sync \/ Restart
  \/ \E g \in Gateways : \/ GatewayGoes(g)
                          \/ \E C \in Declarations[g] : GatewayChanges(g, C)
  \/ \E p \in Policies : \E C \in Declarations[p] \cup {{}} : PolicyChanges(p, C)
  \/ \E d \in {deployment, Absent, Mounting({}), TakenOver} : OthersWrite(d)

Spec == Init /\ [][Next]_vars

(* Every goroutine runs, the loop ticks and the cache catches up.          *)
FairSpec ==
  /\ Spec
  /\ WF_vars(ResyncTick) /\ WF_vars(Sync)
  /\ \A r \in Refreshers : WF_vars(Refresh(r))
  /\ \A g \in Gateways : WF_vars(Goroutine(g))

-----------------------------------------------------------------------------
(***************************************************************************)
(* Properties.                                                             *)
(***************************************************************************)
Writes(r) == pc[r] \in {"create", "update"} /\ pc'[r] # pc[r]

KeepsSteady(r) ==
  Writes(r) => \A p \in steady[r] :
                 p[2] \in deployment.mounts => p[2] \in deployment'.mounts

(* However refreshes overlap, none of RefreshIstiod's takes away the mount *)
(* of a certificate that one source has declared since the refresh began:  *)
(* the union is collected in two lists, and each Gateway's goroutine       *)
(* collects it for all.  The apply at startup names no certificate and     *)
(* does take the mounts away, until the next refresh.                      *)
RefreshKeepsMounts == [][\A r \in Refreshers \ {"boot"} : KeepsSteady(r)]_vars

(* Once users, other writers and faults stop, Istiod comes to mount the    *)
(* union of what all Gateways and policies declare and stays that way,     *)
(* whichever old listing was applied last, unless two names make one       *)
(* volume name or another manager has labelled the Deployment and left it  *)
(* so: then every refresh is refused.                                      *)
MountsConverge ==
  <>[](~Rejected(Union) /\ deployment.owner # "other" => deployment = Mounting(Union))
=============================================================================
