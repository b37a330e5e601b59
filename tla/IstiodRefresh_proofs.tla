------------------------ MODULE IstiodRefresh_proofs ------------------------
(***************************************************************************)
(* Theorems about IstiodRefresh, for any number of Gateways, policies and  *)
(* certificates, and any number of attempts, edits and faults.             *)
(***************************************************************************)
EXTENDS IstiodRefresh, TLAPS

(* A goroutine runs only for a busy key.                                   *)
OffUnlessBusy ==
  \A g \in Gateways : phase[g] # "busy" => pc[g] = "off" /\ attempt[g] = 0

TypeInv == TypeOK /\ OffUnlessBusy

(* A Gateway that is not ours refers to nothing that counts.               *)
OnlyOurs == \A g \in Gateways : g \notin ours => declared[g] = {}

(* What counts as declared since a listing is still declared.              *)
StillThere == \A r \in Refreshers : \A p \in steady[r] : p[2] \in declared[p[1]]

(* What a refresher has listed contains all of it: of Gateways from the    *)
(* first list on, of policies from the second on.                          *)
GatewaysListed ==
  \A r \in Refreshers \ {"boot"} : pc[r] \in {"policies", "get", "create", "update"} =>
    \A p \in steady[r] : p[1] \in Gateways => p[2] \in certs[r]

AllListed ==
  \A r \in Refreshers \ {"boot"} : pc[r] \in {"get", "create", "update"} =>
    \A p \in steady[r] : p[2] \in certs[r]

ListInv == TypeInv /\ OnlyOurs /\ StillThere /\ GatewaysListed /\ AllListed

-----------------------------------------------------------------------------
USE SourcesAssumption, DeclarationsAssumption, BoundsAssumption

(* A bounded counter that is below its limit can go up.                    *)
LEMMA CountUp ==
  ASSUME NEW m \in Nat, NEW n \in 0 .. m, n < m
  PROVE  n + 1 \in 0 .. m
  OBVIOUS

(* The names that are not Gateways.                                        *)
LEMMA Others ==
  /\ "boot" \in Refreshers /\ "resync" \in Refreshers /\ Gateways \subseteq Refreshers
  /\ \A g \in Gateways : g # "boot" /\ g # "resync"
  BY DEF Refreshers

(* What a write may leave behind is a Deployment.                          *)
LEMMA DeploymentTypes ==
  /\ Absent \in Deployments /\ \A C \in SUBSET Certs : Mounting(C) \in Deployments
  /\ deployment \in Deployments => TakenOver \in Deployments /\ deployment.owner \in Owners
  BY DEF Absent, Mounting, TakenOver, Deployments, Owners

(* The initial state.                                                      *)
LEMMA InitList == Init => ListInv
<1> SUFFICES ASSUME Init
             PROVE  ListInv
  OBVIOUS
<1>1. /\ ours \subseteq Gateways /\ declared \in [Sources -> SUBSET Certs]
      /\ deployment \in Deployments /\ shown \in Owners /\ behind \in BOOLEAN
  BY DeploymentTypes DEF Init, Owners
<1>2. Queue!TypeOK
  BY DEF Init, AfterStart, Queue!TypeOK, Queue!Phases
<1>3. /\ attempt \in [Gateways -> 0 .. MaxAttempts] /\ cleaning \subseteq Gateways
      /\ edits \in 0 .. MaxEdits /\ faults \in 0 .. MaxFaults
  BY DEF Init
<1>4. pc \in [Refreshers -> PCs]
  BY DEF Init, Booting, PCs
<1>5. certs \in [Refreshers -> SUBSET Certs]
  BY DEF Init
<1>6. newest \in [Refreshers -> BOOLEAN]
  BY Zenon DEF Init
<1>7. steady \in [Refreshers -> SUBSET (Sources \X Certs)]
  BY DEF Init, Declared
<1>8. OffUnlessBusy
  BY Others DEF Init, OffUnlessBusy, Booting
<1>9. OnlyOurs
  <2> SUFFICES ASSUME NEW g \in Gateways, g \notin ours
               PROVE  declared[g] = {}
    BY DEF OnlyOurs
  <2>1. g \in Sources
    BY DEF Sources
  <2>2. declared[g] \in IF g \in Gateways \ ours THEN {{}} ELSE Declarations[g]
    BY <2>1 DEF Init
  <2> QED
    BY <2>2
<1>10. StillThere
  BY DEF Init, StillThere, Declared
<1>11. GatewaysListed /\ AllListed
  BY DEF Init, GatewaysListed, AllListed, Booting
<1> QED
  BY <1>1, <1>2, <1>3, <1>4, <1>5, <1>6, <1>7, <1>8, <1>9, <1>10, <1>11
  DEF ListInv, TypeInv, TypeOK

-----------------------------------------------------------------------------
(* The queue's steps keep its types and touch no other key.                *)
LEMMA QueueStep ==
  ASSUME Queue!TypeOK, NEW g \in Gateways,
         Queue!Enqueue(g) \/ Queue!Begin(g) \/ Queue!Finish(g)
  PROVE  /\ Queue!TypeOK'
         /\ \A h \in Gateways : phase'[h] # "busy" => phase[h] # "busy" \/ h = g
         /\ Queue!Enqueue(g) => (phase'[g] # "busy" => phase[g] # "busy")
         /\ Queue!Begin(g) => phase[g] # "busy" /\ phase'[g] = "busy"
  BY DEF Queue!TypeOK, Queue!Phases, Queue!Enqueue, Queue!Begin, Queue!Finish

LEMMA QueueAll ==
  ASSUME Queue!TypeOK, ours \subseteq Gateways, Queue!EnqueueAll(ours)
  PROVE  Queue!TypeOK' /\ \A h \in Gateways : phase'[h] # "busy" => phase[h] # "busy"
  BY DEF Queue!TypeOK, Queue!Phases, Queue!EnqueueAll

(* After an edit, what is left of what has been steady is still declared.  *)
LEMMA StillType ==
  ASSUME TypeOK, steady' = StillDeclared
  PROVE  /\ steady' \in [Refreshers -> SUBSET (Sources \X Certs)]
         /\ \A r \in Refreshers : steady'[r] \subseteq steady[r]
         /\ StillThere'
  BY DEF TypeOK, StillDeclared, StillThere

(* An edit of the member cluster by a user.                                *)
Edit ==
  \/ \E g \in Gateways : \/ GatewayGoes(g)
                         \/ \E C \in Declarations[g] : GatewayChanges(g, C)
  \/ \E p \in Policies : \E C \in Declarations[p] \cup {{}} : PolicyChanges(p, C)

(* It keeps the invariant.                                                 *)
LEMMA EditList ==
  ASSUME ListInv, Edit
  PROVE  ListInv'
<1> USE DEF ListInv, TypeInv
<1>1. /\ edits < MaxEdits /\ edits' = edits + 1 /\ steady' = StillDeclared
      /\ UNCHANGED <<storeVars, attempt, cleaning, pc, certs, newest, faults>>
  BY DEF Edit, GatewayGoes, GatewayChanges, PolicyChanges
<1>2. edits' \in 0 .. MaxEdits
  BY <1>1, CountUp DEF TypeOK
<1>3. /\ ours' \subseteq Gateways /\ declared' \in [Sources -> SUBSET Certs]
      /\ OnlyOurs'
      /\ Queue!TypeOK' /\ \A h \in Gateways : phase'[h] # "busy" => phase[h] # "busy"
  <2>1. ASSUME NEW g \in Gateways, GatewayGoes(g)
        PROVE  <1>3!:
    <3>1. g \in Sources
      BY DEF Sources
    <3> QED
      BY <2>1, <3>1, QueueStep DEF GatewayGoes, TypeOK, OnlyOurs
  <2>2. ASSUME NEW g \in Gateways, NEW C \in Declarations[g], GatewayChanges(g, C)
        PROVE  <1>3!:
    <3>1. g \in Sources /\ C \subseteq Certs
      BY DEF Sources
    <3> QED
      BY <2>2, <3>1, QueueStep DEF GatewayChanges, TypeOK, OnlyOurs
  <2>3. ASSUME NEW p \in Policies, NEW C \in Declarations[p] \cup {{}}, PolicyChanges(p, C)
        PROVE  <1>3!:
    <3>1. p \in Sources /\ C \subseteq Certs /\ p \notin Gateways
      BY DEF Sources
    <3> QED
      BY <2>3, <3>1, QueueAll DEF PolicyChanges, TypeOK, OnlyOurs
  <2> QED
    BY <2>1, <2>2, <2>3 DEF Edit
<1>4. /\ steady' \in [Refreshers -> SUBSET (Sources \X Certs)] /\ StillThere'
      /\ \A r \in Refreshers : steady'[r] \subseteq steady[r]
  BY <1>1, StillType
<1>5. TypeOK' /\ OffUnlessBusy'
  BY <1>1, <1>2, <1>3, <1>4 DEF TypeOK, OffUnlessBusy, storeVars
<1>6. GatewaysListed' /\ AllListed'
  BY <1>1, <1>4 DEF GatewaysListed, AllListed
<1> QED
  BY <1>3, <1>4, <1>5, <1>6

(* The other writers, the cache and a restart keep it too.                 *)
LEMMA WorldList ==
  ASSUME ListInv,
         Sync \/ Restart \/ \E d \in {deployment, Absent, Mounting({}), TakenOver} : OthersWrite(d)
  PROVE  ListInv'
<1> USE DEF ListInv, TypeInv
<1>1. CASE Sync
  BY <1>1, DeploymentTypes DEF Sync, TypeOK, memberVars, queueVars, runVars, Queue!TypeOK,
     OffUnlessBusy, OnlyOurs, StillThere, GatewaysListed, AllListed
<1>2. CASE Restart
  <2>1. faults' \in 0 .. MaxFaults
    BY <1>2, CountUp DEF Restart, TypeOK
  <2>2. /\ shown' \in Owners /\ behind' \in BOOLEAN
        /\ UNCHANGED <<memberVars, deployment, edits>>
    BY <1>2, DeploymentTypes DEF Restart, TypeOK
  <2>3. Queue!TypeOK'
    BY <1>2 DEF Restart, AfterStart, Queue!TypeOK, Queue!Phases
  <2>4. attempt' \in [Gateways -> 0 .. MaxAttempts] /\ cleaning' \subseteq Gateways
    BY <1>2 DEF Restart
  <2>5. pc' \in [Refreshers -> PCs] /\ OffUnlessBusy'
    BY <1>2, Others DEF Restart, Booting, PCs, OffUnlessBusy
  <2>6. certs' \in [Refreshers -> SUBSET Certs]
    BY <1>2 DEF Restart
  <2>7. newest' \in [Refreshers -> BOOLEAN]
    BY <1>2, Zenon DEF Restart
  <2>8. steady' \in [Refreshers -> SUBSET (Sources \X Certs)] /\ StillThere'
    BY <1>2 DEF Restart, Declared, StillThere, memberVars
  <2>9. GatewaysListed' /\ AllListed'
    BY <1>2 DEF Restart, GatewaysListed, AllListed, Booting
  <2> QED
    BY <2>1, <2>2, <2>3, <2>4, <2>5, <2>6, <2>7, <2>8, <2>9 DEF TypeOK, OnlyOurs, memberVars
<1>3. ASSUME NEW d \in {deployment, Absent, Mounting({}), TakenOver}, OthersWrite(d)
      PROVE  ListInv'
  <2>1. edits' \in 0 .. MaxEdits
    BY <1>3, CountUp DEF OthersWrite, TypeOK
  <2>2. d \in Deployments
    BY DeploymentTypes DEF TypeOK
  <2>3. newest' \in [Refreshers -> BOOLEAN]
    BY <1>3, Zenon DEF OthersWrite, Store
  <2> QED
    BY <1>3, <2>1, <2>2, <2>3 DEF OthersWrite, Store, TypeOK, memberVars, queueVars,
       Queue!TypeOK, OffUnlessBusy, OnlyOurs, StillThere, GatewaysListed, AllListed
<1> QED
  BY <1>1, <1>2, <1>3

-----------------------------------------------------------------------------
(* A goroutine that is not off belongs to a busy key.                      *)
LEMMA RunningIsBusy ==
  ASSUME TypeInv, NEW r \in Refreshers, pc[r] # "off", NEW l \in PCs, Goto(r, l),
         UNCHANGED <<queueVars, attempt>>
  PROVE  pc' \in [Refreshers -> PCs] /\ OffUnlessBusy'
  BY Others DEF TypeInv, TypeOK, OffUnlessBusy, queueVars, Goto

(* The two lists.                                                          *)
LEMMA ListsList ==
  ASSUME ListInv, NEW r \in Refreshers, ListGateways(r) \/ ListPolicies(r)
  PROVE  ListInv'
<1> USE DEF ListInv, TypeInv
<1>1. CASE ListGateways(r)
  <2>0. UNION {declared[g] : g \in ours} \subseteq Certs
    BY DEF TypeOK, Sources
  <2>1. /\ certs' \in [Refreshers -> SUBSET Certs]
        /\ steady' \in [Refreshers -> SUBSET (Sources \X Certs)]
    BY <1>1, <2>0 DEF ListGateways, TypeOK, Declared
  <2>2. pc' \in [Refreshers -> PCs] /\ OffUnlessBusy'
    BY <1>1, RunningIsBusy DEF ListGateways, PCs, queueVars
  <2>3. StillThere'
    BY <1>1 DEF ListGateways, TypeOK, StillThere, Declared, memberVars
  <2>4. GatewaysListed' /\ AllListed'
    <3>1. \A p \in Declared : p[1] \in Gateways => p[2] \in UNION {declared[g] : g \in ours}
      BY DEF OnlyOurs, Declared
    <3> QED
      BY <1>1, <3>1 DEF ListGateways, Goto, TypeOK, GatewaysListed, AllListed
  <2> QED
    BY <1>1, <2>1, <2>2, <2>3, <2>4 DEF ListGateways, TypeOK, OnlyOurs, memberVars, storeVars,
       queueVars, Queue!TypeOK
<1>2. CASE ListPolicies(r)
  <2>0. UNION {declared[p] : p \in Policies} \subseteq Certs
    BY DEF TypeOK, Sources
  <2>1. certs' \in [Refreshers -> SUBSET Certs]
    BY <1>2, <2>0 DEF ListPolicies, TypeOK
  <2>2. pc' \in [Refreshers -> PCs] /\ OffUnlessBusy'
    BY <1>2, RunningIsBusy DEF ListPolicies, PCs, queueVars
  <2>3. StillThere'
    BY <1>2 DEF ListPolicies, StillThere, memberVars
  <2>4. GatewaysListed' /\ AllListed'
    <3>1. \A p \in steady[r] :
            p[1] \notin Gateways => p[2] \in UNION {declared[q] : q \in Policies}
      BY DEF StillThere, TypeOK, Sources
    <3> QED
      BY <1>2, <3>1 DEF ListPolicies, Goto, TypeOK, GatewaysListed, AllListed
  <2> QED
    BY <1>2, <2>1, <2>2, <2>3, <2>4 DEF ListPolicies, TypeOK, OnlyOurs, memberVars, storeVars,
       queueVars, Queue!TypeOK
<1> QED
  BY <1>1, <1>2

(* The end of a refresh, whatever it has stored.                           *)
LEMMA ConcludeList ==
  ASSUME ListInv, NEW r \in Refreshers, NEW b, pc[r] # "off", Conclude(r, b),
         deployment' \in Deployments, shown' \in Owners, behind' \in BOOLEAN,
         newest' \in [Refreshers -> BOOLEAN], faults' \in 0 .. MaxFaults
  PROVE  ListInv'
<1> USE DEF ListInv, TypeInv
<1>1. Outcome(r, b) \in {"off", "wait", "error"}
  BY DEF Outcome
<1>2. /\ Goto(r, Outcome(r, b))
      /\ UNCHANGED <<memberVars, queueVars, attempt, cleaning, edits>>
  BY DEF Conclude
<1>3. pc' \in [Refreshers -> PCs] /\ OffUnlessBusy'
  BY <1>1, <1>2, RunningIsBusy DEF PCs
<1>4. /\ certs' = [certs EXCEPT ![r] = {}] /\ certs' \in [Refreshers -> SUBSET Certs]
      /\ steady' = [steady EXCEPT ![r] = {}]
      /\ steady' \in [Refreshers -> SUBSET (Sources \X Certs)]
  BY DEF Conclude, TypeOK
<1>5. StillThere'
  BY <1>2, <1>4 DEF StillThere, memberVars, TypeOK
<1>6. GatewaysListed' /\ AllListed'
  BY <1>1, <1>2, <1>4 DEF GatewaysListed, AllListed, TypeOK, Goto
<1> QED
  BY <1>2, <1>3, <1>4, <1>5, <1>6 DEF TypeOK, OnlyOurs, memberVars, queueVars, Queue!TypeOK

(* Get, the refusal, Create, Update and a request that fails.              *)
LEMMA ApplyList ==
  ASSUME ListInv, NEW r \in Refreshers,
         Get(r) \/ Refuse(r) \/ Create(r) \/ Update(r) \/ RequestFails(r)
  PROVE  ListInv'
<1> USE DEF ListInv, TypeInv
<1>1. CASE Get(r)
  <2>1. newest' \in [Refreshers -> BOOLEAN]
    BY <1>1, Zenon DEF Get, TypeOK
  <2>2. pc' \in [Refreshers -> PCs] /\ OffUnlessBusy'
    BY <1>1, RunningIsBusy DEF Get, PCs, queueVars
  <2>3. GatewaysListed' /\ AllListed'
    BY <1>1 DEF Get, Goto, TypeOK, GatewaysListed, AllListed
  <2> QED
    BY <1>1, <2>1, <2>2, <2>3 DEF Get, TypeOK, OnlyOurs, StillThere, memberVars, storeVars,
       queueVars, Queue!TypeOK
<1>2. Mounting(certs[r]) \in Deployments
  BY DeploymentTypes DEF TypeOK
<1>3. CASE Create(r) \/ Update(r)
  <2>1. /\ deployment' \in Deployments /\ shown' \in Owners /\ behind' \in BOOLEAN
        /\ faults' \in 0 .. MaxFaults
    BY <1>2, <1>3 DEF Create, Update, Store, storeVars, TypeOK
  <2>2. newest' \in [Refreshers -> BOOLEAN]
    BY <1>3, Zenon DEF Create, Update, Store, TypeOK
  <2>3. PICK b : Conclude(r, b)
    BY <1>3, Zenon DEF Create, Update
  <2>4. pc[r] # "off"
    BY <1>3 DEF Create, Update
  <2> QED
    BY <2>1, <2>2, <2>3, <2>4, ConcludeList
<1>4. CASE RequestFails(r)
  <2>1. faults' \in 0 .. MaxFaults
    BY <1>4, CountUp DEF RequestFails, TypeOK
  <2> QED
    BY <1>4, <2>1, ConcludeList DEF RequestFails, storeVars, TypeOK
<1>5. CASE Refuse(r)
  BY <1>5, ConcludeList DEF Refuse, storeVars, TypeOK
<1> QED
  BY <1>1, <1>3, <1>4, <1>5

-----------------------------------------------------------------------------
(* Reconcile around a refresh, and the loop's tick.  A refresher that has  *)
(* listed nothing yet, or is done, owes nothing.                           *)
LEMMA AroundList ==
  ASSUME ListInv, NEW r \in Refreshers, NEW l \in PCs \ {"policies", "get", "create", "update"},
         Goto(r, l), UNCHANGED <<memberVars, storeVars, certs, newest, steady, edits>>,
         faults' \in 0 .. MaxFaults, attempt' \in [Gateways -> 0 .. MaxAttempts],
         cleaning' \subseteq Gateways, Queue!TypeOK', OffUnlessBusy'
  PROVE  ListInv'
  BY DEF ListInv, TypeInv, TypeOK, Goto, OnlyOurs, StillThere, GatewaysListed, AllListed,
     memberVars, storeVars

LEMMA GoroutineList ==
  ASSUME ListInv, NEW g \in Gateways, Goroutine(g) \/ ReconcileFails(g)
  PROVE  ListInv'
<1> USE DEF ListInv, TypeInv
<1>0. g \in Refreshers /\ {"gateways", "error", "off"} \subseteq PCs
      /\ attempt[g] \in 0 .. MaxAttempts
  BY Others DEF PCs, TypeOK
<1>1. CASE Begin(g)
  <2>1. attempt[g] < MaxAttempts /\ phase[g] # "busy" /\ phase'[g] = "busy"
    BY <1>1, QueueStep DEF Begin, OffUnlessBusy, TypeOK
  <2>2. attempt' \in [Gateways -> 0 .. MaxAttempts] /\ cleaning' \subseteq Gateways
    BY <1>0, <1>1, <2>1, CountUp DEF Begin, StartAttempt, TypeOK
  <2>3. Queue!TypeOK' /\ OffUnlessBusy'
    BY <1>0, <1>1, <2>1, QueueStep DEF Begin, StartAttempt, Goto, OffUnlessBusy, TypeOK
  <2> QED
    BY <1>0, <1>1, <2>2, <2>3, AroundList DEF Begin, StartAttempt, TypeOK
<1>2. CASE Retry(g)
  <2>1. attempt' \in [Gateways -> 0 .. MaxAttempts] /\ cleaning' \subseteq Gateways
    BY <1>0, <1>2, CountUp DEF Retry, StartAttempt, TypeOK
  <2>2. Queue!TypeOK' /\ OffUnlessBusy'
    BY <1>0, <1>2 DEF Retry, StartAttempt, Goto, OffUnlessBusy, TypeOK, queueVars, Queue!TypeOK
  <2> QED
    BY <1>0, <1>2, <2>1, <2>2, AroundList DEF Retry, StartAttempt, TypeOK
<1>3. CASE Leave(g)
  <2>1. attempt' \in [Gateways -> 0 .. MaxAttempts] /\ cleaning' \subseteq Gateways
    BY <1>0, <1>3 DEF Leave, TypeOK
  <2>2. Queue!TypeOK' /\ OffUnlessBusy'
    BY <1>0, <1>3, QueueStep DEF Leave, Goto, OffUnlessBusy, TypeOK
  <2> QED
    BY <1>0, <1>3, <2>1, <2>2, AroundList DEF Leave, TypeOK
<1>4. CASE ReconcileFails(g)
  <2>1. faults' \in 0 .. MaxFaults
    BY <1>4, CountUp DEF ReconcileFails, TypeOK
  <2>2. Queue!TypeOK' /\ OffUnlessBusy'
    BY <1>0, <1>4 DEF ReconcileFails, Goto, OffUnlessBusy, TypeOK, queueVars, Queue!TypeOK
  <2> QED
    BY <1>0, <1>4, <2>1, <2>2, AroundList DEF ReconcileFails, TypeOK
<1> QED
  BY <1>1, <1>2, <1>3, <1>4 DEF Goroutine, Succeed, GiveUp

LEMMA ResyncList ==
  ASSUME ListInv, ResyncTick
  PROVE  ListInv'
<1> USE DEF ListInv, TypeInv
<1>1. "resync" \in Refreshers /\ "gateways" \in PCs
  BY Others DEF PCs
<1>2. Queue!TypeOK' /\ OffUnlessBusy'
  BY <1>1, Others DEF ResyncTick, Goto, TypeOK, OffUnlessBusy, queueVars, Queue!TypeOK
<1> QED
  BY <1>1, <1>2, AroundList DEF ResyncTick, TypeOK

(* Every step keeps the invariant.                                         *)
LEMMA NextList == ListInv /\ [Next]_vars => ListInv'
<1> SUFFICES ASSUME ListInv, [Next]_vars
             PROVE  ListInv'
  OBVIOUS
<1>1. CASE Next
  BY <1>1, EditList, WorldList, ListsList, ApplyList, GoroutineList, ResyncList
  DEF Next, Edit, Refresh
<1>2. CASE UNCHANGED vars
  BY <1>2 DEF vars, ListInv, TypeInv, TypeOK, Queue!TypeOK, OffUnlessBusy, OnlyOurs,
     StillThere, GatewaysListed, AllListed
<1> QED
  BY <1>1, <1>2

-----------------------------------------------------------------------------
(* Every reachable state is well typed: no goroutine exceeds its attempts, *)
(* and what is mounted is a set of certificates.                           *)
THEOREM TypeCorrect == Spec => []TypeOK
<1>1. ListInv => TypeOK
  BY DEF ListInv, TypeInv
<1> QED
  BY InitList, NextList, <1>1, PTL DEF Spec

(* Who leaves "create" or "update" has stored what it had listed, if       *)
(* anything was stored at all.                                             *)
LEMMA WhoWrites ==
  ASSUME ListInv, Next, NEW r \in Refreshers, Writes(r)
  PROVE  deployment' = deployment \/ deployment' = Mounting(certs[r])
<1> USE DEF ListInv, TypeInv
<1>1. ASSUME NEW q \in Refreshers, NEW l, Goto(q, l), q # r
      PROVE  FALSE
  BY <1>1 DEF Goto, Writes, TypeOK
<1>2. CASE \E q \in Refreshers : Refresh(q) \/ RequestFails(q)
  <2>1. PICK q \in Refreshers : Refresh(q) \/ RequestFails(q)
    BY <1>2
  <2>2. q = r
    BY <2>1, <1>1 DEF Refresh, ListGateways, ListPolicies, Get, Refuse, Create, Update,
       RequestFails, Conclude
  <2> QED
    BY <2>1, <2>2 DEF Refresh, ListGateways, ListPolicies, Get, Refuse, Create, Update,
       RequestFails, Store, storeVars
<1>3. CASE \E g \in Gateways : Goroutine(g) \/ ReconcileFails(g)
  BY <1>3 DEF Goroutine, ReconcileFails, Begin, Retry, Succeed, GiveUp, Leave, StartAttempt,
     storeVars
<1>4. CASE ResyncTick \/ Sync \/ Restart \/ Edit
  BY <1>4 DEF ResyncTick, Sync, Restart, Edit, GatewayGoes, GatewayChanges, PolicyChanges,
     storeVars
<1>5. CASE \E d \in {deployment, Absent, Mounting({}), TakenOver} : OthersWrite(d)
  BY <1>5 DEF OthersWrite, Writes
<1> QED
  BY <1>2, <1>3, <1>4, <1>5 DEF Next, Edit

(* However many refreshes overlap, none takes away the mount of a          *)
(* certificate that one source has declared since the refresh began.       *)
THEOREM RefreshKeepsMountsHolds == Spec => RefreshKeepsMounts
<1>1. ListInv /\ [Next]_vars => [\A r \in Refreshers \ {"boot"} : KeepsSteady(r)]_vars
  <2> SUFFICES ASSUME ListInv, Next, NEW r \in Refreshers \ {"boot"}, Writes(r),
                      NEW p \in steady[r], p[2] \in deployment.mounts
               PROVE  p[2] \in deployment'.mounts
    BY DEF KeepsSteady
  <2>1. p[2] \in certs[r]
    BY DEF ListInv, AllListed, Writes
  <2>2. deployment' = deployment \/ deployment' = Mounting(certs[r])
    BY WhoWrites
  <2> QED
    BY <2>1, <2>2 DEF Mounting
<1> QED
  BY InitList, NextList, <1>1, PTL DEF Spec, RefreshKeepsMounts
=============================================================================
