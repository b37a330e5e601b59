----------------------- MODULE GatewayProcessor_proofs -----------------------
(***************************************************************************)
(* Theorems about GatewayProcessor, for every set of Gateways, any number  *)
(* of goroutines and any number of attempts.                               *)
(***************************************************************************)
EXTENDS GatewayProcessor, TLAPS

(* A live goroutine serves a key that has an entry in p.states, a free     *)
(* goroutine serves nothing.                                               *)
Owner ==
  \A g \in Goroutines :
    IF pc[g] = "idle" THEN job[g] = NoKey ELSE job[g] \in running

(* A goroutine never knows more than the world holds, and the outcomes     *)
(* recorded for a key are never newer than what its goroutine last read:   *)
(* a later outcome cannot overwrite a newer one.                           *)
Reading(g) == pc[g] \in {"reconcile", "backoff", "settle"}

Ordered ==
  /\ \A k \in Keys : served[k] <= world[k] /\ abandoned[k] <= world[k]
  /\ \A g \in Goroutines : Reading(g) =>
       /\ saw[g] <= world[job[g]]
       /\ served[job[g]] <= saw[g]
       /\ abandoned[job[g]] <= saw[g]

(* An attempt about to start is within the bound, and one that started is  *)
(* counted.                                                                *)
AttemptsCounted ==
  \A g \in Goroutines :
    /\ pc[g] = "attempt" => attempt[g] < MaxAttempts
    /\ Reading(g) => attempt[g] > 0

TypeInv == TypeOK /\ Owner /\ AttemptsCounted

(***************************************************************************)
(* The inductive invariant behind mutual exclusion: EntryMeansGoroutine is *)
(* what forbids a second "go p.run", MutualExclusion is what makes         *)
(* deleting the entry at the end of run safe.                              *)
(***************************************************************************)
LockInv == TypeInv /\ MutualExclusion /\ EntryMeansGoroutine

-----------------------------------------------------------------------------
USE NoKeyAssumption, MaxAttemptsAssumption, MaxChangesAssumption

(* The initial state, with no entries and no goroutines, is well typed.    *)
LEMMA InitType == Init => TypeInv
<1> SUFFICES ASSUME Init
             PROVE  TypeInv
  OBVIOUS
<1>1. cancelled \in BOOLEAN
  BY Zenon DEF Init
<1>2. 0 \in 0 .. MaxChanges /\ 0 \in 0 .. MaxAttempts
  OBVIOUS
<1>3. /\ running \subseteq Keys /\ dirty \subseteq Keys
      /\ undelivered \subseteq Keys
      /\ pc \in [Goroutines -> PCs]
      /\ job \in [Goroutines -> Keys \cup {NoKey}]
  BY DEF Init, PCs
<1>4. /\ attempt \in [Goroutines -> 0 .. MaxAttempts]
      /\ saw \in [Goroutines -> 0 .. MaxChanges]
      /\ world \in [Keys -> 0 .. MaxChanges]
      /\ served \in [Keys -> 0 .. MaxChanges]
      /\ abandoned \in [Keys -> 0 .. MaxChanges]
  BY <1>2 DEF Init
<1>5. Owner /\ AttemptsCounted
  BY DEF Init, Owner, AttemptsCounted, Reading
<1> QED
  BY <1>1, <1>3, <1>4, <1>5 DEF TypeInv, TypeOK

(* The critical sections of enqueue and run and the attempts of            *)
(* reconcileWithRetries keep the types, the entry of every live goroutine  *)
(* and the bound of the attempt loop; the entry matters because run uses   *)
(* the key to index the Gateways.  Deleting an entry needs that no other   *)
(* goroutine has the same key.                                             *)
LEMMA NextType == TypeInv /\ MutualExclusion /\ [Next]_vars => TypeInv'
<1> SUFFICES ASSUME TypeInv, MutualExclusion, [Next]_vars
             PROVE  TypeInv'
  OBVIOUS
<1> USE DEF TypeInv, TypeOK, Owner, AttemptsCounted, Reading, PCs, threadVars,
            lockVars, worldVars, outcomeVars
<1>1. ASSUME NEW k \in Keys, Change(k)
      PROVE  TypeInv'
  BY <1>1 DEF Change
<1>2. ASSUME NEW k \in Keys, Enqueue(k)
      PROVE  TypeInv'
  <2>1. CASE MarkDirty(k)
    BY <1>2, <2>1 DEF Enqueue, MarkDirty
  <2>2. CASE Start(k)
    <3>1. PICK g \in Goroutines : Spawn(k, g)
      BY <2>2 DEF Start
    <3>2. TypeOK'
      BY <1>2, <3>1 DEF Enqueue, Spawn
    <3>3. Owner' /\ AttemptsCounted'
      BY <1>2, <3>1 DEF Enqueue, Spawn
    <3> QED
      BY <3>2, <3>3
  <2> QED
    BY <1>2, <2>1, <2>2 DEF Enqueue
<1>3. ASSUME NEW g \in Goroutines, BeginAttempt(g)
      PROVE  TypeInv'
  BY <1>3 DEF BeginAttempt
<1>4. ASSUME NEW g \in Goroutines, Succeed(g)
      PROVE  TypeInv'
  BY <1>4 DEF Succeed
<1>5. ASSUME NEW g \in Goroutines, Fail(g)
      PROVE  TypeInv'
  BY <1>5 DEF Fail
<1>6. ASSUME NEW g \in Goroutines, RetryAfter(g)
      PROVE  TypeInv'
  BY <1>6 DEF RetryAfter
<1>7. ASSUME NEW g \in Goroutines, GiveUp(g)
      PROVE  TypeInv'
  BY <1>7 DEF GiveUp
<1>8. ASSUME NEW g \in Goroutines, Settle(g)
      PROVE  TypeInv'
  <2>1. CASE job[g] \in dirty
    BY <1>8, <2>1 DEF Settle, RunAgain
  <2>2. CASE job[g] \notin dirty
    <3>1. EndRun(g) /\ UNCHANGED <<cancelled, worldVars, outcomeVars>>
      BY <1>8, <2>2 DEF Settle
    <3>2. TypeOK'
      BY <3>1 DEF EndRun
    <3>3. Owner'
      BY <1>8, <3>1 DEF EndRun, Settle, MutualExclusion
    <3>4. AttemptsCounted'
      BY <3>1 DEF EndRun
    <3> QED
      BY <3>2, <3>3, <3>4
  <2> QED
    BY <2>1, <2>2
<1>9. CASE Cancel
  BY <1>9 DEF Cancel
<1>10. CASE UNCHANGED vars
  BY <1>10 DEF vars
<1> QED
  BY <1>1, <1>2, <1>3, <1>4, <1>5, <1>6, <1>7, <1>8, <1>9, <1>10 DEF Next, Step

-----------------------------------------------------------------------------
(* The same for the whole of LockInv: only Start adds a goroutine, and it  *)
(* does so for a key without one; only EndRun removes an entry, and its    *)
(* goroutine is the only one with that key and has no dirty bit.           *)
LEMMA InitLock == Init => LockInv
<1> SUFFICES ASSUME Init
             PROVE  LockInv
  OBVIOUS
<1>1. MutualExclusion /\ EntryMeansGoroutine
  BY DEF Init, MutualExclusion, EntryMeansGoroutine, Serves
<1> QED
  BY <1>1, InitType DEF LockInv

LEMMA NextLock == LockInv /\ [Next]_vars => LockInv'
<1> SUFFICES ASSUME LockInv, [Next]_vars
             PROVE  MutualExclusion' /\ EntryMeansGoroutine'
  BY NextType DEF LockInv
<1>t. TypeInv'
  BY NextType DEF LockInv
<1> USE DEF LockInv, TypeInv, TypeOK, Owner, MutualExclusion,
            EntryMeansGoroutine, Serves, threadVars, lockVars
<1>1. ASSUME UNCHANGED <<running, dirty, job>>,
             \A g \in Goroutines : pc'[g] = "idle" <=> pc[g] = "idle"
      PROVE  MutualExclusion' /\ EntryMeansGoroutine'
  BY <1>1
<1>2. ASSUME NEW k \in Keys, Enqueue(k)
      PROVE  MutualExclusion' /\ EntryMeansGoroutine'
  <2>1. CASE MarkDirty(k)
    BY <2>1 DEF MarkDirty
  <2>2. CASE Start(k)
    <3>1. PICK g \in Goroutines : Spawn(k, g)
      BY <2>2 DEF Start
    <3>2. k \notin running /\ pc[g] = "idle"
      BY <2>2, <3>1 DEF Start, Spawn
    <3>3. MutualExclusion'
      BY <3>1, <3>2 DEF Spawn
    <3>4. \A l \in Keys : l \in running' <=> \E h \in Goroutines : Serves(h, l)'
      <4> SUFFICES ASSUME NEW l \in Keys
                   PROVE  l \in running' <=> \E h \in Goroutines : Serves(h, l)'
        OBVIOUS
      <4>1. CASE l = k
        BY <3>1, <4>1 DEF Spawn
      <4>2. CASE l # k
        <5>1. \A h \in Goroutines : Serves(h, l)' <=> Serves(h, l)
          BY <3>1, <3>2, <4>2 DEF Spawn
        <5> QED
          BY <3>1, <4>2, <5>1 DEF Spawn
      <4> QED
        BY <4>1, <4>2
    <3> QED
      BY <3>1, <3>3, <3>4 DEF Spawn
  <2> QED
    BY <1>2, <2>1, <2>2 DEF Enqueue
<1>3. ASSUME NEW g \in Goroutines,
             BeginAttempt(g) \/ Succeed(g) \/ Fail(g) \/ RetryAfter(g) \/ GiveUp(g)
      PROVE  MutualExclusion' /\ EntryMeansGoroutine'
  <2>1. /\ UNCHANGED <<running, dirty, job>>
        /\ pc[g] # "idle" /\ pc'[g] # "idle"
        /\ \A h \in Goroutines : h # g => pc'[h] = pc[h]
    BY <1>3 DEF BeginAttempt, Succeed, Fail, RetryAfter, GiveUp
  <2> QED
    BY <1>1, <2>1
<1>4. ASSUME NEW g \in Goroutines, Settle(g)
      PROVE  MutualExclusion' /\ EntryMeansGoroutine'
  <2>1. CASE job[g] \in dirty
    BY <1>4, <2>1 DEF Settle, RunAgain
  <2>2. CASE job[g] \notin dirty
    <3>1. EndRun(g) /\ pc[g] = "settle"
      BY <1>4, <2>2 DEF Settle
    <3>2. \A h \in Goroutines : h # g => pc'[h] = pc[h] /\ job'[h] = job[h]
      BY <3>1 DEF EndRun
    <3>3. \A l \in Keys : l \in running' <=> \E h \in Goroutines : Serves(h, l)'
      BY <3>1, <3>2 DEF EndRun
    <3> QED
      BY <2>2, <3>1, <3>2, <3>3 DEF EndRun
  <2> QED
    BY <2>1, <2>2
<1>5. ASSUME NEW k \in Keys, Change(k)
      PROVE  MutualExclusion' /\ EntryMeansGoroutine'
  BY <1>1, <1>5 DEF Change
<1>6. CASE Cancel
  BY <1>1, <1>6 DEF Cancel
<1>7. CASE UNCHANGED vars
  BY <1>1, <1>7 DEF vars
<1> QED
  BY <1>2, <1>3, <1>4, <1>5, <1>6, <1>7 DEF Next, Step

(* The types hold in every behaviour of the processor.                     *)
THEOREM TypeCorrect == Spec => []TypeOK
<1>1. LockInv => TypeOK
  BY DEF LockInv, TypeInv
<1> QED
  BY <1>1, InitLock, NextLock, PTL DEF Spec

(* Two goroutines never reconcile the same Gateway at the same time, for   *)
(* any number of Gateways, events and retries: newGatewayProcessor's mutex *)
(* and its states map are enough.                                          *)
THEOREM MutualExclusionHolds == Spec => []MutualExclusion
<1>1. LockInv => MutualExclusion
  BY DEF LockInv
<1> QED
  BY <1>1, InitLock, NextLock, PTL DEF Spec

(* An entry of p.states exists exactly while a goroutine serves its key    *)
(* and no entry stays dirty without one: delete(p.states, key) neither     *)
(* leaks an entry nor removes a live one.                                  *)
THEOREM EntryMeansGoroutineHolds == Spec => []EntryMeansGoroutine
<1>1. LockInv => EntryMeansGoroutine
  BY DEF LockInv
<1> QED
  BY <1>1, InitLock, NextLock, PTL DEF Spec

-----------------------------------------------------------------------------
(***************************************************************************)
(* No event is lost.  NoLostEvent is not inductive: Succeed and GiveUp     *)
(* overwrite the outcome of the key, which is harmless only because the    *)
(* goroutine that writes it read the world after the outcome it replaces   *)
(* (Ordered), and that needs mutual exclusion (LockInv).                   *)
(***************************************************************************)
LostInv == LockInv /\ Ordered /\ NoLostEvent

LEMMA InitLost == Init => LostInv
<1> SUFFICES ASSUME Init
             PROVE  Ordered /\ NoLostEvent
  BY InitLock DEF LostInv
<1> QED
  BY DEF Init, Ordered, NoLostEvent, Accounted, Reading

(* Reads come in the order in which outcomes are recorded.                 *)
LEMMA NextOrdered == LockInv /\ Ordered /\ [Next]_vars => Ordered'
<1> SUFFICES ASSUME LockInv, Ordered, [Next]_vars
             PROVE  Ordered'
  OBVIOUS
<1> USE DEF LockInv, TypeInv, TypeOK, Owner, MutualExclusion, Ordered, Reading,
            threadVars, lockVars, worldVars, outcomeVars
<1>1. ASSUME NEW k \in Keys, Change(k)
      PROVE  Ordered'
  BY <1>1 DEF Change
<1>2. ASSUME NEW k \in Keys, Enqueue(k)
      PROVE  Ordered'
  <2>1. CASE MarkDirty(k)
    BY <1>2, <2>1 DEF Enqueue, MarkDirty
  <2>2. CASE Start(k)
    BY <1>2, <2>2 DEF Enqueue, Start, Spawn
  <2> QED
    BY <1>2, <2>1, <2>2 DEF Enqueue
<1>3. ASSUME NEW g \in Goroutines, BeginAttempt(g)
      PROVE  Ordered'
  BY <1>3 DEF BeginAttempt
<1>4. ASSUME NEW g \in Goroutines, Succeed(g)
      PROVE  Ordered'
  BY <1>4 DEF Succeed
<1>5. ASSUME NEW g \in Goroutines, Fail(g) \/ RetryAfter(g)
      PROVE  Ordered'
  BY <1>5 DEF Fail, RetryAfter
<1>6. ASSUME NEW g \in Goroutines, GiveUp(g)
      PROVE  Ordered'
  BY <1>6 DEF GiveUp
<1>7. ASSUME NEW g \in Goroutines, Settle(g)
      PROVE  Ordered'
  BY <1>7 DEF Settle, RunAgain, EndRun
<1>8. CASE Cancel
  BY <1>8 DEF Cancel
<1>9. CASE UNCHANGED vars
  BY <1>9 DEF vars
<1> QED
  BY <1>1, <1>2, <1>3, <1>4, <1>5, <1>6, <1>7, <1>8, <1>9 DEF Next, Step

(* Every step of the processor keeps a reason why the world of each key is *)
(* or will be reconciled.                                                  *)
LEMMA NextLost == LostInv /\ [Next]_vars => LostInv'
<1> SUFFICES ASSUME LostInv, [Next]_vars, ~cancelled', NEW k \in Keys
             PROVE  Accounted(k)'
  BY NextLock, NextOrdered DEF LostInv, NoLostEvent
<1> USE DEF LostInv, LockInv, TypeInv, TypeOK, Owner, MutualExclusion,
            Ordered, Reading, NoLostEvent, Accounted, Serves, WillObserve,
            threadVars, lockVars, worldVars, outcomeVars
<1>1. ASSUME NEW l \in Keys, Change(l)
      PROVE  Accounted(k)'
  BY <1>1 DEF Change
<1>2. ASSUME NEW l \in Keys, Enqueue(l)
      PROVE  Accounted(k)'
  <2>1. CASE MarkDirty(l)
    BY <1>2, <2>1 DEF Enqueue, MarkDirty
  <2>2. CASE Start(l)
    <3>1. PICK g \in Goroutines : Spawn(l, g)
      BY <2>2 DEF Start
    <3>2. CASE k = l
      BY <3>1, <3>2 DEF Spawn
    <3>3. CASE k # l
      <4>1. \A h \in Goroutines : Serves(h, k) /\ WillObserve(h) =>
                                  Serves(h, k)' /\ WillObserve(h)'
        BY <1>2, <3>1, <3>3 DEF Enqueue, Spawn
      <4> QED
        BY <1>2, <3>1, <3>3, <4>1 DEF Enqueue, Spawn
    <3> QED
      BY <3>2, <3>3
  <2> QED
    BY <1>2, <2>1, <2>2 DEF Enqueue
<1>3. ASSUME NEW g \in Goroutines, BeginAttempt(g)
      PROVE  Accounted(k)'
  <2>1. CASE job[g] = k
    BY <1>3, <2>1 DEF BeginAttempt
  <2>2. CASE job[g] # k
    BY <1>3, <2>2 DEF BeginAttempt
  <2> QED
    BY <2>1, <2>2
<1>4. ASSUME NEW g \in Goroutines, Succeed(g)
      PROVE  Accounted(k)'
  <2>1. CASE job[g] = k
    BY <1>4, <2>1 DEF Succeed
  <2>2. CASE job[g] # k
    BY <1>4, <2>2 DEF Succeed
  <2> QED
    BY <2>1, <2>2
<1>5. ASSUME NEW g \in Goroutines, Fail(g)
      PROVE  Accounted(k)'
  BY <1>5 DEF Fail
<1>6. ASSUME NEW g \in Goroutines, RetryAfter(g)
      PROVE  Accounted(k)'
  BY <1>6 DEF RetryAfter
<1>7. ASSUME NEW g \in Goroutines, GiveUp(g)
      PROVE  Accounted(k)'
  <2>1. CASE job[g] = k
    BY <1>7, <2>1 DEF GiveUp
  <2>2. CASE job[g] # k
    BY <1>7, <2>2 DEF GiveUp
  <2> QED
    BY <2>1, <2>2
<1>8. ASSUME NEW g \in Goroutines, Settle(g)
      PROVE  Accounted(k)'
  <2>1. CASE job[g] = k
    BY <1>8, <2>1 DEF Settle, RunAgain, EndRun
  <2>2. CASE job[g] # k
    BY <1>8, <2>2 DEF Settle, RunAgain, EndRun
  <2> QED
    BY <2>1, <2>2
<1>9. CASE Cancel
  BY <1>9 DEF Cancel
<1>10. CASE UNCHANGED vars
  BY <1>10 DEF vars
<1> QED
  BY <1>1, <1>2, <1>3, <1>4, <1>5, <1>6, <1>7, <1>8, <1>9, <1>10 DEF Next, Step

(* No change of a Gateway's world is lost between enqueue, the dirty bit   *)
(* and the end of run, for any number of Gateways, goroutines, attempts    *)
(* and changes.                                                            *)
THEOREM NoLostEventHolds == Spec => []NoLostEvent
<1>1. LostInv => NoLostEvent
  BY DEF LostInv
<1> QED
  BY <1>1, InitLost, NextLost, PTL DEF Spec

-----------------------------------------------------------------------------
(***************************************************************************)
(* Refinement of KeyQueue.                                                 *)
(***************************************************************************)

(* No entry and no goroutines is KeyQueue's initial state.                 *)
LEMMA InitRefines == Init => Promise!Init
BY DEF Init, Promise!Init, PhaseOf, Serves

(* With mutual exclusion the phase of a key is the phase of the one        *)
(* goroutine that serves it, so every step of GatewayProcessor is a step   *)
(* of KeyQueue for the key of that goroutine, or changes no phase.         *)
LEMMA NextRefines == LockInv /\ LockInv' /\ [Next]_vars
                       => [Promise!Next]_(Promise!queueVars)
<1> SUFFICES ASSUME LockInv, LockInv', [Next]_vars
             PROVE  [Promise!Next]_(Promise!queueVars)
  OBVIOUS
<1> USE DEF LockInv, TypeInv, TypeOK, Owner, Serves, threadVars, lockVars
<1>1. ASSUME UNCHANGED dirty, \A k \in Keys : PhaseOf(k)' = PhaseOf(k)
      PROVE  UNCHANGED Promise!queueVars
  BY <1>1 DEF Promise!queueVars
<1>2. ASSUME NEW g \in Goroutines, NEW k \in Keys, ~Serves(g, k), ~Serves(g, k)',
             \A h \in Goroutines : h # g =>
               pc'[h] = pc[h] /\ job'[h] = job[h] /\ attempt'[h] = attempt[h]
      PROVE  PhaseOf(k)' = PhaseOf(k)
  BY <1>2 DEF PhaseOf
<1>3. ASSUME UNCHANGED <<pc, job, attempt>>, NEW k \in Keys
      PROVE  PhaseOf(k)' = PhaseOf(k)
  BY <1>3 DEF PhaseOf
<1>4. ASSUME NEW k \in Keys, Enqueue(k)
      PROVE  Promise!Enqueue(k)
  <2>1. CASE MarkDirty(k)
    <3>1. PhaseOf(k) # "idle"
      BY <2>1 DEF MarkDirty, PhaseOf, EntryMeansGoroutine
    <3>2. \A l \in Keys : PhaseOf(l)' = PhaseOf(l)
      BY <1>3, <2>1 DEF MarkDirty
    <3> QED
      BY <2>1, <3>1, <3>2 DEF MarkDirty, Promise!Enqueue
  <2>2. CASE Start(k)
    <3>1. PICK g \in Goroutines : Spawn(k, g)
      BY <2>2 DEF Start
    <3>2. PhaseOf(k) = "idle"
      BY <2>2 DEF Start, PhaseOf, EntryMeansGoroutine
    <3>3. PhaseOf(k)' = "queued"
      BY <3>1 DEF Spawn, PhaseOf
    <3>4. \A l \in Keys : l # k => PhaseOf(l)' = PhaseOf(l)
      BY <1>2, <3>1 DEF Spawn
    <3> QED
      BY <3>1, <3>2, <3>3, <3>4 DEF Spawn, Promise!Enqueue
  <2> QED
    BY <1>4, <2>1, <2>2 DEF Enqueue
<1>5. ASSUME NEW g \in Goroutines, pc[g] # "idle", pc'[g] # "idle",
             UNCHANGED job,
             \A h \in Goroutines : h # g =>
               pc'[h] = pc[h] /\ attempt'[h] = attempt[h]
      PROVE  /\ job[g] \in Keys
             /\ \A k \in Keys : k # job[g] => PhaseOf(k)' = PhaseOf(k)
             /\ PhaseOf(job[g]) = IF pc[g] = "attempt" /\ attempt[g] = 0
                                  THEN "queued" ELSE "busy"
             /\ PhaseOf(job[g])' = IF pc'[g] = "attempt" /\ attempt'[g] = 0
                                   THEN "queued" ELSE "busy"
  <2>1. job[g] \in Keys
    BY <1>5
  <2>2. ASSUME NEW k \in Keys, k # job[g]
        PROVE  PhaseOf(k)' = PhaseOf(k)
    BY <1>2, <1>5, <2>2
  <2>3. \A h \in Goroutines : Serves(h, job[g]) => h = g
    BY <1>5 DEF MutualExclusion
  <2>4. \A h \in Goroutines : Serves(h, job[g])' => h = g
    BY <1>5 DEF MutualExclusion
  <2> QED
    BY <1>5, <2>1, <2>2, <2>3, <2>4 DEF PhaseOf
<1>6. ASSUME NEW g \in Goroutines, BeginAttempt(g)
      PROVE  Promise!Begin(job[g]) \/ UNCHANGED Promise!queueVars
  <2>1. /\ pc[g] = "attempt" /\ pc'[g] = "reconcile" /\ UNCHANGED <<job, dirty>>
        /\ \A h \in Goroutines : h # g =>
             pc'[h] = pc[h] /\ attempt'[h] = attempt[h]
    BY <1>6 DEF BeginAttempt
  <2>2. CASE attempt[g] = 0
    BY <1>5, <2>1, <2>2 DEF Promise!Begin
  <2>3. CASE attempt[g] # 0
    BY <1>1, <1>5, <2>1, <2>3
  <2> QED
    BY <2>2, <2>3
<1>7. ASSUME NEW g \in Goroutines, Succeed(g) \/ Fail(g) \/ RetryAfter(g) \/ GiveUp(g)
      PROVE  UNCHANGED Promise!queueVars
  <2>1. /\ pc[g] \in {"reconcile", "backoff"} /\ pc'[g] # "idle"
        /\ attempt[g] > 0 /\ UNCHANGED <<job, dirty, attempt>>
        /\ \A h \in Goroutines : h # g => pc'[h] = pc[h]
    BY <1>7 DEF Succeed, Fail, RetryAfter, GiveUp, AttemptsCounted, Reading
  <2> QED
    BY <1>1, <1>5, <2>1
<1>8. ASSUME NEW g \in Goroutines, Settle(g)
      PROVE  job[g] \in Keys /\ Promise!Finish(job[g])
  <2>1. CASE job[g] \in dirty
    <3>1. /\ pc[g] = "settle" /\ pc'[g] = "attempt" /\ attempt'[g] = 0
          /\ UNCHANGED job /\ dirty' = dirty \ {job[g]}
          /\ \A h \in Goroutines : h # g =>
               pc'[h] = pc[h] /\ attempt'[h] = attempt[h]
      BY <1>8, <2>1 DEF Settle, RunAgain
    <3> QED
      BY <1>5, <2>1, <3>1 DEF Promise!Finish
  <2>2. CASE job[g] \notin dirty
    <3>1. EndRun(g) /\ pc[g] = "settle"
      BY <1>8, <2>2 DEF Settle
    <3>2. PICK k \in Keys : k = job[g]
      BY <3>1
    <3>3. PhaseOf(k) = "busy"
      BY <3>1, <3>2 DEF PhaseOf, MutualExclusion
    <3>4. PhaseOf(k)' = "idle"
      BY <3>1, <3>2 DEF EndRun, PhaseOf, MutualExclusion
    <3>5. \A l \in Keys : l # k => PhaseOf(l)' = PhaseOf(l)
      BY <1>2, <3>1, <3>2 DEF EndRun
    <3>6. dirty' = dirty \ {k}
      BY <2>2, <3>1, <3>2 DEF EndRun
    <3> QED
      BY <2>2, <3>2, <3>3, <3>4, <3>5, <3>6 DEF Promise!Finish
  <2> QED
    BY <2>1, <2>2
<1>9. ASSUME NEW k \in Keys, Change(k)
      PROVE  UNCHANGED Promise!queueVars
  BY <1>1, <1>3, <1>9 DEF Change
<1>10. CASE Cancel
  BY <1>1, <1>3, <1>10 DEF Cancel
<1>11. CASE UNCHANGED vars
  BY <1>1, <1>3, <1>11 DEF vars
<1>12. ASSUME NEW g \in Goroutines, Step(g)
       PROVE  [Promise!Next]_(Promise!queueVars)
  <2>1. pc[g] # "idle" => job[g] \in Keys
    OBVIOUS
  <2> QED
    BY <1>6, <1>7, <1>8, <1>12, <2>1 DEF Step, BeginAttempt, Promise!Next
<1> QED
  BY <1>4, <1>9, <1>10, <1>11, <1>12 DEF Next, Promise!Next

(* The work processor implements KeyQueue: what the event handlers may     *)
(* rely on follows for any number of Gateways, goroutines and attempts.    *)
THEOREM RefinesKeyQueue == Spec => ImplementsKeyQueue
BY InitLock, NextLock, InitRefines, NextRefines, PTL
   DEF Spec, ImplementsKeyQueue, Promise!Spec
=============================================================================
