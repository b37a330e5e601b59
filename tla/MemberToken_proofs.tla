------------------------- MODULE MemberToken_proofs -------------------------
(***************************************************************************)
(* Theorems about MemberToken, for any lifetime, refresh margin, ticker    *)
(* period and duration of runs that TimesAssumption allows, and any number *)
(* of attempts and faults.                                                 *)
(***************************************************************************)
EXTENDS MemberToken, TLAPS

(* A goroutine runs exactly for a busy key.                                *)
OffUnlessBusy == pc = "off" <=> phase[Gw] # "busy"

(* A token that has time left is in a Secret that is there.                *)
LeftMeansThere == secret.left > 0 => secret.there

(* The cache is never ahead of an undamaged Secret, and it is the Secret   *)
(* unless it is behind.                                                    *)
CacheBehind ==
  /\ ~tampered => cache.left <= secret.left
  /\ ~behind => cache = secret

(* A token that has been granted in this run is younger than the run and   *)
(* lasts longer than what it is to replace; without another event it is    *)
(* younger than the last tick too.                                         *)
GrantedInRun ==
  pc \in {"get", "create", "update"} =>
    /\ token + waited >= Life
    /\ token >= secret.left /\ token >= cache.left
    /\ Gw \notin dirty => token + since >= Life

(* From the check, or the renewal, to the end of a run the token was       *)
(* current when the run began, or later.                                   *)
CurrentInRun ==
  pc \in {"deploy", "wait"} /\ "secret" \notin misled /\ ~tampered =>
    /\ secret.left + waited > Refresh
    /\ Gw \notin dirty => secret.left + since > Refresh

(* Between two runs it was current at the last tick; when a run is on its  *)
(* way it was current at most one period before that run was queued.       *)
CurrentAfterRun ==
  ok /\ ~tampered =>
    IF phase[Gw] = "idle"
    THEN secret.left + since > Refresh
    ELSE secret.left + Period + waited > Refresh

TokenInv ==
  /\ TypeOK /\ OffUnlessBusy /\ LeftMeansThere /\ CacheBehind /\ GrantedInRun
  /\ CurrentInRun /\ CurrentAfterRun

(* What a run that believed no old cache has in hand is the expiration of  *)
(* the token in the Secret, and what it leaves on the Deployment as well.  *)
StampInHand ==
  misled = {} /\ ~tampered =>
    /\ pc = "deploy" => token = secret.left
    /\ pc = "wait" => deployment.left = secret.left

StampInv == TokenInv /\ StampInHand /\ RolledWithToken

-----------------------------------------------------------------------------
USE TimesAssumption, BoundsAssumption

(* A bounded counter that is below its limit can go up.                    *)
LEMMA CountUp ==
  ASSUME NEW m \in Nat, NEW n \in 0 .. m, n < m
  PROVE  n + 1 \in 0 .. m
  OBVIOUS

(* Where counters and times begin.                                         *)
LEMMA Zeros ==
  /\ 0 \in 0 .. Life /\ 0 \in 0 .. Period /\ 0 \in 0 .. Delay
  /\ 0 \in 0 .. MaxAttempts /\ 0 \in 0 .. MaxFaults
  OBVIOUS

(* What Less does to a time that is left.                                  *)
LEMMA LessTime ==
  ASSUME NEW n \in 0 .. Life
  PROVE  Less(n) \in 0 .. Life /\ Less(n) + 1 >= n /\ Less(n) <= n
  BY DEF Less

LEMMA LessMonotone ==
  ASSUME NEW m \in 0 .. Life, NEW n \in 0 .. Life, m <= n
  PROVE  Less(m) <= Less(n)
  BY DEF Less

(* The fields of versions, and how they age.                               *)
LEMMA VersionFields ==
  ASSUME NEW v \in Versions
  PROVE  v.left \in 0 .. Life /\ v.there \in BOOLEAN
  BY DEF Versions

LEMMA AgedVersion ==
  ASSUME NEW v \in Versions
  PROVE  Aged(v) \in Versions /\ Aged(v).left = Less(v.left) /\ Aged(v).there = v.there
<1>1. Less(v.left) \in 0 .. Life
  BY VersionFields, LessTime
<1> QED
  BY <1>1 DEF Aged, Versions

LEMMA VersionTypes ==
  /\ Absent \in Versions /\ Absent.left = 0 /\ ~Absent.there
  /\ \A n \in 0 .. Life : Holding(n) \in Versions /\ Holding(n).left = n /\ Holding(n).there
  BY DEF Absent, Holding, Versions

(* The queue with its one key.                                             *)
LEMMA QueueSteps ==
  ASSUME Queue!TypeOK
  PROVE  /\ Queue!Enqueue(Gw) =>
              /\ Queue!TypeOK' /\ phase'[Gw] # "idle"
              /\ phase'[Gw] = "busy" <=> phase[Gw] = "busy"
              /\ phase[Gw] # "idle" => Gw \in dirty'
         /\ Queue!Begin(Gw) =>
              /\ Queue!TypeOK' /\ dirty' = dirty
              /\ phase[Gw] = "queued" /\ phase'[Gw] = "busy"
         /\ Queue!Finish(Gw) =>
              /\ Queue!TypeOK' /\ phase[Gw] = "busy" /\ phase'[Gw] # "busy"
              /\ phase'[Gw] = "idle" <=> Gw \notin dirty
  BY DEF Queue!TypeOK, Queue!Phases, Queue!Enqueue, Queue!Begin, Queue!Finish

(* The initial state.                                                      *)
LEMMA InitStamp == Init => StampInv
<1> SUFFICES ASSUME Init
             PROVE  StampInv
  OBVIOUS
<1>1. TypeOK
  <2>1. Queue!TypeOK /\ pc \in PCs /\ misled \subseteq {"stale", "secret", "deployment"}
    BY DEF Init, Queue!TypeOK, Queue!Phases, PCs
  <2>2. /\ behind \in BOOLEAN /\ newest \in BOOLEAN /\ ok \in BOOLEAN
        /\ tampered \in BOOLEAN
    BY Zenon DEF Init
  <2> QED
    BY <2>1, <2>2, VersionTypes, Zeros, Zenon DEF Init, TypeOK
<1>2. OffUnlessBusy /\ GrantedInRun /\ CurrentInRun /\ CurrentAfterRun /\ StampInHand
      /\ RolledWithToken
  BY DEF Init, OffUnlessBusy, GrantedInRun, CurrentInRun, CurrentAfterRun, StampInHand,
     RolledWithToken
<1>3. LeftMeansThere /\ CacheBehind
  BY VersionTypes DEF Init, LeftMeansThere, CacheBehind
<1> QED
  BY <1>1, <1>2, <1>3 DEF StampInv, TokenInv

-----------------------------------------------------------------------------
(* The passing of time.                                                    *)
LEMMA TickStamp ==
  ASSUME StampInv, Tick
  PROVE  StampInv'
<1> USE DEF StampInv, TokenInv
<1>0. /\ secret \in Versions /\ cache \in Versions /\ deployment \in Versions
      /\ secret' = Aged(secret) /\ cache' = Aged(cache) /\ deployment' = Aged(deployment)
      /\ token \in 0 .. Life /\ token' = Less(token)
      /\ since \in 0 .. Period /\ since' = since + 1 /\ waited \in 0 .. Delay
      /\ waited' = IF phase[Gw] = "idle" THEN waited ELSE waited + 1
      /\ UNCHANGED <<behind, queueVars, pc, attempt, newest, misled, ok, tampered, faults>>
  BY DEF Tick, TypeOK
<1>1. /\ secret.left \in 0 .. Life /\ cache.left \in 0 .. Life /\ deployment.left \in 0 .. Life
      /\ secret'.left = Less(secret.left) /\ cache'.left = Less(cache.left)
      /\ deployment'.left = Less(deployment.left) /\ secret'.there = secret.there
      /\ secret' \in Versions /\ cache' \in Versions /\ deployment' \in Versions
  BY <1>0, VersionFields, AgedVersion
<1>2. /\ secret'.left \in 0 .. Life /\ secret'.left + 1 >= secret.left
      /\ secret'.left <= secret.left
      /\ cache'.left \in 0 .. Life
      /\ token' \in 0 .. Life /\ token' + 1 >= token
      /\ cache.left <= secret.left => cache'.left <= secret'.left
      /\ secret.left <= token => secret'.left <= token'
      /\ cache.left <= token => cache'.left <= token'
  BY <1>0, <1>1, LessTime, LessMonotone
<1>3. TypeOK'
  <2>1. since' \in 0 .. Period
    BY <1>0, CountUp DEF Tick
  <2>2. waited' \in 0 .. Delay
    BY <1>0, CountUp DEF Tick
  <2> QED
    BY <1>0, <1>1, <1>2, <2>1, <2>2 DEF TypeOK, queueVars, Queue!TypeOK
<1>4. OffUnlessBusy' /\ LeftMeansThere' /\ StampInHand' /\ RolledWithToken'
  <2>1. OffUnlessBusy'
    BY <1>0 DEF OffUnlessBusy, queueVars
  <2>2. LeftMeansThere'
    BY <1>1, <1>2 DEF LeftMeansThere
  <2>3. StampInHand' /\ RolledWithToken'
    BY <1>0, <1>1 DEF StampInHand, RolledWithToken, queueVars
  <2> QED
    BY <2>1, <2>2, <2>3
<1>5. CacheBehind'
  BY <1>0, <1>2 DEF CacheBehind
<1>6. phase[Gw] # "idle" => waited' = waited + 1
  BY <1>0
<1>7. pc # "off" => phase[Gw] # "idle"
  BY DEF OffUnlessBusy
<1>8. GrantedInRun' /\ CurrentInRun'
  BY <1>0, <1>1, <1>2, <1>6, <1>7 DEF GrantedInRun, CurrentInRun, queueVars
<1>9. CurrentAfterRun'
  BY <1>0, <1>1, <1>2, <1>6 DEF CurrentAfterRun, queueVars
<1> QED
  BY <1>3, <1>4, <1>5, <1>8, <1>9

(* An event, from the ticker or not.                                       *)
LEMMA EventStamp ==
  ASSUME StampInv, PeriodicRefresh \/ Event
  PROVE  StampInv'
<1> USE DEF StampInv, TokenInv
<1>0. /\ Queue!Enqueue(Gw) /\ Queue!TypeOK
      /\ UNCHANGED <<storeVars, deployment, waited, runVars, ok, tampered, faults>>
      /\ since \in 0 .. Period /\ waited \in 0 .. Delay
      /\ since' \in 0 .. Period /\ (phase[Gw] = "idle" \/ Gw \in dirty' \/ since' = since)
  BY QueueSteps DEF PeriodicRefresh, Event, TypeOK
<1>1. /\ Queue!TypeOK' /\ phase'[Gw] # "idle"
      /\ phase'[Gw] = "busy" <=> phase[Gw] = "busy"
      /\ phase[Gw] # "idle" => Gw \in dirty'
  BY <1>0, QueueSteps
<1>2. secret.left \in 0 .. Life
  BY VersionFields DEF TypeOK
<1>3. TypeOK' /\ OffUnlessBusy' /\ LeftMeansThere' /\ CacheBehind'
  BY <1>0, <1>1 DEF TypeOK, OffUnlessBusy, LeftMeansThere, CacheBehind, storeVars, runVars
<1>4. GrantedInRun' /\ CurrentInRun'
  BY <1>0, <1>1 DEF GrantedInRun, CurrentInRun, OffUnlessBusy, storeVars, runVars
<1>5. CurrentAfterRun'
  BY <1>0, <1>1, <1>2 DEF CurrentAfterRun, storeVars
<1>6. StampInHand' /\ RolledWithToken'
  BY <1>0, <1>1 DEF StampInHand, RolledWithToken, storeVars, runVars
<1> QED
  BY <1>3, <1>4, <1>5, <1>6

(* The cache, the others and a restart.                                    *)
LEMMA WorldStamp ==
  ASSUME StampInv, Sync \/ Restart \/ \E v \in {Absent, Holding(0)} : Tamper(v)
  PROVE  StampInv'
<1> USE DEF StampInv, TokenInv
<1>1. CASE Sync
  <2>1. TypeOK' /\ OffUnlessBusy' /\ LeftMeansThere'
    BY <1>1 DEF Sync, TypeOK, Queue!TypeOK, OffUnlessBusy, LeftMeansThere, queueVars, runVars
  <2>2. secret.left \in 0 .. Life
    BY VersionFields DEF TypeOK
  <2>3. CacheBehind' /\ GrantedInRun'
    BY <1>1, <2>2 DEF Sync, CacheBehind, GrantedInRun, queueVars, runVars
  <2>4. CurrentInRun' /\ CurrentAfterRun' /\ StampInHand' /\ RolledWithToken'
    BY <1>1 DEF Sync, CurrentInRun, CurrentAfterRun, StampInHand, RolledWithToken, queueVars,
       runVars
  <2> QED
    BY <2>1, <2>3, <2>4
<1>2. CASE Restart
  <2>1. faults' \in 0 .. MaxFaults
    BY <1>2, CountUp DEF Restart, TypeOK
  <2>2. phase' \in [{Gw} -> {"idle", "queued", "busy"}] /\ phase'[Gw] = "queued"
    BY <1>2 DEF Restart, TypeOK, Queue!TypeOK, Queue!Phases
  <2>3. TypeOK'
    <3>1. Queue!TypeOK' /\ pc' \in PCs /\ misled' \subseteq {"stale", "secret", "deployment"}
      BY <1>2, <2>2 DEF Restart, Queue!TypeOK, Queue!Phases, PCs
    <3>2. behind' \in BOOLEAN /\ newest' \in BOOLEAN /\ ok' \in BOOLEAN
      BY <1>2, Zenon DEF Restart
    <3> QED
      BY <1>2, <2>1, <3>1, <3>2, Zeros, Zenon DEF Restart, TypeOK
  <2>4. secret.left \in 0 .. Life
    BY VersionFields DEF TypeOK
  <2>5. OffUnlessBusy' /\ LeftMeansThere' /\ CacheBehind'
    BY <1>2, <2>2, <2>4 DEF Restart, OffUnlessBusy, LeftMeansThere, CacheBehind
  <2>6. GrantedInRun' /\ CurrentInRun' /\ CurrentAfterRun' /\ StampInHand' /\ RolledWithToken'
    BY <1>2, <2>2 DEF Restart, GrantedInRun, CurrentInRun, CurrentAfterRun, StampInHand,
       RolledWithToken
  <2> QED
    BY <2>3, <2>5, <2>6
<1>3. ASSUME NEW v \in {Absent, Holding(0)}, Tamper(v)
      PROVE  StampInv'
  <2>1. v \in Versions /\ v.left = 0
    BY VersionTypes
  <2>2. faults' \in 0 .. MaxFaults
    BY <1>3, CountUp DEF Tamper, TypeOK
  <2>3. TypeOK'
    BY <1>3, <2>1, <2>2 DEF Tamper, TypeOK, queueVars, Queue!TypeOK
  <2>4. OffUnlessBusy' /\ LeftMeansThere' /\ CacheBehind'
    BY <1>3, <2>1 DEF Tamper, OffUnlessBusy, LeftMeansThere, CacheBehind, queueVars
  <2>5. GrantedInRun'
    BY <1>3, <2>1 DEF Tamper, GrantedInRun, queueVars, TypeOK
  <2>6. CurrentInRun' /\ CurrentAfterRun' /\ StampInHand' /\ RolledWithToken'
    BY <1>3 DEF Tamper, CurrentInRun, CurrentAfterRun, StampInHand, RolledWithToken
  <2> QED
    BY <2>3, <2>4, <2>5, <2>6
<1> QED
  BY <1>1, <1>2, <1>3

-----------------------------------------------------------------------------
(* A step of the goroutine that stores nothing and grants nothing.         *)
LEMMA QuietStamp ==
  ASSUME StampInv, TypeOK', UNCHANGED <<storeVars, deployment, since, queueVars, waited, ok,
                                        tampered>>,
         pc # "off", pc' \in {"check", "request", "error"}
  PROVE  StampInv'
<1> USE DEF StampInv, TokenInv
<1>1. phase[Gw] = "busy"
  BY DEF OffUnlessBusy
<1>2. OffUnlessBusy' /\ LeftMeansThere' /\ CacheBehind'
  BY <1>1 DEF OffUnlessBusy, LeftMeansThere, CacheBehind, storeVars, queueVars
<1>3. GrantedInRun' /\ CurrentInRun' /\ StampInHand'
  BY DEF GrantedInRun, CurrentInRun, StampInHand
<1>4. CurrentAfterRun' /\ RolledWithToken'
  BY <1>1 DEF CurrentAfterRun, RolledWithToken, storeVars, queueVars
<1> QED
  BY <1>2, <1>3, <1>4

LEMMA StartStamp ==
  ASSUME StampInv, Begin \/ Retry \/ Fails
  PROVE  StampInv'
<1> USE DEF StampInv, TokenInv
<1>1. CASE Begin
  <2>1. /\ Queue!TypeOK' /\ phase[Gw] = "queued" /\ phase'[Gw] = "busy" /\ dirty' = dirty
        /\ UNCHANGED <<storeVars, deployment, since, waited, token, newest, ok, tampered, faults>>
    BY <1>1, QueueSteps DEF Begin, TypeOK
  <2>2. TypeOK'
    BY <1>1, <2>1 DEF Begin, TypeOK, PCs, storeVars
  <2>3. OffUnlessBusy' /\ LeftMeansThere' /\ CacheBehind'
    BY <1>1, <2>1 DEF Begin, OffUnlessBusy, LeftMeansThere, CacheBehind, storeVars
  <2>4. GrantedInRun' /\ CurrentInRun' /\ CurrentAfterRun' /\ StampInHand' /\ RolledWithToken'
    BY <1>1, <2>1 DEF Begin, GrantedInRun, CurrentInRun, CurrentAfterRun, StampInHand,
       RolledWithToken, storeVars
  <2> QED
    BY <2>2, <2>3, <2>4
<1>2. CASE Retry
  <2>1. attempt' \in 0 .. MaxAttempts
    BY <1>2, CountUp DEF Retry, TypeOK
  <2>2. TypeOK'
    BY <1>2, <2>1 DEF Retry, TypeOK, PCs, storeVars, queueVars, Queue!TypeOK
  <2> QED
    BY <1>2, <2>2, QuietStamp DEF Retry
<1>3. CASE Fails
  <2>1. faults' \in 0 .. MaxFaults
    BY <1>3, CountUp DEF Fails, TypeOK
  <2>2. TypeOK'
    BY <1>3, <2>1 DEF Fails, TypeOK, PCs, storeVars, queueVars, Queue!TypeOK
  <2> QED
    BY <1>3, <2>2, QuietStamp DEF Fails, PCs
<1> QED
  BY <1>1, <1>2, <1>3

(* The check of the cached Secret.                                         *)
LEMMA CheckStamp ==
  ASSUME StampInv, Check
  PROVE  StampInv'
<1> USE DEF StampInv, TokenInv
<1>0. /\ secret.left \in 0 .. Life /\ cache.left \in 0 .. Life /\ phase[Gw] = "busy"
      /\ UNCHANGED <<storeVars, deployment, since, queueVars, waited, attempt, newest, ok,
                     tampered, faults>>
  BY VersionFields DEF Check, TypeOK, OffUnlessBusy
<1>1. CASE ~TokenSecretCurrent(cache)
  <2>1. pc' = "request" /\ UNCHANGED <<token, misled>>
    BY <1>1 DEF Check
  <2>2. TypeOK'
    BY <1>0, <2>1 DEF TypeOK, PCs, storeVars, queueVars, Queue!TypeOK
  <2> QED
    BY <1>0, <2>1, <2>2, QuietStamp DEF Check
<1>2. CASE TokenSecretCurrent(cache)
  <2>1. /\ pc' = "deploy" /\ token' = cache.left
        /\ misled' = IF behind THEN misled \cup {"stale"} ELSE misled
    BY <1>2 DEF Check
  <2>2. TypeOK'
    BY <1>0, <2>1 DEF TypeOK, PCs, storeVars, queueVars, Queue!TypeOK
  <2>3. OffUnlessBusy' /\ LeftMeansThere' /\ CacheBehind' /\ GrantedInRun'
    BY <1>0, <2>1 DEF OffUnlessBusy, LeftMeansThere, CacheBehind, GrantedInRun, storeVars,
       queueVars
  <2>4. CurrentInRun'
    <3>1. ~tampered => secret.left > Refresh
      BY <1>0, <1>2 DEF TokenSecretCurrent, CacheBehind
    <3> QED
      BY <1>0, <3>1 DEF CurrentInRun, TypeOK, storeVars
  <2>5. CurrentAfterRun' /\ RolledWithToken'
    BY <1>0 DEF CurrentAfterRun, RolledWithToken, storeVars, queueVars
  <2>6. StampInHand'
    BY <1>0, <2>1 DEF StampInHand, CacheBehind, storeVars
  <2> QED
    BY <2>2, <2>3, <2>4, <2>5, <2>6
<1> QED
  BY <1>1, <1>2

(* The grant and the Get of Apply.                                         *)
LEMMA GrantStamp ==
  ASSUME StampInv, Request \/ GetSecret
  PROVE  StampInv'
<1> USE DEF StampInv, TokenInv
<1>0. /\ secret.left \in 0 .. Life /\ cache.left \in 0 .. Life /\ phase[Gw] = "busy"
      /\ since \in 0 .. Period /\ waited \in 0 .. Delay
      /\ UNCHANGED <<storeVars, deployment, since, queueVars, waited, attempt, misled, ok,
                     tampered, faults>>
      /\ pc' \in {"get", "create", "update"}
  BY VersionFields DEF Request, GetSecret, TypeOK, OffUnlessBusy
<1>1. newest' \in BOOLEAN
  BY DEF Request, GetSecret, TypeOK
<1>2. token' \in 0 .. Life
  BY DEF Request, GetSecret, TypeOK
<1>3. TypeOK'
  BY <1>0, <1>1, <1>2 DEF TypeOK, PCs, storeVars, queueVars, Queue!TypeOK
<1>4. OffUnlessBusy' /\ LeftMeansThere' /\ CacheBehind' /\ CurrentInRun' /\ StampInHand'
  BY <1>0 DEF OffUnlessBusy, LeftMeansThere, CacheBehind, CurrentInRun, StampInHand, storeVars,
     queueVars
<1>5. GrantedInRun'
  <2>1. CASE Request
    BY <1>0, <2>1 DEF Request, GrantedInRun, storeVars, queueVars
  <2>2. CASE GetSecret
    BY <1>0, <2>2 DEF GetSecret, GrantedInRun, storeVars, queueVars
  <2> QED
    BY <2>1, <2>2
<1>6. CurrentAfterRun' /\ RolledWithToken'
  BY <1>0 DEF CurrentAfterRun, RolledWithToken, storeVars, queueVars
<1> QED
  BY <1>3, <1>4, <1>5, <1>6

(* The new token is stored, or lost, or refused.                           *)
LEMMA StoreStamp ==
  ASSUME StampInv, CreateSecret \/ UpdateSecret
  PROVE  StampInv'
<1> USE DEF StampInv, TokenInv
<1>0. /\ secret.left \in 0 .. Life /\ cache.left \in 0 .. Life /\ token \in 0 .. Life
      /\ phase[Gw] = "busy" /\ since \in 0 .. Period /\ waited \in 0 .. Delay
      /\ pc \in {"create", "update"}
      /\ UNCHANGED <<deployment, since, queueVars, waited, attempt, token, ok, faults>>
  BY VersionFields DEF CreateSecret, UpdateSecret, TypeOK, OffUnlessBusy
<1>1. CASE pc' = "deploy" /\ Store /\ UNCHANGED misled
  <2>1. Holding(token) \in Versions /\ Holding(token).left = token /\ Holding(token).there
    BY <1>0, VersionTypes
  <2>2. /\ secret' \in Versions /\ secret'.left = token /\ secret'.there
        /\ cache' = cache /\ behind' = TRUE /\ newest' = FALSE /\ tampered' = FALSE
    BY <1>1, <2>1 DEF Store
  <2>3. TypeOK'
    BY <1>0, <1>1, <2>2 DEF TypeOK, PCs, queueVars, Queue!TypeOK
  <2>4. OffUnlessBusy' /\ LeftMeansThere' /\ CacheBehind' /\ GrantedInRun'
    BY <1>0, <1>1, <2>2 DEF OffUnlessBusy, LeftMeansThere, CacheBehind, GrantedInRun, queueVars
  <2>5. CurrentInRun' /\ CurrentAfterRun'
    BY <1>0, <1>1, <2>2 DEF GrantedInRun, CurrentInRun, CurrentAfterRun, queueVars
  <2>6. StampInHand' /\ RolledWithToken'
    BY <1>0, <1>1, <2>2 DEF StampInHand, RolledWithToken, queueVars
  <2> QED
    BY <2>3, <2>4, <2>5, <2>6
<1>2. CASE /\ pc' = "deploy" /\ misled' = misled \cup {"secret"}
           /\ UNCHANGED <<storeVars, newest, tampered>>
  <2>1. TypeOK'
    BY <1>0, <1>2 DEF TypeOK, PCs, storeVars, queueVars, Queue!TypeOK
  <2>2. OffUnlessBusy' /\ LeftMeansThere' /\ CacheBehind' /\ GrantedInRun'
    BY <1>0, <1>2 DEF OffUnlessBusy, LeftMeansThere, CacheBehind, GrantedInRun, storeVars,
       queueVars
  <2>3. CurrentInRun' /\ CurrentAfterRun' /\ StampInHand' /\ RolledWithToken'
    BY <1>0, <1>2 DEF CurrentInRun, CurrentAfterRun, StampInHand, RolledWithToken, storeVars,
       queueVars
  <2> QED
    BY <2>1, <2>2, <2>3
<1>3. CASE pc' = "error" /\ UNCHANGED <<storeVars, newest, tampered, misled>>
  <2>1. TypeOK'
    BY <1>0, <1>3 DEF TypeOK, PCs, storeVars, queueVars, Queue!TypeOK
  <2> QED
    BY <1>0, <1>3, <2>1, QuietStamp
<1> QED
  BY <1>1, <1>2, <1>3 DEF CreateSecret, UpdateSecret

(* The Deployment gets the expiration, or Apply leaves it.                 *)
LEMMA DeployStamp ==
  ASSUME StampInv, ApplyDeployment
  PROVE  StampInv'
<1> USE DEF StampInv, TokenInv
<1>0. /\ token \in 0 .. Life /\ phase[Gw] = "busy" /\ pc = "deploy" /\ pc' = "wait"
      /\ UNCHANGED <<storeVars, since, queueVars, waited, attempt, token, newest, ok, tampered,
                     faults>>
  BY DEF ApplyDeployment, TypeOK, OffUnlessBusy
<1>1. /\ deployment' \in Versions /\ misled' \subseteq {"stale", "secret", "deployment"}
      /\ misled \subseteq misled'
      /\ misled' = {} => deployment'.left = token
  BY <1>0, VersionTypes DEF ApplyDeployment, TypeOK
<1>2. TypeOK'
  BY <1>0, <1>1 DEF TypeOK, PCs, storeVars, queueVars, Queue!TypeOK
<1>3. OffUnlessBusy' /\ LeftMeansThere' /\ CacheBehind' /\ GrantedInRun'
  BY <1>0 DEF OffUnlessBusy, LeftMeansThere, CacheBehind, GrantedInRun, storeVars, queueVars
<1>4. CurrentInRun' /\ CurrentAfterRun'
  BY <1>0, <1>1 DEF CurrentInRun, CurrentAfterRun, storeVars, queueVars
<1>5. StampInHand' /\ RolledWithToken'
  BY <1>0, <1>1 DEF StampInHand, RolledWithToken, storeVars, queueVars
<1> QED
  BY <1>2, <1>3, <1>4, <1>5

(* The end of a run.                                                       *)
LEMMA LeaveStamp ==
  ASSUME StampInv, Succeed \/ GiveUp
  PROVE  StampInv'
<1> USE DEF StampInv, TokenInv
<1>0. /\ secret.left \in 0 .. Life /\ since \in 0 .. Period /\ waited \in 0 .. Delay
      /\ Leave /\ pc' = "off" /\ waited' = 0
      /\ UNCHANGED <<storeVars, deployment, since, misled, tampered, faults>>
  BY VersionFields DEF Succeed, GiveUp, Leave, TypeOK
<1>1. /\ Queue!TypeOK' /\ phase[Gw] = "busy" /\ phase'[Gw] # "busy"
      /\ phase'[Gw] = "idle" <=> Gw \notin dirty
  BY <1>0, QueueSteps DEF Leave, TypeOK
<1>2. ok' \in BOOLEAN
  BY Zenon DEF Succeed, GiveUp
<1>3. ok' => pc = "wait" /\ "secret" \notin misled
  BY DEF Succeed, GiveUp
<1>4. TypeOK'
  <2>1. pc' \in PCs /\ UNCHANGED <<secret, cache, behind>>
    BY <1>0 DEF PCs, storeVars
  <2>2. newest' \in BOOLEAN
    BY <1>0, Zenon DEF Leave
  <2> QED
    BY <1>0, <1>1, <1>2, <2>1, <2>2, Zeros, Zenon DEF Leave, TypeOK
<1>5. OffUnlessBusy' /\ LeftMeansThere' /\ CacheBehind' /\ GrantedInRun' /\ CurrentInRun'
      /\ StampInHand'
  BY <1>0, <1>1 DEF OffUnlessBusy, LeftMeansThere, CacheBehind, GrantedInRun, CurrentInRun,
     StampInHand, storeVars
<1>6. CurrentAfterRun'
  BY <1>0, <1>1, <1>3 DEF CurrentInRun, CurrentAfterRun, storeVars
<1>7. RolledWithToken'
  BY <1>0, <1>1, <1>3 DEF StampInHand, RolledWithToken, storeVars
<1> QED
  BY <1>4, <1>5, <1>6, <1>7

(* Every step keeps the invariant.                                         *)
LEMMA NextStamp == StampInv /\ [Next]_vars => StampInv'
<1> SUFFICES ASSUME StampInv, [Next]_vars
             PROVE  StampInv'
  OBVIOUS
<1>1. CASE Next
  BY <1>1, TickStamp, EventStamp, WorldStamp, StartStamp, CheckStamp, GrantStamp, StoreStamp,
     DeployStamp, LeaveStamp DEF Next, Goroutine
<1>2. CASE UNCHANGED vars
  BY <1>2 DEF vars, StampInv, TokenInv, TypeOK, Queue!TypeOK, OffUnlessBusy, LeftMeansThere,
     CacheBehind, GrantedInRun, CurrentInRun, CurrentAfterRun, StampInHand, RolledWithToken
<1> QED
  BY <1>1, <1>2

-----------------------------------------------------------------------------
(* Every reachable state is well typed: no run exceeds its attempts or its *)
(* time, and no token has more than its life left.                         *)
THEOREM TypeCorrect == Spec => []TypeOK
<1>1. StampInv => TypeOK
  BY DEF StampInv, TokenInv
<1> QED
  BY InitStamp, NextStamp, <1>1, PTL DEF Spec

(* From a successful run on the token is valid at every moment, if others  *)
(* leave it alone and the next run does not give up: whenever the refresh  *)
(* margin is at least the period of the ticker and the duration of a run.  *)
THEOREM TokenValidHolds == Spec => []TokenValid
<1>1. StampInv => TokenValid
  <2> SUFFICES ASSUME StampInv, ok, ~tampered
               PROVE  Valid
    BY DEF TokenValid
  <2>1. secret.left \in 0 .. Life /\ since \in 0 .. Period /\ waited \in 0 .. Delay
    BY VersionFields DEF StampInv, TokenInv, TypeOK
  <2>2. secret.left > 0
    BY <2>1 DEF StampInv, TokenInv, CurrentAfterRun
  <2> QED
    BY <2>2 DEF StampInv, TokenInv, LeftMeansThere, Valid
<1> QED
  BY InitStamp, NextStamp, <1>1, PTL DEF Spec

(* A run that succeeded and was not misled by a cache has stamped the      *)
(* expiration of the Secret's token on the Deployment.                     *)
THEOREM RolledWithTokenHolds == Spec => []RolledWithToken
<1>1. StampInv => RolledWithToken
  BY DEF StampInv
<1> QED
  BY InitStamp, NextStamp, <1>1, PTL DEF Spec
=============================================================================
