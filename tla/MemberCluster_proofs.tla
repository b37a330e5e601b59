------------------------ MODULE MemberCluster_proofs ------------------------
(***************************************************************************)
(* Theorems about MemberCluster, for any sets of Gateways, other objects   *)
(* with a generation and objects without one, and any number of edits,     *)
(* given-up runs and restarts.                                             *)
(***************************************************************************)
EXTENDS MemberCluster, SequenceTheorems, TLAPS

(* What TypeOK leaves open: saw and infra are functions on the Gateways,   *)
(* and a running reconcile has read its inputs.                            *)
Shape ==
  /\ saw = [k \in Gateways |-> saw[k]]
  /\ infra = [k \in Gateways |-> infra[k]]
  /\ \A k \in Gateways : phase[k] = "busy" => saw[k] \in [Inputs(k) -> Versions]

TypeInv == TypeOK /\ Shape

(* Two successive versions of an object with a generation differ in what   *)
(* objectChanged compares.                                                 *)
Differ(v, w) == v.there # w.there \/ v.gen # w.gen

ChangesShow ==
  \A o \in Objects \ Services :
    /\ stream[o] # <<>> => Differ(cache[o], stream[o][1])
    /\ \A i \in 1 .. Len(stream[o]) - 1 : Differ(stream[o][i], stream[o][i + 1])

(* Only work in progress is marked dirty.                                  *)
DirtyNotIdle == \A k \in dirty : phase[k] # "idle"

(* A run of k that is still to come will read the caches.                  *)
Again(k) == k \in pending \/ phase[k] = "queued" \/ k \in dirty

(* As much of a version as events tell of.                                 *)
Same(o, v, w) == IF o \in Services \cup missed THEN v.there = w.there ELSE v = w

(* The cached version of o is the one k's running reconcile has read or    *)
(* its infra objects are rendered from, or its event is still to come.     *)
Known(k, o) ==
  \/ o \in pending
  \/ phase[k] = "busy" /\ Same(o, saw[k][o], cache[o])
  \/ phase[k] = "idle" /\ \/ k \in failed
                          \/ infra[k] # NoInfra /\ Same(o, infra[k][o], cache[o])

PresentKnown ==
  \A k \in Gateways : cache[k].there => Again(k) \/ \A o \in Inputs(k) : Known(k, o)

GoneKnown ==
  \A k \in Gateways : ~cache[k].there =>
    \/ crashes > 0
    \/ Again(k)
    \/ phase[k] = "busy" /\ ~saw[k][k].there
    \/ phase[k] = "idle" /\ (k \in failed \/ infra[k] = NoInfra)

EventInv == TypeInv /\ ChangesShow /\ DirtyNotIdle /\ PresentKnown /\ GoneKnown

-----------------------------------------------------------------------------
USE KindsAssumption, BoundsAssumption

(* A bounded counter that is below its limit can go up.                    *)
LEMMA CountUp ==
  ASSUME NEW m \in Nat, NEW n \in 0 .. m, n < m
  PROVE  n + 1 \in 0 .. m
  OBVIOUS

(* The newest version is the last one on its way, or the cached one.       *)
LEMMA ApiVersion ==
  ASSUME TypeOK, NEW o \in Objects
  PROVE  /\ Api(o) \in Versions
         /\ stream[o] = <<>> => Api(o) = cache[o]
         /\ stream[o] # <<>> => Api(o) = stream[o][Len(stream[o])]
<1>1. cache[o] \in Versions /\ stream[o] \in Seq(Versions)
  BY DEF TypeOK
<1>2. <<cache[o]>> \in Seq(Versions) /\ Len(<<cache[o]>>) = 1 /\ <<cache[o]>>[1] = cache[o]
  BY <1>1
<1> QED
  BY <1>1, <1>2 DEF Api, Last

LEMMA VersionFields ==
  ASSUME NEW v \in Versions
  PROVE  v.there \in BOOLEAN /\ v.gen \in Nat /\ v.rev \in Nat
  BY DEF Versions

LEMMA AbsentVersion ==
  ASSUME NEW n \in Nat
  PROVE  Absent(n) \in Versions /\ ~Absent(n).there /\ Absent(n).gen = 0
  BY DEF Absent, Versions

(* A function on the inputs of a Gateway is not the empty one.             *)
LEMMA SomeInfra ==
  ASSUME NEW k \in Gateways, NEW f \in [Inputs(k) -> Versions]
  PROVE  f # NoInfra
<1>1. k \in DOMAIN f /\ DOMAIN <<>> = {}
  BY DEF Inputs
<1> QED
  BY <1>1 DEF NoInfra

(* The inputs of a Gateway are objects, and no other Gateway is one.       *)
LEMMA InputObjects ==
  ASSUME NEW k \in Gateways
  PROVE  /\ Inputs(k) \subseteq Objects /\ k \in Inputs(k)
         /\ \A o \in Inputs(k) : o \in Gateways => o = k
         /\ \A o \in Objects \ Gateways : o \in Inputs(k)
  BY DEF Inputs, Objects, Others

(* What the steps of the queue do.                                         *)
LEMMA EnqueueStep ==
  ASSUME Queue!TypeOK, DirtyNotIdle, NEW k \in Gateways, Queue!Enqueue(k)
  PROVE  /\ Queue!TypeOK' /\ DirtyNotIdle'
         /\ phase'[k] = "queued" \/ k \in dirty'
         /\ \A h \in Gateways \ {k} : phase'[h] = phase[h] /\ (h \in dirty' <=> h \in dirty)
         /\ \A h \in Gateways : phase'[h] = "busy" <=> phase[h] = "busy"
  BY DEF Queue!TypeOK, Queue!Phases, Queue!Enqueue, DirtyNotIdle

LEMMA EnqueueAllStep ==
  ASSUME Queue!TypeOK, DirtyNotIdle, EnqueueAllGateways
  PROVE  /\ Queue!TypeOK' /\ DirtyNotIdle'
         /\ \A h \in Gateways : cache[h].there => phase'[h] = "queued" \/ h \in dirty'
         /\ \A h \in Gateways : ~cache[h].there =>
              phase'[h] = phase[h] /\ (h \in dirty' <=> h \in dirty)
         /\ \A h \in Gateways : phase'[h] = "busy" <=> phase[h] = "busy"
  BY DEF Queue!TypeOK, Queue!Phases, Queue!EnqueueAll, EnqueueAllGateways, DirtyNotIdle

LEMMA BeginStep ==
  ASSUME Queue!TypeOK, DirtyNotIdle, NEW k \in Gateways, Queue!Begin(k)
  PROVE  /\ Queue!TypeOK' /\ DirtyNotIdle'
         /\ phase'[k] = "busy" /\ dirty' = dirty
         /\ \A h \in Gateways \ {k} : phase'[h] = phase[h]
  BY DEF Queue!TypeOK, Queue!Phases, Queue!Begin, DirtyNotIdle

LEMMA FinishStep ==
  ASSUME Queue!TypeOK, DirtyNotIdle, NEW k \in Gateways, Queue!Finish(k)
  PROVE  /\ Queue!TypeOK' /\ DirtyNotIdle'
         /\ phase[k] = "busy"
         /\ k \in dirty => phase'[k] = "queued"
         /\ k \notin dirty => phase'[k] = "idle"
         /\ \A h \in Gateways \ {k} : phase'[h] = phase[h] /\ (h \in dirty' <=> h \in dirty)
  BY DEF Queue!TypeOK, Queue!Phases, Queue!Finish, DirtyNotIdle

-----------------------------------------------------------------------------
LEMMA InitEvent == Init => EventInv
<1> SUFFICES ASSUME Init PROVE EventInv
  OBVIOUS
<1>0. Absent(0) \in Versions /\ ~Absent(0).there
  BY AbsentVersion
<1>1. PICK S \in SUBSET Objects :
        stream = [o \in Objects |->
                    IF o \in S
                    THEN <<[there |-> TRUE, gen |-> NewGeneration(o, 0), rev |-> 0]>>
                    ELSE <<>>]
  BY DEF Init
<1>2. ASSUME NEW o \in Objects
      PROVE  [there |-> TRUE, gen |-> NewGeneration(o, 0), rev |-> 0] \in Versions
  BY DEF Versions, NewGeneration
<1>3. /\ cache \in [Objects -> Versions] /\ \A o \in Objects : ~cache[o].there
  BY <1>0 DEF Init
<1>4. /\ stream \in [Objects -> Seq(Versions)]
      /\ \A o \in Objects : \/ stream[o] = <<>>
                            \/ Len(stream[o]) = 1 /\ stream[o][1].there
  BY <1>1, <1>2
<1>5. Queue!TypeOK /\ DirtyNotIdle /\ \A k \in Gateways : phase[k] = "idle"
  BY DEF Init, Queue!Init, Queue!TypeOK, Queue!Phases, DirtyNotIdle
<1>6. TypeInv
  BY <1>3, <1>4, <1>5 DEF Init, TypeInv, TypeOK, Shape
<1>7. ChangesShow
  BY <1>3, <1>4 DEF ChangesShow, Differ
<1>8. PresentKnown /\ GoneKnown
  BY <1>3, <1>5, InputObjects DEF Init, PresentKnown, GoneKnown
<1> QED
  BY <1>5, <1>6, <1>7, <1>8 DEF EventInv

(* An edit is a version that differs from the newest one.                  *)
LEMMA EditEvent ==
  ASSUME EventInv, NEW o \in Objects, Edit(o)
  PROVE  EventInv'
<1>1. TypeOK /\ Shape /\ ChangesShow
  BY DEF EventInv, TypeInv
<1>2. PICK v \in {[there |-> TRUE, gen |-> NewGeneration(o, Api(o).gen), rev |-> Api(o).rev + 1]}
                 \cup (IF Api(o).there THEN {Absent(Api(o).rev + 1)} ELSE {}) :
        stream' = [stream EXCEPT ![o] = Append(@, v)]
  BY DEF Edit
<1>3. Api(o) \in Versions /\ Api(o).there \in BOOLEAN /\ Api(o).gen \in Nat /\ Api(o).rev \in Nat
  BY <1>1, ApiVersion, VersionFields
<1>4. v \in Versions /\ (o \notin Services => Differ(Api(o), v))
  <2>1. CASE v = [there |-> TRUE, gen |-> NewGeneration(o, Api(o).gen), rev |-> Api(o).rev + 1]
    <3>1. NewGeneration(o, Api(o).gen) \in Nat
          /\ (o \notin Services => NewGeneration(o, Api(o).gen) # Api(o).gen)
      BY <1>3 DEF NewGeneration
    <3>2. Api(o).rev + 1 \in Nat
      BY <1>3
    <3>3. v \in Versions
      BY <2>1, <3>1, <3>2 DEF Versions
    <3>4. v.gen = NewGeneration(o, Api(o).gen)
      BY <2>1
    <3> QED
      BY <3>1, <3>3, <3>4 DEF Differ
  <2>2. CASE Api(o).there /\ v = Absent(Api(o).rev + 1)
    <3>1. Api(o).rev + 1 \in Nat
      BY <1>3
    <3>2. Absent(Api(o).rev + 1) \in Versions /\ ~Absent(Api(o).rev + 1).there
      BY <3>1, AbsentVersion
    <3> QED
      BY <2>2, <3>2 DEF Differ
  <2> QED
    BY <1>2, <2>1, <2>2
<1>5. stream \in [Objects -> Seq(Versions)] /\ stream[o] \in Seq(Versions)
  BY <1>1 DEF TypeOK
<1>6. /\ stream' \in [Objects -> Seq(Versions)]
      /\ \A p \in Objects \ {o} : stream'[p] = stream[p]
      /\ stream'[o] = Append(stream[o], v)
  BY <1>2, <1>4, <1>5
<1>7. /\ Len(stream'[o]) = Len(stream[o]) + 1 /\ stream'[o][Len(stream[o]) + 1] = v
      /\ \A i \in 1 .. Len(stream[o]) : stream'[o][i] = stream[o][i]
      /\ Len(stream[o]) \in Nat
  BY <1>4, <1>5, <1>6
<1>8. TypeInv'
  <2>1. edits' \in 0 .. MaxEdits
    BY <1>1, CountUp DEF Edit, TypeOK
  <2> QED
    BY <1>1, <1>6, <2>1
    DEF Edit, TypeInv, TypeOK, Shape, queueVars, Queue!TypeOK
<1>9. ChangesShow'
  <2> SUFFICES ASSUME NEW p \in Objects \ Services
               PROVE  /\ stream'[p] # <<>> => Differ(cache'[p], stream'[p][1])
                      /\ \A i \in 1 .. Len(stream'[p]) - 1 :
                           Differ(stream'[p][i], stream'[p][i + 1])
    BY DEF ChangesShow
  <2>1. CASE p # o
    BY <1>1, <1>6, <2>1 DEF ChangesShow, Edit
  <2>2. CASE p = o /\ stream[o] = <<>>
    BY <1>1, <1>4, <1>7, <2>2, ApiVersion DEF Edit
  <2>3. CASE p = o /\ stream[o] # <<>>
    <3>1. Api(o) = stream[o][Len(stream[o])] /\ Len(stream[o]) >= 1
      BY <1>1, <1>5, <2>3, ApiVersion
    <3>2. /\ Differ(cache[o], stream[o][1])
          /\ \A i \in 1 .. Len(stream[o]) - 1 : Differ(stream[o][i], stream[o][i + 1])
      BY <1>1, <2>3 DEF ChangesShow
    <3>3. cache' = cache
      BY DEF Edit
    <3> QED
      BY <1>4, <1>7, <2>3, <3>1, <3>2, <3>3
  <2> QED
    BY <2>1, <2>2, <2>3
<1> QED
  BY <1>8, <1>9
  DEF Edit, EventInv, queueVars, DirtyNotIdle, PresentKnown, GoneKnown, Again, Known, Same

(* Whatever the informer skips, the handler is called or what it was not   *)
(* called about is not an object's existence.                              *)
LEMMA ObserveEvent ==
  ASSUME EventInv, NEW o \in Objects, NEW n \in 1 .. Len(stream[o]), Observe(o, n)
  PROVE  EventInv'
<1>1. TypeOK /\ Shape /\ ChangesShow /\ DirtyNotIdle
  BY DEF EventInv, TypeInv
<1> DEFINE s == stream[o]
<1>2. /\ s \in Seq(Versions) /\ Len(s) \in Nat /\ n \in Nat /\ n >= 1 /\ n <= Len(s)
      /\ s # <<>> /\ cache[o] \in Versions
  BY <1>1 DEF TypeOK
<1>3. s[n] \in Versions /\ n + 1 \in Nat
  BY <1>2
<1> DEFINE t == SubSeq(s, n + 1, Len(s))
<1>4. /\ t \in Seq(Versions) /\ Len(t) = Len(s) - n
      /\ \A i \in 1 .. Len(s) - n : t[i] = s[i + n]
  BY <1>2, <1>3
<1>5. /\ cache' \in [Objects -> Versions] /\ cache'[o] = s[n]
      /\ \A p \in Objects \ {o} : cache'[p] = cache[p]
  BY <1>1, <1>3 DEF Observe, TypeOK
<1>6. /\ stream' \in [Objects -> Seq(Versions)] /\ stream'[o] = t
      /\ \A p \in Objects \ {o} : stream'[p] = stream[p]
  BY <1>1, <1>4 DEF Observe, TypeOK
<1>7. /\ UNCHANGED <<phase, dirty, saw, infra, failed, edits, failures, crashes>>
      /\ pending \subseteq pending' /\ pending' \subseteq Objects /\ missed' \subseteq Objects
      /\ \A p \in Objects \ {o} : p \in missed' <=> p \in missed
  BY <1>1 DEF Observe, TypeOK, queueVars, bounds
<1>8. TypeInv'
  BY <1>1, <1>5, <1>6, <1>7 DEF TypeInv, TypeOK, Shape, Queue!TypeOK
<1>9. ChangesShow'
  <2> SUFFICES ASSUME NEW p \in Objects \ Services
               PROVE  /\ stream'[p] # <<>> => Differ(cache'[p], stream'[p][1])
                      /\ \A i \in 1 .. Len(stream'[p]) - 1 :
                           Differ(stream'[p][i], stream'[p][i + 1])
    BY DEF ChangesShow
  <2>1. CASE p # o
    BY <1>1, <1>5, <1>6, <2>1 DEF ChangesShow
  <2>2. CASE p = o
    <3>1. \A i \in 1 .. Len(s) - 1 : Differ(s[i], s[i + 1])
      BY <1>1, <2>2 DEF ChangesShow
    <3>2. stream'[o] # <<>> => Differ(cache'[o], stream'[o][1])
      <4> SUFFICES ASSUME t # <<>> PROVE Differ(s[n], t[1])
        BY <1>5, <1>6
      <4>1. Len(s) - n >= 1
        BY <1>2, <1>4
      <4>2. t[1] = s[n + 1] /\ n \in 1 .. Len(s) - 1
        BY <1>2, <1>4, <4>1
      <4> QED
        BY <3>1, <4>2
    <3>3. ASSUME NEW i \in 1 .. Len(t) - 1
          PROVE  Differ(t[i], t[i + 1])
      <4>1. /\ t[i] = s[i + n] /\ t[i + 1] = s[(i + n) + 1]
            /\ i + n \in 1 .. Len(s) - 1
        BY <1>2, <1>4
      <4> QED
        BY <3>1, <4>1
    <3> QED
      BY <1>6, <2>2, <3>2, <3>3
  <2> QED
    BY <2>1, <2>2
<1>10. CASE HandlerCalls(cache[o], s[n])
  <2>1. o \in pending'
    BY <1>10 DEF Observe
  <2>2. PresentKnown'
    BY <1>5, <1>7, <2>1, InputObjects
    DEF EventInv, PresentKnown, Again, Known, Same
  <2>3. GoneKnown'
    <3>1. ASSUME NEW k \in Gateways, k # o
          PROVE  /\ cache'[k] = cache[k] /\ (Again(k) => Again(k)')
      BY <1>5, <1>7, <3>1 DEF Again, Objects
    <3>2. o \in Gateways => Again(o)'
      BY <2>1 DEF Again
    <3> QED
      BY <1>7, <3>1, <3>2 DEF EventInv, GoneKnown
  <2> QED
    BY <1>1, <1>7, <1>8, <1>9, <2>2, <2>3 DEF EventInv, DirtyNotIdle
<1>11. CASE ~HandlerCalls(cache[o], s[n])
  <2>1. cache[o].there = s[n].there /\ cache[o].gen = s[n].gen /\ pending' = pending
    BY <1>11 DEF HandlerCalls, Observe
  <2>2. o \in Services \cup missed'
    <3>1. CASE n > 1
      BY <1>11, <3>1 DEF Observe
    <3>2. CASE n = 1
      BY <1>1, <1>2, <2>1, <3>2 DEF ChangesShow, Differ
    <3> QED
      BY <1>2, <3>1, <3>2
  <2>3. \A p \in Objects : cache'[p].there = cache[p].there
    BY <1>5, <2>1
  <2>5. ASSUME NEW k \in Gateways
        PROVE  Again(k)' = Again(k)
    BY <1>7, <2>1 DEF Again
  <2>6. ASSUME NEW k \in Gateways, NEW p \in Inputs(k), Known(k, p)
        PROVE  Known(k, p)'
    <3>1. p \in Objects
      BY InputObjects
    <3>2. Same(p, saw[k][p], cache[p]) => Same(p, saw[k][p], cache[p])'
      <4>1. saw' = saw
        BY <1>7
      <4> QED
        BY <1>5, <1>7, <2>1, <2>2, <3>1, <4>1 DEF Same
    <3>3. Same(p, infra[k][p], cache[p]) => Same(p, infra[k][p], cache[p])'
      <4>1. infra' = infra
        BY <1>7
      <4> QED
        BY <1>5, <1>7, <2>1, <2>2, <3>1, <4>1 DEF Same
    <3> QED
      BY <1>7, <2>1, <2>6, <3>2, <3>3 DEF Known
  <2>7. \A k \in Gateways : k \in Objects
    BY DEF Objects
  <2>8. PresentKnown'
    BY <2>3, <2>5, <2>6, <2>7 DEF EventInv, PresentKnown
  <2>9. GoneKnown'
    BY <1>7, <2>3, <2>5, <2>7 DEF EventInv, GoneKnown
  <2> QED
    BY <1>1, <1>7, <1>8, <1>9, <2>8, <2>9 DEF EventInv, DirtyNotIdle
<1> QED
  BY <1>10, <1>11

(* A handler call becomes work for the Gateway, or for all of them.        *)
LEMMA HandleEventEvent ==
  ASSUME EventInv, NEW o \in Objects, HandleEvent(o)
  PROVE  EventInv'
<1>1. TypeOK /\ Shape /\ ChangesShow /\ DirtyNotIdle /\ Queue!TypeOK
  BY DEF EventInv, TypeInv, TypeOK
<1>2. /\ UNCHANGED <<cache, stream, missed, saw, infra, failed, edits, failures, crashes>>
      /\ pending' = pending \ {o}
  BY DEF HandleEvent, bounds
<1>3. CASE o \in Gateways
  <2>1. Queue!Enqueue(o)
    BY <1>3 DEF HandleEvent
  <2>2. /\ Queue!TypeOK' /\ DirtyNotIdle' /\ Again(o)'
        /\ \A h \in Gateways \ {o} : phase'[h] = phase[h] /\ (h \in dirty' <=> h \in dirty)
        /\ \A h \in Gateways : phase'[h] = "busy" <=> phase[h] = "busy"
    BY <1>1, <1>3, <2>1, EnqueueStep DEF Again
  <2>3. TypeInv' /\ ChangesShow'
    BY <1>1, <1>2, <2>2 DEF TypeInv, TypeOK, Shape, ChangesShow
  <2>4. ASSUME NEW k \in Gateways, k # o
        PROVE  (Again(k) => Again(k)') /\ \A p \in Inputs(k) : Known(k, p) => Known(k, p)'
    BY <1>2, <1>3, <2>2, <2>4, InputObjects DEF Again, Known, Same
  <2>5. PresentKnown'
    BY <1>2, <2>2, <2>4 DEF EventInv, PresentKnown
  <2>6. GoneKnown'
    BY <1>2, <2>2, <2>4 DEF EventInv, GoneKnown
  <2> QED
    BY <2>2, <2>3, <2>5, <2>6 DEF EventInv
<1>4. CASE o \notin Gateways
  <2>1. EnqueueAllGateways
    BY <1>4 DEF HandleEvent
  <2>2. /\ Queue!TypeOK' /\ DirtyNotIdle'
        /\ \A h \in Gateways : cache[h].there => Again(h)'
        /\ \A h \in Gateways : ~cache[h].there =>
             phase'[h] = phase[h] /\ (h \in dirty' <=> h \in dirty)
        /\ \A h \in Gateways : phase'[h] = "busy" <=> phase[h] = "busy"
    BY <1>1, <2>1, EnqueueAllStep DEF Again
  <2>3. TypeInv' /\ ChangesShow'
    BY <1>1, <1>2, <2>2 DEF TypeInv, TypeOK, Shape, ChangesShow
  <2>4. PresentKnown'
    BY <1>2, <2>2 DEF PresentKnown
  <2>5. GoneKnown'
    BY <1>2, <1>4, <2>2 DEF EventInv, GoneKnown, Again
  <2> QED
    BY <2>2, <2>3, <2>4, <2>5 DEF EventInv
<1> QED
  BY <1>3, <1>4

LEMMA PeriodicRefreshEvent ==
  ASSUME EventInv, PeriodicRefresh
  PROVE  EventInv'
<1>1. TypeOK /\ Shape /\ ChangesShow /\ DirtyNotIdle /\ Queue!TypeOK
  BY DEF EventInv, TypeInv, TypeOK
<1>2. /\ UNCHANGED <<cache, stream, pending, missed, saw, infra, failed, edits, failures, crashes>>
      /\ EnqueueAllGateways
  BY DEF PeriodicRefresh, storeVars, bounds
<1>3. /\ Queue!TypeOK' /\ DirtyNotIdle'
      /\ \A h \in Gateways : cache[h].there => Again(h)'
      /\ \A h \in Gateways : ~cache[h].there =>
           phase'[h] = phase[h] /\ (h \in dirty' <=> h \in dirty)
      /\ \A h \in Gateways : phase'[h] = "busy" <=> phase[h] = "busy"
  BY <1>1, <1>2, EnqueueAllStep DEF Again
<1>4. TypeInv' /\ ChangesShow'
  BY <1>1, <1>2, <1>3 DEF TypeInv, TypeOK, Shape, ChangesShow
<1>5. PresentKnown'
  BY <1>2, <1>3 DEF PresentKnown
<1>6. GoneKnown'
  BY <1>2, <1>3 DEF EventInv, GoneKnown, Again
<1> QED
  BY <1>3, <1>4, <1>5, <1>6 DEF EventInv

(* An attempt that has read the caches knows all that is in them.          *)
LEMMA ReadEvent ==
  ASSUME TypeOK, Shape, NEW k \in Gateways, Read(k)
  PROVE  /\ saw' = [h \in Gateways |-> saw'[h]]
         /\ saw'[k] \in [Inputs(k) -> Versions]
         /\ \A o \in Inputs(k) : saw'[k][o] = cache[o]
         /\ \A h \in Gateways \ {k} : saw'[h] = saw[h]
<1>1. [o \in Inputs(k) |-> cache[o]] \in [Inputs(k) -> Versions]
  BY InputObjects DEF TypeOK
<1> DEFINE f == [o \in Inputs(k) |-> cache[o]]
<1>2. saw' = [saw EXCEPT ![k] = f]
  BY DEF Read
<1>3. DOMAIN saw = Gateways
  BY DEF Shape
<1>4. saw'[k] = f /\ \A h \in Gateways \ {k} : saw'[h] = saw[h]
  BY <1>2, <1>3
<1>5. saw' = [h \in Gateways |-> saw'[h]]
  BY <1>2, <1>3
<1> QED
  BY <1>1, <1>4, <1>5

LEMMA AttemptEvent ==
  ASSUME EventInv, NEW k \in Gateways, Begin(k) \/ NextAttempt(k)
  PROVE  EventInv'
<1>1. TypeOK /\ Shape /\ ChangesShow /\ DirtyNotIdle /\ Queue!TypeOK
  BY DEF EventInv, TypeInv, TypeOK
<1>2. /\ UNCHANGED <<cache, stream, pending, missed, infra, failed, edits, failures, crashes>>
      /\ Read(k)
  BY DEF Begin, NextAttempt, storeVars, bounds
<1>3. /\ Queue!TypeOK' /\ DirtyNotIdle' /\ phase'[k] = "busy" /\ dirty' = dirty
      /\ \A h \in Gateways \ {k} : phase'[h] = phase[h]
  <2>1. CASE Begin(k)
    BY <1>1, <2>1, BeginStep DEF Begin
  <2>2. CASE NextAttempt(k)
    BY <1>1, <2>2 DEF NextAttempt, queueVars, Queue!TypeOK, DirtyNotIdle
  <2> QED
    BY <2>1, <2>2
<1>4. /\ saw' = [h \in Gateways |-> saw'[h]]
      /\ saw'[k] \in [Inputs(k) -> Versions]
      /\ \A o \in Inputs(k) : saw'[k][o] = cache[o]
      /\ \A h \in Gateways \ {k} : saw'[h] = saw[h]
  BY <1>1, <1>2, ReadEvent
<1>5. TypeInv' /\ ChangesShow'
  BY <1>1, <1>2, <1>3, <1>4 DEF TypeInv, TypeOK, Shape, ChangesShow
<1>6. ASSUME NEW h \in Gateways, h # k
      PROVE  /\ Again(h) => Again(h)'
             /\ \A o \in Inputs(h) : Known(h, o) => Known(h, o)'
  BY <1>2, <1>3, <1>4, <1>6 DEF Again, Known, Same
<1>7. \A o \in Inputs(k) : Known(k, o)'
  BY <1>2, <1>3, <1>4 DEF Known, Same
<1>8. PresentKnown'
  BY <1>2, <1>6, <1>7 DEF EventInv, PresentKnown
<1>9. ~cache[k].there => ~saw'[k][k].there
  BY <1>4, InputObjects
<1>10. GoneKnown'
  BY <1>2, <1>3, <1>4, <1>6, <1>9 DEF EventInv, GoneKnown
<1> QED
  BY <1>3, <1>5, <1>8, <1>10 DEF EventInv

(* A run that ends has rendered what it read, or is known to have failed.  *)
LEMMA FinishEvent ==
  ASSUME EventInv, NEW k \in Gateways, Succeed(k) \/ GiveUp(k)
  PROVE  EventInv'
<1>1. /\ TypeOK /\ Shape /\ ChangesShow /\ DirtyNotIdle /\ Queue!TypeOK
      /\ PresentKnown /\ GoneKnown
  BY DEF EventInv, TypeInv, TypeOK
<1>2. /\ UNCHANGED <<cache, stream, pending, missed, edits, crashes>>
      /\ Queue!Finish(k)
      /\ saw' = [saw EXCEPT ![k] = NoInfra]
  BY DEF Succeed, GiveUp, storeVars, bounds
<1>3. /\ Queue!TypeOK' /\ DirtyNotIdle' /\ phase[k] = "busy"
      /\ k \in dirty => phase'[k] = "queued"
      /\ k \notin dirty => phase'[k] = "idle"
      /\ \A h \in Gateways \ {k} : phase'[h] = phase[h] /\ (h \in dirty' <=> h \in dirty)
  BY <1>1, <1>2, FinishStep
<1>4. saw[k] \in [Inputs(k) -> Versions] /\ saw[k] # NoInfra
  BY <1>1, <1>3, SomeInfra DEF Shape
<1>5. /\ Outcome(k) \in [Inputs(k) -> Versions] \cup {NoInfra}
      /\ saw[k][k].there => Outcome(k) = saw[k]
      /\ ~saw[k][k].there => Outcome(k) = NoInfra
  BY <1>4 DEF Outcome
<1>6. PICK r \in {infra[k], Outcome(k)} :
        /\ infra' = [infra EXCEPT ![k] = r]
        /\ r = Outcome(k) \/ k \in failed'
  BY DEF Succeed, GiveUp
<1>7. /\ infra' = [h \in Gateways |-> infra'[h]]
      /\ infra'[k] = r
      /\ \A h \in Gateways \ {k} : infra'[h] = infra[h]
  BY <1>1, <1>6 DEF Shape
<1>8. /\ saw' = [h \in Gateways |-> saw'[h]]
      /\ saw'[k] = NoInfra
      /\ \A h \in Gateways \ {k} : saw'[h] = saw[h]
  BY <1>1, <1>2 DEF Shape
<1>9. /\ failed' \subseteq Gateways
      /\ \A h \in Gateways \ {k} : h \in failed' <=> h \in failed
  BY <1>1 DEF Succeed, GiveUp, TypeOK
<1>10. failures' \in 0 .. MaxFailures
  BY <1>1, CountUp DEF Succeed, GiveUp, TypeOK, bounds
<1>11. r \in [Inputs(k) -> Versions] \cup {NoInfra}
  BY <1>1, <1>5, <1>6 DEF TypeOK
<1>12. TypeInv' /\ ChangesShow'
  <2>1. \A h \in Gateways : infra'[h] \in [Inputs(h) -> Versions] \cup {NoInfra}
    BY <1>1, <1>7, <1>11 DEF TypeOK
  <2>2. \A h \in Gateways : saw'[h] \in [Inputs(h) -> Versions] \cup {NoInfra}
    BY <1>1, <1>8 DEF TypeOK
  <2>3. \A h \in Gateways : phase'[h] = "busy" => saw'[h] \in [Inputs(h) -> Versions]
    BY <1>1, <1>3, <1>8 DEF Shape
  <2> QED
    BY <1>1, <1>2, <1>3, <1>7, <1>8, <1>9, <1>10, <2>1, <2>2, <2>3
    DEF TypeInv, TypeOK, Shape, ChangesShow
<1>13. ASSUME NEW h \in Gateways, h # k
       PROVE  /\ Again(h) => Again(h)'
              /\ \A o \in Inputs(h) : Known(h, o) => Known(h, o)'
  BY <1>2, <1>3, <1>7, <1>8, <1>9, <1>13 DEF Again, Known, Same
<1>14. Again(k) => Again(k)'
  BY <1>2, <1>3 DEF Again
<1>15. PresentKnown'
  <2>1. ASSUME cache[k].there, ~Again(k), NEW o \in Inputs(k)
        PROVE  Known(k, o)'
    <3>1. phase'[k] = "idle" /\ k \notin pending
      BY <1>3, <2>1 DEF Again
    <3>2. \A p \in Inputs(k) : p \in pending \/ Same(p, saw[k][p], cache[p])
      BY <1>1, <1>3, <2>1 DEF PresentKnown, Known
    <3>3. saw[k][k].there
      BY <2>1, <3>1, <3>2, InputObjects DEF Same
    <3>4. CASE r = Outcome(k)
      BY <1>2, <1>4, <1>5, <1>7, <3>1, <3>2, <3>3, <3>4 DEF Known, Same
    <3>5. CASE k \in failed'
      BY <3>1, <3>5 DEF Known
    <3> QED
      BY <1>6, <3>4, <3>5
  <2> QED
    BY <1>1, <1>2, <1>13, <1>14, <2>1 DEF PresentKnown
<1>16. GoneKnown'
  <2>1. ASSUME ~cache[k].there, crashes = 0, ~Again(k)
        PROVE  phase'[k] = "idle" /\ (k \in failed' \/ infra'[k] = NoInfra)
    <3>1. phase'[k] = "idle"
      BY <1>3, <2>1 DEF Again
    <3>2. ~saw[k][k].there
      BY <1>1, <1>3, <2>1 DEF GoneKnown
    <3> QED
      BY <1>5, <1>6, <1>7, <3>1, <3>2
  <2>2. crashes > 0 \/ crashes = 0
    BY <1>1 DEF TypeOK
  <2> QED
    BY <1>1, <1>2, <1>3, <1>7, <1>8, <1>9, <1>13, <1>14, <2>1, <2>2 DEF GoneKnown
<1> QED
  BY <1>3, <1>12, <1>15, <1>16 DEF EventInv

(* After a restart every existing object is still to be reported.          *)
LEMMA CrashEvent ==
  ASSUME EventInv, Crash
  PROVE  EventInv'
<1>1. TypeOK /\ Shape
  BY DEF EventInv, TypeInv
<1> DEFINE objs == [o \in Objects |-> Api(o)]
<1>2. \A o \in Objects : objs[o] \in Versions /\ objs[o].rev \in Nat
  BY <1>1, ApiVersion, VersionFields
<1>3. /\ cache' = [o \in Objects |-> Absent(objs[o].rev)]
      /\ stream' = [o \in Objects |-> IF objs[o].there THEN <<objs[o]>> ELSE <<>>]
  BY DEF Crash, Listing
<1> HIDE DEF objs
<1>4. cache' \in [Objects -> Versions] /\ \A o \in Objects : ~cache'[o].there
  BY <1>2, <1>3, AbsentVersion
<1>5. /\ stream' \in [Objects -> Seq(Versions)]
      /\ \A o \in Objects : \/ stream'[o] = <<>>
                            \/ Len(stream'[o]) = 1 /\ stream'[o][1].there
  BY <1>2, <1>3
<1>6. /\ Queue!TypeOK' /\ DirtyNotIdle'
      /\ phase' = [k \in Gateways |-> "idle"]
  BY DEF Crash, Queue!TypeOK, Queue!Phases, DirtyNotIdle
<1>7. crashes' \in 0 .. MaxCrashes /\ crashes' > 0
  BY <1>1, CountUp DEF Crash, TypeOK
<1>8. TypeInv'
  BY <1>1, <1>4, <1>5, <1>6, <1>7 DEF Crash, TypeInv, TypeOK, Shape
<1>9. ChangesShow'
  BY <1>4, <1>5 DEF ChangesShow, Differ
<1>10. PresentKnown' /\ GoneKnown'
  BY <1>4, <1>7 DEF PresentKnown, GoneKnown, Objects
<1> QED
  BY <1>6, <1>8, <1>9, <1>10 DEF EventInv

LEMMA NextEvent == EventInv /\ [Next]_vars => EventInv'
<1> SUFFICES ASSUME EventInv, [Next]_vars PROVE EventInv'
  OBVIOUS
<1>1. ASSUME NEW o \in Objects, Edit(o) PROVE EventInv'
  BY <1>1, EditEvent
<1>2. ASSUME NEW o \in Objects, Sync(o) \/ Relist(o) PROVE EventInv'
  <2>1. stream[o] \in Seq(Versions)
    BY DEF EventInv, TypeInv, TypeOK
  <2>2. CASE Sync(o)
    BY <2>1, <2>2, ObserveEvent DEF Sync
  <2>3. CASE Relist(o)
    BY <2>1, <2>3, ObserveEvent DEF Relist
  <2> QED
    BY <1>2, <2>2, <2>3
<1>3. ASSUME NEW o \in Objects, HandleEvent(o) PROVE EventInv'
  BY <1>3, HandleEventEvent
<1>4. CASE PeriodicRefresh
  BY <1>4, PeriodicRefreshEvent
<1>5. ASSUME NEW k \in Gateways, Begin(k) \/ NextAttempt(k) PROVE EventInv'
  BY <1>5, AttemptEvent
<1>6. ASSUME NEW k \in Gateways, Succeed(k) \/ GiveUp(k) PROVE EventInv'
  BY <1>6, FinishEvent
<1>7. CASE Crash
  BY <1>7, CrashEvent
<1>8. CASE UNCHANGED vars
  BY <1>8
  DEF vars, EventInv, TypeInv, TypeOK, Shape, Queue!TypeOK, ChangesShow, DirtyNotIdle,
      PresentKnown, GoneKnown, Again, Known, Same
<1> QED
  BY <1>1, <1>2, <1>3, <1>4, <1>5, <1>6, <1>7, <1>8 DEF Next

-----------------------------------------------------------------------------
(* The variables of the event path keep their types: handler calls and     *)
(* skipped changes name watched objects, and what a reconcile has read and *)
(* rendered from covers the Gateway and everything it depends on.          *)
THEOREM TypeCorrect == Spec => []TypeOK
<1>1. EventInv => TypeOK
  BY DEF EventInv, TypeInv
<1> QED
  BY <1>1, InitEvent, NextEvent, PTL DEF Spec

(* No event is lost on its way from the watches of the member cluster      *)
(* through the handlers and the queue into the infra cluster: once all is  *)
(* at rest, a Gateway whose last run did not give up is rendered from what *)
(* the caches hold, as far as objectChanged lets an update through.        *)
THEOREM ConvergedHolds == Spec => []Converged
<1>1. EventInv => Converged
  <2> SUFFICES ASSUME EventInv, AtRest, NEW k \in Gateways \ failed
               PROVE  IF cache[k].there
                      THEN infra[k] # NoInfra /\ \A o \in Inputs(k) : Fresh(k, o)
                      ELSE crashes > 0 \/ infra[k] = NoInfra
    BY DEF Converged
  <2>1. pending = {} /\ phase[k] = "idle" /\ ~Again(k)
    BY DEF AtRest, EventInv, DirtyNotIdle, Again
  <2>2. CASE cache[k].there
    <3>1. \A o \in Inputs(k) : infra[k] # NoInfra /\ Same(o, infra[k][o], cache[o])
      BY <2>1, <2>2 DEF EventInv, PresentKnown, Known
    <3> QED
      BY <2>2, <3>1, InputObjects DEF Same, Fresh
  <2>3. CASE ~cache[k].there
    BY <2>1, <2>3 DEF EventInv, GoneKnown
  <2> QED
    BY <2>2, <2>3
<1> QED
  BY <1>1, InitEvent, NextEvent, PTL DEF Spec
=============================================================================
