-------------------------- MODULE DataPlane_proofs --------------------------
(***************************************************************************)
(* Theorems about DataPlane, for any number of Gateways that share an      *)
(* object name, any objects, and any number of attempts, edits and         *)
(* failures.                                                               *)
(***************************************************************************)
EXTENDS DataPlane, TLAPS

(* A goroutine runs only for a busy key.                                   *)
OffUnlessBusy ==
  \A g \in Gateways : phase[g] # "busy" => pc[g] = "off" /\ attempt[g] = 0

TypeInv == TypeOK /\ OffUnlessBusy

(* What Apply is about to replace, if the update can succeed at all, is    *)
(* not labelled by another manager.                                        *)
SafeToUpdate ==
  \A g \in Gateways : newest[g] => pc[g] = "update" /\ ~Refused(Api(At(g)))

OwnInv == TypeInv /\ SafeToUpdate

(* An event that the goroutine of g has yet to hear of.                    *)
Again(g) == phase[g] = "queued" \/ g \in dirty

(* Work is done for Gateways that have existed, and objects are theirs.    *)
KnownInv ==
  /\ \A g \in Gateways : /\ phase[g] # "idle" => g \in known
                         /\ g \in dirty => phase[g] # "idle"
  /\ \A o \in Objects : Api(o).by = "ours" => Api(o).gw \in known

(* A run applies or cleans up, as the generation it read has it, and that  *)
(* is the last one unless an event follows.                                *)
CallInv ==
  \A g \in Gateways :
    /\ pc[g] \in {"create", "update"} => gen[g] > 0
    /\ pc[g] = "delete" => gen[g] = 0
    /\ pc[g] # "off" /\ g \notin dirty => gen[g] = want[g]

(* A version is what generation n of Gateway g asks for; if n is 0, it is  *)
(* not annotated with g.                                                   *)
Fits(v, g, n) ==
  IF n = 0 THEN ~Deletable(v, g)
  ELSE There(v) /\ (v.by = "ours" => v = Rendered(g, n))

(* A Gateway can count on what it applied only while it is alone, and on   *)
(* its cleanup always.                                                     *)
Asked(g, n, o) == Alone(g) \/ n = 0 => Fits(Api(o), g, n)

(* The objects a run has passed are as it wants them.                      *)
PassedInv ==
  \A g \in Gateways \ misled :
    /\ pc[g] \in {"get", "create", "update", "delete"} =>
         \A j \in 1 .. step[g] - 1 : Asked(g, gen[g], Kinds[j])
    /\ pc[g] = "wait" => \A o \in Objects : Asked(g, gen[g], o)

(* So are all objects when no run is left to do.                           *)
RestInv ==
  \A g \in Gateways \ (failed \cup misled) :
    pc[g] = "off" /\ ~Again(g) => \A o \in Objects : Asked(g, want[g], o)

ObjectInv == TypeInv /\ KnownInv /\ CallInv /\ PassedInv /\ RestInv

-----------------------------------------------------------------------------
USE KindsAssumption, BoundsAssumption

(* The last version is the one appended, if any was.                       *)
LEMMA LastAppended ==
  ASSUME NEW S, NEW c \in S, NEW s \in Seq(S), NEW v \in S
  PROVE  Last(<<c>> \o Append(s, v)) = v
<1>1. <<c>> \in Seq(S) /\ Len(<<c>>) = 1
  OBVIOUS
<1> QED
  BY <1>1 DEF Last

(* It is the cached one if no other is on its way, and a version.          *)
LEMMA LastVersion ==
  ASSUME NEW S, NEW c \in S, NEW s \in Seq(S)
  PROVE  /\ s = <<>> => Last(<<c>> \o s) = c
         /\ Last(<<c>> \o s) \in S
<1>1. <<c>> \in Seq(S) /\ Len(<<c>>) = 1 /\ <<c>>[1] = c
  OBVIOUS
<1> QED
  BY <1>1 DEF Last

(* It stays when the watch delivers the first of the others.               *)
LEMMA LastDelivered ==
  ASSUME NEW S, NEW c \in S, NEW s \in Seq(S), s # <<>>
  PROVE  Last(<<Head(s)>> \o Tail(s)) = Last(<<c>> \o s)
<1>1. <<c>> \in Seq(S) /\ Len(<<c>>) = 1
  OBVIOUS
<1>2. /\ Len(s) \in Nat \ {0} /\ Head(s) = s[1] /\ Head(s) \in S
      /\ Tail(s) \in Seq(S) /\ Len(Tail(s)) = Len(s) - 1
  OBVIOUS
<1>3. Last(<<c>> \o s) = s[Len(s)]
  BY <1>1, <1>2 DEF Last
<1>4. CASE Len(s) = 1
  BY <1>2, <1>3, <1>4 DEF Last
<1>5. CASE Len(s) > 1
  BY <1>2, <1>3, <1>5 DEF Last
<1> QED
  BY <1>2, <1>4, <1>5

(* The parts of a history that is not empty.                               *)
LEMMA HeadTail ==
  ASSUME NEW S, NEW s \in Seq(S), s # <<>>
  PROVE  Head(s) \in S /\ Tail(s) \in Seq(S)
  OBVIOUS

(* A longer history is another one.                                        *)
LEMMA AppendDiffers ==
  ASSUME NEW S, NEW s \in Seq(S), NEW v \in S
  PROVE  Append(s, v) # s
<1>1. Len(Append(s, v)) = Len(s) + 1 /\ Len(s) \in Nat
  OBVIOUS
<1> QED
  BY <1>1

(* A bounded counter, and an index, that is below its limit can go up.     *)
LEMMA CountUp ==
  ASSUME NEW m \in Nat, NEW n \in 0 .. m, n < m
  PROVE  n + 1 \in 0 .. m /\ n + 1 \in 1 .. m /\ n + 2 \in Nat
  OBVIOUS

(* The object a goroutine is at is one of the objects.                     *)
LEMMA AtIsObject == TypeOK => \A g \in Gateways : At(g) \in Objects
  BY DEF TypeOK, At, Objects, Range

(* The initial state is well typed.                                        *)
LEMMA InitType == Init => OwnInv
<1> SUFFICES ASSUME Init
             PROVE  OwnInv
  OBVIOUS
<1>1. Absent \in Versions
  BY DEF Absent, Versions
<1>2. /\ want \in [Gateways -> Nat] /\ known \subseteq Gateways
      /\ pc \in [Gateways -> PCs]
      /\ attempt \in [Gateways -> 0 .. MaxAttempts]
      /\ gen \in [Gateways -> Nat]
      /\ step \in [Gateways -> 1 .. Len(Kinds)]
      /\ edits \in 0 .. MaxEdits /\ failures \in 0 .. MaxFailures
      /\ failed \subseteq Gateways /\ misled \subseteq Gateways
  BY DEF Init, PCs
<1>3. /\ cache \in [Objects -> Versions] /\ stream \in [Objects -> Seq(Versions)]
  BY <1>1 DEF Init
<1>4. newest \in [Gateways -> BOOLEAN] /\ \A g \in Gateways : ~newest[g]
  BY Zenon DEF Init
<1>5. Queue!TypeOK /\ OffUnlessBusy
  BY DEF Init, Queue!TypeOK, Queue!Phases, OffUnlessBusy
<1> QED
  BY <1>2, <1>3, <1>4, <1>5 DEF OwnInv, TypeInv, TypeOK, SafeToUpdate

(* Storing a version of an object and delivering one keep the types.       *)
LEMMA StoreType ==
  ASSUME TypeOK, NEW o \in Objects, NEW v \in Versions, Store(o, v)
  PROVE  /\ cache' \in [Objects -> Versions] /\ stream' \in [Objects -> Seq(Versions)]
         /\ newest' \in [Gateways -> BOOLEAN]
         /\ \A g \in Gateways : newest'[g] <=> newest[g] /\ At(g) # o
<1>1. cache' \in [Objects -> Versions] /\ stream' \in [Objects -> Seq(Versions)]
  BY DEF TypeOK, Store
<1>2. /\ newest' \in [Gateways -> BOOLEAN]
      /\ \A g \in Gateways : newest'[g] <=> newest[g] /\ At(g) # o
  BY Zenon DEF TypeOK, Store
<1> QED
  BY <1>1, <1>2

(* The queue's steps keep its types and touch no other key.                *)
LEMMA QueueStep ==
  ASSUME Queue!TypeOK, NEW g \in Gateways,
         Queue!Enqueue(g) \/ Queue!Begin(g) \/ Queue!Finish(g)
  PROVE  /\ Queue!TypeOK'
         /\ \A h \in Gateways : phase'[h] # "busy" => phase[h] # "busy" \/ h = g
         /\ Queue!Enqueue(g) => (phase'[g] # "busy" => phase[g] # "busy")
         /\ Queue!Begin(g) => phase[g] # "busy" /\ phase'[g] = "busy"
  BY DEF Queue!TypeOK, Queue!Phases, Queue!Enqueue, Queue!Begin, Queue!Finish

(* The users, the other managers and the cache keep the types.             *)
LEMMA WorldType ==
  ASSUME TypeInv,
         \/ \E g \in Gateways : EditGateway(g)
         \/ \E o \in Objects : \/ Sync(o)
                               \/ \E v \in {Api(o), [by |-> ""], [by |-> "other"]} :
                                    OthersWrite(o, v)
  PROVE  TypeInv'
<1> USE DEF TypeInv
<1>1. ASSUME NEW g \in Gateways, EditGateway(g)
      PROVE  TypeInv'
  <2>0. edits \in 0 .. MaxEdits /\ edits < MaxEdits /\ edits' = edits + 1
    BY <1>1 DEF EditGateway, TypeOK
  <2>1. want' \in [Gateways -> Nat] /\ known' \subseteq Gateways /\ edits' \in 0 .. MaxEdits
    <3>1. edits' \in 0 .. MaxEdits /\ edits + 2 \in Nat
      BY <2>0, CountUp
    <3>2. PICK n \in {edits + 2} \cup (IF want[g] > 0 THEN {0} ELSE {}) :
            want' = [want EXCEPT ![g] = n]
      BY <1>1 DEF EditGateway
    <3>3. n \in Nat
      <4>1. n = edits + 2 \/ n = 0
        BY <3>2, Zenon
      <4>2. 0 \in Nat /\ edits + 2 \in Nat
        BY <3>1
      <4> QED
        BY <4>1, <4>2, Zenon
    <3> QED
      BY <1>1, <3>1, <3>2, <3>3 DEF EditGateway, TypeOK
  <2>2. Queue!TypeOK' /\ \A h \in Gateways : phase'[h] # "busy" => phase[h] # "busy"
    BY <1>1, QueueStep DEF EditGateway, TypeOK
  <2> QED
    BY <1>1, <2>1, <2>2
    DEF EditGateway, TypeOK, OffUnlessBusy, storeVars, runVars, outcomeVars
<1>2. ASSUME NEW o \in Objects, Sync(o)
      PROVE  TypeInv'
  <2>0. /\ stream[o] \in Seq(Versions) /\ stream[o] # <<>>
        /\ cache \in [Objects -> Versions] /\ stream \in [Objects -> Seq(Versions)]
    BY <1>2 DEF Sync, TypeOK
  <2>1. cache' \in [Objects -> Versions] /\ stream' \in [Objects -> Seq(Versions)]
    <3>1. Head(stream[o]) \in Versions /\ Tail(stream[o]) \in Seq(Versions)
      BY <2>0, HeadTail
    <3> QED
      BY <1>2, <2>0, <3>1 DEF Sync
  <2> QED
    BY <1>2, <2>1
    DEF Sync, TypeOK, OffUnlessBusy, queueVars, runVars, outcomeVars, Queue!TypeOK
<1>3. ASSUME NEW o \in Objects, NEW v \in {Api(o), [by |-> ""], [by |-> "other"]},
             OthersWrite(o, v)
      PROVE  TypeInv'
  <2>1. Api(o) \in Versions
    <3>1. Absent \in Versions
      BY DEF Absent, Versions
    <3> QED
      BY <3>1, LastVersion DEF TypeOK, Api
  <2>2. v \in Versions
    <3>1. [by |-> ""] \in Versions /\ [by |-> "other"] \in Versions
      BY DEF Versions
    <3> QED
      BY <1>3, <2>1, <3>1
  <2>3. /\ cache' \in [Objects -> Versions] /\ stream' \in [Objects -> Seq(Versions)]
        /\ newest' \in [Gateways -> BOOLEAN]
    BY <1>3, <2>2, StoreType DEF OthersWrite
  <2>4. edits' \in 0 .. MaxEdits
    <3>1. edits \in 0 .. MaxEdits /\ edits < MaxEdits /\ edits' = edits + 1
      BY <1>3 DEF OthersWrite, TypeOK
    <3> QED
      BY <3>1, CountUp
  <2> QED
    BY <1>3, <2>3, <2>4
    DEF OthersWrite, TypeOK, OffUnlessBusy, queueVars, outcomeVars, Queue!TypeOK
<1> QED
  BY <1>1, <1>2, <1>3

(* What moves a goroutine within a run keeps the types of pc and step.     *)
LEMMA ProceedType ==
  ASSUME TypeOK, NEW g \in Gateways,
         Proceed(g) \/ (Goto(g, "error") /\ UNCHANGED step)
  PROVE  /\ pc' \in [Gateways -> PCs]
         /\ \A h \in Gateways \ {g} : pc'[h] = pc[h]
         /\ pc'[g] # "update"
         /\ step' \in [Gateways -> 1 .. Len(Kinds)]
         /\ \A h \in Gateways \ {g} : step'[h] = step[h]
<1>1. Len(Kinds) \in Nat
  OBVIOUS
<1>2. CASE Goto(g, "error") /\ UNCHANGED step
  BY <1>2 DEF Goto, TypeOK, PCs
<1>3. CASE Proceed(g) /\ step[g] < Len(Kinds)
  <2>1. step[g] \in 1 .. Len(Kinds) /\ step \in [Gateways -> 1 .. Len(Kinds)]
    BY DEF TypeOK
  <2>2. step[g] + 1 \in 1 .. Len(Kinds)
    <3>1. step[g] \in 0 .. Len(Kinds)
      BY <1>1, <2>1
    <3> QED
      BY <1>1, <1>3, <3>1, CountUp
  <2>3. step' = [step EXCEPT ![g] = @ + 1] /\ Goto(g, "get")
    BY <1>3 DEF Proceed
  <2>4. step' \in [Gateways -> 1 .. Len(Kinds)] /\ \A h \in Gateways \ {g} : step'[h] = step[h]
    BY <2>1, <2>2, <2>3
  <2> QED
    BY <2>3, <2>4 DEF Goto, TypeOK, PCs
<1>4. CASE Proceed(g) /\ ~(step[g] < Len(Kinds))
  BY <1>4 DEF Proceed, Goto, TypeOK, PCs
<1> QED
  BY <1>2, <1>3, <1>4

(* Every step of a goroutine keeps the types.                              *)
LEMMA GoroutineType ==
  ASSUME TypeInv, NEW g \in Gateways, Goroutine(g)
  PROVE  TypeInv'
<1> USE DEF TypeInv
<1>0. At(g) \in Objects /\ Rendered(g, gen[g]) \in Versions /\ Absent \in Versions
  BY AtIsObject DEF TypeOK, Rendered, Versions, Absent
<1>1. CASE Begin(g)
  <2>1. attempt[g] = 0 /\ phase'[g] = "busy" /\ Queue!TypeOK'
        /\ \A h \in Gateways \ {g} : phase'[h] # "busy" => phase[h] # "busy"
    BY <1>1, QueueStep DEF Begin, TypeOK, OffUnlessBusy
  <2>2. /\ pc' \in [Gateways -> PCs] /\ attempt' \in [Gateways -> 0 .. MaxAttempts]
        /\ gen' \in [Gateways -> Nat] /\ step' \in [Gateways -> 1 .. Len(Kinds)]
        /\ \A h \in Gateways \ {g} : pc'[h] = pc[h] /\ attempt'[h] = attempt[h]
    BY <1>1, <2>1 DEF Begin, StartAttempt, Goto, TypeOK, PCs
  <2> QED
    BY <1>1, <2>1, <2>2 DEF Begin, TypeOK, OffUnlessBusy, storeVars
<1>2. CASE Get(g)
  <2>1. pc[g] = "get" /\ phase[g] = "busy"
    BY <1>2 DEF Get, OffUnlessBusy
  <2>2. newest' \in [Gateways -> BOOLEAN]
    BY <1>2, Zenon DEF Get, TypeOK
  <2>3. /\ pc' \in [Gateways -> PCs] /\ step' \in [Gateways -> 1 .. Len(Kinds)]
        /\ \A h \in Gateways \ {g} : pc'[h] = pc[h]
        /\ misled' \subseteq Gateways
    BY <1>2, ProceedType DEF Get, Goto, TypeOK, CreateOrUpdate, PCs
  <2> QED
    BY <1>2, <2>1, <2>2, <2>3
    DEF Get, TypeOK, OffUnlessBusy, storeVars, queueVars, Queue!TypeOK
<1>3. CASE Create(g)
  <2>1. pc[g] = "create" /\ phase[g] = "busy"
    BY <1>3 DEF Create, OffUnlessBusy
  <2>2. /\ cache' \in [Objects -> Versions] /\ stream' \in [Objects -> Seq(Versions)]
        /\ newest' \in [Gateways -> BOOLEAN] /\ misled' \subseteq Gateways
    BY <1>0, <1>3, StoreType DEF Create, TypeOK, storeVars
  <2> QED
    BY <1>3, <2>1, <2>2, ProceedType
    DEF Create, TypeOK, OffUnlessBusy, queueVars, Queue!TypeOK
<1>4. CASE Update(g)
  <2>1. pc[g] = "update" /\ phase[g] = "busy"
    BY <1>4 DEF Update, OffUnlessBusy
  <2>2. /\ cache' \in [Objects -> Versions] /\ stream' \in [Objects -> Seq(Versions)]
        /\ newest' \in [Gateways -> BOOLEAN]
    BY <1>0, <1>4, StoreType DEF Update, TypeOK, storeVars
  <2>3. Proceed(g) \/ (Goto(g, "error") /\ UNCHANGED step)
    BY <1>4 DEF Update
  <2> QED
    BY <1>4, <2>1, <2>2, <2>3, ProceedType
    DEF Update, TypeOK, OffUnlessBusy, queueVars, outcomeVars, Queue!TypeOK
<1>5. CASE Delete(g)
  <2>1. pc[g] = "delete" /\ phase[g] = "busy"
    BY <1>5 DEF Delete, OffUnlessBusy
  <2>2. /\ cache' \in [Objects -> Versions] /\ stream' \in [Objects -> Seq(Versions)]
        /\ newest' \in [Gateways -> BOOLEAN]
    BY <1>0, <1>5, StoreType DEF Delete, TypeOK, storeVars
  <2>3. Proceed(g) \/ (Goto(g, "error") /\ UNCHANGED step)
    BY <1>5 DEF Delete
  <2> QED
    BY <1>5, <2>1, <2>2, <2>3, ProceedType
    DEF Delete, TypeOK, OffUnlessBusy, queueVars, outcomeVars, Queue!TypeOK
<1>6. CASE Fails(g)
  <2>1. pc[g] # "off" /\ phase[g] = "busy"
    BY <1>6 DEF Fails, OffUnlessBusy
  <2>2. newest' \in [Gateways -> BOOLEAN]
    BY <1>6, Zenon DEF Fails, TypeOK
  <2>3. /\ pc' \in [Gateways -> PCs] /\ failures' \in 0 .. MaxFailures
        /\ \A h \in Gateways \ {g} : pc'[h] = pc[h]
    BY <1>6 DEF Fails, Goto, TypeOK, PCs
  <2> QED
    BY <1>6, <2>1, <2>2, <2>3
    DEF Fails, TypeOK, OffUnlessBusy, storeVars, queueVars, outcomeVars, Queue!TypeOK
<1>7. CASE Retry(g)
  <2>1. pc[g] = "error" /\ phase[g] = "busy"
    BY <1>7 DEF Retry, OffUnlessBusy
  <2>2. /\ pc' \in [Gateways -> PCs] /\ attempt' \in [Gateways -> 0 .. MaxAttempts]
        /\ gen' \in [Gateways -> Nat] /\ step' \in [Gateways -> 1 .. Len(Kinds)]
        /\ \A h \in Gateways \ {g} : pc'[h] = pc[h] /\ attempt'[h] = attempt[h]
        /\ misled' \subseteq Gateways
    BY <1>7 DEF Retry, StartAttempt, Goto, TypeOK, PCs
  <2> QED
    BY <1>7, <2>1, <2>2
    DEF Retry, TypeOK, OffUnlessBusy, storeVars, queueVars, Queue!TypeOK
<1>8. CASE Succeed(g) \/ GiveUp(g)
  <2>1. Leave(g) /\ failed' \subseteq Gateways /\ misled' \subseteq Gateways
        /\ UNCHANGED failures
    BY <1>8 DEF Succeed, GiveUp, outcomeVars, TypeOK
  <2>2. Queue!TypeOK' /\ \A h \in Gateways \ {g} : phase'[h] # "busy" => phase[h] # "busy"
    BY <2>1, QueueStep DEF Leave, TypeOK
  <2>3. /\ pc' \in [Gateways -> PCs] /\ attempt' \in [Gateways -> 0 .. MaxAttempts]
        /\ gen' \in [Gateways -> Nat] /\ step' \in [Gateways -> 1 .. Len(Kinds)]
        /\ pc'[g] = "off" /\ attempt'[g] = 0
        /\ \A h \in Gateways \ {g} : pc'[h] = pc[h] /\ attempt'[h] = attempt[h]
    BY <2>1 DEF Leave, Goto, TypeOK, PCs
  <2>4. newest' \in [Gateways -> BOOLEAN]
    BY <2>1, Zenon DEF Leave, TypeOK
  <2> QED
    BY <2>1, <2>2, <2>3, <2>4 DEF Leave, TypeOK, OffUnlessBusy, storeVars
<1> QED
  BY <1>1, <1>2, <1>3, <1>4, <1>5, <1>6, <1>7, <1>8 DEF Goroutine

(* TypeInv is inductive.                                                   *)
LEMMA NextType == TypeInv /\ [Next]_vars => TypeInv'
<1>1. TypeInv /\ Next => TypeInv'
  BY WorldType, GoroutineType DEF Next
<1>2. TypeInv /\ UNCHANGED vars => TypeInv'
  BY DEF vars, TypeInv, TypeOK, OffUnlessBusy, Queue!TypeOK
<1> QED
  BY <1>1, <1>2

(* Every reachable state of the infra objects, their cache and the         *)
(* goroutines that write them is well typed; no goroutine makes more than  *)
(* MaxAttempts attempts, whatever interleaves with it.                     *)
THEOREM TypeCorrect == Spec => []TypeOK
<1>1. Init => TypeInv
  BY InitType DEF OwnInv
<1>2. TypeInv => TypeOK
  BY DEF TypeInv
<1> QED
  BY <1>1, <1>2, NextType, PTL DEF Spec

-----------------------------------------------------------------------------
(* What a step stores and what it delivers: the newest version of every    *)
(* other object stays, delivery changes none.                              *)
LEMMA ApiAfterStore ==
  ASSUME TypeOK, NEW o \in Objects, NEW v \in Versions, Store(o, v)
  PROVE  Api(o)' = v /\ \A p \in Objects \ {o} : Api(p)' = Api(p)
<1>1. cache[o] \in Versions /\ stream[o] \in Seq(Versions)
  BY DEF TypeOK
<1>2. /\ cache' = cache
      /\ stream'[o] = Append(stream[o], v)
      /\ \A p \in Objects \ {o} : stream'[p] = stream[p]
  BY DEF TypeOK, Store
<1>3. Last(<<cache[o]>> \o Append(stream[o], v)) = v
  BY <1>1, LastAppended
<1> QED
  BY <1>2, <1>3 DEF Api

LEMMA ApiAfterSync ==
  ASSUME TypeOK, NEW o \in Objects, Sync(o)
  PROVE  \A p \in Objects : Api(p)' = Api(p)
<1>1. /\ cache[o] \in Versions /\ stream[o] \in Seq(Versions) /\ stream[o] # <<>>
  BY DEF TypeOK, Sync
<1>2. /\ cache'[o] = Head(stream[o]) /\ stream'[o] = Tail(stream[o])
      /\ \A p \in Objects \ {o} : cache'[p] = cache[p] /\ stream'[p] = stream[p]
  BY DEF TypeOK, Sync
<1>3. Last(<<Head(stream[o])>> \o Tail(stream[o])) = Last(<<cache[o]>> \o stream[o])
  BY <1>1, LastDelivered
<1>4. Api(o)' = Api(o)
  BY <1>2, <1>3 DEF Api
<1> QED
  BY <1>2, <1>4 DEF Api

(* An update that could succeed before the step and still can after it     *)
(* has the same object to replace, with the same newest version.           *)
LEMMA StaysSafe ==
  ASSUME OwnInv, NEW h \in Gateways, newest[h],
         pc'[h] = pc[h], step'[h] = step[h], Api(At(h))' = Api(At(h)) \/ UNCHANGED storeVars
  PROVE  pc'[h] = "update" /\ ~Refused(Api(At(h)))'
<1>1. pc[h] = "update" /\ ~Refused(Api(At(h)))
  BY DEF OwnInv, SafeToUpdate
<1>2. At(h)' = At(h)
  BY DEF At
<1>3. Api(At(h))' = Api(At(h))
  BY <1>2 DEF Api, storeVars
<1> QED
  BY <1>1, <1>3 DEF Refused

(* The same for every goroutine when a version of o is stored.             *)
LEMMA StoreStaysSafe ==
  ASSUME OwnInv, NEW o \in Objects, NEW v \in Versions, Store(o, v),
         NEW h \in Gateways, newest'[h], pc'[h] = pc[h], step'[h] = step[h]
  PROVE  pc'[h] = "update" /\ ~Refused(Api(At(h)))'
<1>1. newest[h] /\ At(h) # o
  BY StoreType DEF OwnInv, TypeInv
<1>2. At(h)' = At(h) /\ At(h) \in Objects
  BY AtIsObject DEF At, OwnInv, TypeInv
<1>3. Api(At(h))' = Api(At(h))
  BY <1>1, <1>2, ApiAfterStore DEF OwnInv, TypeInv, Api
<1> QED
  BY <1>1, <1>3, StaysSafe

(* What a goroutine does to the objects: nothing, or it stores a version   *)
(* of the one it is at.  A version of ours never replaces another's.       *)
LEMMA GoroutineStores ==
  ASSUME OwnInv, NEW g \in Gateways, Goroutine(g)
  PROVE  \/ UNCHANGED storeVars
         \/ \E v \in Versions : /\ Store(At(g), v)
                                /\ v.by # "ours" \/ Api(At(g)).by # "other"
<1>0. Rendered(g, gen[g]) \in Versions /\ Absent \in Versions /\ Absent.by # "ours"
  BY DEF OwnInv, TypeInv, TypeOK, Rendered, Versions, Absent
<1>1. CASE Create(g)
  <2>1. CASE There(Api(At(g)))
    BY <1>1, <2>1 DEF Create
  <2>2. CASE ~There(Api(At(g)))
    BY <1>0, <1>1, <2>2 DEF Create, There
  <2> QED
    BY <2>1, <2>2
<1>2. CASE Update(g)
  <2>1. CASE newest[g]
    <3>1. ~Refused(Api(At(g))) /\ Store(At(g), Rendered(g, gen[g]))
      BY <1>2, <2>1 DEF Update, OwnInv, SafeToUpdate
    <3> QED
      BY <1>0, <3>1 DEF Refused
  <2>2. CASE ~newest[g]
    BY <1>2, <2>2 DEF Update
  <2> QED
    BY <2>1, <2>2
<1>3. CASE Delete(g)
  BY <1>0, <1>3 DEF Delete
<1>4. CASE Begin(g) \/ Get(g) \/ Fails(g) \/ Retry(g) \/ Succeed(g) \/ GiveUp(g)
  BY <1>4 DEF Begin, Get, Fails, Retry, Succeed, GiveUp, Leave, storeVars
<1> QED
  BY <1>1, <1>2, <1>3, <1>4 DEF Goroutine

(* A goroutine moves itself only, and an update it is left with can only   *)
(* succeed if it has just read a version that it may replace.              *)
LEMMA GoroutineMoves ==
  ASSUME OwnInv, NEW g \in Gateways, Goroutine(g)
  PROVE  /\ \A h \in Gateways \ {g} : pc'[h] = pc[h] /\ step'[h] = step[h]
         /\ UNCHANGED storeVars => \A h \in Gateways \ {g} : newest'[h] <=> newest[h]
         /\ newest'[g] => pc'[g] = "update" /\ ~Refused(Api(At(g)))'
<1> USE DEF OwnInv, TypeInv
<1>0. TypeOK /\ (newest[g] => pc[g] = "update") /\ At(g) \in Objects
  BY AtIsObject DEF SafeToUpdate
<1>1. CASE Get(g)
  <2>1. /\ \A h \in Gateways \ {g} : pc'[h] = pc[h] /\ step'[h] = step[h]
    BY <1>0, <1>1, ProceedType DEF Get, Goto, TypeOK
  <2>2. /\ \A h \in Gateways \ {g} : newest'[h] <=> newest[h]
        /\ newest'[g] <=> pc'[g] = "update" /\ stream[At(g)] = <<>>
    BY <1>1, Zenon DEF Get, TypeOK
  <2>3. ASSUME newest'[g]
        PROVE  ~Refused(Api(At(g)))'
    <3>1. pc'[g] = "update" /\ stream[At(g)] = <<>>
      BY <2>2, <2>3
    <3>2. gen[g] > 0 /\ UNCHANGED step /\ pc'[g] = CreateOrUpdate(cache[At(g)])
      BY <1>0, <1>1, <3>1, ProceedType DEF Get, Goto, TypeOK
    <3>3. ~Refused(cache[At(g)])
      BY <3>1, <3>2 DEF CreateOrUpdate
    <3>4. Api(At(g)) = cache[At(g)]
      <4>1. cache[At(g)] \in Versions /\ stream[At(g)] \in Seq(Versions)
        BY <1>0 DEF TypeOK
      <4> QED
        BY <3>1, <4>1, LastVersion DEF Api
    <3>5. Api(At(g))' = Api(At(g))
      BY <1>1, <3>2 DEF Get, storeVars, Api, At
    <3> QED
      BY <3>3, <3>4, <3>5 DEF Refused
  <2> QED
    BY <2>1, <2>2, <2>3
<1>2. CASE Create(g) \/ Update(g) \/ Delete(g)
  <2>1. /\ \A h \in Gateways \ {g} : pc'[h] = pc[h] /\ step'[h] = step[h]
    BY <1>0, <1>2, ProceedType DEF Create, Update, Delete
  <2>2. UNCHANGED newest \/ \E v \in Versions : Store(At(g), v)
    <3>1. Rendered(g, gen[g]) \in Versions /\ Absent \in Versions
      BY <1>0 DEF TypeOK, Rendered, Versions, Absent
    <3> QED
      BY <1>2, <3>1 DEF Create, Update, Delete
  <2>3. ~newest'[g]
    <3>1. CASE \E v \in Versions : Store(At(g), v)
      BY <1>0, <3>1, StoreType
    <3>2. CASE UNCHANGED newest
      <4>1. CASE pc[g] = "update"
        BY <1>0, <1>2, <3>2, <4>1 DEF Create, Update, Delete, Store, TypeOK
      <4>2. CASE pc[g] # "update"
        BY <1>0, <3>2, <4>2
      <4> QED
        BY <4>1, <4>2
    <3> QED
      BY <2>2, <3>1, <3>2
  <2>4. UNCHANGED storeVars => UNCHANGED newest
    <3>1. ASSUME NEW v \in Versions, Store(At(g), v)
          PROVE  stream' # stream
      <4>1. stream[At(g)] \in Seq(Versions) /\ stream'[At(g)] = Append(stream[At(g)], v)
        BY <1>0, <3>1 DEF Store, TypeOK
      <4>2. Append(stream[At(g)], v) # stream[At(g)]
        BY <4>1, AppendDiffers
      <4> QED
        BY <4>1, <4>2
    <3> QED
      BY <2>2, <3>1 DEF storeVars
  <2> QED
    BY <2>1, <2>3, <2>4
<1>3. CASE Fails(g) \/ Succeed(g) \/ GiveUp(g)
  <2>1. /\ \A h \in Gateways \ {g} : pc'[h] = pc[h] /\ step'[h] = step[h]
    BY <1>0, <1>3 DEF Fails, Succeed, GiveUp, Leave, Goto, TypeOK
  <2>2. /\ \A h \in Gateways \ {g} : newest'[h] <=> newest[h]
        /\ ~newest'[g]
    BY <1>0, <1>3, Zenon DEF Fails, Succeed, GiveUp, Leave, TypeOK
  <2> QED
    BY <2>1, <2>2
<1>4. CASE Begin(g) \/ Retry(g)
  <2>1. pc[g] # "update"
    BY <1>4, QueueStep DEF Begin, Retry, OffUnlessBusy, TypeOK
  <2>2. /\ \A h \in Gateways \ {g} : pc'[h] = pc[h] /\ step'[h] = step[h]
        /\ UNCHANGED newest
    BY <1>0, <1>4 DEF Begin, Retry, StartAttempt, Goto, TypeOK
  <2> QED
    BY <1>0, <2>1, <2>2
<1> QED
  BY <1>1, <1>2, <1>3, <1>4 DEF Goroutine

(* SafeToUpdate is inductive together with the types.                      *)
LEMMA NextOwn == OwnInv /\ [Next]_vars => OwnInv'
<1> SUFFICES ASSUME OwnInv, [Next]_vars
             PROVE  SafeToUpdate'
  BY NextType DEF OwnInv
<1> SUFFICES ASSUME NEW h \in Gateways, newest'[h]
             PROVE  pc'[h] = "update" /\ ~Refused(Api(At(h)))'
  BY DEF SafeToUpdate
<1>1. ASSUME NEW g \in Gateways, EditGateway(g)
      PROVE  pc'[h] = "update" /\ ~Refused(Api(At(h)))'
  BY <1>1, StaysSafe DEF EditGateway, runVars
<1>2. ASSUME NEW g \in Gateways, Goroutine(g)
      PROVE  pc'[h] = "update" /\ ~Refused(Api(At(h)))'
  <2>1. CASE h = g
    BY <1>2, <2>1, GoroutineMoves
  <2>2. CASE h # g /\ UNCHANGED storeVars
    BY <1>2, <2>2, GoroutineMoves, StaysSafe
  <2>3. CASE h # g /\ \E v \in Versions : Store(At(g), v)
    <3>1. At(g) \in Objects
      BY AtIsObject DEF OwnInv, TypeInv
    <3>2. pc'[h] = pc[h] /\ step'[h] = step[h]
      BY <1>2, <2>3, GoroutineMoves
    <3> QED
      BY <2>3, <3>1, <3>2, StoreStaysSafe
  <2> QED
    BY <1>2, <2>1, <2>2, <2>3, GoroutineStores
<1>3. ASSUME NEW o \in Objects, Sync(o)
      PROVE  pc'[h] = "update" /\ ~Refused(Api(At(h)))'
  <2>1. newest[h] /\ pc'[h] = pc[h] /\ step'[h] = step[h]
    BY <1>3 DEF Sync, runVars
  <2>2. At(h)' = At(h) /\ At(h) \in Objects
    BY <2>1, AtIsObject DEF At, OwnInv, TypeInv
  <2>3. Api(At(h))' = Api(At(h))
    BY <1>3, <2>2, ApiAfterSync DEF OwnInv, TypeInv, Api
  <2> QED
    BY <2>1, <2>3, StaysSafe
<1>4. ASSUME NEW o \in Objects, NEW v \in {Api(o), [by |-> ""], [by |-> "other"]},
             OthersWrite(o, v)
      PROVE  pc'[h] = "update" /\ ~Refused(Api(At(h)))'
  <2>1. [by |-> ""] \in Versions /\ [by |-> "other"] \in Versions
    BY DEF Versions
  <2>2. Api(o) \in Versions
    BY LastVersion DEF OwnInv, TypeInv, TypeOK, Api
  <2>3. v \in Versions /\ Store(o, v) /\ pc' = pc /\ step' = step
    BY <1>4, <2>1, <2>2 DEF OthersWrite
  <2> QED
    BY <2>3, StoreStaysSafe
<1>5. CASE UNCHANGED vars
  BY <1>5, StaysSafe DEF vars, storeVars
<1> QED
  BY <1>1, <1>2, <1>3, <1>4, <1>5 DEF Next

(* Apply never overwrites an object that another manager has labelled:     *)
(* whatever the cache shows, prepareForUpdate's look at the label and the  *)
(* resourceVersion of the same read protect it together.                   *)
THEOREM OverwritesOnlyOwnHolds == Spec => OverwritesOnlyOwn
<1>1. ASSUME OwnInv, [Next]_vars, NEW o \in Objects, Api(o).by = "other", edits' = edits
      PROVE  Api(o)'.by # "ours"
  <2>1. ASSUME NEW g \in Gateways, Goroutine(g)
        PROVE  Api(o)'.by # "ours"
    <3>1. CASE UNCHANGED storeVars
      BY <1>1, <3>1 DEF Api, storeVars
    <3>2. ASSUME NEW v \in Versions, Store(At(g), v),
                 v.by # "ours" \/ Api(At(g)).by # "other"
          PROVE  Api(o)'.by # "ours"
      <4>1. At(g) \in Objects /\ TypeOK
        BY <1>1, AtIsObject DEF OwnInv, TypeInv
      <4>2. CASE o = At(g)
        <5>1. v.by # "ours"
          BY <1>1, <3>2, <4>2
        <5>2. Api(o)' = v
          BY <3>2, <4>1, <4>2, ApiAfterStore
        <5> QED
          BY <5>1, <5>2
      <4>3. CASE o # At(g)
        <5>1. Api(o)' = Api(o)
          BY <3>2, <4>1, <4>3, ApiAfterStore
        <5> QED
          BY <1>1, <5>1
      <4> QED
        BY <4>2, <4>3
    <3> QED
      BY <1>1, <2>1, <3>1, <3>2, GoroutineStores
  <2>2. ASSUME NEW p \in Objects, Sync(p)
        PROVE  Api(o)'.by # "ours"
    BY <1>1, <2>2, ApiAfterSync DEF OwnInv, TypeInv
  <2>3. \A g \in Gateways : ~EditGateway(g)
    BY <1>1 DEF EditGateway, OwnInv, TypeInv, TypeOK
  <2>4. \A p \in Objects : \A v \in {Api(p), [by |-> ""], [by |-> "other"]} :
          ~OthersWrite(p, v)
    <3>1. edits + 1 # edits
      BY <1>1 DEF OwnInv, TypeInv, TypeOK
    <3> QED
      BY <1>1, <3>1, Zenon DEF OthersWrite
  <2>5. CASE UNCHANGED vars
    BY <1>1, <2>5 DEF vars, Api
  <2> QED
    BY <1>1, <2>1, <2>2, <2>3, <2>4, <2>5 DEF Next
<1>2. OwnInv /\ [Next]_vars =>
        [ \A o \in Objects :
            Api(o).by = "other" /\ edits' = edits => Api(o)'.by # "ours" ]_vars
  BY <1>1
<1> QED
  BY <1>2, InitType, NextOwn, PTL DEF Spec, OverwritesOnlyOwn

-----------------------------------------------------------------------------
(***************************************************************************)
(* What the objects are like when all is at rest.                          *)
(***************************************************************************)
LEMMA FitsFacts ==
  ASSUME NEW g \in Gateways
  PROVE  /\ \A n \in Nat : n > 0 => Fits(Rendered(g, n), g, n)
         /\ \A h \in Gateways \ {g}, n \in Nat : Fits(Rendered(h, n), g, 0)
         /\ Fits(Absent, g, 0)
         /\ \A n \in Nat : Fits([by |-> ""], g, n) /\ Fits([by |-> "other"], g, n)
  BY DEF Fits, Deletable, There, Rendered, Absent

LEMMA ApiVersion ==
  ASSUME TypeOK, NEW o \in Objects
  PROVE  Api(o) \in Versions /\ (stream[o] = <<>> => Api(o) = cache[o])
  BY LastVersion DEF TypeOK, Api

(* The steps of the queue, as the goroutines see them.                     *)
LEMMA QueueMoves ==
  ASSUME Queue!TypeOK, NEW g \in Gateways
  PROVE  /\ Queue!Enqueue(g) \/ Queue!Begin(g) \/ Queue!Finish(g) =>
              \A h \in Gateways \ {g} : /\ phase'[h] = phase[h]
                                        /\ h \in dirty' <=> h \in dirty
         /\ Queue!Enqueue(g) => /\ phase'[g] # "idle"
                                /\ phase'[g] = "queued" \/ g \in dirty'
                                /\ phase[g] = "busy" => g \in dirty'
         /\ Queue!Begin(g) => phase[g] = "queued" /\ phase'[g] = "busy" /\ dirty' = dirty
         /\ Queue!Finish(g) => /\ phase[g] = "busy" /\ g \notin dirty'
                               /\ g \in dirty => phase'[g] = "queued"
  BY DEF Queue!TypeOK, Queue!Phases, Queue!Enqueue, Queue!Begin, Queue!Finish

(* What a goroutine's step leaves alone.                                   *)
LEMMA GoroutineFrame ==
  ASSUME TypeInv, NEW g \in Gateways, Goroutine(g)
  PROVE  /\ UNCHANGED <<want, known>>
         /\ \A h \in Gateways \ {g} :
              /\ pc'[h] = pc[h] /\ step'[h] = step[h] /\ gen'[h] = gen[h]
              /\ phase'[h] = phase[h] /\ (h \in dirty' <=> h \in dirty)
              /\ h \in failed' <=> h \in failed
              /\ h \in misled' <=> h \in misled
         /\ phase[g] # "idle"
         /\ Begin(g) \/ pc[g] # "off"
         /\ pc'[g] # "off" \/ Succeed(g) \/ GiveUp(g)
<1> USE DEF TypeInv
<1>1. Queue!TypeOK
  BY DEF TypeOK
<1>2. CASE Begin(g)
  <2>1. Queue!Begin(g) /\ UNCHANGED <<want, known>>
    BY <1>2 DEF Begin
  <2>2. /\ \A h \in Gateways \ {g} : pc'[h] = pc[h] /\ step'[h] = step[h] /\ gen'[h] = gen[h]
        /\ pc'[g] = "get"
    BY <1>2 DEF Begin, StartAttempt, Goto, TypeOK
  <2>3. \A h \in Gateways \ {g} : /\ h \in failed' <=> h \in failed
                                  /\ h \in misled' <=> h \in misled
    BY <1>2 DEF Begin
  <2>4. /\ phase[g] # "idle"
        /\ \A h \in Gateways \ {g} : /\ phase'[h] = phase[h]
                                     /\ h \in dirty' <=> h \in dirty
    BY <1>1, <2>1, QueueMoves
  <2> QED
    BY <1>2, <2>1, <2>2, <2>3, <2>4
<1>3. CASE Get(g) \/ Create(g) \/ Update(g) \/ Delete(g)
  <2>1. UNCHANGED <<want, known, phase, dirty, gen, failed>> /\ pc[g] # "off"
    BY <1>3 DEF Get, Create, Update, Delete, queueVars, outcomeVars
  <2>2. \A h \in Gateways \ {g} : h \in misled' <=> h \in misled
    BY <1>3 DEF Get, Create, Update, Delete, outcomeVars
  <2>3. /\ \A h \in Gateways \ {g} : pc'[h] = pc[h] /\ step'[h] = step[h]
        /\ pc'[g] # "off"
    BY <1>3 DEF Get, Create, Update, Delete, Proceed, Goto, CreateOrUpdate, TypeOK
  <2> QED
    BY <2>1, <2>2, <2>3 DEF OffUnlessBusy
<1>4. CASE Fails(g)
  BY <1>4 DEF Fails, Goto, queueVars, outcomeVars, OffUnlessBusy, TypeOK
<1>5. CASE Retry(g)
  <2>1. /\ \A h \in Gateways \ {g} : pc'[h] = pc[h] /\ step'[h] = step[h] /\ gen'[h] = gen[h]
        /\ pc'[g] = "get"
    BY <1>5 DEF Retry, StartAttempt, Goto, TypeOK
  <2> QED
    BY <1>5, <2>1 DEF Retry, queueVars, OffUnlessBusy
<1>6. CASE Succeed(g) \/ GiveUp(g)
  <2>1. Leave(g) /\ Queue!Finish(g) /\ UNCHANGED <<want, known>> /\ pc[g] # "off"
    BY <1>6 DEF Succeed, GiveUp, Leave
  <2>2. \A h \in Gateways \ {g} : pc'[h] = pc[h] /\ step'[h] = step[h] /\ gen'[h] = gen[h]
    BY <2>1 DEF Leave, Goto, TypeOK
  <2>3. \A h \in Gateways \ {g} : /\ h \in failed' <=> h \in failed
                                  /\ h \in misled' <=> h \in misled
    BY <1>6 DEF Succeed, GiveUp, outcomeVars
  <2>4. /\ phase[g] # "idle"
        /\ \A h \in Gateways \ {g} : /\ phase'[h] = phase[h]
                                     /\ h \in dirty' <=> h \in dirty
    BY <1>1, <2>1, QueueMoves
  <2> QED
    BY <1>6, <2>1, <2>2, <2>3, <2>4
<1> QED
  BY <1>2, <1>3, <1>4, <1>5, <1>6 DEF Goroutine

(* What it does to the objects.                                            *)
LEMMA GoroutineWrites ==
  ASSUME TypeInv, CallInv, NEW g \in Gateways, Goroutine(g), NEW o \in Objects
  PROVE  \/ Api(o)' = Api(o)
         \/ Api(o)' = Rendered(g, gen[g]) /\ gen[g] > 0
         \/ Api(o)' = Absent /\ gen[g] = 0
<1>0. TypeOK /\ At(g) \in Objects /\ Rendered(g, gen[g]) \in Versions /\ Absent \in Versions
  BY AtIsObject DEF TypeInv, TypeOK, Rendered, Versions, Absent
<1>1. CASE UNCHANGED storeVars
  BY <1>1 DEF Api, storeVars
<1>2. CASE (Create(g) \/ Update(g)) /\ ~UNCHANGED storeVars
  <2>1. Store(At(g), Rendered(g, gen[g])) /\ gen[g] > 0
    BY <1>2 DEF Create, Update, CallInv
  <2> QED
    BY <1>0, <2>1, ApiAfterStore
<1>3. CASE Delete(g) /\ ~UNCHANGED storeVars
  <2>1. Store(At(g), Absent) /\ gen[g] = 0
    BY <1>3 DEF Delete, CallInv
  <2> QED
    BY <1>0, <2>1, ApiAfterStore
<1>4. CASE Begin(g) \/ Get(g) \/ Fails(g) \/ Retry(g) \/ Succeed(g) \/ GiveUp(g)
  <2>1. UNCHANGED storeVars
    BY <1>4 DEF Begin, Get, Fails, Retry, Succeed, GiveUp, Leave
  <2> QED
    BY <1>1, <2>1
<1> QED
  BY <1>1, <1>2, <1>3, <1>4 DEF Goroutine

(* The work of one Gateway does not spoil what another can count on.       *)
LEMMA OthersKeep ==
  ASSUME TypeInv, KnownInv, CallInv, NEW g \in Gateways, Goroutine(g),
         NEW h \in Gateways \ {g}, NEW n \in Nat, NEW o \in Objects, Asked(h, n, o)
  PROVE  Alone(h)' \/ n = 0 => Fits(Api(o)', h, n)
<1>1. g \in known /\ known' = known
  BY GoroutineFrame DEF KnownInv
<1>2. ~Alone(h)'
  BY <1>1 DEF Alone
<1> SUFFICES ASSUME n = 0 PROVE Fits(Api(o)', h, n)
  BY <1>2
<1>3. Fits(Api(o), h, 0)
  BY DEF Asked
<1>4. gen[g] \in Nat
  BY DEF TypeInv, TypeOK
<1> QED
  BY <1>3, <1>4, GoroutineWrites, FitsFacts

LEMMA OthersVersion ==
  ASSUME TypeOK, NEW o \in Objects, NEW v \in {Api(o), [by |-> ""], [by |-> "other"]}
  PROVE  v \in Versions /\ (v = Api(o) \/ v.by # "ours")
<1>1. [by |-> ""] \in Versions /\ [by |-> "other"] \in Versions
  BY DEF Versions
<1>2. Api(o) \in Versions
  BY ApiVersion
<1>3. CASE v = Api(o)
  BY <1>2, <1>3
<1>4. CASE v = [by |-> ""] \/ v = [by |-> "other"]
  <2>1. v \in Versions
    BY <1>1, <1>4, Zenon
  <2>2. [by |-> ""].by # "ours" /\ [by |-> "other"].by # "ours"
    OBVIOUS
  <2> QED
    BY <1>4, <2>1, <2>2, Zenon
<1> QED
  BY <1>3, <1>4

LEMMA KnownStep ==
  ASSUME TypeInv, KnownInv, CallInv, [Next]_vars
  PROVE  KnownInv'
<1>0. TypeOK /\ Queue!TypeOK
  BY DEF TypeInv, TypeOK
<1>1. ASSUME NEW g \in Gateways, EditGateway(g) PROVE KnownInv'
  <2>1. Queue!Enqueue(g) /\ known' = known \cup {g} /\ UNCHANGED storeVars
    BY <1>1 DEF EditGateway
  <2>2. \A o \in Objects : Api(o)' = Api(o)
    BY <2>1 DEF Api, storeVars
  <2>3. \A h \in Gateways : /\ phase'[h] # "idle" => h \in known'
                            /\ h \in dirty' => phase'[h] # "idle"
    BY <1>0, <2>1, QueueMoves DEF KnownInv
  <2> QED
    BY <2>1, <2>2, <2>3 DEF KnownInv
<1>2. ASSUME NEW g \in Gateways, Goroutine(g) PROVE KnownInv'
  <2>1. g \in known /\ known' = known
    BY <1>2, GoroutineFrame DEF KnownInv
  <2>2. g \in dirty' => phase'[g] # "idle"
    <3>1. CASE Begin(g)
      BY <1>0, <3>1, QueueMoves DEF Begin
    <3>2. CASE Succeed(g) \/ GiveUp(g)
      BY <1>0, <3>2, QueueMoves DEF Succeed, GiveUp, Leave
    <3>3. CASE Get(g) \/ Create(g) \/ Update(g) \/ Delete(g) \/ Fails(g) \/ Retry(g)
      BY <3>3 DEF Get, Create, Update, Delete, Fails, Retry, queueVars, KnownInv
    <3> QED
      BY <1>2, <3>1, <3>2, <3>3 DEF Goroutine
  <2>3. \A h \in Gateways : /\ phase'[h] # "idle" => h \in known'
                            /\ h \in dirty' => phase'[h] # "idle"
    BY <1>2, <2>1, <2>2, GoroutineFrame DEF KnownInv
  <2>4. ASSUME NEW o \in Objects, Api(o)'.by = "ours" PROVE Api(o)'.gw \in known'
    <3>1. Absent.by # "ours" /\ Rendered(g, gen[g]).gw = g
      BY DEF Absent, Rendered
    <3> QED
      BY <1>2, <2>1, <2>4, <3>1, GoroutineWrites DEF KnownInv
  <2> QED
    BY <2>3, <2>4 DEF KnownInv
<1>3. ASSUME NEW o \in Objects, Sync(o) PROVE KnownInv'
  <2>1. UNCHANGED <<known, phase, dirty>>
    BY <1>3 DEF Sync, queueVars
  <2> QED
    BY <1>0, <1>3, <2>1, ApiAfterSync DEF KnownInv
<1>4. ASSUME NEW o \in Objects, NEW v \in {Api(o), [by |-> ""], [by |-> "other"]},
             OthersWrite(o, v)
      PROVE  KnownInv'
  <2>1. UNCHANGED <<known, phase, dirty>> /\ Store(o, v)
    BY <1>4 DEF OthersWrite, queueVars
  <2>2. v \in Versions /\ (v = Api(o) \/ v.by # "ours")
    BY <1>0, OthersVersion
  <2>3. \A p \in Objects : Api(p)' = Api(p) \/ Api(p)'.by # "ours"
    <3>1. Api(o)' = v /\ \A p \in Objects \ {o} : Api(p)' = Api(p)
      BY <1>0, <2>1, <2>2, ApiAfterStore
    <3> QED
      BY <2>2, <3>1
  <2> QED
    BY <2>1, <2>3 DEF KnownInv
<1>5. CASE UNCHANGED vars
  BY <1>5 DEF vars, KnownInv, Api
<1> QED
  BY <1>1, <1>2, <1>3, <1>4, <1>5 DEF Next

LEMMA CallStep ==
  ASSUME TypeInv, CallInv, [Next]_vars
  PROVE  CallInv'
<1>0. TypeOK /\ Queue!TypeOK
  BY DEF TypeInv, TypeOK
<1>1. ASSUME NEW g \in Gateways, EditGateway(g) PROVE CallInv'
  <2>1. Queue!Enqueue(g) /\ UNCHANGED <<pc, gen>>
    BY <1>1 DEF EditGateway, runVars
  <2>2. \A h \in Gateways \ {g} : want'[h] = want[h] /\ (h \in dirty' <=> h \in dirty)
    BY <1>0, <1>1, <2>1, QueueMoves DEF EditGateway, TypeOK
  <2>3. pc[g] # "off" => g \in dirty'
    BY <1>0, <2>1, QueueMoves DEF TypeInv, OffUnlessBusy
  <2> QED
    BY <2>1, <2>2, <2>3 DEF CallInv
<1>2. ASSUME NEW g \in Gateways, Goroutine(g) PROVE CallInv'
  <2>1. /\ UNCHANGED want
        /\ \A h \in Gateways \ {g} : /\ pc'[h] = pc[h] /\ gen'[h] = gen[h]
                                     /\ h \in dirty' <=> h \in dirty
    BY <1>2, GoroutineFrame
  <2>2. /\ pc'[g] \in {"create", "update"} => gen'[g] > 0
        /\ pc'[g] = "delete" => gen'[g] = 0
        /\ pc'[g] # "off" /\ g \notin dirty' => gen'[g] = want[g]
    <3>0. gen[g] \in Nat
      BY <1>0 DEF TypeOK
    <3>1. CASE Begin(g) \/ Retry(g)
      BY <1>0, <3>1 DEF Begin, Retry, StartAttempt, Goto, TypeOK
    <3>2. CASE Get(g)
      <4>1. /\ pc[g] = "get" /\ UNCHANGED <<dirty, gen>>
            /\ pc'[g] \in {"create", "update"} => gen[g] > 0
            /\ pc'[g] = "delete" => ~(gen[g] > 0)
        BY <1>0, <3>2 DEF Get, Proceed, Goto, CreateOrUpdate, TypeOK, queueVars
      <4> QED
        BY <3>0, <4>1 DEF CallInv
    <3>3. CASE Create(g) \/ Update(g) \/ Delete(g) \/ Fails(g)
      <4>1. /\ pc[g] # "off" /\ UNCHANGED <<dirty, gen>>
            /\ pc'[g] \in {"get", "wait", "error"}
        BY <1>0, <3>3 DEF Create, Update, Delete, Fails, Proceed, Goto, TypeOK, queueVars
      <4> QED
        BY <4>1 DEF CallInv
    <3>4. CASE Succeed(g) \/ GiveUp(g)
      BY <1>0, <3>4 DEF Succeed, GiveUp, Leave, Goto, TypeOK
    <3> QED
      BY <1>2, <3>1, <3>2, <3>3, <3>4 DEF Goroutine
  <2> QED
    BY <2>1, <2>2 DEF CallInv
<1>3. ASSUME UNCHANGED <<pc, gen, want, dirty>> PROVE CallInv'
  BY <1>3 DEF CallInv
<1>4. ASSUME NEW o \in Objects, Sync(o) PROVE CallInv'
  BY <1>3, <1>4 DEF Sync, runVars, queueVars
<1>5. ASSUME NEW o \in Objects, NEW v, OthersWrite(o, v) PROVE CallInv'
  BY <1>3, <1>5 DEF OthersWrite, queueVars
<1>6. CASE UNCHANGED vars
  BY <1>3, <1>6 DEF vars
<1> QED
  BY <1>1, <1>2, <1>4, <1>5, <1>6 DEF Next

(* A step of the world leaves every Gateway what it can count on, except   *)
(* that the edited one has an event to come.                               *)
LEMMA WorldKeeps ==
  ASSUME TypeInv,
         \/ \E g \in Gateways : EditGateway(g)
         \/ \E o \in Objects : \/ Sync(o)
                               \/ \E v \in {Api(o), [by |-> ""], [by |-> "other"]} :
                                    OthersWrite(o, v)
         \/ UNCHANGED vars,
         NEW h \in Gateways, NEW n \in Nat, NEW o \in Objects, Asked(h, n, o),
         h \in known \/ ~EditGateway(h)
  PROVE  Alone(h)' \/ n = 0 => Fits(Api(o)', h, n)
<1>0. TypeOK
  BY DEF TypeInv
<1>1. ASSUME NEW g \in Gateways, EditGateway(g)
      PROVE  Alone(h)' \/ n = 0 => Fits(Api(o)', h, n)
  <2>1. Api(o)' = Api(o) /\ known' = known \cup {g}
    BY <1>1 DEF EditGateway, storeVars, Api
  <2>2. Alone(h)' => Alone(h)
    BY <1>1, <2>1 DEF Alone
  <2> QED
    BY <2>1, <2>2 DEF Asked
<1>2. ASSUME NEW p \in Objects, Sync(p)
      PROVE  Alone(h)' \/ n = 0 => Fits(Api(o)', h, n)
  BY <1>0, <1>2, ApiAfterSync DEF Sync, Alone, Asked
<1>3. ASSUME NEW p \in Objects, NEW v \in {Api(p), [by |-> ""], [by |-> "other"]},
             OthersWrite(p, v)
      PROVE  Alone(h)' \/ n = 0 => Fits(Api(o)', h, n)
  <2>1. known' = known /\ Store(p, v)
    BY <1>3 DEF OthersWrite
  <2>2. v \in Versions
    BY <1>0, OthersVersion
  <2>3. Api(o)' = Api(o) \/ Api(o)' \in {[by |-> ""], [by |-> "other"]}
    BY <1>0, <2>1, <2>2, ApiAfterStore
  <2> QED
    BY <2>1, <2>3, FitsFacts DEF Alone, Asked
<1>4. CASE UNCHANGED vars
  BY <1>4 DEF vars, Api, Alone, Asked
<1> QED
  BY <1>1, <1>2, <1>3, <1>4

(* Nor does the work of a Gateway spoil what it did itself before.         *)
LEMMA OwnKeeps ==
  ASSUME TypeInv, CallInv, NEW g \in Gateways, Goroutine(g), NEW o \in Objects,
         Asked(g, gen[g], o) \/ Api(o)' # Api(o)
  PROVE  Alone(g)' \/ gen[g] = 0 => Fits(Api(o)', g, gen[g])
<1>1. known' = known
  BY GoroutineFrame
<1>2. gen[g] \in Nat
  BY DEF TypeInv, TypeOK
<1>3. Alone(g)' => Alone(g)
  BY <1>1 DEF Alone
<1> QED
  BY <1>2, <1>3, GoroutineWrites, FitsFacts DEF Asked

(* A run that proceeds has one object more behind it, or all of them.      *)
LEMMA ProceedPasses ==
  ASSUME TypeOK, NEW g \in Gateways, Proceed(g), NEW S,
         \A j \in 1 .. step[g] - 1 : Kinds[j] \in S, At(g) \in S
  PROVE  /\ pc'[g] \in {"get", "wait"}
         /\ pc'[g] = "get" => \A j \in 1 .. step'[g] - 1 : Kinds[j] \in S
         /\ pc'[g] = "wait" => Objects \subseteq S
<1>1. step[g] \in 1 .. Len(Kinds) /\ Len(Kinds) \in Nat
  BY DEF TypeOK
<1>2. \A j \in 1 .. step[g] : Kinds[j] \in S
  <2> SUFFICES ASSUME NEW j \in 1 .. step[g] PROVE Kinds[j] \in S
    OBVIOUS
  <2>1. j \in 1 .. step[g] - 1 \/ j = step[g]
    BY <1>1
  <2> QED
    BY <2>1 DEF At
<1>3. CASE step[g] < Len(Kinds)
  <2>1. pc'[g] = "get" /\ step'[g] = step[g] + 1
    BY <1>3 DEF Proceed, Goto, TypeOK
  <2>2. step'[g] - 1 = step[g]
    BY <1>1, <2>1
  <2> QED
    BY <1>2, <2>1, <2>2
<1>4. CASE ~(step[g] < Len(Kinds))
  <2>1. pc'[g] = "wait" /\ step[g] = Len(Kinds)
    BY <1>1, <1>4 DEF Proceed, Goto, TypeOK
  <2>2. Objects \subseteq S
    BY <1>2, <2>1 DEF Objects, Range
  <2> QED
    BY <2>1, <2>2
<1> QED
  BY <1>3, <1>4

(* What a run passes is as it wants it when it goes on.                    *)
LEMMA OwnPassed ==
  ASSUME TypeInv, KnownInv, CallInv, PassedInv, NEW g \in Gateways, Goroutine(g), g \notin misled'
  PROVE  /\ pc'[g] \in {"get", "create", "update", "delete"} =>
              \A j \in 1 .. step'[g] - 1 : Asked(g, gen[g], Kinds[j])'
         /\ pc'[g] = "wait" => \A o \in Objects : Asked(g, gen[g], o)'
<1>0. TypeOK /\ At(g) \in Objects /\ gen[g] \in Nat /\ step[g] \in 1 .. Len(Kinds)
  BY AtIsObject DEF TypeInv, TypeOK
<1> DEFINE S == {o \in Objects : Alone(g)' \/ gen[g] = 0 => Fits(Api(o)', g, gen[g])}
<1>1. /\ \A o \in Objects : Asked(g, gen[g], o) => o \in S
      /\ \A o \in Objects : Api(o)' # Api(o) => o \in S
  BY OwnKeeps
<1>2. ASSUME gen' = gen
      PROVE  \A o \in S : Asked(g, gen[g], o)'
  BY <1>2 DEF Asked
<1>3. \A j \in 1 .. step[g] - 1 : Kinds[j] \in Objects
  BY <1>0 DEF Objects, Range
<1>4. ASSUME g \notin misled, pc[g] \in {"get", "create", "update", "delete"}
      PROVE  \A j \in 1 .. step[g] - 1 : Kinds[j] \in S
  BY <1>1, <1>3, <1>4 DEF PassedInv
<1>5. ASSUME g \notin misled, pc[g] \in {"get", "create", "update", "delete"}, gen' = gen,
             \/ Proceed(g) /\ At(g) \in S
             \/ step' = step /\ pc'[g] # "wait"
      PROVE  /\ pc'[g] \in {"get", "create", "update", "delete"} =>
                  \A j \in 1 .. step'[g] - 1 : Asked(g, gen[g], Kinds[j])'
             /\ pc'[g] = "wait" => \A o \in Objects : Asked(g, gen[g], o)'
  <2>1. \A j \in 1 .. step[g] - 1 : Kinds[j] \in S
    BY <1>4, <1>5
  <2> HIDE DEF S
  <2>2. CASE Proceed(g) /\ At(g) \in S
    <3>1. /\ pc'[g] \in {"get", "wait"}
          /\ pc'[g] = "get" => \A j \in 1 .. step'[g] - 1 : Kinds[j] \in S
          /\ pc'[g] = "wait" => Objects \subseteq S
      BY <1>0, <2>1, <2>2, ProceedPasses
    <3> QED
      BY <1>2, <1>5, <3>1
  <2>3. CASE step' = step /\ pc'[g] # "wait"
    BY <1>2, <1>5, <2>1, <2>3
  <2> QED
    BY <1>5, <2>2, <2>3
<1>6. CASE Begin(g) \/ Retry(g)
  <2>1. pc'[g] = "get" /\ step'[g] = 1
    BY <1>0, <1>6 DEF Begin, Retry, StartAttempt, Goto, TypeOK
  <2>2. 1 .. step'[g] - 1 = {}
    BY <2>1
  <2> QED
    BY <2>1, <2>2
<1>7. CASE Get(g)
  <2>1. g \notin misled /\ pc[g] = "get" /\ gen' = gen /\ UNCHANGED storeVars
    BY <1>7 DEF Get
  <2>2. \/ /\ Proceed(g) /\ gen[g] = 0 /\ ~Deletable(Api(At(g)), g)
        \/ step' = step /\ pc'[g] # "wait"
    <3>1. \/ /\ Proceed(g) /\ ~(gen[g] > 0)
             /\ misled' = IF Deletable(Api(At(g)), g) THEN misled \cup {g} ELSE misled
          \/ step' = step /\ pc'[g] # "wait"
      BY <1>0, <1>7 DEF Get, Goto, CreateOrUpdate, TypeOK
    <3> QED
      BY <1>0, <3>1
  <2>3. gen[g] = 0 /\ ~Deletable(Api(At(g)), g) => Asked(g, gen[g], At(g))
    BY DEF Asked, Fits
  <2>4. gen[g] = 0 /\ ~Deletable(Api(At(g)), g) => At(g) \in S
    BY <1>0, <1>1, <2>3
  <2> QED
    BY <1>5, <2>1, <2>2, <2>4
<1>8. CASE Create(g) \/ Update(g) \/ Delete(g)
  <2>1. g \notin misled /\ pc[g] \in {"create", "update", "delete"} /\ gen' = gen
    BY <1>8 DEF Create, Update, Delete, outcomeVars
  <2>2. \/ Proceed(g) /\ Store(At(g), Rendered(g, gen[g])) /\ gen[g] > 0
        \/ Proceed(g) /\ Store(At(g), Absent) /\ gen[g] = 0
        \/ step' = step /\ pc'[g] = "error"
    <3>1. CASE Create(g)
      BY <3>1 DEF Create, CallInv
    <3>2. CASE Update(g)
      BY <1>0, <3>2 DEF Update, CallInv, Goto, TypeOK
    <3>3. CASE Delete(g)
      BY <1>0, <3>3 DEF Delete, CallInv, Goto, TypeOK
    <3> QED
      BY <1>8, <3>1, <3>2, <3>3
  <2>3. PICK p \in Objects : p = At(g)
    BY <1>0
  <2>4. Rendered(g, gen[g]) \in Versions /\ Absent \in Versions
    BY <1>0 DEF Rendered, Versions, Absent
  <2>5. CASE Proceed(g) /\ Store(At(g), Rendered(g, gen[g])) /\ gen[g] > 0
    <3>1. Api(p)' = Rendered(g, gen[g])
      BY <1>0, <2>3, <2>4, <2>5, ApiAfterStore
    <3>2. At(g) \in S
      BY <1>0, <2>3, <2>5, <3>1, FitsFacts
    <3> QED
      BY <1>5, <2>1, <2>5, <3>2
  <2>6. CASE Proceed(g) /\ Store(At(g), Absent) /\ gen[g] = 0
    <3>1. Api(p)' = Absent
      BY <1>0, <2>3, <2>4, <2>6, ApiAfterStore
    <3>2. At(g) \in S
      BY <2>3, <2>6, <3>1, FitsFacts
    <3> QED
      BY <1>5, <2>1, <2>6, <3>2
  <2>7. CASE step' = step /\ pc'[g] = "error"
    BY <2>7
  <2> QED
    BY <2>2, <2>5, <2>6, <2>7
<1>9. CASE Fails(g) \/ Succeed(g) \/ GiveUp(g)
  <2>1. pc'[g] \in {"error", "off"}
    BY <1>0, <1>9 DEF Fails, Succeed, GiveUp, Leave, Goto, TypeOK
  <2> QED
    BY <2>1
<1> QED
  BY <1>6, <1>7, <1>8, <1>9 DEF Goroutine

LEMMA PassedStep ==
  ASSUME TypeInv, KnownInv, CallInv, PassedInv, [Next]_vars
  PROVE  PassedInv'
<1>0. /\ gen \in [Gateways -> Nat] /\ step \in [Gateways -> 1 .. Len(Kinds)]
      /\ \A h \in Gateways : \A j \in 1 .. step[h] - 1 : Kinds[j] \in Objects
  BY DEF TypeInv, TypeOK, Objects, Range
<1>1. ASSUME NEW g \in Gateways, Goroutine(g) PROVE PassedInv'
  <2> SUFFICES ASSUME NEW h \in Gateways, h \notin misled'
               PROVE  /\ pc'[h] \in {"get", "create", "update", "delete"} =>
                           \A j \in 1 .. step'[h] - 1 : Asked(h, gen[h], Kinds[j])'
                      /\ pc'[h] = "wait" => \A o \in Objects : Asked(h, gen[h], o)'
    BY DEF PassedInv
  <2>1. CASE h = g
    BY <1>1, <2>1, OwnPassed
  <2>2. CASE h # g
    <3>1. /\ pc'[h] = pc[h] /\ step'[h] = step[h] /\ gen'[h] = gen[h] /\ h \notin misled
      BY <1>1, <2>2, GoroutineFrame
    <3>2. \A o \in Objects : Asked(h, gen[h], o) => Asked(h, gen[h], o)'
      <4> SUFFICES ASSUME NEW o \in Objects, Asked(h, gen[h], o)
                   PROVE  Alone(h)' \/ gen[h] = 0 => Fits(Api(o)', h, gen[h])
        BY <3>1 DEF Asked
      <4> QED
        BY <1>0, <1>1, <2>2, OthersKeep
    <3> QED
      BY <1>0, <3>1, <3>2 DEF PassedInv
  <2> QED
    BY <2>1, <2>2
<1>2. ASSUME \/ \E g \in Gateways : EditGateway(g)
             \/ \E o \in Objects : \/ Sync(o)
                                   \/ \E v \in {Api(o), [by |-> ""], [by |-> "other"]} :
                                        OthersWrite(o, v)
             \/ UNCHANGED vars
      PROVE  PassedInv'
  <2>1. UNCHANGED <<pc, step, gen, misled>>
    BY <1>2 DEF EditGateway, Sync, OthersWrite, vars, runVars, outcomeVars
  <2>2. ASSUME NEW h \in Gateways, pc[h] # "off", NEW o \in Objects, Asked(h, gen[h], o)
        PROVE  Asked(h, gen[h], o)'
    <3>1. h \in known
      BY <2>2 DEF KnownInv, TypeInv, OffUnlessBusy
    <3>2. Alone(h)' \/ gen[h] = 0 => Fits(Api(o)', h, gen[h])
      BY <1>0, <1>2, <2>2, <3>1, WorldKeeps
    <3> QED
      BY <2>1, <3>2 DEF Asked
  <2> QED
    BY <1>0, <2>1, <2>2 DEF PassedInv
<1> QED
  BY <1>1, <1>2 DEF Next

LEMMA RestStep ==
  ASSUME TypeInv, KnownInv, CallInv, PassedInv, RestInv, [Next]_vars
  PROVE  RestInv'
<1>0. want \in [Gateways -> Nat] /\ gen \in [Gateways -> Nat] /\ Queue!TypeOK
  BY DEF TypeInv, TypeOK
<1>1. ASSUME NEW g \in Gateways, Goroutine(g) PROVE RestInv'
  <2> SUFFICES ASSUME NEW h \in Gateways, h \notin failed', h \notin misled', pc'[h] = "off",
                      ~Again(h)', NEW o \in Objects
               PROVE  Asked(h, want[h], o)'
    BY DEF RestInv
  <2>0. UNCHANGED <<want, known>>
    BY <1>1, GoroutineFrame
  <2>1. CASE h = g
    <3>1. Succeed(g)
      BY <1>1, <2>1, GoroutineFrame DEF GiveUp
    <3>2. g \notin misled /\ pc[g] = "wait" /\ Queue!Finish(g)
      BY <2>1, <3>1 DEF Succeed, Leave, outcomeVars
    <3>3. g \notin dirty
      BY <1>0, <2>1, <3>2, QueueMoves DEF Again
    <3>4. gen[g] = want[g]
      BY <3>2, <3>3 DEF CallInv
    <3>5. Asked(g, gen[g], o)
      BY <3>2 DEF PassedInv
    <3>6. Alone(g)' \/ gen[g] = 0 => Fits(Api(o)', g, gen[g])
      BY <1>1, <3>5, OwnKeeps
    <3> QED
      BY <2>0, <2>1, <3>4, <3>6 DEF Asked
  <2>2. CASE h # g
    <3>1. Asked(h, want[h], o)
      BY <1>1, <2>2, GoroutineFrame DEF RestInv, Again
    <3>2. Alone(h)' \/ want[h] = 0 => Fits(Api(o)', h, want[h])
      BY <1>0, <1>1, <2>2, <3>1, OthersKeep
    <3> QED
      BY <2>0, <3>2 DEF Asked
  <2> QED
    BY <2>1, <2>2
<1>2. ASSUME \/ \E g \in Gateways : EditGateway(g)
             \/ \E o \in Objects : \/ Sync(o)
                                   \/ \E v \in {Api(o), [by |-> ""], [by |-> "other"]} :
                                        OthersWrite(o, v)
             \/ UNCHANGED vars
      PROVE  RestInv'
  <2> SUFFICES ASSUME NEW h \in Gateways, h \notin failed', h \notin misled', pc'[h] = "off",
                      ~Again(h)', NEW o \in Objects
               PROVE  Asked(h, want[h], o)'
    BY DEF RestInv
  <2>1. UNCHANGED <<pc, failed, misled>>
    BY <1>2 DEF EditGateway, Sync, OthersWrite, vars, runVars, outcomeVars
  <2>2. ~EditGateway(h)
    BY <1>0, QueueMoves DEF EditGateway, Again
  <2>3. want'[h] = want[h] /\ (Again(h) => Again(h)')
    <3>1. ASSUME NEW g \in Gateways \ {h}, EditGateway(g)
          PROVE  want'[h] = want[h] /\ (Again(h) => Again(h)')
      BY <1>0, <3>1, QueueMoves DEF EditGateway, Again
    <3> QED
      BY <1>2, <2>2, <3>1 DEF Sync, OthersWrite, vars, queueVars, Again
  <2>4. Asked(h, want[h], o)
    BY <2>1, <2>3 DEF RestInv
  <2>5. Alone(h)' \/ want[h] = 0 => Fits(Api(o)', h, want[h])
    BY <1>0, <1>2, <2>2, <2>4, WorldKeeps
  <2> QED
    BY <2>3, <2>5 DEF Asked
<1> QED
  BY <1>1, <1>2 DEF Next

LEMMA InitObject == Init => ObjectInv
<1> SUFFICES ASSUME Init PROVE ObjectInv
  OBVIOUS
<1>1. TypeInv /\ TypeOK
  BY InitType DEF OwnInv, TypeInv
<1>2. \A o \in Objects : Api(o) = Absent
  BY <1>1, ApiVersion DEF Init
<1>3. KnownInv
  <2>1. Absent.by # "ours"
    BY DEF Absent
  <2> QED
    BY <1>2, <2>1 DEF Init, KnownInv
<1>4. CallInv /\ PassedInv
  BY DEF Init, CallInv, PassedInv
<1>5. RestInv
  <2> SUFFICES ASSUME NEW g \in Gateways, ~Again(g), NEW o \in Objects
               PROVE  Asked(g, want[g], o)
    BY DEF RestInv
  <2>1. want[g] = 0
    BY DEF Init, Again
  <2> QED
    BY <1>2, <2>1, FitsFacts DEF Asked
<1> QED
  BY <1>1, <1>3, <1>4, <1>5 DEF ObjectInv

LEMMA NextObject == ObjectInv /\ [Next]_vars => ObjectInv'
  BY NextType, KnownStep, CallStep, PassedStep, RestStep DEF ObjectInv

(* At rest the goroutine of every Gateway has gone and no event is left.   *)
LEMMA RestFacts ==
  ASSUME ObjectInv, AtRest, NEW g \in Gateways, g \notin failed, g \notin misled,
         NEW o \in Objects
  PROVE  Asked(g, want[g], o) /\ Api(o) = cache[o]
<1>1. phase[g] = "idle" /\ stream[o] = <<>>
  BY DEF AtRest
<1>2. pc[g] = "off" /\ ~Again(g)
  BY <1>1 DEF ObjectInv, TypeInv, OffUnlessBusy, KnownInv, Again
<1>3. Api(o) = cache[o]
  BY <1>1, ApiVersion DEF ObjectInv, TypeInv
<1> QED
  BY <1>2, <1>3 DEF ObjectInv, RestInv

(* At rest, no object is left annotated with a Gateway that is gone,       *)
(* however many Gateways share the object name and whatever their          *)
(* goroutines, the lagging cache and other owners did in between, unless   *)
(* a run gave up or was misled by the cache.                               *)
THEOREM NoOrphansHolds == Spec => []NoOrphans
<1>1. ObjectInv => NoOrphans
  <2> SUFFICES ASSUME ObjectInv, AtRest, failed = {}, misled = {},
                      NEW o \in Objects, cache[o].by = "ours"
               PROVE  want[cache[o].gw] > 0
    BY DEF NoOrphans
  <2>1. cache[o] \in Versions /\ want \in [Gateways -> Nat]
    BY DEF ObjectInv, TypeInv, TypeOK
  <2>2. cache[o].gw \in Gateways
    BY <2>1 DEF Versions
  <2>3. Asked(cache[o].gw, want[cache[o].gw], o) /\ Api(o) = cache[o]
    BY <2>2, RestFacts
  <2>4. want[cache[o].gw] # 0
    BY <2>3 DEF Asked, Fits, Deletable
  <2> QED
    BY <2>1, <2>2, <2>4
<1> QED
  BY <1>1, InitObject, NextObject, PTL DEF Spec

(* At rest, each object of a Gateway that has its name for itself is       *)
(* rendered from the current generation, or gone with the Gateway, unless  *)
(* its last run gave up or was misled: no attempt that failed half way     *)
(* and no retry leaves anything behind, for any number of objects.         *)
THEOREM SettledObjectsHolds == Spec => []SettledObjects
<1>1. ObjectInv => SettledObjects
  <2> SUFFICES ASSUME ObjectInv, AtRest, NEW g \in Gateways, g \notin failed, g \notin misled,
                      Alone(g), NEW o \in Objects
               PROVE  /\ want[g] > 0 =>
                           /\ There(cache[o])
                           /\ cache[o].by = "ours" => cache[o] = Rendered(g, want[g])
                      /\ want[g] = 0 => cache[o].by # "ours"
    BY DEF SettledObjects
  <2>1. Fits(cache[o], g, want[g]) /\ Api(o) = cache[o]
    BY RestFacts DEF Asked
  <2>2. cache[o].by = "ours" => cache[o].gw = g
    BY <2>1 DEF ObjectInv, KnownInv, Alone
  <2>3. want[g] \in Nat
    BY DEF ObjectInv, TypeInv, TypeOK
  <2>4. CASE want[g] = 0
    BY <2>1, <2>2, <2>4 DEF Fits, Deletable
  <2>5. CASE want[g] > 0
    BY <2>1, <2>3, <2>5 DEF Fits
  <2> QED
    BY <2>3, <2>4, <2>5
<1> QED
  BY <1>1, InitObject, NextObject, PTL DEF Spec
=============================================================================
