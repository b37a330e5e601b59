------------------------ MODULE GatewayStatus_proofs ------------------------
(***************************************************************************)
(* Theorems about GatewayStatus, for any number of listeners, any specs    *)
(* and references, and any number of attempts, conflicts, edits, changes   *)
(* of assets and failures.                                                 *)
(***************************************************************************)
EXTENDS GatewayStatus, SequenceTheorems, TLAPS

Wf == INSTANCE WellFoundedInduction

(* The versions that the cache shows or will show.                         *)
Chain == {cache} \cup {stream[i] : i \in 1 .. Len(stream)}

(* No new generation is on its way.                                        *)
NoneOnTheWay == \A u \in Chain : u.gen = cache.gen

(* What the writers establish: the Gateway is accepted, every listener has *)
(* a status entry, Gateway and listeners are programmed.                   *)
Accepted(v) == v.acc = v.gen
Listed(v) == \A l \in Listeners : v.ls[l].res.st # "none"
AllProgrammed(v) ==
  ProgrammedNow(v) /\ \A l \in Listeners : v.ls[l].prog = Cond("True", v.gen)

(* Where Reconcile is after MarkAccepted, and after the validation.        *)
Provisioning == {"provision", "waitAvailable", "waitAddress", "program", "program!"}
AfterAccept == {"validate", "resolve", "resolve!"} \cup Provisioning

Again == events > 0 \/ phase[Gw] = "queued" \/ Gw \in dirty

RunInv ==
  /\ phase[Gw] = "busy" <=> pc # "off"
  /\ Gw \in dirty => phase[Gw] # "idle"
  /\ pc \in {"resolve", "resolve!"} => bad.l \in Listeners /\ bad.reason # ""

(* What a Mark function read is what it replaces.                          *)
ReadInv ==
  newest /\ pc \in {"accept!", "resolve!", "program!"} => stream = <<>> /\ read = Api

(* Generations go up, and each one has one spec.                           *)
GenerationsGoUp ==
  /\ Exists(Api) => \A u \in Chain : 0 < u.gen /\ u.gen <= Api.gen
  /\ \A u \in Chain : u.gen = Api.gen => u.spec = Api.spec

(* What one version shows, the newest shows, too.                          *)
NothingUndone ==
  /\ \A u \in Chain : Listed(u) => Listed(Api)
  /\ \A u \in Chain : u.gen = Api.gen =>
       (Accepted(u) => Accepted(Api)) /\ (AllProgrammed(u) => AllProgrammed(Api))

(* A Gateway is programmed after its listeners got their entries.          *)
ListedFirst ==
  /\ \A u \in Chain : u.prog.st = "True" => Listed(u)
  /\ pc \in AfterAccept => Listed(Api)

(* A run provisions what it has validated.                                 *)
ValidatedFirst ==
  /\ Exists(Api) /\ pc \notin {"off", "get", "backoff", "done"} => gw.gen <= Api.gen
  /\ pc \in Provisioning => gw.gen \in validated
  /\ ProgrammedAfterValidation

History == GenerationsGoUp /\ NothingUndone /\ ListedFirst /\ ValidatedFirst

Ours(v) == Exists(v) /\ v.spec.ours

Outcome ==
  IF Ours(cache) THEN swallowed \/ (Accepted(Api) /\ AllProgrammed(Api)) ELSE infra = NoInfra

(* If no event tells of more to do, the run has read the last version.     *)
UpToDate ==
  /\ pc = "cleanup" => ~Ours(cache)
  /\ pc \in {"accept", "accept!"} \cup AfterAccept => Ours(cache)
  /\ pc \in AfterAccept => Accepted(Api)
  /\ pc \in {"done", "off"} => gaveUp \/ Outcome

Settling == NoneOnTheWay /\ ~Again => UpToDate

GatewayInv == TypeOK /\ RunInv /\ ReadInv /\ History /\ Settling

-----------------------------------------------------------------------------
USE RefAssumption, SpecAssumption, BoundsAssumption

(***************************************************************************)
(* The status writers.                                                     *)
(***************************************************************************)
LEMMA ConditionType ==
  ASSUME NEW g \in Nat,
         NEW st \in {"none", "Unknown", "True", "InvalidCertificateRef", "RefNotPermitted"}
  PROVE  Cond(st, g) \in Conditions /\ Cond(st, g).st = st /\ Cond(st, g).og = g
  BY DEF Cond, Conditions

LEMMA VersionFields ==
  ASSUME NEW v \in Versions
  PROVE  /\ v.gen \in Nat /\ v.spec \in Specs /\ v.acc \in Nat /\ v.prog \in Conditions
         /\ v.ls \in [Listeners -> [prog : Conditions, res : Conditions]]
         /\ \A l \in Listeners : v.ls[l].prog \in Conditions /\ v.ls[l].res \in Conditions
<1>1. v.ls \in [Listeners -> [prog : Conditions, res : Conditions]]
  BY DEF Versions
<1> QED
  BY <1>1 DEF Versions

LEMMA PendingFacts ==
  ASSUME NEW c \in Conditions, NEW g \in Nat
  PROVE  /\ Pending(c, g) \in Conditions
         /\ Pending(c, g) = c \/ (Pending(c, g).og = g /\ Pending(c, g).st = "Unknown")
         /\ c = Cond("True", g) => Pending(c, g) = c
  BY ConditionType DEF Pending

(* What is true of every writer: it keeps the generation and the spec,     *)
(* stamps what it changes, and undoes nothing that holds of a generation.  *)
Faithful(v, w) ==
  /\ w \in Versions /\ w.gen = v.gen /\ w.spec = v.spec
  /\ w.prog # v.prog => w.prog.og = v.gen
  /\ \A l \in Listeners : /\ w.ls[l].prog # v.ls[l].prog => w.ls[l].prog.og = v.gen
                          /\ w.ls[l].res # v.ls[l].res => w.ls[l].res.og = v.gen
  /\ ProgrammedNow(v) => ProgrammedNow(w)
  /\ Accepted(v) => Accepted(w)
  /\ Listed(v) => Listed(w)
  /\ AllProgrammed(v) => AllProgrammed(w)

LEMMA MarkAcceptedFacts ==
  ASSUME NEW v \in Versions
  PROVE  /\ Faithful(v, MarkAccepted(v))
         /\ Accepted(MarkAccepted(v)) /\ Listed(MarkAccepted(v))
         /\ MarkAccepted(v).prog.st = "True" => MarkAccepted(v).prog = v.prog
<1> DEFINE ls == [l \in Listeners |-> [prog |-> Pending(v.ls[l].prog, v.gen),
                                       res |-> Cond("True", v.gen)]]
           w == MarkAccepted(v)
<1>1. /\ v.gen \in Nat /\ v.prog \in Conditions
      /\ \A l \in Listeners : v.ls[l].prog \in Conditions /\ v.ls[l].res \in Conditions
  BY VersionFields
<1>2. /\ Cond("True", v.gen) \in Conditions
      /\ Cond("True", v.gen).st = "True" /\ Cond("True", v.gen).og = v.gen
  BY <1>1, ConditionType
<1>3. /\ Pending(v.prog, v.gen) \in Conditions
      /\ \A l \in Listeners : Pending(v.ls[l].prog, v.gen) \in Conditions
  BY <1>1, PendingFacts
<1>4. ls \in [Listeners -> [prog : Conditions, res : Conditions]]
  BY <1>2, <1>3
<1>5. /\ w \in Versions /\ w.gen = v.gen /\ w.spec = v.spec
      /\ w.acc = v.gen /\ w.prog = Pending(v.prog, v.gen) /\ w.ls = ls
  <2>1. w = [v EXCEPT !.acc = v.gen, !.prog = Pending(v.prog, v.gen), !.ls = ls]
    BY DEF MarkAccepted
  <2> HIDE DEF w, ls
  <2> QED
    BY <1>1, <1>3, <1>4, <2>1 DEF Versions
<1>6. \A l \in Listeners : /\ w.ls[l].prog = Pending(v.ls[l].prog, v.gen)
                           /\ w.ls[l].res = Cond("True", v.gen)
  BY <1>5
<1> HIDE DEF w, ls
<1>7. Accepted(w) /\ Listed(w)
  BY <1>2, <1>5, <1>6 DEF Accepted, Listed
<1>8. ProgrammedNow(v) => ProgrammedNow(w)
  BY <1>1, <1>5, PendingFacts DEF ProgrammedNow
<1>9. AllProgrammed(v) => AllProgrammed(w)
  BY <1>1, <1>5, <1>6, <1>8, PendingFacts DEF AllProgrammed
<1>10. /\ w.prog # v.prog => w.prog.og = v.gen
       /\ w.prog.st = "True" => w.prog = v.prog
  BY <1>1, <1>5, PendingFacts
<1>11. \A l \in Listeners : /\ w.ls[l].prog # v.ls[l].prog => w.ls[l].prog.og = v.gen
                            /\ w.ls[l].res # v.ls[l].res => w.ls[l].res.og = v.gen
  BY <1>1, <1>2, <1>6, PendingFacts
<1> QED
  BY <1>5, <1>7, <1>8, <1>9, <1>10, <1>11 DEF Faithful, w

LEMMA MarkProgrammedFacts ==
  ASSUME NEW v \in Versions
  PROVE  /\ Faithful(v, MarkProgrammed(v))
         /\ MarkProgrammed(v).prog = Cond("True", v.gen)
         /\ MarkProgrammed(v).prog.st = "True" /\ MarkProgrammed(v).prog.og = v.gen
         /\ Listed(v) => AllProgrammed(MarkProgrammed(v))
<1> DEFINE ls == [l \in Listeners |->
                    IF v.ls[l].res.st = "none" THEN v.ls[l]
                    ELSE [v.ls[l] EXCEPT !.prog = Cond("True", v.gen)]]
           w == MarkProgrammed(v)
<1>1. /\ v.gen \in Nat /\ v.prog \in Conditions
      /\ v.ls \in [Listeners -> [prog : Conditions, res : Conditions]]
      /\ \A l \in Listeners : v.ls[l].prog \in Conditions /\ v.ls[l].res \in Conditions
  BY VersionFields
<1>2. /\ Cond("True", v.gen) \in Conditions
      /\ Cond("True", v.gen).st = "True" /\ Cond("True", v.gen).og = v.gen
  BY <1>1, ConditionType
<1>3. ASSUME NEW l \in Listeners
      PROVE  /\ ls[l] \in [prog : Conditions, res : Conditions]
             /\ ls[l].res = v.ls[l].res
             /\ ls[l].prog = v.ls[l].prog \/ ls[l].prog = Cond("True", v.gen)
             /\ v.ls[l].res.st # "none" => ls[l].prog = Cond("True", v.gen)
  <2>1. v.ls[l] \in [prog : Conditions, res : Conditions]
    BY <1>1
  <2>2. CASE v.ls[l].res.st = "none"
    BY <2>1, <2>2
  <2>3. CASE v.ls[l].res.st # "none"
    BY <1>2, <2>1, <2>3
  <2> QED
    BY <2>2, <2>3
<1>4. ls \in [Listeners -> [prog : Conditions, res : Conditions]]
  BY <1>3
<1>5. /\ w \in Versions /\ w.gen = v.gen /\ w.spec = v.spec
      /\ w.acc = v.acc /\ w.prog = Cond("True", v.gen) /\ w.ls = ls
  <2>1. w = [v EXCEPT !.prog = Cond("True", v.gen), !.ls = ls]
    BY DEF MarkProgrammed
  <2>2. v.acc \in Nat
    BY VersionFields
  <2> HIDE DEF w, ls
  <2> QED
    BY <1>2, <1>4, <2>1, <2>2 DEF Versions
<1> HIDE DEF w, ls
<1>6. ProgrammedNow(w)
  BY <1>5 DEF ProgrammedNow
<1>7. (Accepted(v) => Accepted(w)) /\ (Listed(v) => Listed(w))
  BY <1>3, <1>5 DEF Accepted, Listed
<1>8. Listed(v) => AllProgrammed(w)
  BY <1>3, <1>5, <1>6 DEF Listed, AllProgrammed
<1>9. AllProgrammed(v) => AllProgrammed(w)
  BY <1>3, <1>5, <1>6 DEF AllProgrammed
<1>10. \A l \in Listeners : /\ w.ls[l].prog # v.ls[l].prog => w.ls[l].prog.og = v.gen
                            /\ w.ls[l].res # v.ls[l].res => w.ls[l].res.og = v.gen
  BY <1>2, <1>3, <1>5
<1> QED
  BY <1>2, <1>5, <1>6, <1>7, <1>8, <1>9, <1>10 DEF Faithful, w

LEMMA MarkListenerResolvedRefsFacts ==
  ASSUME NEW v \in Versions, NEW l \in Listeners,
         NEW reason \in {"InvalidCertificateRef", "RefNotPermitted"}
  PROVE  /\ Faithful(v, MarkListenerResolvedRefs(v, l, reason))
         /\ MarkListenerResolvedRefs(v, l, reason).prog = v.prog
<1> DEFINE w == MarkListenerResolvedRefs(v, l, reason)
           ls == [v.ls EXCEPT ![l] = [@ EXCEPT !.res = Cond(reason, v.gen)]]
<1>1. /\ v.gen \in Nat /\ v.prog \in Conditions /\ v.acc \in Nat
      /\ v.ls \in [Listeners -> [prog : Conditions, res : Conditions]]
      /\ \A k \in Listeners : v.ls[k].prog \in Conditions /\ v.ls[k].res \in Conditions
  BY VersionFields
<1>2. /\ Cond(reason, v.gen) \in Conditions /\ Cond(reason, v.gen).og = v.gen
      /\ Cond(reason, v.gen).st # "none"
  BY <1>1, ConditionType
<1>3. CASE v.ls[l].res.st = "none"
  <2>1. w = v
    BY <1>3 DEF MarkListenerResolvedRefs
  <2> HIDE DEF w
  <2>2. Faithful(v, v)
    BY DEF Faithful
  <2> QED
    BY <2>1, <2>2 DEF w
<1>4. CASE v.ls[l].res.st # "none"
  <2>1. v.ls[l] \in [prog : Conditions, res : Conditions]
    BY <1>1
  <2>2. /\ ls \in [Listeners -> [prog : Conditions, res : Conditions]]
        /\ ls[l].res = Cond(reason, v.gen) /\ ls[l].prog = v.ls[l].prog
        /\ \A k \in Listeners \ {l} : ls[k] = v.ls[k]
    BY <1>1, <1>2, <2>1
  <2>3. w = [v EXCEPT !.ls = ls]
    BY <1>4 DEF MarkListenerResolvedRefs
  <2> HIDE DEF w, ls
  <2>4. /\ w \in Versions /\ w.gen = v.gen /\ w.spec = v.spec
        /\ w.acc = v.acc /\ w.prog = v.prog /\ w.ls = ls
    BY <1>1, <2>2, <2>3 DEF Versions
  <2>5. ASSUME NEW k \in Listeners
        PROVE  /\ w.ls[k].prog = v.ls[k].prog
               /\ w.ls[k].res # v.ls[k].res => w.ls[k].res.og = v.gen
               /\ v.ls[k].res.st # "none" => w.ls[k].res.st # "none"
    BY <1>2, <2>2, <2>4
  <2>6. Faithful(v, w)
    BY <2>4, <2>5 DEF Faithful, ProgrammedNow, Accepted, Listed, AllProgrammed
  <2> QED
    BY <2>4, <2>6 DEF w
<1> QED
  BY <1>3, <1>4

(* The three writers and where they lead, one by one.                      *)
LEMMA StageTable ==
  /\ Writing("accept") = "accept!" /\ AfterMark("accept") = "validate"
  /\ AfterMarkError("accept") = "backoff"
  /\ Writing("resolve") = "resolve!" /\ AfterMark("resolve") = "backoff"
  /\ AfterMarkError("resolve") = "backoff"
  /\ Writing("program") = "program!" /\ AfterMark("program") = "done"
  /\ AfterMarkError("program") = "done"
  /\ \A v : /\ Mark("accept", v) = MarkAccepted(v)
            /\ Mark("program", v) = MarkProgrammed(v)
            /\ Mark("resolve", v) = MarkListenerResolvedRefs(v, bad.l, bad.reason)
  BY DEF Writing, AfterMark, AfterMarkError, Mark

LEMMA MarkFacts ==
  ASSUME TypeOK, RunInv, NEW stage \in Stages, pc \in {stage, Writing(stage)}, NEW v \in Versions
  PROVE  /\ Faithful(v, Mark(stage, v))
         /\ stage = "accept" => Accepted(Mark(stage, v)) /\ Listed(Mark(stage, v))
         /\ stage = "program" => /\ Mark(stage, v).prog.st = "True" /\ Mark(stage, v).prog.og = v.gen
                                 /\ Listed(v) => AllProgrammed(Mark(stage, v))
         /\ stage # "program" /\ Mark(stage, v).prog.st = "True" => Mark(stage, v).prog = v.prog
<1>1. CASE stage = "accept"
  BY <1>1, StageTable, MarkAcceptedFacts
<1>2. CASE stage = "program"
  BY <1>2, StageTable, MarkProgrammedFacts
<1>3. CASE stage = "resolve"
  <2>1. bad.l \in Listeners /\ bad.reason \in {"InvalidCertificateRef", "RefNotPermitted"}
    BY <1>3, StageTable DEF TypeOK, RunInv
  <2> QED
    BY <1>3, <2>1, StageTable, MarkListenerResolvedRefsFacts
<1> QED
  BY <1>1, <1>2, <1>3 DEF Stages

-----------------------------------------------------------------------------
(***************************************************************************)
(* The versions of the Gateway.                                            *)
(***************************************************************************)
LEMMA Zeros ==
  /\ 0 \in 0 .. N /\ 0 \in 0 .. MaxAttempts /\ 0 \in 0 .. ConflictSteps
  /\ 0 \in 0 .. MaxEdits /\ 0 \in 0 .. MaxAssets /\ 0 \in 0 .. MaxFailures
  OBVIOUS

LEMMA NothingRead ==
  /\ NoBad \in [l : 0 .. N, reason : {"", "InvalidCertificateRef", "RefNotPermitted"}]
  /\ Specs # {} => NoGateway \in [gen : Nat, spec : Specs] /\ NotRead \in Versions
<1>1. NoBad \in [l : 0 .. N, reason : {"", "InvalidCertificateRef", "RefNotPermitted"}]
  BY Zeros DEF NoBad
<1>2. ASSUME NEW s \in Specs PROVE [NewGateway(s) EXCEPT !.gen = 0] \in Versions
  <2>1. Cond("none", 0) \in Conditions
    BY ConditionType
  <2> QED
    BY <2>1 DEF NewGateway, Versions
<1>3. Specs # {} => (CHOOSE s \in Specs : TRUE) \in Specs
  OBVIOUS
<1> QED
  BY <1>1, <1>2, <1>3 DEF NoGateway, NotRead

LEMMA ApiVersion ==
  ASSUME TypeOK
  PROVE  /\ Api \in Versions /\ Api \in Chain /\ cache \in Chain /\ Chain \subseteq Versions
         /\ stream = <<>> => Api = cache /\ Chain = {cache}
         /\ stream # <<>> => Api = stream[Len(stream)]
<1>1. cache \in Versions /\ stream \in Seq(Versions)
  BY DEF TypeOK
<1>2. <<cache>> \in Seq(Versions) /\ Len(<<cache>>) = 1 /\ <<cache>>[1] = cache
  BY <1>1
<1>3. /\ Api \in Versions
      /\ stream = <<>> => Api = cache
      /\ stream # <<>> => Api = stream[Len(stream)]
  BY <1>1, <1>2 DEF Api, Last
<1>4. stream # <<>> => Len(stream) \in 1 .. Len(stream)
  BY <1>1
<1>5. \A i \in 1 .. Len(stream) : stream[i] \in Versions
  BY <1>1
<1> QED
  BY <1>1, <1>3, <1>4, <1>5 DEF Chain

LEMMA StoreStep ==
  ASSUME TypeOK, cache' = cache, NEW v \in Versions, Store(v)
  PROVE  /\ stream' \in Seq(Versions) /\ stream' # <<>> /\ newest' = FALSE
         /\ Api' = v /\ Chain' = Chain \cup {v}
<1>1. cache \in Versions /\ stream \in Seq(Versions) /\ stream' = Append(stream, v)
  BY DEF TypeOK, Store
<1>2. /\ stream' \in Seq(Versions) /\ stream' # <<>> /\ Len(stream') = Len(stream) + 1
      /\ stream'[Len(stream) + 1] = v
      /\ \A i \in 1 .. Len(stream) : stream'[i] = stream[i]
      /\ Len(stream) \in Nat
  BY <1>1, AppendProperties
<1>3. Api' = v
  <2>1. <<cache>> \in Seq(Versions) /\ Len(<<cache>>) = 1
    BY <1>1
  <2>2. Last(<<cache>> \o stream') = stream'[Len(stream')]
    BY <1>2, <2>1 DEF Last
  <2> QED
    BY <1>2, <2>2 DEF Api
<1>4. Chain' = Chain \cup {v}
  <2>1. \A i \in 1 .. Len(stream) + 1 : i \in 1 .. Len(stream) \/ i = Len(stream) + 1
    BY <1>2
  <2>2. {stream'[i] : i \in 1 .. Len(stream')} = {stream[i] : i \in 1 .. Len(stream)} \cup {v}
    BY <1>2, <2>1
  <2> QED
    BY <2>2 DEF Chain
<1> QED
  BY <1>2, <1>3, <1>4 DEF Store

LEMMA SyncStep ==
  ASSUME TypeOK, Sync
  PROVE  /\ cache' \in Versions /\ stream' \in Seq(Versions)
         /\ cache' = Head(stream) /\ cache' \in Chain
         /\ Api' = Api /\ Chain = Chain' \cup {cache}
<1>1. cache \in Versions /\ stream \in Seq(Versions) /\ stream # <<>>
  BY DEF TypeOK, Sync
<1> DEFINE h == Head(stream)
           t == Tail(stream)
<1>2. /\ h \in Versions /\ t \in Seq(Versions) /\ h = stream[1]
      /\ Len(stream) \in Nat /\ Len(stream) >= 1 /\ Len(t) = Len(stream) - 1
      /\ \A i \in 1 .. Len(t) : t[i] = stream[i + 1]
  BY <1>1
<1>3. cache' = h /\ stream' = t
  BY DEF Sync
<1> HIDE DEF h, t
<1>4. Api = stream[Len(stream)]
  BY <1>1, ApiVersion
<1>5. Api' = IF t = <<>> THEN h ELSE t[Len(t)]
  <2>1. <<h>> \in Seq(Versions) /\ Len(<<h>>) = 1 /\ <<h>>[1] = h
    BY <1>2
  <2>2. Last(<<h>> \o t) = IF t = <<>> THEN h ELSE t[Len(t)]
    BY <1>2, <2>1 DEF Last
  <2> QED
    BY <1>3, <2>2 DEF Api
<1>6. Api' = Api
  <2>1. CASE t = <<>>
    <3>1. Len(t) = 0
      BY <2>1
    <3>2. Len(stream) = 1
      BY <1>2, <3>1
    <3> QED
      BY <1>2, <1>4, <1>5, <2>1, <3>2
  <2>2. CASE t # <<>>
    <3>1. Len(t) \in 1 .. Len(t)
      BY <1>2, <2>2
    <3> QED
      BY <1>2, <1>4, <1>5, <2>2, <3>1
  <2> QED
    BY <2>1, <2>2
<1>7. Chain = Chain' \cup {cache}
  <2>1. Chain' = {h} \cup {t[i] : i \in 1 .. Len(t)}
    BY <1>3 DEF Chain
  <2>2. \A i \in 1 .. Len(t) : i + 1 \in 1 .. Len(stream)
    BY <1>2
  <2>3. \A i \in 1 .. Len(stream) : i = 1 \/ (i - 1 \in 1 .. Len(t) /\ (i - 1) + 1 = i)
    BY <1>2
  <2>4. {stream[i] : i \in 1 .. Len(stream)} = {h} \cup {t[i] : i \in 1 .. Len(t)}
    <3>1. ASSUME NEW i \in 1 .. Len(stream)
          PROVE  stream[i] \in {h} \cup {t[j] : j \in 1 .. Len(t)}
      <4>1. CASE i = 1
        BY <1>2, <4>1
      <4>2. CASE i - 1 \in 1 .. Len(t) /\ (i - 1) + 1 = i
        <5>1. t[i - 1] = stream[i]
          BY <1>2, <4>2
        <5> QED
          BY <4>2, <5>1
      <4> QED
        BY <2>3, <4>1, <4>2
    <3>2. ASSUME NEW i \in 1 .. Len(t)
          PROVE  t[i] \in {stream[j] : j \in 1 .. Len(stream)}
      BY <1>2, <2>2
    <3>3. h \in {stream[j] : j \in 1 .. Len(stream)}
      BY <1>2
    <3> QED
      BY <3>1, <3>2, <3>3
  <2> QED
    BY <2>1, <2>4 DEF Chain
<1>8. cache' \in Chain
  BY <1>3, <1>7 DEF Chain
<1> QED
  BY <1>2, <1>3, <1>6, <1>7, <1>8 DEF h

(* A step that leaves the versions alone.                                  *)
LEMMA SameStore ==
  ASSUME UNCHANGED <<cache, stream>>
  PROVE  /\ Api' = Api /\ Chain' = Chain
         /\ NoneOnTheWay' <=> NoneOnTheWay
         /\ GenerationsGoUp => GenerationsGoUp'
         /\ NothingUndone => NothingUndone'
<1>1. Api' = Api /\ Chain' = Chain
  BY DEF Api, Chain
<1> QED
  BY <1>1 DEF NoneOnTheWay, GenerationsGoUp, NothingUndone

-----------------------------------------------------------------------------
(* What the steps of the queue do.                                         *)
LEMMA EnqueueStep ==
  ASSUME Queue!TypeOK, RunInv, Queue!Enqueue(Gw)
  PROVE  /\ Queue!TypeOK'
         /\ Gw \in dirty' => phase'[Gw] # "idle"
         /\ phase'[Gw] = "queued" \/ Gw \in dirty'
         /\ phase'[Gw] = "busy" <=> phase[Gw] = "busy"
  BY DEF Queue!TypeOK, Queue!Phases, Queue!Enqueue, RunInv

LEMMA BeginStep ==
  ASSUME Queue!TypeOK, RunInv, Queue!Begin(Gw)
  PROVE  Queue!TypeOK' /\ phase'[Gw] = "busy" /\ dirty' = dirty
  BY DEF Queue!TypeOK, Queue!Phases, Queue!Begin

LEMMA FinishStep ==
  ASSUME Queue!TypeOK, RunInv, Queue!Finish(Gw)
  PROVE  /\ Queue!TypeOK' /\ Gw \notin dirty'
         /\ Gw \in dirty => phase'[Gw] = "queued"
         /\ Gw \notin dirty => phase'[Gw] = "idle"
  BY DEF Queue!TypeOK, Queue!Phases, Queue!Finish

-----------------------------------------------------------------------------
LEMMA InitGateway == Init => GatewayInv
<1> SUFFICES ASSUME Init PROVE GatewayInv
  OBVIOUS
<1>1. PICK s \in Specs : cache = NewGateway(s)
  BY DEF Init
<1>2. Cond("none", 0) \in Conditions /\ Cond("none", 0).st = "none"
  BY ConditionType
<1>3. /\ cache \in Versions /\ cache.gen = 1 /\ cache.prog.st = "none"
  BY <1>1, <1>2 DEF NewGateway, Versions
<1>4. NoGateway \in [gen : Nat, spec : Specs] /\ NotRead \in Versions
  BY <1>1, NothingRead
<1>5. Queue!TypeOK /\ phase[Gw] = "idle" /\ dirty = {}
  BY DEF Init, Queue!Init, Queue!TypeOK, Queue!Phases
<1>6. TypeOK
  <2>1. infra \in InfraStates
    BY DEF Init, NoInfra, InfraStates
  <2>2. bad \in [l : 0 .. N, reason : {"", "InvalidCertificateRef", "RefNotPermitted"}]
    BY NothingRead DEF Init
  <2>3. pc \in PCs
    BY DEF Init, PCs
  <2>4. /\ cache \in Versions /\ stream \in Seq(Versions) /\ events \in Nat
        /\ permitted \subseteq Refs /\ present \subseteq Refs /\ validated \subseteq Nat
    <3>1. cache \in Versions /\ stream \in Seq(Versions)
      BY <1>3 DEF Init
    <3> QED
      BY <3>1 DEF Init
  <2>5. /\ newest \in BOOLEAN /\ gaveUp \in BOOLEAN /\ swallowed \in BOOLEAN
        /\ gw \in [gen : Nat, spec : Specs] /\ read \in Versions
    BY <1>4 DEF Init
  <2>6. /\ attempt \in 0 .. MaxAttempts /\ tries \in 0 .. ConflictSteps
        /\ edits \in 0 .. MaxEdits /\ assets \in 0 .. MaxAssets
        /\ failures \in 0 .. MaxFailures
    BY Zeros DEF Init
  <2> QED
    BY <1>5, <2>1, <2>2, <2>3, <2>4, <2>5, <2>6 DEF TypeOK
<1>7. Api = cache /\ Chain = {cache}
  BY <1>6, ApiVersion DEF Init
<1>8. RunInv /\ ReadInv
  BY <1>5 DEF Init, RunInv, ReadInv
<1>9. GenerationsGoUp /\ NothingUndone
  BY <1>3, <1>7 DEF GenerationsGoUp, NothingUndone
<1>10. ListedFirst /\ ValidatedFirst
  BY <1>3, <1>7 DEF Init, ListedFirst, ValidatedFirst, ProgrammedAfterValidation, AfterAccept,
                    Provisioning
<1>11. Settling
  BY DEF Init, Settling, Again
<1> QED
  BY <1>6, <1>8, <1>9, <1>10, <1>11 DEF GatewayInv, History

-----------------------------------------------------------------------------
(***************************************************************************)
(* Types.                                                                  *)
(***************************************************************************)
Before == {p \in Nat \X Nat : p[1] < p[2]}

(* The first bad listener is one of the bad ones.                          *)
LEMMA FirstBadListener ==
  ASSUME NEW s \in Specs, BadListeners(s) # {}
  PROVE  LET l == Min(BadListeners(s))
         IN  /\ l \in Listeners
             /\ Verdict(s.want[l]) \in {"InvalidCertificateRef", "RefNotPermitted"}
<1> DEFINE T == BadListeners(s)
<1>1. T \subseteq Nat /\ T # {} /\ T \subseteq Listeners
  BY DEF BadListeners, Listeners
<1>2. \A l \in T : Verdict(s.want[l]) # "ok"
  BY DEF BadListeners
<1> HIDE DEF T
<1>3. Wf!OpToRel(<, Nat) = Before
  BY DEF Wf!OpToRel, Before
<1>4. Wf!IsWellFoundedOn(Before, Nat)
  BY <1>3, Wf!NatLessThanWellFounded
<1>5. PICK x \in T : \A y \in T : ~(<<y, x>> \in Before)
  BY <1>1, <1>4, Wf!WFMin
<1>6. ASSUME NEW y \in T PROVE x <= y
  <2>1. x \in Nat /\ y \in Nat
    BY <1>1
  <2>2. y < x => <<y, x>> \in Before
    BY <2>1 DEF Before
  <2> QED
    BY <1>5, <2>1, <2>2
<1>7. Min(T) \in T
  BY <1>5, <1>6 DEF Min
<1>8. \A r : Verdict(r) # "ok" => Verdict(r) \in {"InvalidCertificateRef", "RefNotPermitted"}
  BY DEF Verdict
<1> QED
  BY <1>1, <1>2, <1>7, <1>8 DEF T

(* The data plane objects stay what they can be.                           *)
LEMMA InfraType ==
  ASSUME NEW i \in InfraStates
  PROVE  /\ ApplyDeployment(i) \in InfraStates /\ ApplyService(i) \in InfraStates
         /\ [i EXCEPT !.dep = "available"] \in InfraStates
         /\ [i EXCEPT !.dep = "absent"] \in InfraStates
         /\ [i EXCEPT !.svc = "addressed"] \in InfraStates
         /\ NoInfra \in InfraStates
  BY DEF InfraStates, ApplyDeployment, ApplyService, NoInfra

(* What users write: another spec and the next generation, or a deletion;  *)
(* the status stays as it was.                                             *)
LEMMA UserVersions ==
  ASSUME NEW v \in Versions, NEW s \in Specs
  PROVE  LET e == [v EXCEPT !.gen = @ + 1, !.spec = s]
             d == [v EXCEPT !.gen = 0]
         IN  /\ e \in Versions /\ e.gen = v.gen + 1 /\ e.spec = s
             /\ e.prog = v.prog /\ e.ls = v.ls
             /\ d \in Versions /\ d.gen = 0 /\ d.prog = v.prog /\ d.ls = v.ls
<1>1. v.gen \in Nat /\ v.gen + 1 \in Nat
  BY VersionFields
<1> QED
  BY <1>1 DEF Versions

LEMMA Numbers ==
  ASSUME TypeOK
  PROVE  /\ events \in Nat /\ events + 1 \in Nat
         /\ events > 0 => events - 1 \in Nat
         /\ edits < MaxEdits => edits + 1 \in 0 .. MaxEdits
         /\ assets < MaxAssets => assets + 1 \in 0 .. MaxAssets
         /\ failures < MaxFailures => failures + 1 \in 0 .. MaxFailures
         /\ attempt < MaxAttempts => attempt + 1 \in 0 .. MaxAttempts
         /\ tries + 1 < ConflictSteps => tries + 1 \in 0 .. ConflictSteps
         /\ 1 \in 0 .. MaxAttempts
<1>1. /\ events \in Nat /\ edits \in 0 .. MaxEdits /\ assets \in 0 .. MaxAssets
      /\ failures \in 0 .. MaxFailures /\ attempt \in 0 .. MaxAttempts
      /\ tries \in 0 .. ConflictSteps
  BY DEF TypeOK
<1> QED
  BY <1>1

LEMMA WorldTypes ==
  ASSUME TypeOK,
         \/ \E r \in Refs : GrantChanges(r) \/ SecretChanges(r)
         \/ DeploymentAvailable \/ AddressAssigned
  PROVE  TypeOK'
<1>1. ASSUME NEW r \in Refs, GrantChanges(r) PROVE TypeOK'
  <2>1. permitted' \subseteq Refs
    BY <1>1 DEF GrantChanges, Toggle, TypeOK
  <2>2. assets' \in 0 .. MaxAssets /\ events' \in Nat
    BY <1>1, Numbers DEF GrantChanges
  <2> QED
    BY <1>1, <2>1, <2>2 DEF GrantChanges, TypeOK, Queue!TypeOK, queueVars, callVars, outcomeVars
<1>2. ASSUME NEW r \in Refs, SecretChanges(r) PROVE TypeOK'
  <2>1. present' \subseteq Refs /\ assets' \in 0 .. MaxAssets
    BY <1>2, Numbers DEF SecretChanges, Toggle, TypeOK
  <2> QED
    BY <1>2, <2>1 DEF SecretChanges, TypeOK, Queue!TypeOK, storeVars, queueVars, callVars,
                      outcomeVars
<1>3. ASSUME DeploymentAvailable \/ AddressAssigned PROVE TypeOK'
  <2>1. infra' \in InfraStates
    BY <1>3, InfraType DEF DeploymentAvailable, AddressAssigned, TypeOK
  <2> QED
    BY <1>3, <2>1 DEF DeploymentAvailable, AddressAssigned, TypeOK, Queue!TypeOK, storeVars,
                      queueVars, callVars, outcomeVars, userVars
<1> QED
  BY <1>1, <1>2, <1>3

LEMMA StoreTypes ==
  ASSUME TypeOK, RunInv,
         \/ \E s \in Specs : Edit(s)
         \/ Delete \/ Sync
         \/ \E stage \in Stages : WriteStatus(stage)
  PROVE  TypeOK'
<1>1. ASSUME NEW s \in Specs, Edit(s) \/ Delete PROVE TypeOK'
  <2> DEFINE e == [Api EXCEPT !.gen = @ + 1, !.spec = s]
             d == [Api EXCEPT !.gen = 0]
  <2>1. e \in Versions /\ d \in Versions
    BY ApiVersion, UserVersions
  <2>2. PICK v \in Versions : Store(v)
    BY <1>1, <2>1 DEF Edit, Delete
  <2>3. cache' = cache /\ edits' \in 0 .. MaxEdits
    BY <1>1, Numbers DEF Edit, Delete
  <2>4. stream' \in Seq(Versions) /\ newest' = FALSE
    BY <2>2, <2>3, StoreStep
  <2> QED
    BY <1>1, <2>3, <2>4 DEF Edit, Delete, TypeOK, Queue!TypeOK, worldVars, queueVars,
                            outcomeVars
<1>2. ASSUME Sync PROVE TypeOK'
  <2>1. cache' \in Versions /\ stream' \in Seq(Versions) /\ events' \in Nat
    BY <1>2, SyncStep, Numbers DEF Sync
  <2> QED
    BY <1>2, <2>1 DEF Sync, TypeOK, Queue!TypeOK, worldVars, queueVars, callVars, outcomeVars,
                      userVars
<1>3. Specs # {}
  BY VersionFields DEF TypeOK
<1>4. ASSUME NEW stage \in Stages, WriteStatus(stage) PROVE TypeOK'
  <2>0. read \in Versions
    BY DEF TypeOK
  <2>1. Mark(stage, read) \in Versions
    BY <1>4, <2>0, MarkFacts DEF WriteStatus, Faithful
  <2>2. cache' = cache /\ Store(Mark(stage, read))
    BY <1>4 DEF WriteStatus
  <2>3. stream' \in Seq(Versions) /\ newest' = FALSE
    BY <2>1, <2>2, StoreStep
  <2>4. pc' \in PCs /\ tries' \in 0 .. ConflictSteps /\ read' \in Versions
    BY <1>4, <1>3, NothingRead, StageTable, Zeros DEF WriteStatus, Stages, PCs
  <2> QED
    BY <1>4, <2>3, <2>4 DEF WriteStatus, TypeOK, Queue!TypeOK, worldVars, queueVars,
                            outcomeVars, userVars
<1> QED
  BY <1>1, <1>2, <1>4, <1>3

LEMMA QueueTypes ==
  ASSUME TypeOK, RunInv, HandleEvent \/ PeriodicRefresh \/ Begin \/ Retry \/ Finish
  PROVE  TypeOK'
<1>1. Queue!TypeOK /\ Specs # {}
  BY VersionFields DEF TypeOK
<1>2. NoGateway \in [gen : Nat, spec : Specs] /\ NotRead \in Versions
  BY <1>1, NothingRead
<1>3. ASSUME HandleEvent PROVE TypeOK'
  <2>1. Queue!TypeOK' /\ events' \in Nat
    BY <1>1, <1>3, EnqueueStep, Numbers DEF HandleEvent
  <2> QED
    BY <1>3, <2>1 DEF HandleEvent, TypeOK, worldVars, callVars, outcomeVars, userVars
<1>4. ASSUME PeriodicRefresh PROVE TypeOK'
  <2>1. Queue!TypeOK'
    BY <1>1, <1>4, EnqueueStep DEF PeriodicRefresh
  <2> QED
    BY <1>4, <2>1 DEF PeriodicRefresh, TypeOK, storeVars, worldVars, callVars, outcomeVars,
                      userVars
<1>5. ASSUME Begin PROVE TypeOK'
  <2>1. Queue!TypeOK'
    BY <1>1, <1>5, BeginStep DEF Begin
  <2>2. /\ pc' \in PCs /\ attempt' \in 0 .. MaxAttempts
        /\ gaveUp' \in BOOLEAN /\ swallowed' \in BOOLEAN
    BY <1>5, Numbers DEF Begin, PCs
  <2> QED
    BY <1>5, <2>1, <2>2 DEF Begin, TypeOK, storeVars, worldVars, callVars, userVars
<1>6. ASSUME Retry PROVE TypeOK'
  <2>1. pc' \in PCs /\ gaveUp' \in BOOLEAN
    BY <1>6 DEF Retry, PCs, TypeOK
  <2>2. attempt' \in 0 .. MaxAttempts
    <3>1. attempt \in 0 .. MaxAttempts
      BY DEF TypeOK
    <3> QED
      BY <1>6, <3>1, Numbers DEF Retry
  <2>3. /\ gw' \in [gen : Nat, spec : Specs]
        /\ bad' \in [l : 0 .. N, reason : {"", "InvalidCertificateRef", "RefNotPermitted"}]
        /\ read' \in Versions /\ newest' \in BOOLEAN /\ tries' \in 0 .. ConflictSteps
    BY <1>2, <1>6, NothingRead, Zeros DEF Retry
  <2> QED
    BY <1>6, <2>1, <2>2, <2>3 DEF Retry, TypeOK, Queue!TypeOK, storeVars, worldVars, queueVars,
                                  userVars
<1>7. ASSUME Finish PROVE TypeOK'
  <2>1. Queue!TypeOK'
    BY <1>1, <1>7, FinishStep DEF Finish
  <2>2. /\ pc' \in PCs /\ attempt' \in 0 .. MaxAttempts
        /\ gw' \in [gen : Nat, spec : Specs]
        /\ bad' \in [l : 0 .. N, reason : {"", "InvalidCertificateRef", "RefNotPermitted"}]
        /\ read' \in Versions /\ newest' \in BOOLEAN /\ tries' \in 0 .. ConflictSteps
    BY <1>2, <1>7, NothingRead, Zeros DEF Finish, PCs
  <2> QED
    BY <1>7, <2>1, <2>2 DEF Finish, TypeOK, storeVars, worldVars, outcomeVars, userVars
<1> QED
  BY <1>3, <1>4, <1>5, <1>6, <1>7

LEMMA ReconcileTypes ==
  ASSUME TypeOK, RunInv,
         \/ Fails \/ GetGateway \/ Cleanup \/ ValidateGatewayTLSAssets \/ Provision
         \/ WaitForAgentGatewayAvailable \/ WaitForAgentGatewayAddresses
         \/ \E stage \in Stages : ReadStatus(stage) \/ WriteConflict(stage)
  PROVE  TypeOK'
<1>1. ASSUME Fails PROVE TypeOK'
  <2>1. infra' \in InfraStates
    <3>1. infra \in InfraStates
      BY DEF TypeOK
    <3> QED
      BY <1>1, <3>1, InfraType DEF Fails, LeftBehind
  <2>2. pc' \in PCs /\ swallowed' \in BOOLEAN
    BY <1>1 DEF Fails, PCs, TypeOK
  <2>3. failures' \in 0 .. MaxFailures
    BY <1>1, Numbers DEF Fails
  <2> QED
    BY <1>1, <2>1, <2>2, <2>3 DEF Fails, TypeOK, Queue!TypeOK, storeVars, queueVars, callVars
<1>2. ASSUME GetGateway PROVE TypeOK'
  <2>1. pc' \in PCs
    BY <1>2 DEF GetGateway, PCs, Stages
  <2>2. gw' \in [gen : Nat, spec : Specs]
    BY <1>2, VersionFields DEF GetGateway, TypeOK
  <2> QED
    BY <1>2, <2>1, <2>2 DEF GetGateway, TypeOK, Queue!TypeOK, storeVars, worldVars, queueVars,
                            outcomeVars, userVars
<1>3. ASSUME Cleanup PROVE TypeOK'
  <2>1. infra' \in InfraStates /\ pc' \in PCs
    BY <1>3, InfraType DEF Cleanup, PCs, TypeOK
  <2> QED
    BY <1>3, <2>1 DEF Cleanup, TypeOK, Queue!TypeOK, storeVars, queueVars, callVars,
                      outcomeVars, userVars
<1>4. ASSUME ValidateGatewayTLSAssets PROVE TypeOK'
  <2>1. gw.gen \in Nat /\ gw.spec \in Specs
    BY DEF TypeOK
  <2>2. pc' \in PCs
    BY <1>4 DEF ValidateGatewayTLSAssets, PCs, Stages
  <2>3. validated' \subseteq Nat
    BY <1>4, <2>1 DEF ValidateGatewayTLSAssets, TypeOK
  <2>4. bad' \in [l : 0 .. N, reason : {"", "InvalidCertificateRef", "RefNotPermitted"}]
    <3>1. CASE bad' = bad
      BY <3>1 DEF TypeOK
    <3>2. CASE bad' # bad
      <4> DEFINE l == Min(BadListeners(gw.spec))
                 w == Verdict(gw.spec.want[l])
      <4>1. BadListeners(gw.spec) # {} /\ bad' = [l |-> l, reason |-> w]
        BY <1>4, <3>2 DEF ValidateGatewayTLSAssets
      <4>2. l \in Listeners /\ w \in {"InvalidCertificateRef", "RefNotPermitted"}
        BY <2>1, <4>1, FirstBadListener
      <4> HIDE DEF l, w
      <4>3. l \in 0 .. N
        BY <4>2 DEF Listeners
      <4> QED
        BY <4>1, <4>2, <4>3
    <3> QED
      BY <3>1, <3>2
  <2> QED
    BY <1>4, <2>2, <2>3, <2>4 DEF ValidateGatewayTLSAssets, TypeOK, Queue!TypeOK, storeVars,
                                  worldVars, queueVars, userVars
<1>5. ASSUME Provision PROVE TypeOK'
  <2>1. infra' \in InfraStates /\ pc' \in PCs
    BY <1>5, InfraType DEF Provision, PCs, TypeOK
  <2> QED
    BY <1>5, <2>1 DEF Provision, TypeOK, Queue!TypeOK, storeVars, queueVars, callVars,
                      outcomeVars, userVars
<1>6. ASSUME WaitForAgentGatewayAvailable \/ WaitForAgentGatewayAddresses PROVE TypeOK'
  <2>1. pc' \in PCs
    BY <1>6 DEF WaitForAgentGatewayAvailable, WaitForAgentGatewayAddresses, PCs, Stages
  <2> QED
    BY <1>6, <2>1 DEF WaitForAgentGatewayAvailable, WaitForAgentGatewayAddresses, TypeOK,
                      Queue!TypeOK, storeVars, worldVars, queueVars, callVars, outcomeVars,
                      userVars
<1>7. ASSUME NEW stage \in Stages, ReadStatus(stage) PROVE TypeOK'
  <2>1. pc' \in PCs /\ newest' \in BOOLEAN /\ read' \in Versions
    BY <1>7, StageTable DEF ReadStatus, PCs, Stages, TypeOK
  <2> QED
    BY <1>7, <2>1 DEF ReadStatus, TypeOK, Queue!TypeOK, storeVars, worldVars, queueVars,
                      outcomeVars, userVars
<1>8. ASSUME NEW stage \in Stages, WriteConflict(stage) PROVE TypeOK'
  <2>1. pc' \in PCs /\ swallowed' \in BOOLEAN
    BY <1>8, StageTable DEF WriteConflict, PCs, Stages, TypeOK
  <2>2. tries' \in 0 .. ConflictSteps /\ read' \in Versions
    <3>1. Specs # {}
      BY VersionFields DEF TypeOK
    <3> QED
      BY <1>8, <3>1, NothingRead, Numbers, Zeros DEF WriteConflict
  <2> QED
    BY <1>8, <2>1, <2>2 DEF WriteConflict, TypeOK, Queue!TypeOK, storeVars, worldVars,
                            queueVars, userVars
<1> QED
  BY <1>1, <1>2, <1>3, <1>4, <1>5, <1>6, <1>7, <1>8

(* Needs of the invariant only that a reported listener is one.            *)
LEMMA TypeStep ==
  ASSUME TypeOK, RunInv, [Next]_vars
  PROVE  TypeOK'
<1>1. CASE Environment
  BY <1>1, WorldTypes, StoreTypes DEF Environment
<1>2. CASE Sync
  BY <1>2, StoreTypes
<1>3. CASE HandleEvent \/ PeriodicRefresh
  BY <1>3, QueueTypes
<1>4. CASE Goroutine
  BY <1>4, QueueTypes, ReconcileTypes, StoreTypes DEF Goroutine, Reconcile
<1>5. CASE UNCHANGED vars
  BY <1>5 DEF vars, TypeOK, Queue!TypeOK
<1> QED
  BY <1>1, <1>2, <1>3, <1>4, <1>5 DEF Next

-----------------------------------------------------------------------------
(***************************************************************************)
(* The queue and the goroutine keep step, and what was read stays read.    *)
(***************************************************************************)
LEMMA RunStep ==
  ASSUME TypeOK, RunInv, ReadInv, [Next]_vars
  PROVE  RunInv' /\ ReadInv'
<1>1. Queue!TypeOK
  BY DEF TypeOK
<1>2. ASSUME UNCHANGED <<cache, stream, phase, dirty, pc, bad, read, newest>>
      PROVE  RunInv' /\ ReadInv'
  BY <1>2 DEF RunInv, ReadInv, Api
<1>3. CASE Environment
  <2>1. ASSUME NEW s \in Specs, Edit(s) \/ Delete PROVE RunInv' /\ ReadInv'
    BY <2>1 DEF Edit, Delete, Store, RunInv, ReadInv, queueVars
  <2>2. ASSUME NEW r \in Refs, GrantChanges(r) \/ SecretChanges(r) PROVE RunInv' /\ ReadInv'
    BY <1>2, <2>2 DEF GrantChanges, SecretChanges, storeVars, queueVars, callVars
  <2>3. ASSUME DeploymentAvailable \/ AddressAssigned PROVE RunInv' /\ ReadInv'
    BY <1>2, <2>3 DEF DeploymentAvailable, AddressAssigned, storeVars, queueVars, callVars
  <2>4. Specs # {}
    BY VersionFields DEF TypeOK
  <2> QED
    BY <1>3, <2>1, <2>2, <2>3, <2>4 DEF Environment
<1>4. CASE Sync
  BY <1>4 DEF Sync, RunInv, ReadInv, queueVars, callVars
<1>5. CASE HandleEvent \/ PeriodicRefresh
  <2>1. Queue!Enqueue(Gw) /\ UNCHANGED <<cache, stream, pc, bad, read, newest>>
    BY <1>5 DEF HandleEvent, PeriodicRefresh, storeVars, callVars
  <2> QED
    BY <1>1, <2>1, EnqueueStep DEF RunInv, ReadInv, Api
<1>6. CASE Begin
  <2>1. Gw \notin dirty' \/ phase'[Gw] # "idle"
    BY <1>1, <1>6, BeginStep DEF Begin
  <2> QED
    BY <1>1, <1>6, <2>1, BeginStep DEF Begin, RunInv, ReadInv
<1>7. CASE Retry
  BY <1>7 DEF Retry, RunInv, ReadInv, queueVars
<1>8. CASE Finish
  BY <1>1, <1>8, FinishStep DEF Finish, RunInv, ReadInv
<1>9. CASE Fails
  BY <1>9 DEF Fails, RunInv, ReadInv, queueVars
<1>10. CASE \/ GetGateway \/ Cleanup \/ Provision
            \/ WaitForAgentGatewayAvailable \/ WaitForAgentGatewayAddresses
  BY <1>10 DEF GetGateway, Cleanup, Provision, WaitForAgentGatewayAvailable,
               WaitForAgentGatewayAddresses, RunInv, ReadInv, queueVars
<1>11. CASE ValidateGatewayTLSAssets
  <2> DEFINE l == Min(BadListeners(gw.spec))
             w == Verdict(gw.spec.want[l])
  <2>1. pc = "validate" /\ pc' \in {"provision", "backoff", "resolve"} /\ UNCHANGED queueVars
    BY <1>11 DEF ValidateGatewayTLSAssets
  <2>2. pc' = "resolve" => BadListeners(gw.spec) # {} /\ bad' = [l |-> l, reason |-> w]
    BY <1>11 DEF ValidateGatewayTLSAssets
  <2>3. gw.spec \in Specs
    BY DEF TypeOK
  <2>4. pc' = "resolve" => l \in Listeners /\ w \in {"InvalidCertificateRef", "RefNotPermitted"}
    BY <2>2, <2>3, FirstBadListener
  <2> HIDE DEF l, w
  <2>5. pc' = "resolve" => bad'.l \in Listeners /\ bad'.reason # ""
    <3> SUFFICES ASSUME pc' = "resolve" PROVE bad'.l \in Listeners /\ bad'.reason # ""
      OBVIOUS
    <3>1. bad' = [l |-> l, reason |-> w]
      BY <2>2
    <3>2. bad'.l = l /\ bad'.reason = w
      BY <3>1
    <3> QED
      BY <2>4, <3>2
  <2> QED
    BY <2>1, <2>5 DEF RunInv, ReadInv, queueVars
<1>12. ASSUME NEW stage \in Stages, ReadStatus(stage) PROVE RunInv' /\ ReadInv'
  <2>1. RunInv'
    BY <1>12, StageTable DEF ReadStatus, RunInv, Stages, queueVars
  <2>2. UNCHANGED <<cache, stream>> /\ pc = stage
    BY <1>12 DEF ReadStatus, storeVars
  <2>3. stream = <<>> => Api' = cache
    BY <2>2, ApiVersion DEF Api
  <2>4. pc' = Writing(stage) => read' = cache /\ newest' = (stream = <<>>)
    BY <1>12, StageTable DEF ReadStatus, Stages
  <2>5. pc' \in {"accept!", "resolve!", "program!"} => pc' = Writing(stage)
    BY <1>12, StageTable DEF ReadStatus, Stages
  <2>6. ReadInv'
    BY <2>2, <2>3, <2>4, <2>5 DEF ReadInv
  <2> QED
    BY <2>1, <2>6
<1>13. ASSUME NEW stage \in Stages, WriteStatus(stage) PROVE RunInv' /\ ReadInv'
  BY <1>13, StageTable DEF WriteStatus, Store, RunInv, ReadInv, Stages, queueVars
<1>14. ASSUME NEW stage \in Stages, WriteConflict(stage) PROVE RunInv' /\ ReadInv'
  BY <1>14, StageTable DEF WriteConflict, RunInv, ReadInv, Stages, storeVars, queueVars
<1>15. CASE UNCHANGED vars
  BY <1>2, <1>15 DEF vars
<1> QED
  BY <1>3, <1>4, <1>5, <1>6, <1>7, <1>8, <1>9, <1>10, <1>11, <1>12, <1>13, <1>14, <1>15
  DEF Next, Goroutine, Reconcile

-----------------------------------------------------------------------------
(***************************************************************************)
(* The versions that are stored.                                           *)
(***************************************************************************)
EarlyPCs == {"off", "get", "backoff", "done"}

(* A step that stores nothing keeps the history if the place it leads to   *)
(* was earned.                                                             *)
LEMMA SameStoreHistory ==
  ASSUME History, UNCHANGED <<cache, stream>>, validated \subseteq validated',
         pc' \in AfterAccept => Listed(Api),
         Exists(Api) /\ pc' \notin EarlyPCs => gw'.gen <= Api.gen,
         pc' \in Provisioning => gw'.gen \in validated'
  PROVE  History'
<1>1. Api' = Api /\ Chain' = Chain
  BY SameStore
<1>2. GenerationsGoUp' /\ NothingUndone'
  BY SameStore DEF History
<1>3. ListedFirst'
  BY <1>1 DEF History, ListedFirst
<1>4. ProgrammedAfterValidation'
  BY <1>1 DEF History, ValidatedFirst, ProgrammedAfterValidation
<1>5. ValidatedFirst'
  BY <1>1, <1>4 DEF ValidatedFirst, EarlyPCs
<1> QED
  BY <1>2, <1>3, <1>5 DEF History

LEMMA WorldHistory ==
  ASSUME History, UNCHANGED <<cache, stream, pc, gw, validated>>
  PROVE  History'
<1>1. /\ pc \in AfterAccept => Listed(Api)
      /\ Exists(Api) /\ pc \notin EarlyPCs => gw.gen <= Api.gen
      /\ pc \in Provisioning => gw.gen \in validated
  BY DEF History, ListedFirst, ValidatedFirst, EarlyPCs
<1> QED
  BY <1>1, SameStoreHistory

(* A deletion or a new spec: the status stays.                             *)
LEMMA UserHistory ==
  ASSUME TypeOK, History, Exists(Api), cache' = cache, NEW v \in Versions, Store(v),
         v.gen = 0 \/ v.gen = Api.gen + 1, v.prog = Api.prog, v.ls = Api.ls,
         UNCHANGED <<pc, gw, validated>>
  PROVE  History' /\ ~NoneOnTheWay'
<1>1. Api' = v /\ Chain' = Chain \cup {v} /\ Api \in Versions /\ Api \in Chain
  BY StoreStep, ApiVersion
<1>2. Chain \subseteq Versions
  BY ApiVersion
<1>3. Api.gen \in Nat /\ v.gen \in Nat /\ \A u \in Chain : u.gen \in Nat
  BY <1>1, <1>2, VersionFields
<1>4. \A u \in Chain : 0 < u.gen /\ u.gen <= Api.gen
  BY DEF History, GenerationsGoUp
<1>5. \A u \in Chain : u.gen # v.gen
  BY <1>3, <1>4
<1>6. GenerationsGoUp'
  BY <1>1, <1>3, <1>4, <1>5 DEF GenerationsGoUp, Exists
<1>7. Listed(v) <=> Listed(Api)
  BY DEF Listed
<1>8. NothingUndone'
  <2>1. \A u \in Chain' : Listed(u) => Listed(v)
    BY <1>1, <1>7 DEF History, NothingUndone
  <2>2. \A u \in Chain' : u.gen = v.gen => u = v
    BY <1>1, <1>5
  <2> QED
    BY <1>1, <2>1, <2>2 DEF NothingUndone
<1>9. ListedFirst'
  BY <1>1, <1>7 DEF History, ListedFirst
<1>10. ValidatedFirst'
  <2>1. Exists(v) /\ pc \notin EarlyPCs => gw.gen <= v.gen
    <3>1. gw.gen \in Nat
      BY DEF TypeOK
    <3> QED
      BY <1>3, <3>1 DEF History, ValidatedFirst, Exists, EarlyPCs
  <2>2. ProgrammedAfterValidation'
    BY <1>1 DEF History, ValidatedFirst, ProgrammedAfterValidation
  <2> QED
    BY <1>1, <2>1, <2>2 DEF History, ValidatedFirst, EarlyPCs
<1>11. ~NoneOnTheWay'
  BY <1>1, <1>5, ApiVersion DEF NoneOnTheWay
<1> QED
  BY <1>6, <1>8, <1>9, <1>10, <1>11 DEF History

(* What is written back is what the API server holds.                      *)
LEMMA ReadIsNewest ==
  ASSUME ReadInv, NEW stage \in Stages, WriteStatus(stage)
  PROVE  Store(Mark(stage, Api))
<1>1. read = Api
  BY StageTable DEF WriteStatus, ReadInv, Stages
<1> QED
  BY <1>1 DEF WriteStatus

(* A write of the controller undoes nothing.                               *)
LEMMA WriteHistory ==
  ASSUME TypeOK, RunInv, ReadInv, History, NEW stage \in Stages, WriteStatus(stage)
  PROVE  History'
<1> DEFINE w == Mark(stage, Api)
<1>1. /\ Faithful(Api, w)
      /\ stage = "accept" => Accepted(w) /\ Listed(w)
      /\ stage = "program" => /\ w.prog.st = "True" /\ w.prog.og = Api.gen
                              /\ Listed(Api) => AllProgrammed(w)
      /\ stage # "program" /\ w.prog.st = "True" => w.prog = Api.prog
  BY ApiVersion, MarkFacts DEF WriteStatus
<1>2. Store(w) /\ cache' = cache /\ UNCHANGED <<gw, validated>>
  BY ReadIsNewest DEF WriteStatus, outcomeVars
<1>3. pc = Writing(stage) /\ pc' = AfterMark(stage)
  BY DEF WriteStatus
<1> HIDE DEF w
<1>4. w \in Versions /\ w.gen = Api.gen /\ w.spec = Api.spec
  BY <1>1 DEF Faithful
<1>5. Api' = w /\ Chain' = Chain \cup {w} /\ Api \in Chain
  BY <1>2, <1>4, StoreStep, ApiVersion
<1>6. Api.gen \in Nat /\ gw.gen \in Nat
  BY ApiVersion, VersionFields DEF TypeOK
<1>7. GenerationsGoUp'
  BY <1>4, <1>5, <1>6 DEF History, GenerationsGoUp, Exists
<1>8. /\ Listed(Api) => Listed(w)
      /\ Accepted(Api) => Accepted(w)
      /\ AllProgrammed(Api) => AllProgrammed(w)
  BY <1>1 DEF Faithful
<1>9. NothingUndone'
  BY <1>4, <1>5, <1>8 DEF History, NothingUndone
<1>10. pc \in AfterAccept => Listed(Api)
  BY DEF History, ListedFirst
<1>11. w.prog.st = "True" => Listed(w)
  <2>1. CASE stage = "program"
    BY <1>3, <1>8, <1>10, <2>1, StageTable DEF AfterAccept, Provisioning
  <2>2. CASE stage # "program"
    BY <1>1, <1>5, <1>8, <2>2 DEF History, ListedFirst
  <2> QED
    BY <2>1, <2>2
<1>12. pc' \in AfterAccept => stage = "accept"
  BY <1>3, StageTable DEF AfterAccept, Provisioning, Stages
<1>13. ListedFirst'
  BY <1>1, <1>5, <1>11, <1>12 DEF History, ListedFirst
<1>14. ProgrammedAfterValidation'
  <2> SUFFICES ASSUME Exists(w), w.prog.st = "True"
               PROVE  \E g \in validated : g <= w.prog.og
    BY <1>2, <1>5 DEF ProgrammedAfterValidation
  <2>0. Exists(Api)
    BY <1>4 DEF Exists
  <2>1. CASE stage = "program"
    <3>1. pc = "program!"
      BY <1>3, <2>1, StageTable
    <3>2. gw.gen \in validated /\ gw.gen <= Api.gen
      BY <2>0, <3>1 DEF History, ValidatedFirst, Provisioning
    <3> QED
      BY <1>1, <2>1, <3>2
  <2>2. CASE stage # "program"
    BY <1>1, <2>0, <2>2 DEF History, ValidatedFirst, ProgrammedAfterValidation
  <2> QED
    BY <2>1, <2>2
<1>15. ValidatedFirst'
  <2>1. Exists(w) => gw.gen <= w.gen
    BY <1>3, <1>4, StageTable DEF History, ValidatedFirst, Stages, Exists
  <2>2. pc' \notin Provisioning
    BY <1>3, StageTable DEF Stages, Provisioning
  <2> QED
    BY <1>2, <1>5, <1>14, <2>1, <2>2 DEF ValidatedFirst
<1> QED
  BY <1>7, <1>9, <1>13, <1>15 DEF History

(* MarkAccepted finds nothing to do only where it has been.                *)
LEMMA EqualRead ==
  ASSUME TypeOK, RunInv, History, NEW stage \in Stages, pc = stage, Mark(stage, cache) = cache
  PROVE  /\ stage = "accept" => Accepted(cache) /\ Listed(cache) /\ Listed(Api)
         /\ stage = "program" => AllProgrammed(cache)
<1>1. cache \in Versions /\ cache \in Chain
  BY ApiVersion DEF TypeOK
<1>2. /\ stage = "accept" => Accepted(cache) /\ Listed(cache)
      /\ stage = "program" => cache.prog.st = "True" /\ (Listed(cache) => AllProgrammed(cache))
  BY <1>1, MarkFacts
<1> QED
  BY <1>1, <1>2 DEF History, NothingUndone, ListedFirst

LEMMA ReconcileHistory ==
  ASSUME TypeOK, RunInv, History, Reconcile, \A stage \in Stages : ~WriteStatus(stage)
  PROVE  History'
<1>1. /\ pc \in AfterAccept => Listed(Api)
      /\ Exists(Api) /\ pc \notin EarlyPCs => gw.gen <= Api.gen
      /\ pc \in Provisioning => gw.gen \in validated
  BY DEF History, ListedFirst, ValidatedFirst, EarlyPCs
<1>2. CASE GetGateway
  <2>1. cache \in Chain
    BY ApiVersion
  <2>2. Exists(Api) => cache.gen <= Api.gen
    BY <2>1 DEF History, GenerationsGoUp
  <2>3. /\ UNCHANGED <<cache, stream, validated>> /\ gw'.gen = cache.gen
        /\ pc' \in {"accept", "cleanup"}
    BY <1>2 DEF GetGateway, storeVars, outcomeVars
  <2>4. pc' \notin AfterAccept /\ pc' \notin Provisioning
    BY <2>3 DEF AfterAccept, Provisioning
  <2> QED
    BY <2>2, <2>3, <2>4, SameStoreHistory
<1>3. CASE \/ Cleanup \/ Provision
           \/ WaitForAgentGatewayAvailable \/ WaitForAgentGatewayAddresses
  <2>1. UNCHANGED <<cache, stream, gw, validated>>
    BY <1>3 DEF Cleanup, Provision, WaitForAgentGatewayAvailable,
                WaitForAgentGatewayAddresses, storeVars, callVars, outcomeVars
  <2>2. pc' = "done" \/ (pc \in Provisioning /\ pc' \in Provisioning)
    BY <1>3 DEF Cleanup, Provision, WaitForAgentGatewayAvailable,
                WaitForAgentGatewayAddresses, Provisioning
  <2> QED
    BY <1>1, <2>1, <2>2, SameStoreHistory DEF AfterAccept, Provisioning, EarlyPCs
<1>4. CASE ValidateGatewayTLSAssets
  <2>1. /\ pc = "validate" /\ UNCHANGED <<cache, stream, gw>> /\ validated \subseteq validated'
        /\ pc' \in {"provision", "backoff", "resolve"}
        /\ pc' = "provision" => gw.gen \in validated'
    BY <1>4 DEF ValidateGatewayTLSAssets, storeVars
  <2>2. Listed(Api) /\ (Exists(Api) => gw.gen <= Api.gen)
    BY <1>1, <2>1 DEF AfterAccept, EarlyPCs
  <2>3. pc' \in Provisioning => pc' = "provision"
    BY <2>1 DEF Provisioning
  <2> QED
    BY <2>1, <2>2, <2>3, SameStoreHistory
<1>5. ASSUME NEW stage \in Stages, ReadStatus(stage) PROVE History'
  <2>1. UNCHANGED <<cache, stream, gw, validated>> /\ pc = stage
    BY <1>5 DEF ReadStatus, storeVars, outcomeVars
  <2>2. \/ pc' \in EarlyPCs
        \/ pc' = Writing(stage)
        \/ pc' = "validate" /\ stage = "accept" /\ Mark(stage, cache) = cache
    BY <1>5, StageTable DEF ReadStatus, EarlyPCs, Stages
  <2>3. pc' \in AfterAccept => Listed(Api)
    <3>1. CASE pc' \in EarlyPCs
      BY <3>1 DEF EarlyPCs, AfterAccept, Provisioning
    <3>2. CASE pc' = Writing(stage)
      BY <1>1, <2>1, <3>2, StageTable DEF Stages, AfterAccept, Provisioning
    <3>3. CASE pc' = "validate" /\ stage = "accept" /\ Mark(stage, cache) = cache
      BY <2>1, <3>3, EqualRead
    <3> QED
      BY <2>2, <3>1, <3>2, <3>3
  <2>4. pc \notin EarlyPCs
    BY <2>1 DEF Stages, EarlyPCs
  <2>5. pc' \in Provisioning => pc \in Provisioning
    BY <2>1, <2>2, StageTable DEF Stages, EarlyPCs, Provisioning
  <2> QED
    BY <1>1, <2>1, <2>3, <2>4, <2>5, SameStoreHistory
<1>6. ASSUME NEW stage \in Stages, WriteConflict(stage) PROVE History'
  <2>1. UNCHANGED <<cache, stream, gw, validated>> /\ pc = Writing(stage)
    BY <1>6 DEF WriteConflict, storeVars
  <2>2. pc' \in EarlyPCs \/ pc' = stage
    BY <1>6, StageTable DEF WriteConflict, EarlyPCs, Stages
  <2>3. /\ pc' \in AfterAccept => pc \in AfterAccept
        /\ pc' \in Provisioning => pc \in Provisioning
        /\ pc \notin EarlyPCs
    BY <2>1, <2>2, StageTable DEF Stages, EarlyPCs, AfterAccept, Provisioning
  <2> QED
    BY <1>1, <2>1, <2>3, SameStoreHistory
<1> QED
  BY <1>2, <1>3, <1>4, <1>5, <1>6 DEF Reconcile

LEMMA UserStep ==
  ASSUME TypeOK, History, (\E s \in Specs : Edit(s)) \/ Delete
  PROVE  History' /\ ~NoneOnTheWay'
<1>1. ASSUME NEW s \in Specs, Edit(s) PROVE History' /\ ~NoneOnTheWay'
  <2> DEFINE v == [Api EXCEPT !.gen = @ + 1, !.spec = s]
  <2>1. v \in Versions /\ v.gen = Api.gen + 1 /\ v.prog = Api.prog /\ v.ls = Api.ls
    BY ApiVersion, UserVersions
  <2>2. /\ Exists(Api) /\ Store(v) /\ cache' = cache /\ UNCHANGED <<pc, gw, validated>>
    BY <1>1 DEF Edit, outcomeVars
  <2> HIDE DEF v
  <2> QED
    BY <2>1, <2>2, UserHistory
<1>2. ASSUME Delete PROVE History' /\ ~NoneOnTheWay'
  <2> DEFINE v == [Api EXCEPT !.gen = 0]
  <2>1. PICK s \in Specs : TRUE
    BY VersionFields DEF TypeOK
  <2>2. v \in Versions /\ v.gen = 0 /\ v.prog = Api.prog /\ v.ls = Api.ls
    BY <2>1, ApiVersion, UserVersions
  <2>3. /\ Exists(Api) /\ Store(v) /\ cache' = cache /\ UNCHANGED <<pc, gw, validated>>
    BY <1>2 DEF Delete, outcomeVars
  <2> HIDE DEF v
  <2> QED
    BY <2>2, <2>3, UserHistory
<1> QED
  BY <1>1, <1>2

LEMMA HistoryStep ==
  ASSUME TypeOK, RunInv, ReadInv, History, [Next]_vars
  PROVE  History'
<1>1. CASE Environment
  <2>1. ASSUME NEW s \in Specs, Edit(s) \/ Delete PROVE History'
    BY <2>1, UserStep
  <2>2. Specs # {}
    BY VersionFields DEF TypeOK
  <2>3. ASSUME NEW r \in Refs, GrantChanges(r) \/ SecretChanges(r) PROVE History'
    BY <2>3, WorldHistory DEF GrantChanges, SecretChanges, storeVars, callVars, outcomeVars
  <2>4. ASSUME DeploymentAvailable \/ AddressAssigned PROVE History'
    BY <2>4, WorldHistory DEF DeploymentAvailable, AddressAssigned, storeVars, callVars,
                              outcomeVars
  <2> QED
    BY <1>1, <2>1, <2>2, <2>3, <2>4 DEF Environment
<1>2. CASE Sync
  <2>1. Api' = Api /\ Chain = Chain' \cup {cache} /\ UNCHANGED <<pc, gw, validated>>
    BY <1>2, SyncStep DEF Sync, callVars, outcomeVars
  <2>2. GenerationsGoUp' /\ NothingUndone'
    BY <2>1 DEF History, GenerationsGoUp, NothingUndone
  <2>3. ListedFirst'
    BY <2>1 DEF History, ListedFirst
  <2>4. ValidatedFirst'
    BY <2>1 DEF History, ValidatedFirst, ProgrammedAfterValidation
  <2> QED
    BY <2>2, <2>3, <2>4 DEF History
<1>3. CASE HandleEvent \/ PeriodicRefresh
  BY <1>3, WorldHistory DEF HandleEvent, PeriodicRefresh, storeVars, callVars, outcomeVars
<1>4. CASE Begin \/ Retry \/ Finish \/ Fails
  <2>1. UNCHANGED <<cache, stream, validated>> /\ pc' \in EarlyPCs
    BY <1>4 DEF Begin, Retry, Finish, Fails, EarlyPCs, storeVars, outcomeVars
  <2>2. pc' \notin AfterAccept /\ pc' \notin Provisioning
    BY <2>1 DEF EarlyPCs, AfterAccept, Provisioning
  <2> QED
    BY <2>1, <2>2, SameStoreHistory
<1>5. CASE Reconcile
  BY <1>5, ReconcileHistory, WriteHistory
<1>6. CASE UNCHANGED vars
  BY <1>6, WorldHistory DEF vars
<1> QED
  BY <1>1, <1>2, <1>3, <1>4, <1>5, <1>6 DEF Next, Goroutine

-----------------------------------------------------------------------------
(***************************************************************************)
(* The run that no event follows.                                          *)
(***************************************************************************)

(* When no new generation is on its way, the cache shows the last one.     *)
LEMMA CacheIsCurrent ==
  ASSUME TypeOK, History, NoneOnTheWay
  PROVE  /\ cache.gen = Api.gen
         /\ \A u \in Chain : u.gen = cache.gen => u.spec = cache.spec
         /\ Accepted(cache) => Accepted(Api)
         /\ AllProgrammed(cache) => AllProgrammed(Api)
<1>1. Api \in Chain /\ cache \in Chain
  BY ApiVersion
<1>2. cache.gen = Api.gen
  BY <1>1 DEF NoneOnTheWay
<1> QED
  BY <1>1, <1>2 DEF History, GenerationsGoUp, NothingUndone

LEMMA SameNews ==
  ASSUME UNCHANGED <<cache, stream, events, phase, dirty>>
  PROVE  /\ NoneOnTheWay' <=> NoneOnTheWay
         /\ Again' <=> Again
         /\ Api' = Api
<1>1. Again' <=> Again
  BY DEF Again
<1> QED
  BY <1>1, SameStore

LEMMA WorldSettling ==
  ASSUME TypeOK, Settling,
         \/ \E r \in Refs : GrantChanges(r) \/ SecretChanges(r)
         \/ DeploymentAvailable \/ AddressAssigned
  PROVE  Settling'
<1>1. ASSUME UNCHANGED <<cache, stream, events, phase, dirty, pc, infra, gaveUp, swallowed>>
      PROVE  Settling'
  BY <1>1, SameNews DEF Settling, UpToDate, Outcome
<1>2. ASSUME NEW r \in Refs, GrantChanges(r) PROVE Settling'
  <2>1. CASE Exists(cache)
    <3>1. events' > 0
      BY <1>2, <2>1, Numbers DEF GrantChanges
    <3> QED
      BY <3>1 DEF Settling, Again
  <2>2. CASE ~Exists(cache)
    BY <1>1, <1>2, <2>2 DEF GrantChanges, queueVars, outcomeVars
  <2> QED
    BY <2>1, <2>2
<1>3. ASSUME NEW r \in Refs, SecretChanges(r) PROVE Settling'
  BY <1>1, <1>3 DEF SecretChanges, storeVars, queueVars, outcomeVars
<1>4. ASSUME DeploymentAvailable \/ AddressAssigned PROVE Settling'
  <2>1. infra # NoInfra
    BY <1>4 DEF DeploymentAvailable, AddressAssigned, NoInfra
  <2>2. UNCHANGED <<cache, stream, events, phase, dirty, pc, gaveUp, swallowed>>
    BY <1>4 DEF DeploymentAvailable, AddressAssigned, storeVars, queueVars, outcomeVars
  <2> QED
    BY <2>1, <2>2, SameNews DEF Settling, UpToDate, Outcome
<1> QED
  BY <1>2, <1>3, <1>4

LEMMA SyncSettling ==
  ASSUME TypeOK, History, Settling, Sync
  PROVE  Settling'
<1>1. /\ cache' = Head(stream) /\ cache' \in Chain
      /\ Api' = Api /\ Chain = Chain' \cup {cache}
  BY SyncStep
<1>2. UNCHANGED <<phase, dirty, pc, infra, gaveUp, swallowed>>
  BY DEF Sync, worldVars, queueVars, outcomeVars
<1>3. CASE cache'.gen # cache.gen
  <2>1. events' = events + 1
    BY <1>1, <1>3 DEF Sync, ObjectChanged
  <2>2. events' > 0
    BY <2>1, Numbers
  <2> QED
    BY <2>2 DEF Settling, Again
<1>4. CASE cache'.gen = cache.gen
  <2> SUFFICES ASSUME NoneOnTheWay', ~Again' PROVE UpToDate'
    BY DEF Settling
  <2>1. events' = events
    BY <1>1, <1>4 DEF Sync, ObjectChanged
  <2>2. NoneOnTheWay
    BY <1>1, <1>4 DEF NoneOnTheWay
  <2>3. UpToDate
    BY <1>2, <2>1, <2>2 DEF Settling, Again
  <2>4. Ours(cache') <=> Ours(cache)
    BY <1>1, <1>4, <2>2, CacheIsCurrent DEF Ours, Exists
  <2> QED
    BY <1>1, <1>2, <2>3, <2>4 DEF UpToDate, Outcome
<1> QED
  BY <1>3, <1>4

LEMMA QueueSettling ==
  ASSUME TypeOK, RunInv, Settling, HandleEvent \/ PeriodicRefresh \/ Begin \/ Retry \/ Finish
  PROVE  Settling'
<1>1. Queue!TypeOK
  BY DEF TypeOK
<1>2. CASE HandleEvent \/ PeriodicRefresh
  <2>1. Queue!Enqueue(Gw)
    BY <1>2 DEF HandleEvent, PeriodicRefresh
  <2> QED
    BY <1>1, <2>1, EnqueueStep DEF Settling, Again
<1>3. CASE Begin
  <2>1. pc' = "get"
    BY <1>3 DEF Begin
  <2> QED
    BY <2>1 DEF Settling, UpToDate, AfterAccept, Provisioning
<1>4. CASE Retry
  <2>1. pc' = "get" \/ (pc' = "done" /\ gaveUp')
    BY <1>4 DEF Retry
  <2> QED
    BY <2>1 DEF Settling, UpToDate, AfterAccept, Provisioning
<1>5. CASE Finish
  <2>1. /\ UNCHANGED <<cache, stream, events, infra, gaveUp, swallowed>>
        /\ pc = "done" /\ pc' = "off" /\ phase[Gw] = "busy"
    BY <1>5 DEF Finish, Queue!Finish, storeVars, worldVars, outcomeVars
  <2>2. Api' = Api /\ (NoneOnTheWay' <=> NoneOnTheWay)
    BY <2>1, SameStore
  <2>3. Again => Again'
    BY <1>1, <1>5, <2>1, FinishStep DEF Finish, Again
  <2> QED
    BY <2>1, <2>2, <2>3 DEF Settling, UpToDate, Outcome, AfterAccept, Provisioning
<1> QED
  BY <1>2, <1>3, <1>4, <1>5

LEMMA ReconcileSettling ==
  ASSUME TypeOK, RunInv, History, Settling, NoneOnTheWay, ~Again,
         Fails \/ (Reconcile /\ \A stage \in Stages : ~WriteStatus(stage))
  PROVE  UpToDate'
<1>1. UNCHANGED <<cache, stream>> /\ Api' = Api
  <2>1. UNCHANGED <<cache, stream>>
    BY DEF Fails, Reconcile, GetGateway, Cleanup, ValidateGatewayTLSAssets, Provision,
           WaitForAgentGatewayAvailable, WaitForAgentGatewayAddresses, ReadStatus,
           WriteConflict, storeVars
  <2> QED
    BY <2>1, SameStore
<1>2. UpToDate
  BY DEF Settling
<1>3. CASE Fails
  <2>1. pc' = "backoff" \/ (pc = "program!" /\ pc' = "done" /\ swallowed')
    BY <1>3 DEF Fails
  <2> QED
    BY <1>1, <1>2, <2>1 DEF UpToDate, Outcome, AfterAccept, Provisioning
<1>4. CASE GetGateway
  <2>1. pc' = IF Ours(cache) THEN "accept" ELSE "cleanup"
    BY <1>4 DEF GetGateway, Ours
  <2> QED
    BY <1>1, <2>1 DEF UpToDate, AfterAccept, Provisioning
<1>5. CASE Cleanup
  <2>1. pc = "cleanup" /\ pc' = "done" /\ infra' = NoInfra
    BY <1>5 DEF Cleanup
  <2> QED
    BY <1>1, <1>2, <2>1 DEF UpToDate, Outcome, AfterAccept, Provisioning
<1>6. CASE \/ ValidateGatewayTLSAssets \/ Provision
           \/ WaitForAgentGatewayAvailable \/ WaitForAgentGatewayAddresses
  <2>1. pc \in AfterAccept /\ pc' \in AfterAccept \cup {"backoff"}
    BY <1>6 DEF ValidateGatewayTLSAssets, Provision, WaitForAgentGatewayAvailable,
                WaitForAgentGatewayAddresses, AfterAccept, Provisioning
  <2> QED
    BY <1>1, <1>2, <2>1 DEF UpToDate, AfterAccept, Provisioning
<1>7. ASSUME NEW stage \in Stages, ReadStatus(stage) PROVE UpToDate'
  <2>1. pc = stage /\ UNCHANGED <<swallowed, gaveUp>>
    BY <1>7 DEF ReadStatus, outcomeVars
  <2>2. Ours(cache) /\ Exists(cache) /\ (stage # "accept" => Accepted(Api))
    BY <1>2, <2>1 DEF UpToDate, Ours, Stages, AfterAccept, Provisioning
  <2>3. \/ pc' = Writing(stage)
        \/ pc' = AfterMark(stage) /\ Mark(stage, cache) = cache
    BY <1>7, <2>2 DEF ReadStatus
  <2>4. CASE pc' = Writing(stage)
    BY <1>1, <2>2, <2>4, StageTable DEF UpToDate, Stages, AfterAccept, Provisioning
  <2>5. CASE pc' = AfterMark(stage) /\ Mark(stage, cache) = cache
    <3>1. CASE stage = "accept"
      <4>1. Accepted(Api) /\ pc' = "validate"
        BY <2>1, <2>5, <3>1, EqualRead, CacheIsCurrent, StageTable
      <4> QED
        BY <1>1, <2>2, <4>1 DEF UpToDate, AfterAccept, Provisioning
    <3>2. CASE stage = "program"
      <4>1. AllProgrammed(Api) /\ pc' = "done"
        BY <2>1, <2>5, <3>2, EqualRead, CacheIsCurrent, StageTable
      <4> QED
        BY <1>1, <2>2, <3>2, <4>1 DEF UpToDate, Outcome, AfterAccept, Provisioning
    <3>3. CASE stage = "resolve"
      BY <2>5, <3>3, StageTable DEF UpToDate, AfterAccept, Provisioning
    <3> QED
      BY <3>1, <3>2, <3>3 DEF Stages
  <2> QED
    BY <2>3, <2>4, <2>5
<1>8. ASSUME NEW stage \in Stages, WriteConflict(stage) PROVE UpToDate'
  <2>1. /\ pc = Writing(stage)
        /\ \/ pc' = stage
           \/ pc' = AfterMarkError(stage) /\ (stage = "program" => swallowed')
    BY <1>8 DEF WriteConflict
  <2>2. Ours(cache) /\ (stage # "accept" => Accepted(Api))
    BY <1>2, <2>1, StageTable DEF UpToDate, Stages, AfterAccept, Provisioning
  <2> QED
    BY <1>1, <2>1, <2>2, StageTable DEF UpToDate, Outcome, Stages, AfterAccept, Provisioning
<1> QED
  BY <1>3, <1>4, <1>5, <1>6, <1>7, <1>8 DEF Reconcile

LEMMA WriteSettling ==
  ASSUME TypeOK, RunInv, ReadInv, History, Settling, NEW stage \in Stages, WriteStatus(stage)
  PROVE  Settling'
<1> SUFFICES ASSUME NoneOnTheWay', ~Again' PROVE UpToDate'
  BY DEF Settling
<1> DEFINE w == Mark(stage, Api)
<1>1. /\ Faithful(Api, w)
      /\ stage = "accept" => Accepted(w)
      /\ stage = "program" => (Listed(Api) => AllProgrammed(w))
  BY ApiVersion, MarkFacts DEF WriteStatus
<1>2. Store(w) /\ cache' = cache /\ UNCHANGED <<events, phase, dirty>>
  BY ReadIsNewest DEF WriteStatus, queueVars
<1>3. pc = Writing(stage) /\ pc' = AfterMark(stage)
  BY DEF WriteStatus
<1> HIDE DEF w
<1>4. w \in Versions /\ (Accepted(Api) => Accepted(w))
  BY <1>1 DEF Faithful
<1>5. Api' = w /\ Chain' = Chain \cup {w}
  BY <1>2, <1>4, StoreStep
<1>6. UpToDate
  BY <1>2, <1>5 DEF Settling, NoneOnTheWay, Again
<1>7. Ours(cache) /\ (stage # "accept" => Accepted(Api))
  BY <1>3, <1>6, StageTable DEF UpToDate, Stages, AfterAccept, Provisioning
<1>8. CASE stage = "accept"
  BY <1>1, <1>2, <1>3, <1>5, <1>7, <1>8, StageTable DEF UpToDate, AfterAccept, Provisioning
<1>9. CASE stage = "program"
  <2>1. Listed(Api)
    BY <1>3, <1>9, StageTable DEF History, ListedFirst, AfterAccept, Provisioning
  <2>2. Outcome'
    BY <1>1, <1>2, <1>4, <1>5, <1>7, <1>9, <2>1 DEF Outcome
  <2> QED
    BY <1>3, <1>9, <2>2, StageTable DEF UpToDate, AfterAccept, Provisioning
<1>10. CASE stage = "resolve"
  BY <1>3, <1>10, StageTable DEF UpToDate, AfterAccept, Provisioning
<1> QED
  BY <1>8, <1>9, <1>10 DEF Stages

LEMMA SettlingStep ==
  ASSUME TypeOK, RunInv, ReadInv, History, Settling, [Next]_vars
  PROVE  Settling'
<1>1. CASE Environment
  BY <1>1, UserStep, WorldSettling DEF Environment, Settling
<1>2. CASE Sync
  BY <1>2, SyncSettling
<1>3. CASE HandleEvent \/ PeriodicRefresh \/ Begin \/ Retry \/ Finish
  BY <1>3, QueueSettling
<1>4. ASSUME Fails \/ (Reconcile /\ \A stage \in Stages : ~WriteStatus(stage))
      PROVE  Settling'
  <2>1. UNCHANGED <<cache, stream, events, phase, dirty>>
    BY <1>4 DEF Fails, Reconcile, GetGateway, Cleanup, ValidateGatewayTLSAssets, Provision,
                WaitForAgentGatewayAvailable, WaitForAgentGatewayAddresses, ReadStatus,
                WriteConflict, storeVars, queueVars
  <2> QED
    BY <1>4, <2>1, SameNews, ReconcileSettling DEF Settling
<1>5. ASSUME NEW stage \in Stages, WriteStatus(stage) PROVE Settling'
  BY <1>5, WriteSettling
<1>6. CASE UNCHANGED vars
  BY <1>6, SameNews DEF vars, Settling, UpToDate, Outcome
<1> QED
  BY <1>1, <1>2, <1>3, <1>4, <1>5, <1>6 DEF Next, Goroutine

-----------------------------------------------------------------------------
LEMMA NextGateway == GatewayInv /\ [Next]_vars => GatewayInv'
  BY TypeStep, RunStep, HistoryStep, SettlingStep DEF GatewayInv

(* Every step that changes the newest version of the Gateway is a user's,  *)
(* who counts it and starts another generation, or a status writer's.      *)
LEMMA WhoStores ==
  ASSUME GatewayInv, [Next]_vars
  PROVE  \/ UNCHANGED <<cache, stream>>
         \/ Api' = Api /\ Len(stream') < Len(stream)
         \/ Api'.gen # Api.gen /\ edits' # edits
         \/ \E stage \in Stages : /\ WriteStatus(stage)
                                  /\ Api' = Mark(stage, Api) /\ Faithful(Api, Api')
<1>0. TypeOK /\ RunInv /\ ReadInv /\ Api \in Versions
  BY ApiVersion DEF GatewayInv
<1>1. ASSUME NEW stage \in Stages, WriteStatus(stage)
      PROVE  Api' = Mark(stage, Api) /\ Faithful(Api, Api')
  <2>1. Faithful(Api, Mark(stage, Api))
    BY <1>0, <1>1, MarkFacts DEF WriteStatus
  <2>2. Mark(stage, Api) \in Versions
    BY <2>1 DEF Faithful
  <2>3. Api' = Mark(stage, Api)
    BY <1>0, <1>1, <2>2, ReadIsNewest, StoreStep DEF WriteStatus
  <2> QED
    BY <2>1, <2>3
<1>2. ASSUME NEW s \in Specs, Edit(s) \/ Delete PROVE Api'.gen # Api.gen /\ edits' # edits
  <2> DEFINE e == [Api EXCEPT !.gen = @ + 1, !.spec = s]
             d == [Api EXCEPT !.gen = 0]
  <2>1. e \in Versions /\ d \in Versions /\ e.gen = Api.gen + 1 /\ d.gen = 0
    BY <1>0, UserVersions
  <2>2. cache' = cache /\ (Store(e) \/ Store(d)) /\ Exists(Api) /\ edits' = edits + 1
    BY <1>2 DEF Edit, Delete
  <2> HIDE DEF e, d
  <2>3. Api' = e \/ Api' = d
    BY <1>0, <2>1, <2>2, StoreStep
  <2>4. Api.gen \in Nat /\ edits \in Nat
    <3>1. edits \in 0 .. MaxEdits
      BY <1>0 DEF TypeOK
    <3> QED
      BY <1>0, <3>1, VersionFields
  <2> QED
    BY <2>1, <2>2, <2>3, <2>4 DEF Exists
<1>3. ASSUME Sync PROVE Api' = Api /\ Len(stream') < Len(stream)
  <2>1. stream \in Seq(Versions) /\ stream # <<>> /\ stream' = Tail(stream)
    BY <1>0, <1>3 DEF TypeOK, Sync
  <2>2. Len(stream') < Len(stream)
    BY <2>1
  <2> QED
    BY <1>0, <1>3, <2>2, SyncStep
<1>4. ASSUME \/ \E r \in Refs : GrantChanges(r) \/ SecretChanges(r)
             \/ DeploymentAvailable \/ AddressAssigned
             \/ HandleEvent \/ PeriodicRefresh \/ Begin \/ Retry \/ Finish \/ Fails
             \/ UNCHANGED vars
      PROVE  UNCHANGED <<cache, stream>>
  BY <1>4 DEF GrantChanges, SecretChanges, DeploymentAvailable, AddressAssigned, HandleEvent,
              PeriodicRefresh, Begin, Retry, Finish, Fails, storeVars, vars
<1>5. ASSUME Reconcile, \A stage \in Stages : ~WriteStatus(stage)
      PROVE  UNCHANGED <<cache, stream>>
  BY <1>5 DEF Reconcile, GetGateway, Cleanup, ValidateGatewayTLSAssets, Provision,
              WaitForAgentGatewayAvailable, WaitForAgentGatewayAddresses, ReadStatus,
              WriteConflict, storeVars
<1>6. Specs # {}
  BY <1>0, VersionFields
<1> QED
  BY <1>1, <1>2, <1>3, <1>4, <1>5, <1>6 DEF Next, Environment, Goroutine

(* The model keeps its types: in particular a listener is reported by      *)
(* MarkListenerResolvedRefs only with a reason and an index of the spec.   *)
THEOREM TypeCorrect == Spec => []TypeOK
<1>1. GatewayInv => TypeOK
  BY DEF GatewayInv
<1> QED
  BY <1>1, InitGateway, NextGateway, PTL DEF Spec

(* Programmed=True is never stored before the TLS assets of this or an     *)
(* earlier version of the spec passed validateGatewayTLSAssets.            *)
THEOREM ProgrammedAfterValidationHolds == Spec => []ProgrammedAfterValidation
<1>1. GatewayInv => ProgrammedAfterValidation
  BY DEF GatewayInv, History, ValidatedFirst
<1> QED
  BY <1>1, InitGateway, NextGateway, PTL DEF Spec

(* Once all is at rest and the last reconcile did not give up, status and  *)
(* data plane are those of the last version, however far the cache lagged  *)
(* and whatever conflicts, failures and edits came in between.             *)
THEOREM SettledGatewayHolds == Spec => []SettledGateway
<1>1. GatewayInv => SettledGateway
  <2> SUFFICES ASSUME GatewayInv, AtRest, ~gaveUp
               PROVE  IF Exists(Api) /\ Api.spec.ours
                      THEN swallowed \/ (Accepted(Api) /\ AllProgrammed(Api))
                      ELSE infra = NoInfra
    BY DEF SettledGateway, Accepted, AllProgrammed
  <2>1. stream = <<>> /\ events = 0 /\ phase[Gw] = "idle"
    BY DEF AtRest
  <2>2. Api = cache /\ Chain = {cache}
    BY <2>1, ApiVersion DEF GatewayInv
  <2>3. NoneOnTheWay
    BY <2>2 DEF NoneOnTheWay
  <2>4. pc = "off" /\ ~Again
    BY <2>1 DEF GatewayInv, RunInv, Again
  <2>5. Outcome
    BY <2>3, <2>4 DEF GatewayInv, Settling, UpToDate
  <2> QED
    BY <2>2, <2>5 DEF Outcome, Ours
<1> QED
  BY <1>1, InitGateway, NextGateway, PTL DEF Spec

(* Each status write lands on the version it was computed from: generation *)
(* and spec stay, and each condition it changes carries the generation     *)
(* that the API server holds.                                              *)
THEOREM StatusWritesAreCurrentHolds == Spec => StatusWritesAreCurrent
<1>1. GatewayInv /\ [Next]_vars =>
        [ LET written == stream' # stream /\ Len(stream') > Len(stream) /\ edits' = edits
              Stamped(old, new) == new # old => new.og = Api.gen
          IN  written =>
                /\ Api'.gen = Api.gen /\ Api'.spec = Api.spec
                /\ Stamped(Api.prog, Api'.prog)
                /\ \A l \in Listeners :
                     /\ Stamped(Api.ls[l].prog, Api'.ls[l].prog)
                     /\ Stamped(Api.ls[l].res, Api'.ls[l].res) ]_vars
  <2> SUFFICES ASSUME GatewayInv, [Next]_vars,
                      stream' # stream, Len(stream') > Len(stream), edits' = edits
               PROVE  /\ Api'.gen = Api.gen /\ Api'.spec = Api.spec
                      /\ Api'.prog # Api.prog => Api'.prog.og = Api.gen
                      /\ \A l \in Listeners :
                           /\ Api'.ls[l].prog # Api.ls[l].prog => Api'.ls[l].prog.og = Api.gen
                           /\ Api'.ls[l].res # Api.ls[l].res => Api'.ls[l].res.og = Api.gen
    OBVIOUS
  <2>1. Len(stream) \in Nat /\ Len(stream') \in Nat
    <3>1. stream \in Seq(Versions) /\ stream' \in Seq(Versions)
      BY NextGateway DEF GatewayInv, TypeOK
    <3> QED
      BY <3>1
  <2>2. ~(Len(stream') < Len(stream))
    BY <2>1
  <2>3. Faithful(Api, Api')
    BY <2>2, WhoStores
  <2> QED
    BY <2>3 DEF Faithful
<1> QED
  BY <1>1, InitGateway, NextGateway, PTL DEF Spec, StatusWritesAreCurrent

(* A Gateway that is Programmed for its generation stays so while its      *)
(* generation does: MarkAccepted of later runs does not reset it.          *)
THEOREM ProgrammedIsStableHolds == Spec => ProgrammedIsStable
<1>1. ASSUME GatewayInv, [Next]_vars, ProgrammedNow(Api), Api'.gen = Api.gen
      PROVE  ProgrammedNow(Api')
  <2>1. Api' = Api \/ Faithful(Api, Api')
    BY <1>1, WhoStores, SameStore
  <2> QED
    BY <1>1, <2>1 DEF Faithful
<1>2. GatewayInv /\ [Next]_vars =>
        [ ProgrammedNow(Api) /\ Api'.gen = Api.gen => ProgrammedNow(Api') ]_vars
  BY <1>1
<1> QED
  BY <1>2, InitGateway, NextGateway, PTL DEF Spec, ProgrammedIsStable
=============================================================================
