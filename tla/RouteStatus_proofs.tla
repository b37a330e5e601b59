------------------------- MODULE RouteStatus_proofs -------------------------
(***************************************************************************)
(* Theorems about RouteStatus, for any sets of Gateways and Routes, lists  *)
(* of parentRefs and status lists of any length, and any number of         *)
(* conflicts, edits, re-creations and failures.                            *)
(***************************************************************************)
EXTENDS RouteStatus, SequenceTheorems, FiniteSetTheorems, TLAPS

(***************************************************************************)
(* The inductive invariant.                                                *)
(***************************************************************************)

(* The versions of a Route that the cache shows or will show, in order.    *)
Shown(r, i) == IF i = 0 THEN cache[r] ELSE stream[r][i]

(* The newest version, and those before it that share its generation with  *)
(* every version in between.                                               *)
Late(r) ==
  {i \in 0 .. Len(stream[r]) : \A j \in i .. Len(stream[r]) : Shown(r, j).gen = Api(r).gen}

Recent(r) == {Shown(r, i) : i \in Late(r)}

(* No new generation of r is on its way.                                   *)
NoneOnTheWay(r) == \A i \in 1 .. Len(stream[r]) : stream[r][i].gen = cache[r].gen

(* Version v says of Gateway g what v and generation n of g give: one      *)
(* entry for each of its refs.                                             *)
VerdictsFor(R, g, m, n) ==
  [i \in 1 .. Len(R[g]) |->
     [ctl |-> "ours", gw |-> g, section |-> R[g][i], og |-> m, gg |-> n]]

Says(v, g, n) == EntriesOf(v.parents, g) = VerdictsFor(v.refs, g, v.gen, n)

(* Its entries for g are of generation n of g or an earlier one.           *)
UpTo(v, g, n) ==
  \A i \in 1 .. Len(EntriesOf(v.parents, g)) : EntriesOf(v.parents, g)[i].gg <= n

(* They are of one run, and of different parentRefs.                       *)
OfOneRun(own) ==
  \A i, j \in 1 .. Len(own) :
    /\ own[i].section = own[j].section => i = j
    /\ own[i].og = own[j].og /\ own[i].gg = own[j].gg

TypeInv ==
  /\ TypeOK
  /\ \A g \in Gateways : cur[g] = {} \/ \E r \in Routes : cur[g] = {r}

(* A run is on its way while its key is busy, with the newest generation   *)
(* of the Gateway there was when it began.                                 *)
RunInv ==
  /\ \A g \in dirty : phase[g] # "idle"
  /\ \A g \in Gateways : phase[g] = "busy" <=> pc[g] # "off"
  /\ \A g \in Gateways : gws[g] > 0 => gen[g] <= gws[g]

(* While newest says so, what was read is what the API server holds.       *)
ReadInv ==
  \A g \in Gateways : pc[g] = "write" /\ newest[g] => \A r \in cur[g] : read[g] = Api(r)

(* No entry is of a later generation than its Gateway, or the run for it.  *)
EntriesUpTo(r, g) ==
  UpTo(Api(r), g, gws[g]) /\ (pc[g] # "off" => UpTo(Api(r), g, gen[g]))

(* What one version of a generation says rightly the later ones do too.    *)
NotUnsaid(r, g) ==
  \A u \in Recent(r) : \A n \in Nat : gws[g] <= n /\ Says(u, g, n) => Says(Api(r), g, n)

EntryInv(r, g) ==
  /\ OfOneRun(EntriesOf(Api(r).parents, g))
  /\ gws[g] > 0 => EntriesUpTo(r, g) /\ NotUnsaid(r, g)

Again(g) == phase[g] = "queued" \/ g \in dirty

(* A Route that no gap of the watch hid is up to date for a Gateway, or    *)
(* will be read for it, unless the last run was cut short.                 *)
Settling(r, g) ==
  \/ Again(g)
  \/ phase[g] = "busy" /\ gen[g] = gws[g] /\ (r \in todo[g] \cup cur[g] \/ UpToDate(r, g))
  \/ phase[g] = "idle" /\ (g \in aborted \/ UpToDate(r, g))

AllSettling ==
  \A r \in Routes : \A g \in Gateways :
    gws[g] > 0 /\ cache[r].gen > 0 /\ NoneOnTheWay(r) /\ r \notin missed => Settling(r, g)

RouteInv ==
  /\ TypeInv /\ RunInv /\ ReadInv
  /\ \A r \in Routes : \A g \in Gateways : EntryInv(r, g)
  /\ AllSettling

-----------------------------------------------------------------------------
Wf == INSTANCE WellFoundedInduction

(***************************************************************************)
(* Induction, stated about sets: a set of numbers, or of sequences, that   *)
(* has the smallest one and with each one the next has them all.           *)
(***************************************************************************)
Before == {p \in Nat \X Nat : p[1] < p[2]}

LEMMA LeastNumber ==
  ASSUME NEW T, T \subseteq Nat, T # {}
  PROVE  \E x \in T : \A y \in T : x <= y
<1>1. Wf!OpToRel(<, Nat) = Before
  BY DEF Wf!OpToRel, Before
<1>2. Wf!IsWellFoundedOn(Before, Nat)
  BY <1>1, Wf!NatLessThanWellFounded
<1>3. PICK x \in T : \A y \in T : ~(<<y, x>> \in Before)
  BY <1>2, Wf!WFMin
<1>4. ASSUME NEW y \in T PROVE x <= y
  <2>1. x \in Nat /\ y \in Nat
    OBVIOUS
  <2>2. y < x => <<y, x>> \in Before
    BY <2>1 DEF Before
  <2> QED
    BY <1>3, <2>1, <2>2
<1> QED
  BY <1>4

LEMMA NumberInduction ==
  ASSUME NEW T, T \subseteq Nat, 0 \in T, \A n \in T : n + 1 \in T
  PROVE  T = Nat
<1> SUFFICES ASSUME T # Nat PROVE FALSE
  OBVIOUS
<1>1. Nat \ T \subseteq Nat /\ Nat \ T # {}
  OBVIOUS
<1>2. PICK x \in Nat \ T : \A y \in Nat \ T : x <= y
  BY <1>1, LeastNumber
<1>3. x - 1 \in T /\ x # 0
  BY <1>2
<1> QED
  BY <1>2, <1>3

LEMMA SequenceInduction ==
  ASSUME NEW E, NEW T, T \subseteq Seq(E), <<>> \in T,
         \A s \in T : \A e \in E : Append(s, e) \in T
  PROVE  T = Seq(E)
<1> DEFINE N == {n \in Nat : \A s \in Seq(E) : Len(s) = n => s \in T}
<1>1. 0 \in N
  OBVIOUS
<1>2. ASSUME NEW n \in N PROVE n + 1 \in N
  <2> SUFFICES ASSUME NEW s \in Seq(E), Len(s) = n + 1 PROVE s \in T
    OBVIOUS
  <2>0. n \in Nat
    OBVIOUS
  <2>1. PICK p \in Seq(E) : Len(p) = n /\ \A i \in 1 .. n : p[i] = s[i]
    <3> DEFINE p == [i \in 1 .. n |-> s[i]]
    <3>1. p \in Seq(E) /\ Len(p) = n
      BY <2>0
    <3> QED
      BY <3>1
  <2>2. s[n + 1] \in E
    BY <2>0
  <2> DEFINE q == Append(p, s[n + 1])
  <2>3. /\ q \in Seq(E) /\ Len(q) = Len(p) + 1 /\ q[Len(p) + 1] = s[n + 1]
        /\ \A i \in 1 .. Len(p) : q[i] = p[i]
    BY <2>2, AppendProperties
  <2> HIDE DEF q, N
  <2>4. s = q
    <3>1. Len(q) = Len(s)
      BY <2>1, <2>3
    <3>2. ASSUME NEW i \in 1 .. Len(s) PROVE q[i] = s[i]
      <4>1. CASE i \in 1 .. n
        BY <2>1, <2>3, <4>1
      <4>2. CASE i = n + 1
        BY <2>1, <2>3, <4>2
      <4> QED
        BY <2>0, <4>1, <4>2
    <3> QED
      BY <2>3, <3>1, <3>2, SeqEqual
  <2>5. p \in T
    BY <2>1 DEF N
  <2> QED
    BY <2>2, <2>4, <2>5 DEF q
<1>3. N = Nat
  BY <1>1, <1>2, NumberInduction
<1>4. ASSUME NEW s \in Seq(E) PROVE s \in T
  <2>1. Len(s) \in N
    BY <1>3
  <2> QED
    BY <2>1
<1> QED
  BY <1>4

-----------------------------------------------------------------------------
(***************************************************************************)
(* What the filter of mergeRouteParents does to a list.                    *)
(***************************************************************************)
LoopOf(s, S, out) ==
  out = [i \in 0 .. Len(s) |->
           IF i = 0 THEN <<>>
           ELSE IF s[i] \in S THEN Append(out[i - 1], s[i]) ELSE out[i - 1]]

LEMMA KeepIsLoop ==
  ASSUME NEW s, NEW S
  PROVE  Keep(s, S) = (CHOOSE out : LoopOf(s, S, out))[Len(s)]
  BY Zenon DEF Keep, LoopOf

(* One turn of the loop more.                                              *)
LEMMA LoopExtends ==
  ASSUME NEW E, NEW s \in Seq(E), NEW e \in E, NEW S, NEW out, LoopOf(s, S, out)
  PROVE  \E more : LoopOf(Append(s, e), S, more)
<1> DEFINE n == Len(s)
           t == Append(s, e)
           last == IF e \in S THEN Append(out[n], e) ELSE out[n]
           more == [i \in 0 .. n + 1 |-> IF i = n + 1 THEN last ELSE out[i]]
<1>1. /\ n \in Nat /\ Len(t) = n + 1 /\ t[n + 1] = e
      /\ \A i \in 1 .. n : t[i] = s[i]
  OBVIOUS
<1>2. /\ DOMAIN out = 0 .. n /\ out[0] = <<>>
      /\ \A i \in 1 .. n : out[i] = IF s[i] \in S THEN Append(out[i - 1], s[i]) ELSE out[i - 1]
  <2>1. out[0] = <<>>
    BY <1>1 DEF LoopOf
  <2>2. ASSUME NEW i \in 1 .. n
        PROVE  out[i] = IF s[i] \in S THEN Append(out[i - 1], s[i]) ELSE out[i - 1]
    <3>1. i \in 0 .. n /\ i # 0
      BY <1>1
    <3> QED
      BY <3>1 DEF LoopOf
  <2> QED
    BY <2>1, <2>2 DEF LoopOf
<1> HIDE DEF last
<1>3. more[0] = <<>> /\ more[n + 1] = last /\ \A i \in 0 .. n : more[i] = out[i]
  BY <1>1, <1>2
<1>4. DOMAIN more = 0 .. n + 1 /\ more = [i \in 0 .. n + 1 |-> more[i]]
  OBVIOUS
<1> HIDE DEF more, t, n
<1>5. ASSUME NEW i \in 0 .. n + 1
      PROVE  more[i] = IF i = 0 THEN <<>>
                       ELSE IF t[i] \in S THEN Append(more[i - 1], t[i]) ELSE more[i - 1]
  <2>1. CASE i = 0
    BY <1>3, <2>1
  <2>2. CASE i \in 1 .. n
    <3>1. i # 0 /\ i - 1 \in 0 .. n /\ i \in 0 .. n
      BY <1>1, <2>2
    <3> QED
      BY <1>1, <1>2, <1>3, <2>2, <3>1
  <2>3. CASE i = n + 1
    <3>1. i # 0 /\ i - 1 = n /\ n \in 0 .. n
      BY <1>1, <2>3
    <3> QED
      BY <1>1, <1>3, <2>3, <3>1 DEF last
  <2> QED
    BY <1>1, <2>1, <2>2, <2>3
<1>6. LoopOf(t, S, more)
  BY <1>1, <1>4, <1>5, Zenon DEF LoopOf
<1> QED
  BY <1>6 DEF t

LEMMA LoopExists ==
  ASSUME NEW E, NEW s \in Seq(E), NEW S
  PROVE  \E out : LoopOf(s, S, out)
<1> DEFINE T == {t \in Seq(E) : \E out : LoopOf(t, S, out)}
<1>1. <<>> \in T
  <2> DEFINE out == [i \in 0 .. 0 |-> <<>>]
  <2>1. LoopOf(<<>>, S, out)
    BY DEF LoopOf
  <2> QED
    BY <2>1
<1>2. ASSUME NEW t \in T, NEW e \in E PROVE Append(t, e) \in T
  <2>1. PICK out : LoopOf(t, S, out)
    OBVIOUS
  <2>2. t \in Seq(E) /\ Append(t, e) \in Seq(E)
    OBVIOUS
  <2> QED
    BY <2>1, <2>2, LoopExtends
<1>3. T = Seq(E)
  BY <1>1, <1>2, SequenceInduction
<1> QED
  BY <1>3

(* Two runs of the loop agree as far as their lists do.                    *)
LEMMA LoopsAgree ==
  ASSUME NEW S, NEW s, NEW t, NEW n \in Nat,
         Len(s) \in Nat, Len(t) \in Nat, n <= Len(s), n <= Len(t),
         \A i \in 1 .. n : s[i] = t[i],
         NEW f, LoopOf(s, S, f), NEW g, LoopOf(t, S, g)
  PROVE  f[n] = g[n]
<1> DEFINE T == {i \in Nat : i <= n => f[i] = g[i]}
<1>1. /\ f[0] = <<>>
      /\ \A i \in 1 .. n : f[i] = IF s[i] \in S THEN Append(f[i - 1], s[i]) ELSE f[i - 1]
  <2>1. f[0] = <<>>
    BY DEF LoopOf
  <2>2. ASSUME NEW i \in 1 .. n
        PROVE  f[i] = IF s[i] \in S THEN Append(f[i - 1], s[i]) ELSE f[i - 1]
    <3>1. i \in 0 .. Len(s) /\ i # 0
      OBVIOUS
    <3> QED
      BY <3>1 DEF LoopOf
  <2> QED
    BY <2>1, <2>2
<1>2. /\ g[0] = <<>>
      /\ \A i \in 1 .. n : g[i] = IF t[i] \in S THEN Append(g[i - 1], t[i]) ELSE g[i - 1]
  <2>1. g[0] = <<>>
    BY DEF LoopOf
  <2>2. ASSUME NEW i \in 1 .. n
        PROVE  g[i] = IF t[i] \in S THEN Append(g[i - 1], t[i]) ELSE g[i - 1]
    <3>1. i \in 0 .. Len(t) /\ i # 0
      OBVIOUS
    <3> QED
      BY <3>1 DEF LoopOf
  <2> QED
    BY <2>1, <2>2
<1>3. 0 \in T
  BY <1>1, <1>2
<1>4. ASSUME NEW i \in T PROVE i + 1 \in T
  <2> SUFFICES ASSUME i + 1 <= n PROVE f[i + 1] = g[i + 1]
    OBVIOUS
  <2>1. i + 1 \in 1 .. n /\ (i + 1) - 1 = i /\ f[i] = g[i]
    OBVIOUS
  <2> QED
    BY <1>1, <1>2, <2>1
<1>5. T = Nat
  BY <1>3, <1>4, NumberInduction
<1> QED
  BY <1>5

LEMMA KeepEmpty ==
  ASSUME NEW S
  PROVE  Keep(<<>>, S) = <<>>
<1>1. <<>> \in Seq({}) /\ Len(<<>>) = 0
  OBVIOUS
<1>2. PICK out : LoopOf(<<>>, S, out)
  BY <1>1, LoopExists
<1>3. LoopOf(<<>>, S, CHOOSE f : LoopOf(<<>>, S, f))
  BY <1>2
<1>4. (CHOOSE f : LoopOf(<<>>, S, f))[0] = <<>>
  BY <1>1, <1>3 DEF LoopOf
<1> QED
  BY <1>1, <1>4, KeepIsLoop

LEMMA KeepAppend ==
  ASSUME NEW E, NEW s \in Seq(E), NEW e \in E, NEW S
  PROVE  Keep(Append(s, e), S) = IF e \in S THEN Append(Keep(s, S), e) ELSE Keep(s, S)
<1> DEFINE t == Append(s, e)
           f == CHOOSE out : LoopOf(s, S, out)
           g == CHOOSE out : LoopOf(t, S, out)
           n == Len(s)
<1>1. /\ t \in Seq(E) /\ n \in Nat /\ Len(t) = n + 1 /\ t[n + 1] = e
      /\ \A i \in 1 .. n : s[i] = t[i]
  OBVIOUS
<1>2. LoopOf(s, S, f)
  BY LoopExists
<1>3. LoopOf(t, S, g)
  BY <1>1, LoopExists
<1>4. Keep(s, S) = f[n] /\ Keep(t, S) = g[n + 1]
  BY <1>1, KeepIsLoop
<1> HIDE DEF t, f, g, n
<1>5. f[n] = g[n]
  BY <1>1, <1>2, <1>3, LoopsAgree DEF n
<1>6. g[n + 1] = IF t[n + 1] \in S THEN Append(g[n], t[n + 1]) ELSE g[n]
  <2>1. n + 1 \in 0 .. Len(t) /\ n + 1 # 0 /\ (n + 1) - 1 = n
    BY <1>1
  <2>2. g[n + 1] = IF t[n + 1] \in S THEN Append(g[(n + 1) - 1], t[n + 1]) ELSE g[(n + 1) - 1]
    BY <1>3, <2>1 DEF LoopOf
  <2> QED
    BY <2>1, <2>2
<1>7. Keep(t, S) = IF e \in S THEN Append(Keep(s, S), e) ELSE Keep(s, S)
  BY <1>1, <1>4, <1>5, <1>6
<1> QED
  BY <1>7 DEF t

LEMMA KeepType ==
  ASSUME NEW E, NEW s \in Seq(E), NEW S
  PROVE  Keep(s, S) \in Seq(E)
<1> DEFINE T == {t \in Seq(E) : Keep(t, S) \in Seq(E)}
<1>1. <<>> \in T
  <2>1. Keep(<<>>, S) = <<>> /\ <<>> \in Seq(E)
    BY KeepEmpty
  <2> QED
    BY <2>1
<1>2. ASSUME NEW t \in T, NEW e \in E PROVE Append(t, e) \in T
  <2>1. t \in Seq(E) /\ Keep(t, S) \in Seq(E) /\ Append(t, e) \in Seq(E)
    OBVIOUS
  <2>2. Append(Keep(t, S), e) \in Seq(E)
    BY <2>1
  <2> QED
    BY <2>1, <2>2, KeepAppend
<1>3. T = Seq(E)
  BY <1>1, <1>2, SequenceInduction
<1> QED
  BY <1>3

(* Filtering twice keeps what both filters keep.                           *)
LEMMA KeepTwice ==
  ASSUME NEW E, NEW s \in Seq(E), NEW A, NEW B
  PROVE  Keep(Keep(s, A), B) = Keep(s, A \cap B)
<1> DEFINE T == {t \in Seq(E) : Keep(Keep(t, A), B) = Keep(t, A \cap B)}
<1>1. <<>> \in T
  BY KeepEmpty
<1>2. ASSUME NEW t \in T, NEW e \in E PROVE Append(t, e) \in T
  <2>1. /\ t \in Seq(E) /\ Append(t, e) \in Seq(E)
        /\ Keep(Keep(t, A), B) = Keep(t, A \cap B)
    OBVIOUS
  <2>2. Keep(t, A) \in Seq(E)
    BY <2>1, KeepType
  <2>3. Keep(Append(t, e), A \cap B)
          = IF e \in A \cap B THEN Append(Keep(t, A \cap B), e) ELSE Keep(t, A \cap B)
    BY <2>1, KeepAppend
  <2>4. Keep(Append(t, e), A) = IF e \in A THEN Append(Keep(t, A), e) ELSE Keep(t, A)
    BY <2>1, KeepAppend
  <2>5. Keep(Append(Keep(t, A), e), B)
          = IF e \in B THEN Append(Keep(Keep(t, A), B), e) ELSE Keep(Keep(t, A), B)
    BY <2>2, KeepAppend
  <2> HIDE DEF T
  <2>6. Keep(Keep(Append(t, e), A), B) = Keep(Append(t, e), A \cap B)
    <3>1. CASE e \in A /\ e \in B
      BY <2>1, <2>3, <2>4, <2>5, <3>1
    <3>2. CASE e \in A /\ e \notin B
      BY <2>1, <2>3, <2>4, <2>5, <3>2
    <3>3. CASE e \notin A
      BY <2>1, <2>3, <2>4, <3>3
    <3> QED
      BY <3>1, <3>2, <3>3
  <2> QED
    BY <2>1, <2>6 DEF T
<1>3. T = Seq(E)
  BY <1>1, <1>2, SequenceInduction
<1> QED
  BY <1>3

LEMMA KeepNone ==
  ASSUME NEW E, NEW s \in Seq(E)
  PROVE  Keep(s, {}) = <<>>
<1> DEFINE T == {t \in Seq(E) : Keep(t, {}) = <<>>}
<1>1. <<>> \in T
  BY KeepEmpty
<1>2. ASSUME NEW t \in T, NEW e \in E PROVE Append(t, e) \in T
  <2>1. t \in Seq(E) /\ Keep(t, {}) = <<>> /\ Append(t, e) \in Seq(E) /\ e \notin {}
    OBVIOUS
  <2> QED
    BY <2>1, KeepAppend
<1>3. T = Seq(E)
  BY <1>1, <1>2, SequenceInduction
<1> QED
  BY <1>3

LEMMA ConcatAppend ==
  ASSUME NEW E, NEW s \in Seq(E), NEW t \in Seq(E), NEW e \in E
  PROVE  s \o Append(t, e) = Append(s \o t, e)
<1> DEFINE a == s \o Append(t, e)
           b == Append(s \o t, e)
<1>1. a \in Seq(E) /\ b \in Seq(E) /\ Len(a) = Len(b)
  OBVIOUS
<1>2. \A i \in 1 .. Len(a) : a[i] = b[i]
  OBVIOUS
<1> HIDE DEF a, b
<1>3. a = b
  BY <1>1, <1>2, SeqEqual
<1> QED
  BY <1>3 DEF a, b

(* A list of which all entries, or none, are kept.                         *)
LEMMA KeepAll ==
  ASSUME NEW S, NEW s \in Seq(S)
  PROVE  Keep(s, S) = s
<1> DEFINE T == {t \in Seq(S) : Keep(t, S) = t}
<1>1. <<>> \in T
  BY KeepEmpty
<1>2. ASSUME NEW t \in T, NEW e \in S PROVE Append(t, e) \in T
  <2>1. t \in Seq(S) /\ Keep(t, S) = t /\ Append(t, e) \in Seq(S)
    OBVIOUS
  <2>2. Keep(Append(t, e), S) = Append(Keep(t, S), e)
    BY <2>1, KeepAppend
  <2> QED
    BY <2>1, <2>2
<1>3. T = Seq(S)
  BY <1>1, <1>2, SequenceInduction
<1> QED
  BY <1>3

LEMMA KeepOthers ==
  ASSUME NEW S, NEW E, S \cap E = {}, NEW s \in Seq(E)
  PROVE  Keep(s, S) = <<>>
<1> DEFINE T == {t \in Seq(E) : Keep(t, S) = <<>>}
<1>1. <<>> \in T
  BY KeepEmpty
<1>2. ASSUME NEW t \in T, NEW e \in E PROVE Append(t, e) \in T
  <2>1. t \in Seq(E) /\ Keep(t, S) = <<>> /\ Append(t, e) \in Seq(E) /\ e \notin S
    OBVIOUS
  <2>2. Keep(Append(t, e), S) = Keep(t, S)
    BY <2>1, KeepAppend
  <2> QED
    BY <2>1, <2>2
<1>3. T = Seq(E)
  BY <1>1, <1>2, SequenceInduction
<1> QED
  BY <1>3

LEMMA KeepConcat ==
  ASSUME NEW E, NEW s \in Seq(E), NEW t \in Seq(E), NEW S
  PROVE  Keep(s \o t, S) = Keep(s, S) \o Keep(t, S)
<1> DEFINE T == {x \in Seq(E) : Keep(s \o x, S) = Keep(s, S) \o Keep(x, S)}
<1>0. Keep(s, S) \in Seq(E)
  BY KeepType
<1>1. <<>> \in T
  <2>1. s \o <<>> = s /\ Keep(s, S) \o <<>> = Keep(s, S)
    BY <1>0, ConcatEmptySeq
  <2>2. Keep(<<>>, S) = <<>> /\ <<>> \in Seq(E)
    BY KeepEmpty
  <2> QED
    BY <2>1, <2>2
<1>2. ASSUME NEW x \in T, NEW e \in E PROVE Append(x, e) \in T
  <2>1. /\ x \in Seq(E) /\ Append(x, e) \in Seq(E) /\ s \o x \in Seq(E)
        /\ Keep(s \o x, S) = Keep(s, S) \o Keep(x, S)
    OBVIOUS
  <2> HIDE DEF T
  <2>2. Keep(x, S) \in Seq(E)
    BY <2>1, KeepType
  <2>3. s \o Append(x, e) = Append(s \o x, e)
    BY <2>1, ConcatAppend
  <2>4. Keep(s, S) \o Append(Keep(x, S), e) = Append(Keep(s, S) \o Keep(x, S), e)
    BY <1>0, <2>2, ConcatAppend
  <2>5. Keep(Append(x, e), S) = IF e \in S THEN Append(Keep(x, S), e) ELSE Keep(x, S)
    BY <2>1, KeepAppend
  <2>6. Keep(Append(s \o x, e), S)
          = IF e \in S THEN Append(Keep(s \o x, S), e) ELSE Keep(s \o x, S)
    <3>1. \A y \in Seq(E) :
            Keep(Append(y, e), S) = IF e \in S THEN Append(Keep(y, S), e) ELSE Keep(y, S)
      BY KeepAppend
    <3> QED
      BY <2>1, <3>1, Zenon
  <2>7. Keep(s \o Append(x, e), S) = Keep(s, S) \o Keep(Append(x, e), S)
    BY <2>1, <2>3, <2>4, <2>5, <2>6
  <2> QED
    BY <2>1, <2>7 DEF T
<1>3. T = Seq(E)
  BY <1>1, <1>2, SequenceInduction
<1> QED
  BY <1>3

-----------------------------------------------------------------------------
(***************************************************************************)
(* What a write does to the entries of each Gateway.                       *)
(***************************************************************************)
USE BoundsAssumption

LEMMA OwnersDisjoint ==
  ASSUME NEW g \in Gateways
  PROVE  /\ (Entries \ OwnEntries(g)) \cap OwnEntries(g) = {}
         /\ (Entries \ OwnEntries(g)) \cap (Entries \ OwnEntries(g)) = Entries \ OwnEntries(g)
         /\ \A h \in Gateways \ {g} :
              /\ (Entries \ OwnEntries(g)) \cap OwnEntries(h) = OwnEntries(h)
         /\ \A h \in Gateways :
              (Entries \ EntriesFor("other", g)) \cap OwnEntries(h) = OwnEntries(h)
<1>1. ASSUME NEW h \in Gateways
      PROVE  /\ OwnEntries(h) \subseteq Entries
             /\ \A e \in OwnEntries(h) : e.gw = h /\ e.ctl = "ours"
  BY DEF OwnEntries, EntriesFor, Entries
<1>2. \A e \in EntriesFor("other", g) : e.ctl = "other"
  BY DEF EntriesFor
<1> QED
  BY <1>1, <1>2

(* The refs of a version, and the entries that routeParentStatuses makes   *)
(* of them.                                                                *)
LEMMA RefsOf ==
  ASSUME NEW R \in RefLists, NEW g \in Gateways
  PROVE  /\ R \in [Gateways -> Seq(Sections)] /\ R[g] \in Seq(Sections) /\ Len(R[g]) \in Nat
         /\ \A i \in 1 .. Len(R[g]) : R[g][i] \in Sections
         /\ \A i, j \in 1 .. Len(R[g]) : R[g][i] = R[g][j] => i = j
  BY RefListsAssumption

LEMMA Verdicts ==
  ASSUME NEW R \in RefLists, NEW g \in Gateways, NEW m \in Nat, NEW n \in Nat
  PROVE  /\ VerdictsFor(R, g, m, n) \in Seq(OwnEntries(g))
         /\ VerdictsFor(R, g, m, n) \in Seq(Entries)
         /\ Len(VerdictsFor(R, g, m, n)) = Len(R[g])
         /\ \A i \in 1 .. Len(R[g]) : VerdictsFor(R, g, m, n)[i].gg = n
         /\ OfOneRun(VerdictsFor(R, g, m, n))
<1> DEFINE own == VerdictsFor(R, g, m, n)
<1>1. /\ Len(R[g]) \in Nat
      /\ \A i \in 1 .. Len(R[g]) : R[g][i] \in Sections
      /\ \A i, j \in 1 .. Len(R[g]) : R[g][i] = R[g][j] => i = j
  BY RefsOf
<1>2. \A i \in 1 .. Len(R[g]) :
        [ctl |-> "ours", gw |-> g, section |-> R[g][i], og |-> m, gg |-> n] \in OwnEntries(g)
  BY <1>1 DEF OwnEntries, EntriesFor
<1>3. \A e \in OwnEntries(g) : e \in Entries
  BY DEF OwnEntries, EntriesFor, Entries
<1>4. own \in Seq(OwnEntries(g)) /\ own \in Seq(Entries) /\ Len(own) = Len(R[g])
  BY <1>1, <1>2, <1>3 DEF VerdictsFor
<1>5. \A i \in 1 .. Len(R[g]) : own[i].section = R[g][i] /\ own[i].og = m /\ own[i].gg = n
  BY <1>1 DEF VerdictsFor
<1> HIDE DEF own
<1>6. OfOneRun(own)
  BY <1>1, <1>4, <1>5 DEF OfOneRun
<1> QED
  BY <1>4, <1>5, <1>6 DEF own

LEMMA UpdatedEntries ==
  ASSUME NEW v \in Versions, NEW g \in Gateways, gen[g] \in Nat
  PROVE  /\ Updated(v, g) \in Seq(Entries)
         /\ Keep(Updated(v, g), Entries \ OwnEntries(g)) = Keep(v.parents, Entries \ OwnEntries(g))
         /\ EntriesOf(Updated(v, g), g) = RouteParentStatuses(v, g)
         /\ \A h \in Gateways \ {g} : EntriesOf(Updated(v, g), h) = EntriesOf(v.parents, h)
<1> DEFINE new == RouteParentStatuses(v, g)
           rest == Keep(v.parents, Entries \ OwnEntries(g))
<1>1. v.parents \in Seq(Entries) /\ v.gen \in Nat /\ v.refs \in RefLists
  BY DEF Versions
<1>2. new \in Seq(OwnEntries(g)) /\ new \in Seq(Entries)
  <2>1. new = VerdictsFor(v.refs, g, v.gen, gen[g])
    BY DEF RouteParentStatuses, VerdictsFor
  <2> QED
    BY <1>1, <2>1, Verdicts
<1>3. rest \in Seq(Entries)
  BY <1>1, KeepType
<1>4. /\ Keep(rest, Entries \ OwnEntries(g)) = rest
      /\ Keep(rest, OwnEntries(g)) = <<>>
      /\ \A h \in Gateways \ {g} : Keep(rest, OwnEntries(h)) = Keep(v.parents, OwnEntries(h))
  <2>1. \A B : Keep(rest, B) = Keep(v.parents, (Entries \ OwnEntries(g)) \cap B)
    BY <1>1, KeepTwice
  <2>2. Keep(v.parents, {}) = <<>>
    BY <1>1, KeepNone
  <2> HIDE DEF rest
  <2>3. Keep(rest, Entries \ OwnEntries(g)) = Keep(v.parents, Entries \ OwnEntries(g))
    BY <2>1, OwnersDisjoint
  <2>4. Keep(rest, OwnEntries(g)) = <<>>
    BY <2>1, <2>2, OwnersDisjoint
  <2>5. ASSUME NEW h \in Gateways \ {g}
        PROVE  Keep(rest, OwnEntries(h)) = Keep(v.parents, OwnEntries(h))
    BY <2>1, OwnersDisjoint
  <2> QED
    BY <2>3, <2>4, <2>5 DEF rest
<1>5. Updated(v, g) = rest \o new
  BY DEF Updated, MergeRouteParents
<1> HIDE DEF rest, new
<1>6. rest \o new \in Seq(Entries)
  BY <1>2, <1>3
<1>7. \A S : Keep(rest \o new, S) = Keep(rest, S) \o Keep(new, S)
  BY <1>2, <1>3, KeepConcat
<1>8. /\ Keep(new, OwnEntries(g)) = new
      /\ Keep(new, Entries \ OwnEntries(g)) = <<>>
      /\ \A h \in Gateways \ {g} : Keep(new, OwnEntries(h)) = <<>>
  <2>1. \A h \in Gateways \ {g} : OwnEntries(h) \cap OwnEntries(g) = {}
    BY DEF OwnEntries, EntriesFor
  <2>2. (Entries \ OwnEntries(g)) \cap OwnEntries(g) = {}
    OBVIOUS
  <2> QED
    BY <1>2, <2>1, <2>2, KeepAll, KeepOthers
<1>9. /\ <<>> \o new = new /\ rest \o <<>> = rest
      /\ \A h \in Gateways : Keep(v.parents, OwnEntries(h)) \o <<>> = Keep(v.parents, OwnEntries(h))
  <2>1. \A h \in Gateways : Keep(v.parents, OwnEntries(h)) \in Seq(Entries)
    BY <1>1, KeepType
  <2> QED
    BY <1>2, <1>3, <2>1, ConcatEmptySeq
<1>10. Keep(rest \o new, Entries \ OwnEntries(g)) = rest
  BY <1>4, <1>7, <1>8, <1>9
<1>11. EntriesOf(rest \o new, g) = new
  BY <1>4, <1>7, <1>8, <1>9 DEF EntriesOf
<1>12. ASSUME NEW h \in Gateways \ {g} PROVE EntriesOf(rest \o new, h) = EntriesOf(v.parents, h)
  BY <1>4, <1>7, <1>8, <1>9 DEF EntriesOf
<1> QED
  BY <1>5, <1>6, <1>10, <1>11, <1>12 DEF rest, new

LEMMA ForeignEntries ==
  ASSUME NEW s \in Seq(Entries), NEW g \in Gateways, NEW new \in EntriesFor("other", g)
  PROVE  \A t \in {Keep(s, Entries \ EntriesFor("other", g)),
                   Append(Keep(s, Entries \ EntriesFor("other", g)), new)} :
           t \in Seq(Entries) /\ \A h \in Gateways : EntriesOf(t, h) = EntriesOf(s, h)
<1> DEFINE rest == Keep(s, Entries \ EntriesFor("other", g))
<1>1. rest \in Seq(Entries)
  BY KeepType
<1>2. new \in Entries /\ \A h \in Gateways : new \notin OwnEntries(h)
  BY DEF Entries, OwnEntries, EntriesFor
<1>3. ASSUME NEW h \in Gateways PROVE Keep(rest, OwnEntries(h)) = Keep(s, OwnEntries(h))
  <2>1. \A B : Keep(rest, B) = Keep(s, (Entries \ EntriesFor("other", g)) \cap B)
    BY KeepTwice
  <2> HIDE DEF rest
  <2> QED
    BY <2>1, OwnersDisjoint
<1> HIDE DEF rest
<1>4. ASSUME NEW h \in Gateways
      PROVE  Keep(Append(rest, new), OwnEntries(h)) = Keep(s, OwnEntries(h))
  BY <1>1, <1>2, <1>3, KeepAppend
<1>5. Append(rest, new) \in Seq(Entries)
  BY <1>1, <1>2
<1> QED
  BY <1>1, <1>3, <1>4, <1>5 DEF EntriesOf, rest

-----------------------------------------------------------------------------
(***************************************************************************)
(* The versions of a Route.                                                *)
(***************************************************************************)
LEMMA CountUp ==
  ASSUME NEW m \in Nat, NEW n \in 0 .. m, n < m
  PROVE  n + 1 \in 0 .. m
  OBVIOUS

LEMMA ApiVersion ==
  ASSUME TypeOK, NEW r \in Routes
  PROVE  /\ Api(r) \in Versions /\ Len(stream[r]) \in Nat
         /\ stream[r] = <<>> => Api(r) = cache[r]
         /\ stream[r] # <<>> => Api(r) = stream[r][Len(stream[r])]
         /\ Api(r) = Shown(r, Len(stream[r]))
         /\ \A i \in 0 .. Len(stream[r]) : Shown(r, i) \in Versions
         /\ Api(r) \in Recent(r)
         /\ NoneOnTheWay(r) => cache[r] \in Recent(r) /\ Api(r).gen = cache[r].gen
<1>1. cache[r] \in Versions /\ stream[r] \in Seq(Versions)
  BY DEF TypeOK
<1>2. <<cache[r]>> \in Seq(Versions) /\ Len(<<cache[r]>>) = 1 /\ <<cache[r]>>[1] = cache[r]
  BY <1>1
<1>3. /\ Api(r) \in Versions
      /\ stream[r] = <<>> => Api(r) = cache[r]
      /\ stream[r] # <<>> => Api(r) = stream[r][Len(stream[r])]
  BY <1>1, <1>2 DEF Api, Last
<1>4. Len(stream[r]) \in Nat /\ (stream[r] = <<>> <=> Len(stream[r]) = 0)
  BY <1>1
<1>5. Api(r) = Shown(r, Len(stream[r]))
  BY <1>3, <1>4 DEF Shown
<1>6. \A i \in 0 .. Len(stream[r]) : Shown(r, i) \in Versions
  BY <1>1 DEF Shown
<1>7. Len(stream[r]) \in Late(r)
  BY <1>4, <1>5 DEF Late
<1>8. Api(r) \in Recent(r)
  BY <1>5, <1>7 DEF Recent
<1>9. ASSUME NoneOnTheWay(r) PROVE cache[r] \in Recent(r) /\ Api(r).gen = cache[r].gen
  <2>1. \A j \in 0 .. Len(stream[r]) : Shown(r, j).gen = cache[r].gen
    BY <1>4, <1>9 DEF NoneOnTheWay, Shown
  <2>2. Api(r).gen = cache[r].gen
    BY <1>4, <1>5, <2>1
  <2>3. 0 \in Late(r) /\ Shown(r, 0) = cache[r]
    BY <1>4, <2>1, <2>2 DEF Late, Shown
  <2> QED
    BY <2>2, <2>3 DEF Recent
<1> QED
  BY <1>3, <1>4, <1>5, <1>6, <1>8, <1>9

LEMMA VersionFields ==
  ASSUME NEW v \in Versions
  PROVE  /\ v = [gen |-> v.gen, refs |-> v.refs, parents |-> v.parents]
         /\ v.gen \in Nat /\ v.refs \in RefLists /\ v.parents \in Seq(Entries)
  BY DEF Versions

LEMMA ChangedVersion ==
  ASSUME NEW v \in Versions
  PROVE  /\ \A R \in RefLists :
              LET w == [v EXCEPT !.gen = @ + 1, !.refs = R]
              IN  w \in Versions /\ w.gen = v.gen + 1 /\ w.parents = v.parents
         /\ \A p \in Seq(Entries) :
              LET w == [v EXCEPT !.parents = p]
              IN  w \in Versions /\ w.gen = v.gen /\ w.refs = v.refs /\ w.parents = p
<1>1. ASSUME NEW R \in RefLists
      PROVE  LET w == [v EXCEPT !.gen = @ + 1, !.refs = R]
             IN  w \in Versions /\ w.gen = v.gen + 1 /\ w.parents = v.parents
  <2>1. v.gen + 1 \in Nat
    BY VersionFields
  <2>2. ASSUME NEW m \in Nat
        PROVE  LET w == [v EXCEPT !.gen = m, !.refs = R]
               IN  w \in Versions /\ w.gen = m /\ w.parents = v.parents
    BY DEF Versions
  <2> QED
    BY <2>1, <2>2
<1>2. ASSUME NEW p \in Seq(Entries)
      PROVE  LET w == [v EXCEPT !.parents = p]
             IN  w \in Versions /\ w.gen = v.gen /\ w.refs = v.refs /\ w.parents = p
  BY DEF Versions
<1> QED
  BY <1>1, <1>2

LEMMA SameVersions ==
  ASSUME NEW q \in Routes, cache'[q] = cache[q], stream'[q] = stream[q]
  PROVE  /\ Api(q)' = Api(q) /\ Recent(q)' = Recent(q)
         /\ NoneOnTheWay(q)' <=> NoneOnTheWay(q)
<1>1. Api(q)' = Api(q)
  BY DEF Api
<1>2. ASSUME NEW i PROVE Shown(q, i)' = Shown(q, i)
  BY DEF Shown
<1>3. Late(q)' = Late(q)
  BY <1>1, <1>2 DEF Late
<1>4. Recent(q)' = Recent(q)
  BY <1>2, <1>3 DEF Recent
<1>5. NoneOnTheWay(q)' <=> NoneOnTheWay(q)
  BY DEF NoneOnTheWay
<1> QED
  BY <1>1, <1>4, <1>5

(* What Store adds to the versions of a Route.                             *)
LEMMA StoreStep ==
  ASSUME TypeOK, TypeOK', cache' = cache, NEW r \in Routes, NEW v \in Versions,
         stream' = [stream EXCEPT ![r] = Append(@, v)]
  PROVE  /\ Api(r)' = v
         /\ Recent(r)' = {v} \cup (IF v.gen = Api(r).gen THEN Recent(r) ELSE {})
         /\ v.gen = Api(r).gen => (NoneOnTheWay(r)' <=> NoneOnTheWay(r))
         /\ v.gen # Api(r).gen => ~NoneOnTheWay(r)'
         /\ \A q \in Routes \ {r} : /\ stream'[q] = stream[q] /\ Api(q)' = Api(q)
                                    /\ Recent(q)' = Recent(q)
                                    /\ NoneOnTheWay(q)' <=> NoneOnTheWay(q)
         /\ \A q \in Routes : cache'[q] = cache[q]
<1>0. PICK n : n = Len(stream[r])
  OBVIOUS
<1>1. stream[r] \in Seq(Versions) /\ stream \in [Routes -> Seq(Versions)]
  BY DEF TypeOK
<1>2. stream'[r] = Append(stream[r], v) /\ \A q \in Routes \ {r} : stream'[q] = stream[q]
  BY <1>1
<1>3. /\ stream'[r] # <<>> /\ Len(stream'[r]) = n + 1
      /\ stream'[r][n + 1] = v
      /\ \A i \in 1 .. n : stream'[r][i] = stream[r][i]
      /\ n \in Nat
  BY <1>0, <1>1, <1>2, AppendProperties
<1>4. Api(r)' = v
  <2>1. Api(r)' = stream'[r][Len(stream'[r])]
    <3>1. cache'[r] \in Versions /\ stream'[r] \in Seq(Versions)
      BY DEF TypeOK
    <3>2. <<cache'[r]>> \in Seq(Versions) /\ Len(<<cache'[r]>>) = 1
      BY <3>1
    <3> QED
      BY <1>3, <3>1, <3>2 DEF Api, Last
  <2> QED
    BY <1>3, <2>1
<1>5. Api(r) = Shown(r, n)
  BY <1>0, ApiVersion
<1>6. Shown(r, n + 1)' = v /\ \A i \in 0 .. n : Shown(r, i)' = Shown(r, i)
  BY <1>3 DEF Shown
<1>7. CASE v.gen = Api(r).gen
  <2>1. Late(r)' = Late(r) \cup {n + 1}
    <3>1. Late(r)' = {i \in 0 .. n + 1 : \A j \in i .. n + 1 : Shown(r, j)'.gen = v.gen}
      BY <1>3, <1>4 DEF Late
    <3>2. Late(r) = {i \in 0 .. n : \A j \in i .. n : Shown(r, j).gen = v.gen}
      BY <1>0, <1>7 DEF Late
    <3>3. ASSUME NEW i \in 0 .. n
          PROVE  (\A j \in i .. n + 1 : Shown(r, j)'.gen = v.gen)
                   <=> (\A j \in i .. n : Shown(r, j).gen = v.gen)
      <4>1. \A j \in i .. n + 1 : j = n + 1 \/ (j \in i .. n /\ j \in 0 .. n)
        BY <1>3
      <4>2. \A j \in i .. n : j \in i .. n + 1 /\ j \in 0 .. n
        BY <1>3
      <4> QED
        BY <1>6, <4>1, <4>2
    <3>4. \A j \in n + 1 .. n + 1 : Shown(r, j)'.gen = v.gen
      BY <1>3, <1>6
    <3>5. \A i \in 0 .. n + 1 : i = n + 1 \/ i \in 0 .. n
      BY <1>3
    <3>6. n + 1 \in 0 .. n + 1 /\ \A i \in 0 .. n : i \in 0 .. n + 1
      BY <1>3
    <3> QED
      BY <3>1, <3>2, <3>3, <3>4, <3>5, <3>6
  <2>2. \A i \in Late(r) : i \in 0 .. n
    BY <1>0 DEF Late
  <2>3. Recent(r)' = {v} \cup Recent(r)
    BY <1>6, <2>1, <2>2 DEF Recent
  <2>4. NoneOnTheWay(r)' <=> NoneOnTheWay(r)
    <3>1. NoneOnTheWay(r)' <=> \A i \in 1 .. n + 1 : stream'[r][i].gen = cache[r].gen
      BY <1>3 DEF NoneOnTheWay
    <3>2. NoneOnTheWay(r) => v.gen = cache[r].gen
      BY <1>7, ApiVersion
    <3>3. \A i \in 1 .. n + 1 : i = n + 1 \/ i \in 1 .. n
      BY <1>3
    <3>4. n + 1 \in 1 .. n + 1 /\ \A i \in 1 .. n : i \in 1 .. n + 1
      BY <1>3
    <3> QED
      BY <1>0, <1>3, <3>1, <3>2, <3>3, <3>4 DEF NoneOnTheWay
  <2> QED
    BY <1>2, <1>4, <1>7, <2>3, <2>4, SameVersions
<1>8. CASE v.gen # Api(r).gen
  <2>1. Late(r)' = {n + 1}
    <3>1. Late(r)' = {i \in 0 .. n + 1 : \A j \in i .. n + 1 : Shown(r, j)'.gen = v.gen}
      BY <1>3, <1>4 DEF Late
    <3>2. Shown(r, n)'.gen # v.gen
      BY <1>3, <1>5, <1>6, <1>8
    <3>3. \A i \in 0 .. n + 1 : i = n + 1 \/ n \in i .. n + 1
      BY <1>3
    <3>4. n + 1 \in 0 .. n + 1 /\ \A j \in n + 1 .. n + 1 : j = n + 1
      BY <1>3
    <3> QED
      BY <1>6, <3>1, <3>2, <3>3, <3>4
  <2>2. Recent(r)' = {v}
    BY <1>6, <2>1 DEF Recent
  <2>3. ~NoneOnTheWay(r)'
    <3>1. NoneOnTheWay(r)' => \A i \in 1 .. n + 1 : stream'[r][i].gen = cache[r].gen
      BY <1>3 DEF NoneOnTheWay
    <3>2. n + 1 \in 1 .. n + 1
      BY <1>3
    <3>3. CASE n = 0
      BY <1>3, <1>5, <1>8, <3>1, <3>2, <3>3 DEF Shown
    <3>4. CASE n # 0
      <4>1. n \in 1 .. n /\ n \in 1 .. n + 1
        BY <1>3, <3>4
      <4> QED
        BY <1>3, <1>5, <1>8, <3>1, <3>2, <3>4, <4>1 DEF Shown
    <3> QED
      BY <3>3, <3>4
  <2> QED
    BY <1>2, <1>4, <1>8, <2>2, <2>3, SameVersions
<1> QED
  BY <1>7, <1>8

(* Sync shows the next version: what is newest stays newest.               *)
LEMMA SyncStep ==
  ASSUME TypeOK, NEW r \in Routes, Sync(r)
  PROVE  /\ cache' \in [Routes -> Versions] /\ stream' \in [Routes -> Seq(Versions)]
         /\ cache'[r] = Head(stream[r])
         /\ Api(r)' = Api(r) /\ Recent(r)' \subseteq Recent(r)
         /\ cache'[r].gen = cache[r].gen => (NoneOnTheWay(r)' => NoneOnTheWay(r))
         /\ \A q \in Routes \ {r} : /\ cache'[q] = cache[q] /\ stream'[q] = stream[q]
                                    /\ Api(q)' = Api(q) /\ Recent(q)' = Recent(q)
                                    /\ NoneOnTheWay(q)' <=> NoneOnTheWay(q)
<1>1. /\ stream[r] \in Seq(Versions) /\ stream[r] # <<>> /\ stream \in [Routes -> Seq(Versions)]
      /\ cache[r] \in Versions /\ cache \in [Routes -> Versions]
  BY DEF TypeOK, Sync
<1> DEFINE h == Head(stream[r])
           t == Tail(stream[r])
<1>2. PICK m : m = Len(t)
  OBVIOUS
<1>3. /\ h \in Versions /\ t \in Seq(Versions) /\ h = stream[r][1]
      /\ m \in Nat /\ Len(stream[r]) = m + 1 /\ (t = <<>> <=> m = 0)
      /\ \A i \in 1 .. m : t[i] = stream[r][i + 1]
  <2>1. /\ h \in Versions /\ t \in Seq(Versions) /\ h = stream[r][1]
        /\ Len(stream[r]) \in Nat /\ Len(stream[r]) >= 1 /\ Len(t) = Len(stream[r]) - 1
        /\ \A i \in 1 .. Len(t) : t[i] = stream[r][i + 1]
    BY <1>1
  <2>2. t = <<>> <=> Len(t) = 0
    <3>1. t \in Seq(Versions)
      BY <2>1
    <3> HIDE DEF t
    <3> QED
      BY <3>1, EmptySeq
  <2> QED
    BY <1>2, <2>1, <2>2
<1>4. /\ cache' = [cache EXCEPT ![r] = h] /\ stream' = [stream EXCEPT ![r] = t]
  BY DEF Sync, Show
<1> HIDE DEF h, t
<1>5. /\ cache' \in [Routes -> Versions] /\ stream' \in [Routes -> Seq(Versions)]
      /\ cache'[r] = h /\ stream'[r] = t
      /\ \A q \in Routes \ {r} : cache'[q] = cache[q] /\ stream'[q] = stream[q]
  BY <1>1, <1>3, <1>4
<1>6. Api(r) = stream[r][m + 1]
  BY <1>1, <1>3, ApiVersion
<1>7. Api(r)' = IF t = <<>> THEN h ELSE t[m]
  <2>1. <<h>> \in Seq(Versions) /\ Len(<<h>>) = 1 /\ <<h>>[1] = h
    BY <1>3
  <2>2. Last(<<h>> \o t) = IF t = <<>> THEN h ELSE t[Len(t)]
    BY <1>3, <2>1 DEF Last
  <2> QED
    BY <1>2, <1>5, <2>2 DEF Api
<1>8. Api(r)' = Api(r)
  <2>1. CASE t = <<>>
    BY <1>3, <1>6, <1>7, <2>1
  <2>2. CASE t # <<>>
    <3>1. m \in 1 .. m
      BY <1>3, <2>2
    <3> QED
      BY <1>3, <1>6, <1>7, <2>2, <3>1
  <2> QED
    BY <2>1, <2>2
<1>9. Len(stream'[r]) = m /\ \A i \in 0 .. m : Shown(r, i)' = Shown(r, i + 1)
  <2>1. ASSUME NEW i \in 0 .. m PROVE Shown(r, i)' = Shown(r, i + 1)
    <3>1. i + 1 # 0 /\ (i = 0 \/ i \in 1 .. m)
      BY <1>3
    <3> QED
      BY <1>3, <1>5, <3>1 DEF Shown
  <2> QED
    BY <1>2, <1>5, <2>1
<1>10. Recent(r)' \subseteq Recent(r)
  <2>1. ASSUME NEW i \in Late(r)' PROVE i \in 0 .. m /\ i + 1 \in Late(r)
    <3>1. i \in 0 .. m /\ \A j \in i .. m : Shown(r, j)'.gen = Api(r).gen
      BY <1>8, <1>9, <2>1 DEF Late
    <3>2. \A j \in i + 1 .. m + 1 : j - 1 \in i .. m /\ j - 1 \in 0 .. m /\ (j - 1) + 1 = j
      BY <1>3, <3>1
    <3>3. \A j \in i + 1 .. m + 1 : Shown(r, j).gen = Api(r).gen
      BY <1>9, <3>1, <3>2
    <3>4. i + 1 \in 0 .. m + 1
      BY <1>3, <3>1
    <3> QED
      BY <1>3, <3>1, <3>3, <3>4 DEF Late
  <2>2. ASSUME NEW i \in Late(r)' PROVE Shown(r, i)' \in Recent(r)
    <3>1. i \in 0 .. m /\ i + 1 \in Late(r)
      BY <2>1, <2>2
    <3> QED
      BY <1>9, <3>1 DEF Recent
  <2> QED
    BY <2>2 DEF Recent
<1>11. ASSUME cache'[r].gen = cache[r].gen, NoneOnTheWay(r)' PROVE NoneOnTheWay(r)
  <2>1. \A i \in 1 .. m : t[i].gen = cache[r].gen
    BY <1>5, <1>9, <1>11 DEF NoneOnTheWay
  <2>2. \A i \in 1 .. m + 1 : i = 1 \/ (i - 1 \in 1 .. m /\ (i - 1) + 1 = i)
    BY <1>3
  <2>3. stream[r][1].gen = cache[r].gen
    BY <1>3, <1>5, <1>11
  <2>4. ASSUME NEW i \in 1 .. m + 1 PROVE stream[r][i].gen = cache[r].gen
    <3>1. CASE i = 1
      BY <2>3, <3>1
    <3>2. CASE i - 1 \in 1 .. m /\ (i - 1) + 1 = i
      <4>1. t[i - 1] = stream[r][i]
        BY <1>3, <3>2
      <4> QED
        BY <2>1, <3>2, <4>1
    <3> QED
      BY <2>2, <3>1, <3>2
  <2> QED
    BY <1>3, <2>4 DEF NoneOnTheWay
<1>12. ASSUME NEW q \in Routes \ {r}
       PROVE  /\ cache'[q] = cache[q] /\ stream'[q] = stream[q]
              /\ Api(q)' = Api(q) /\ Recent(q)' = Recent(q)
              /\ NoneOnTheWay(q)' <=> NoneOnTheWay(q)
  BY <1>5, SameVersions
<1> QED
  BY <1>5, <1>8, <1>10, <1>11, <1>12 DEF h

(* Relist shows the newest version and skips the ones before it.           *)
LEMMA RelistStep ==
  ASSUME TypeOK, NEW r \in Routes, Relist(r)
  PROVE  /\ cache' \in [Routes -> Versions] /\ stream' \in [Routes -> Seq(Versions)]
         /\ cache'[r] = Api(r)
         /\ Api(r)' = Api(r) /\ Recent(r)' \subseteq Recent(r)
         /\ \A q \in Routes \ {r} : /\ cache'[q] = cache[q] /\ stream'[q] = stream[q]
                                    /\ Api(q)' = Api(q) /\ Recent(q)' = Recent(q)
                                    /\ NoneOnTheWay(q)' <=> NoneOnTheWay(q)
<1>1. /\ stream \in [Routes -> Seq(Versions)] /\ cache \in [Routes -> Versions]
      /\ Api(r) \in Versions /\ Api(r) \in Recent(r)
  BY ApiVersion DEF TypeOK
<1>2. cache' = [cache EXCEPT ![r] = Api(r)] /\ stream' = [stream EXCEPT ![r] = <<>>]
  BY DEF Relist, Show
<1>3. /\ cache' \in [Routes -> Versions] /\ stream' \in [Routes -> Seq(Versions)]
      /\ cache'[r] = Api(r) /\ stream'[r] = <<>>
      /\ \A q \in Routes \ {r} : cache'[q] = cache[q] /\ stream'[q] = stream[q]
  BY <1>1, <1>2
<1>4. Api(r)' = Api(r)
  <2> DEFINE v == Api(r)
  <2>1. cache'[r] = v /\ v \in Versions
    BY <1>1, <1>3
  <2> HIDE DEF v
  <2>2. Last(<<v>> \o <<>>) = v
    BY <2>1 DEF Last
  <2> QED
    BY <1>3, <2>1, <2>2 DEF Api, v
<1>5. Recent(r)' \subseteq Recent(r)
  <2>1. Len(stream'[r]) = 0
    BY <1>3
  <2>2. \A i \in Late(r)' : i = 0
    BY <2>1 DEF Late
  <2>3. Shown(r, 0)' = Api(r)
    BY <1>3 DEF Shown
  <2> QED
    BY <1>1, <2>2, <2>3 DEF Recent
<1>6. ASSUME NEW q \in Routes \ {r}
      PROVE  /\ cache'[q] = cache[q] /\ stream'[q] = stream[q]
             /\ Api(q)' = Api(q) /\ Recent(q)' = Recent(q)
             /\ NoneOnTheWay(q)' <=> NoneOnTheWay(q)
  BY <1>3, SameVersions
<1> QED
  BY <1>3, <1>4, <1>5, <1>6

-----------------------------------------------------------------------------
(***************************************************************************)
(* What keeps the parts of the invariant.                                  *)
(***************************************************************************)
LEMMA EntryNumbers ==
  ASSUME NEW v \in Versions, NEW g \in Gateways
  PROVE  /\ EntriesOf(v.parents, g) \in Seq(Entries)
         /\ Len(EntriesOf(v.parents, g)) \in Nat
         /\ \A i \in 1 .. Len(EntriesOf(v.parents, g)) : EntriesOf(v.parents, g)[i].gg \in Nat
<1>1. EntriesOf(v.parents, g) \in Seq(Entries)
  BY VersionFields, KeepType DEF EntriesOf
<1>2. \A e \in Entries : e.gg \in Nat
  BY DEF Entries
<1> QED
  BY <1>1, <1>2

LEMMA UpToLater ==
  ASSUME NEW v \in Versions, NEW g \in Gateways, NEW m \in Nat, NEW n \in Nat, m <= n,
         UpTo(v, g, m)
  PROVE  UpTo(v, g, n)
  BY EntryNumbers DEF UpTo

(* A step that stores nothing.                                             *)
LEMMA EntryKept ==
  ASSUME NEW r \in Routes, NEW g \in Gateways, TypeOK, EntryInv(r, g),
         Api(r)' = Api(r), Recent(r)' \subseteq Recent(r),
         gws'[g] \in Nat, gws[g] \in Nat, gen[g] \in Nat,
         gws'[g] = 0 \/ (gws[g] > 0 /\ gws[g] <= gws'[g]),
         pc'[g] # "off" => \/ pc[g] # "off" /\ gen'[g] = gen[g]
                           \/ gen'[g] = gws[g]
  PROVE  EntryInv(r, g)'
<1>0. Api(r) \in Versions
  BY ApiVersion
<1>1. OfOneRun(EntriesOf(Api(r)'.parents, g))
  BY DEF EntryInv
<1>2. ASSUME gws'[g] > 0 PROVE EntriesUpTo(r, g)' /\ NotUnsaid(r, g)'
  <2>1. gws[g] > 0 /\ gws[g] <= gws'[g] /\ EntriesUpTo(r, g) /\ NotUnsaid(r, g)
    BY <1>2 DEF EntryInv
  <2>2. UpTo(Api(r), g, gws'[g])
    BY <1>0, <2>1, UpToLater DEF EntriesUpTo
  <2>3. pc'[g] # "off" => UpTo(Api(r), g, gen'[g])
    BY <2>1 DEF EntriesUpTo
  <2>4. EntriesUpTo(r, g)'
    BY <2>2, <2>3 DEF EntriesUpTo
  <2>5. NotUnsaid(r, g)'
    <3> SUFFICES ASSUME NEW u \in Recent(r)', NEW n \in Nat,
                        gws'[g] <= n, Says(u, g, n)
                 PROVE  Says(Api(r)', g, n)
      BY DEF NotUnsaid
    <3>1. gws[g] <= n
      BY <2>1
    <3>2. u \in Recent(r)
      OBVIOUS
    <3>3. Says(Api(r), g, n)
      BY <2>1, <3>1, <3>2 DEF NotUnsaid
    <3> QED
      BY <3>3
  <2> QED
    BY <2>4, <2>5
<1> QED
  BY <1>1, <1>2 DEF EntryInv

(* A version of the same generation that says the same of g.               *)
LEMMA SaysSame ==
  ASSUME NEW v, NEW w, NEW g, w.gen = v.gen, w.refs = v.refs,
         EntriesOf(w.parents, g) = EntriesOf(v.parents, g)
  PROVE  /\ \A n : Says(w, g, n) <=> Says(v, g, n)
         /\ \A n : UpTo(w, g, n) <=> UpTo(v, g, n)
  BY DEF Says, UpTo

(* A status write keeps the entries of the Gateways it is not for.         *)
LEMMA EntryStored ==
  ASSUME NEW r \in Routes, NEW g \in Gateways, NEW w \in Versions, TypeOK, EntryInv(r, g),
         w.gen = Api(r).gen, w.refs = Api(r).refs,
         EntriesOf(w.parents, g) = EntriesOf(Api(r).parents, g),
         Api(r)' = w, Recent(r)' = {w} \cup Recent(r),
         gws' = gws, pc'[g] = pc[g], gen'[g] = gen[g]
  PROVE  EntryInv(r, g)' /\ (UpToDate(r, g)' <=> UpToDate(r, g))
<1>1. /\ \A n : Says(w, g, n) <=> Says(Api(r), g, n)
      /\ \A n : UpTo(w, g, n) <=> UpTo(Api(r), g, n)
  BY SaysSame
<1>2. OfOneRun(EntriesOf(w.parents, g))
  BY DEF EntryInv
<1>3. ASSUME gws[g] > 0 PROVE EntriesUpTo(r, g)' /\ NotUnsaid(r, g)'
  <2>1. EntriesUpTo(r, g) /\ NotUnsaid(r, g)
    BY <1>3 DEF EntryInv
  <2>2. EntriesUpTo(r, g)'
    BY <1>1, <2>1 DEF EntriesUpTo
  <2>3. NotUnsaid(r, g)'
    BY <1>1, <2>1 DEF NotUnsaid
  <2> QED
    BY <2>2, <2>3
<1>4. EntryInv(r, g)'
  BY <1>2, <1>3 DEF EntryInv
<1>5. UpToDate(r, g)' <=> UpToDate(r, g)
  BY DEF UpToDate
<1> QED
  BY <1>4, <1>5

(* The parts of a run's state that Settling depends on.                    *)
LEMMA SettlingKept ==
  ASSUME NEW r \in Routes, NEW g \in Gateways, Settling(r, g),
         phase'[g] = phase[g], g \in dirty <=> g \in dirty', gws'[g] = gws[g],
         gen'[g] = gen[g], todo'[g] = todo[g], cur'[g] = cur[g],
         g \in aborted <=> g \in aborted', UpToDate(r, g) => UpToDate(r, g)'
  PROVE  Settling(r, g)'
  BY DEF Settling, Again

LEMMA SmallCur ==
  ASSUME NEW S, S = {} \/ \E r \in Routes : S = {r}
  PROVE  Cardinality(S) <= 1
<1>1. CASE S = {}
  BY <1>1, FS_EmptySet
<1>2. CASE \E r \in Routes : S = {r}
  BY <1>2, FS_Singleton
<1> QED
  BY <1>1, <1>2

-----------------------------------------------------------------------------
(* What the steps of the queue do.                                         *)
LEMMA EnqueueStep ==
  ASSUME Queue!TypeOK, RunInv, NEW k \in Gateways, Queue!Enqueue(k)
  PROVE  /\ Queue!TypeOK' /\ \A g \in dirty' : phase'[g] # "idle"
         /\ phase'[k] = "queued" \/ k \in dirty'
         /\ \A h \in Gateways \ {k} : phase'[h] = phase[h] /\ (h \in dirty <=> h \in dirty')
         /\ \A h \in Gateways : phase'[h] = "busy" <=> phase[h] = "busy"
  BY DEF Queue!TypeOK, Queue!Phases, Queue!Enqueue, RunInv

LEMMA EnqueueAllStep ==
  ASSUME Queue!TypeOK, RunInv, Queue!EnqueueAll(ListedGateways)
  PROVE  /\ Queue!TypeOK' /\ \A g \in dirty' : phase'[g] # "idle"
         /\ \A h \in Gateways : gws[h] > 0 => phase'[h] = "queued" \/ h \in dirty'
         /\ \A h \in Gateways : phase'[h] = "busy" <=> phase[h] = "busy"
  BY DEF Queue!TypeOK, Queue!Phases, Queue!EnqueueAll, RunInv, ListedGateways

LEMMA BeginStep ==
  ASSUME Queue!TypeOK, RunInv, NEW k \in Gateways, Queue!Begin(k)
  PROVE  /\ Queue!TypeOK' /\ \A g \in dirty' : phase'[g] # "idle"
         /\ phase'[k] = "busy" /\ dirty' = dirty
         /\ \A h \in Gateways \ {k} : phase'[h] = phase[h]
  BY DEF Queue!TypeOK, Queue!Phases, Queue!Begin, RunInv

LEMMA FinishStep ==
  ASSUME Queue!TypeOK, RunInv, NEW k \in Gateways, Queue!Finish(k)
  PROVE  /\ Queue!TypeOK' /\ \A g \in dirty' : phase'[g] # "idle"
         /\ phase[k] = "busy"
         /\ k \in dirty => phase'[k] = "queued"
         /\ k \notin dirty => phase'[k] = "idle"
         /\ \A h \in Gateways \ {k} : phase'[h] = phase[h] /\ (h \in dirty <=> h \in dirty')
  BY DEF Queue!TypeOK, Queue!Phases, Queue!Finish, RunInv

-----------------------------------------------------------------------------
LEMMA NoVersion == NoRoute \in Versions /\ NoRoute.gen = 0 /\ NoRoute.parents = <<>>
  BY RefListsAssumption DEF NoRoute, Versions

(* The cache shows the newest version.                                     *)
LEMMA NothingShown ==
  ASSUME TypeOK, NEW r \in Routes, stream[r] = <<>>
  PROVE  Api(r) = cache[r] /\ Recent(r) = {Api(r)} /\ NoneOnTheWay(r)
<1>1. Api(r) = cache[r] /\ Api(r) \in Recent(r) /\ Len(stream[r]) = 0
  BY ApiVersion
<1>2. \A i \in Late(r) : i = 0
  BY <1>1 DEF Late
<1>3. Recent(r) \subseteq {cache[r]}
  BY <1>2 DEF Recent, Shown
<1>4. NoneOnTheWay(r)
  BY <1>1 DEF NoneOnTheWay
<1> QED
  BY <1>1, <1>3, <1>4

LEMMA InitRoute == Init => RouteInv
<1> SUFFICES ASSUME Init PROVE RouteInv
  OBVIOUS
<1>1. PICK R \in RefLists :
        cache = [r \in Routes |-> [gen |-> 1, refs |-> R, parents |-> <<>>]]
  BY DEF Init
<1>2. [gen |-> 1, refs |-> R, parents |-> <<>>] \in Versions /\ NoRoute \in Versions
  BY NoVersion DEF Versions
<1>3. /\ cache \in [Routes -> Versions] /\ stream \in [Routes -> Seq(Versions)]
      /\ read \in [Gateways -> Versions]
      /\ \A r \in Routes : cache[r].gen = 1 /\ cache[r].parents = <<>> /\ stream[r] = <<>>
  BY <1>1, <1>2 DEF Init
<1>4. /\ cur \in [Gateways -> SUBSET Routes]
      /\ \A g \in Gateways : cur[g] = {} /\ Cardinality(cur[g]) <= 1
  BY FS_EmptySet DEF Init
<1>5. Queue!TypeOK
  BY DEF Init, Queue!TypeOK, Queue!Phases
<1>6. TypeOK
  BY <1>3, <1>4, <1>5 DEF Init, TypeOK
<1>7. TypeInv /\ RunInv /\ ReadInv
  BY <1>4, <1>6 DEF Init, TypeInv, RunInv, ReadInv
<1>8. ASSUME NEW r \in Routes
      PROVE  Api(r) = cache[r] /\ Recent(r) = {Api(r)} /\ cache[r].parents = <<>>
  BY <1>3, <1>6, NothingShown
<1>9. ASSUME NEW r \in Routes, NEW g \in Gateways PROVE EntryInv(r, g)
  <2>1. EntriesOf(Api(r).parents, g) = <<>>
    BY <1>8, KeepEmpty DEF EntriesOf
  <2>2. OfOneRun(EntriesOf(Api(r).parents, g)) /\ \A n : UpTo(Api(r), g, n)
    BY <2>1 DEF UpTo, OfOneRun
  <2>3. NotUnsaid(r, g)
    BY <1>8 DEF NotUnsaid
  <2> QED
    BY <2>2, <2>3 DEF EntryInv, EntriesUpTo
<1>10. AllSettling
  BY DEF Init, AllSettling, Settling, Again
<1> QED
  BY <1>7, <1>9, <1>10 DEF RouteInv

(* The facts about single fields that the actions need.                    *)
LEMMA Typed ==
  ASSUME TypeOK
  PROVE  /\ \A g \in Gateways : gws[g] \in Nat /\ gen[g] \in Nat /\ tries[g] \in 0 .. ConflictSteps - 1
         /\ \A r \in Routes : cache[r] \in Versions /\ cache[r].gen \in Nat
         /\ Queue!TypeOK
<1>1. \A r \in Routes : cache[r] \in Versions
  BY DEF TypeOK
<1> QED
  BY <1>1, VersionFields DEF TypeOK

(* What a write of a Route by anyone leaves alone.                         *)
LEMMA StoreTypes ==
  ASSUME TypeInv, NEW r \in Routes, NEW v \in Versions, Store(r, v), cache' = cache,
         UNCHANGED <<gws, phase, dirty, gen, todo, aborted, missed>>,
         read' \in [Gateways -> Versions],
         pc' \in [Gateways -> {"off", "get", "write"}],
         cur' \in [Gateways -> SUBSET Routes],
         \A g \in Gateways : cur'[g] = {} \/ cur'[g] = cur[g],
         tries' \in [Gateways -> 0 .. ConflictSteps - 1],
         edits' \in 0 .. MaxEdits
  PROVE  /\ TypeInv' /\ TypeOK'
         /\ Api(r)' = v
         /\ Recent(r)' = {v} \cup (IF v.gen = Api(r).gen THEN Recent(r) ELSE {})
         /\ v.gen = Api(r).gen => (NoneOnTheWay(r)' <=> NoneOnTheWay(r))
         /\ v.gen # Api(r).gen => ~NoneOnTheWay(r)'
         /\ \A q \in Routes \ {r} : /\ Api(q)' = Api(q) /\ Recent(q)' = Recent(q)
                                    /\ NoneOnTheWay(q)' <=> NoneOnTheWay(q)
<1>1. TypeOK
  BY DEF TypeInv
<1>2. stream' = [stream EXCEPT ![r] = Append(@, v)]
  BY DEF Store
<1>3. stream' \in [Routes -> Seq(Versions)]
  BY <1>1, <1>2 DEF TypeOK
<1>4. newest' \in [Gateways -> BOOLEAN]
  BY DEF Store
<1>5. \A g \in Gateways : cur'[g] = {} \/ \E q \in Routes : cur'[g] = {q}
  BY DEF TypeInv
<1>6. \A g \in Gateways : Cardinality(cur'[g]) <= 1
  BY <1>5, SmallCur
<1>7. Queue!TypeOK'
  BY <1>1 DEF TypeOK, Queue!TypeOK
<1>8. TypeOK'
  BY <1>1, <1>3, <1>4, <1>6, <1>7 DEF TypeOK
<1>9. TypeInv'
  BY <1>5, <1>8 DEF TypeInv
<1> QED
  BY <1>1, <1>2, <1>8, <1>9, StoreStep

(* What was read stays what the API server holds while newest says so.     *)
LEMMA StoreRead ==
  ASSUME ReadInv, NEW r \in Routes, NEW v, Store(r, v),
         \A q \in Routes \ {r} : Api(q)' = Api(q),
         \A g \in Gateways : cur[g] \subseteq Routes,
         \A g \in Gateways : pc'[g] = "write" =>
           pc[g] = "write" /\ cur'[g] = cur[g] /\ read'[g] = read[g]
  PROVE  ReadInv'
<1> SUFFICES ASSUME NEW g \in Gateways, pc'[g] = "write", newest'[g], NEW q \in cur'[g]
             PROVE  read'[g] = Api(q)'
  BY DEF ReadInv
<1>1. newest[g] /\ r \notin cur[g]
  BY DEF Store
<1>2. q \in cur[g] /\ q \in Routes \ {r}
  BY <1>1
<1>3. read[g] = Api(q)
  BY <1>1, <1>2 DEF ReadInv
<1> QED
  BY <1>2, <1>3

LEMMA SameRead ==
  ASSUME ReadInv, \A q \in Routes : Api(q)' = Api(q),
         \A g \in Gateways : cur[g] \subseteq Routes,
         \A g \in Gateways : pc'[g] = "write" =>
           /\ pc[g] = "write" /\ cur'[g] = cur[g]
           /\ read'[g] = read[g] /\ newest'[g] = newest[g]
  PROVE  ReadInv'
  BY DEF ReadInv

LEMMA EditRouteRoute ==
  ASSUME RouteInv, NEW r \in Routes, EditRoute(r)
  PROVE  RouteInv'
<1>1. TypeInv /\ TypeOK /\ RunInv /\ ReadInv /\ Api(r) \in Versions
  BY ApiVersion DEF RouteInv, TypeInv
<1>2. Api(r).gen \in Nat /\ Api(r).parents \in Seq(Entries)
  BY <1>1, VersionFields
<1>3. PICK w \in Versions :
        /\ Store(r, w) /\ w.gen # Api(r).gen
        /\ w.parents = Api(r).parents \/ w.parents = <<>>
  <2>1. CASE \E R \in RefLists :
               Store(r, IF Api(r).gen = 0 THEN [gen |-> 1, refs |-> R, parents |-> <<>>]
                        ELSE [Api(r) EXCEPT !.gen = @ + 1, !.refs = R])
    <3>1. PICK R \in RefLists :
            Store(r, IF Api(r).gen = 0 THEN [gen |-> 1, refs |-> R, parents |-> <<>>]
                     ELSE [Api(r) EXCEPT !.gen = @ + 1, !.refs = R])
      BY <2>1
    <3> DEFINE x == [gen |-> 1, refs |-> R, parents |-> <<>>]
               y == [Api(r) EXCEPT !.gen = @ + 1, !.refs = R]
               w == IF Api(r).gen = 0 THEN x ELSE y
    <3>2. x \in Versions /\ x.gen = 1 /\ x.parents = <<>>
      BY DEF Versions
    <3>3. y \in Versions /\ y.gen = Api(r).gen + 1 /\ y.parents = Api(r).parents
      BY <1>1, ChangedVersion
    <3> HIDE DEF x, y
    <3>4. /\ w \in Versions /\ w.gen # Api(r).gen
          /\ w.parents = Api(r).parents \/ w.parents = <<>>
      BY <1>2, <3>2, <3>3
    <3>5. Store(r, w)
      BY <3>1 DEF x, y
    <3> HIDE DEF w
    <3> QED
      BY <3>4, <3>5
  <2>2. CASE Api(r).gen > 0 /\ Store(r, NoRoute)
    <3>1. NoRoute \in Versions /\ NoRoute.gen # Api(r).gen /\ NoRoute.parents = <<>>
      BY <2>2, NoVersion
    <3> QED
      BY <2>2, <3>1
  <2> QED
    BY <2>1, <2>2 DEF EditRoute
<1>4. /\ UNCHANGED <<gws, cache, phase, dirty, pc, gen, todo, cur, read, tries, aborted, missed>>
      /\ edits' \in 0 .. MaxEdits
  BY <1>1, CountUp DEF EditRoute, queueVars, TypeOK
<1>5. /\ TypeInv' /\ TypeOK'
      /\ Api(r)' = w /\ Recent(r)' = {w} /\ ~NoneOnTheWay(r)'
      /\ \A q \in Routes \ {r} : /\ Api(q)' = Api(q) /\ Recent(q)' = Recent(q)
                                 /\ NoneOnTheWay(q)' <=> NoneOnTheWay(q)
  <2>1. /\ pc' \in [Gateways -> {"off", "get", "write"}]
        /\ cur' \in [Gateways -> SUBSET Routes]
        /\ read' \in [Gateways -> Versions]
        /\ tries' \in [Gateways -> 0 .. ConflictSteps - 1]
    BY <1>1, <1>4 DEF TypeOK
  <2> QED
    BY <1>1, <1>3, <1>4, <2>1, StoreTypes
<1>6. RunInv' /\ ReadInv'
  <2>1. \A g \in Gateways : cur[g] \subseteq Routes
    BY <1>1 DEF TypeOK
  <2>2. ReadInv'
    BY <1>1, <1>3, <1>4, <1>5, <2>1, StoreRead
  <2> QED
    BY <1>1, <1>4, <2>2 DEF RunInv
<1>7. ASSUME NEW q \in Routes, NEW g \in Gateways PROVE EntryInv(q, g)'
  <2>1. EntryInv(q, g)
    BY DEF RouteInv
  <2>2. CASE q = r
    <3>1. \/ EntriesOf(w.parents, g) = EntriesOf(Api(r).parents, g)
          \/ EntriesOf(w.parents, g) = <<>>
      BY <1>3, KeepEmpty DEF EntriesOf
    <3>2. OfOneRun(EntriesOf(w.parents, g)) /\ \A n : UpTo(Api(r), g, n) => UpTo(w, g, n)
      BY <2>1, <2>2, <3>1 DEF EntryInv, UpTo, OfOneRun
    <3>3. gws[g] > 0 => EntriesUpTo(r, g)'
      BY <1>4, <1>5, <2>1, <2>2, <3>2 DEF EntryInv, EntriesUpTo
    <3>4. NotUnsaid(r, g)'
      BY <1>5 DEF NotUnsaid
    <3> QED
      BY <1>4, <1>5, <2>2, <3>2, <3>3, <3>4 DEF EntryInv
  <2>3. CASE q # r
    <3>1. gws'[g] = gws[g] /\ gws[g] \in Nat /\ gen[g] \in Nat /\ gen'[g] = gen[g] /\ pc'[g] = pc[g]
      BY <1>1, <1>4, Typed
    <3>2. gws'[g] = 0 \/ (gws[g] > 0 /\ gws[g] <= gws'[g])
      BY <3>1
    <3> QED
      BY <1>1, <1>5, <2>1, <2>3, <3>1, <3>2, EntryKept
  <2> QED
    BY <2>2, <2>3
<1>8. AllSettling'
  <2> SUFFICES ASSUME NEW q \in Routes, NEW g \in Gateways, gws'[g] > 0, cache'[q].gen > 0,
                      NoneOnTheWay(q)', q \notin missed'
               PROVE  Settling(q, g)'
    BY DEF AllSettling
  <2>1. q # r /\ NoneOnTheWay(q) /\ cache[q].gen > 0 /\ gws[g] > 0 /\ q \notin missed
    BY <1>4, <1>5
  <2>2. Settling(q, g)
    BY <2>1 DEF RouteInv, AllSettling
  <2>3. UpToDate(q, g) => UpToDate(q, g)'
    BY <1>4, <1>5, <2>1 DEF UpToDate
  <2> QED
    BY <1>4, <2>2, <2>3, SettlingKept
<1> QED
  BY <1>5, <1>6, <1>7, <1>8 DEF RouteInv

(* A write of a Route's status by another controller, or for Gateway g.    *)
LEMMA StatusWrite ==
  ASSUME RouteInv, NEW r \in Routes, NEW w \in Versions, NEW H \in SUBSET Gateways,
         w.gen = Api(r).gen, w.refs = Api(r).refs,
         \A h \in H : EntriesOf(w.parents, h) = EntriesOf(Api(r).parents, h),
         Api(r)' = w, Recent(r)' = {w} \cup Recent(r),
         \A q \in Routes \ {r} : Api(q)' = Api(q) /\ Recent(q)' = Recent(q),
         UNCHANGED <<gws, cache, phase, dirty, gen, todo, aborted>>,
         \A h \in H : pc'[h] = pc[h] /\ cur'[h] = cur[h]
  PROVE  /\ \A q \in Routes : \A h \in H : EntryInv(q, h)'
         /\ \A q \in Routes : \A h \in H : Settling(q, h) => Settling(q, h)'
<1>1. TypeOK
  BY DEF RouteInv, TypeInv
<1>2. ASSUME NEW q \in Routes, NEW h \in H
      PROVE  EntryInv(q, h)' /\ (UpToDate(q, h)' <=> UpToDate(q, h))
  <2>1. EntryInv(q, h) /\ h \in Gateways
    BY DEF RouteInv
  <2>2. CASE q = r
    BY <1>1, <2>1, <2>2, EntryStored
  <2>3. CASE q # r
    <3>1. gws'[h] = gws[h] /\ gws[h] \in Nat /\ gen[h] \in Nat /\ gen'[h] = gen[h] /\ pc'[h] = pc[h]
      BY <1>1, <2>1, Typed
    <3>2. gws'[h] = 0 \/ (gws[h] > 0 /\ gws[h] <= gws'[h])
      BY <3>1
    <3>3. UpToDate(q, h)' <=> UpToDate(q, h)
      BY <2>3 DEF UpToDate
    <3> QED
      BY <1>1, <2>1, <2>3, <3>1, <3>2, <3>3, EntryKept
  <2> QED
    BY <2>2, <2>3
<1>3. ASSUME NEW q \in Routes, NEW h \in H, Settling(q, h) PROVE Settling(q, h)'
  BY <1>2, <1>3, SettlingKept
<1> QED
  BY <1>2, <1>3

LEMMA ForeignWriteRoute ==
  ASSUME RouteInv, NEW r \in Routes, NEW k \in Gateways, ForeignWrite(r, k)
  PROVE  RouteInv'
<1>1. TypeInv /\ TypeOK /\ RunInv /\ ReadInv /\ Api(r) \in Versions
  BY ApiVersion DEF RouteInv, TypeInv
<1>2. Api(r).gen \in Nat /\ Api(r).parents \in Seq(Entries)
  BY <1>1, VersionFields
<1> DEFINE rest == Keep(Api(r).parents, Entries \ EntriesFor("other", k))
           new == NewForeign(r, k)
           p == IF Len(rest) = Len(Api(r).parents) THEN Append(rest, new) ELSE rest
           w == [Api(r) EXCEPT !.parents = p]
<1>3. new \in EntriesFor("other", k)
  <2>1. (CHOOSE x \in Sections : TRUE) \in Sections
    BY RefListsAssumption
  <2> QED
    BY <1>2, <2>1 DEF NewForeign, EntriesFor
<1>4. p \in Seq(Entries) /\ \A h \in Gateways : EntriesOf(p, h) = EntriesOf(Api(r).parents, h)
  <2>1. p \in {rest, Append(rest, new)}
    OBVIOUS
  <2>2. \A t \in {rest, Append(rest, new)} :
          t \in Seq(Entries) /\ \A h \in Gateways : EntriesOf(t, h) = EntriesOf(Api(r).parents, h)
    <3> HIDE DEF new
    <3> QED
      BY <1>2, <1>3, ForeignEntries
  <2> QED
    BY <2>1, <2>2
<1>5. Store(r, w)
  <2>1. w = [Api(r) EXCEPT !.parents = IF Len(rest) = Len(@) THEN Append(rest, new) ELSE rest]
    BY <1>1
  <2> QED
    BY <2>1 DEF ForeignWrite
<1> HIDE DEF p, new, rest
<1>6. w \in Versions /\ w.gen = Api(r).gen /\ w.refs = Api(r).refs /\ w.parents = p
  BY <1>1, <1>4, ChangedVersion
<1>7. /\ UNCHANGED <<gws, cache, phase, dirty, pc, gen, todo, cur, read, tries, aborted, missed>>
      /\ edits' \in 0 .. MaxEdits
  BY <1>1, CountUp DEF ForeignWrite, queueVars, TypeOK
<1> HIDE DEF w
<1>8. /\ TypeInv' /\ TypeOK'
      /\ Api(r)' = w /\ Recent(r)' = {w} \cup Recent(r)
      /\ \A q \in Routes \ {r} : Api(q)' = Api(q) /\ Recent(q)' = Recent(q)
      /\ \A q \in Routes : NoneOnTheWay(q)' <=> NoneOnTheWay(q)
  <2>1. /\ pc' \in [Gateways -> {"off", "get", "write"}]
        /\ cur' \in [Gateways -> SUBSET Routes]
        /\ read' \in [Gateways -> Versions]
        /\ tries' \in [Gateways -> 0 .. ConflictSteps - 1]
    BY <1>1, <1>7 DEF TypeOK
  <2> QED
    BY <1>1, <1>5, <1>6, <1>7, <2>1, StoreTypes
<1>9. RunInv' /\ ReadInv'
  <2>1. \A g \in Gateways : cur[g] \subseteq Routes
    BY <1>1 DEF TypeOK
  <2>2. ReadInv'
    BY <1>1, <1>5, <1>7, <1>8, <2>1, StoreRead
  <2> QED
    BY <1>1, <1>7, <2>2 DEF RunInv
<1>10. /\ \A q \in Routes : \A h \in Gateways : EntryInv(q, h)'
       /\ \A q \in Routes : \A h \in Gateways : Settling(q, h) => Settling(q, h)'
  <2>1. \A h \in Gateways : EntriesOf(w.parents, h) = EntriesOf(Api(r).parents, h)
    BY <1>4, <1>6
  <2>2. Gateways \in SUBSET Gateways
    OBVIOUS
  <2>3. \A h \in Gateways : pc'[h] = pc[h] /\ cur'[h] = cur[h]
    BY <1>7
  <2> QED
    BY <1>6, <1>7, <1>8, <2>1, <2>2, <2>3, StatusWrite
<1>11. AllSettling'
  BY <1>7, <1>8, <1>10 DEF RouteInv, AllSettling
<1> QED
  BY <1>8, <1>9, <1>10, <1>11 DEF RouteInv

(* The write of mergeRouteParents' result for Gateway k.                   *)
LEMMA WriteRouteRoute ==
  ASSUME RouteInv, NEW r \in Routes, NEW k \in Gateways, WriteRoute(k, r)
  PROVE  RouteInv'
<1>1. /\ TypeInv /\ TypeOK /\ RunInv /\ ReadInv /\ Api(r) \in Versions
      /\ gen[k] \in Nat /\ gws[k] \in Nat
  BY ApiVersion, Typed DEF RouteInv, TypeInv
<1> DEFINE p == Updated(Api(r), k)
           w == [Api(r) EXCEPT !.parents = p]
<1>2. /\ p \in Seq(Entries)
      /\ EntriesOf(p, k) = RouteParentStatuses(Api(r), k)
      /\ \A h \in Gateways \ {k} : EntriesOf(p, h) = EntriesOf(Api(r).parents, h)
  BY <1>1, UpdatedEntries
<1>3. Store(r, w)
  <2>1. read[k] = Api(r)
    BY <1>1 DEF WriteRoute, ReadInv
  <2> QED
    BY <2>1 DEF WriteRoute
<1> HIDE DEF p
<1>4. w \in Versions /\ w.gen = Api(r).gen /\ w.refs = Api(r).refs /\ w.parents = p
  BY <1>1, <1>2, ChangedVersion
<1> HIDE DEF w
<1>5. /\ UNCHANGED <<gws, cache, phase, dirty, gen, todo, aborted, missed, edits>>
      /\ pc[k] = "write"
      /\ pc' = [pc EXCEPT ![k] = "get"]
      /\ cur' = [cur EXCEPT ![k] = {}]
      /\ read' = [read EXCEPT ![k] = NoRoute]
      /\ tries' = [tries EXCEPT ![k] = 0]
      /\ r \in cur[k]
  BY DEF WriteRoute, queueVars
<1>6. /\ pc' \in [Gateways -> {"off", "get", "write"}]
      /\ cur' \in [Gateways -> SUBSET Routes] /\ cur'[k] = {}
      /\ tries' \in [Gateways -> 0 .. ConflictSteps - 1]
      /\ edits' \in 0 .. MaxEdits
      /\ read' \in [Gateways -> Versions]
      /\ pc'[k] = "get"
      /\ \A h \in Gateways \ {k} : pc'[h] = pc[h] /\ cur'[h] = cur[h] /\ read'[h] = read[h]
  BY <1>1, <1>5, NoVersion DEF TypeOK
<1>7. /\ TypeInv' /\ TypeOK'
      /\ Api(r)' = w /\ Recent(r)' = {w} \cup Recent(r)
      /\ \A q \in Routes \ {r} : Api(q)' = Api(q) /\ Recent(q)' = Recent(q)
      /\ \A q \in Routes : NoneOnTheWay(q)' <=> NoneOnTheWay(q)
  BY <1>1, <1>3, <1>4, <1>5, <1>6, StoreTypes
<1>8. RunInv' /\ ReadInv'
  <2>1. \A g \in Gateways : cur[g] \subseteq Routes
    BY <1>1 DEF TypeOK
  <2>2. \A g \in Gateways : pc'[g] = "write" =>
          pc[g] = "write" /\ cur'[g] = cur[g] /\ read'[g] = read[g]
    BY <1>6
  <2>3. ReadInv'
    BY <1>1, <1>3, <1>7, <2>1, <2>2, StoreRead
  <2> QED
    BY <1>1, <1>5, <1>6, <2>3 DEF RunInv
<1>9. /\ \A q \in Routes : \A h \in Gateways \ {k} : EntryInv(q, h)'
      /\ \A q \in Routes : \A h \in Gateways \ {k} : Settling(q, h) => Settling(q, h)'
  <2> DEFINE H == Gateways \ {k}
  <2>1. H \in SUBSET Gateways
    OBVIOUS
  <2>2. /\ \A h \in H : EntriesOf(w.parents, h) = EntriesOf(Api(r).parents, h)
        /\ \A h \in H : pc'[h] = pc[h] /\ cur'[h] = cur[h]
    BY <1>2, <1>4, <1>6
  <2> HIDE DEF H
  <2>3. /\ \A q \in Routes : \A h \in H : EntryInv(q, h)'
        /\ \A q \in Routes : \A h \in H : Settling(q, h) => Settling(q, h)'
    BY <1>4, <1>5, <1>7, <2>1, <2>2, StatusWrite
  <2> QED
    BY <2>3 DEF H
(* The entries of k are the ones its run computed.                         *)
<1>10. EntriesOf(w.parents, k) = VerdictsFor(w.refs, k, w.gen, gen[k])
  BY <1>2, <1>4 DEF RouteParentStatuses, VerdictsFor
<1>11. w.refs \in RefLists /\ w.gen \in Nat
  BY <1>4, VersionFields
<1>12. EntryInv(r, k)'
  <2>1. OfOneRun(EntriesOf(w.parents, k))
    BY <1>1, <1>10, <1>11, Verdicts
  <2>2. ASSUME NEW n \in Nat, gen[k] <= n PROVE UpTo(w, k, n)
    BY <1>1, <1>10, <1>11, <2>2, Verdicts DEF UpTo
  <2>3. ASSUME gws[k] > 0 PROVE EntriesUpTo(r, k)' /\ NotUnsaid(r, k)'
    <3>1. /\ gen[k] <= gws[k] /\ EntryInv(r, k)
          /\ UpTo(Api(r), k, gen[k]) /\ NotUnsaid(r, k)
      BY <1>1, <1>5, <2>3 DEF RunInv, RouteInv, EntryInv, EntriesUpTo
    <3>2. EntriesUpTo(r, k)'
      BY <1>1, <1>5, <1>7, <2>2, <3>1 DEF EntriesUpTo
    <3>3. ASSUME NEW n \in Nat, gws[k] <= n, Says(Api(r), k, n) PROVE Says(w, k, n)
      <4>1. EntriesOf(Api(r).parents, k) = VerdictsFor(w.refs, k, w.gen, n)
        BY <1>4, <3>3 DEF Says
      <4>2. CASE Len(w.refs[k]) = 0
        <5>1. VerdictsFor(w.refs, k, w.gen, n) = VerdictsFor(w.refs, k, w.gen, gen[k])
          BY <4>2 DEF VerdictsFor
        <5> QED
          BY <1>10, <4>1, <5>1 DEF Says
      <4>3. CASE Len(w.refs[k]) # 0
        <5>1. 1 \in 1 .. Len(w.refs[k])
          BY <1>11, <4>3, RefsOf
        <5>2. n <= gen[k]
          BY <1>11, <3>1, <4>1, <5>1, Verdicts DEF UpTo
        <5>3. n = gen[k]
          BY <1>1, <3>1, <3>3, <5>2
        <5> QED
          BY <1>10, <5>3 DEF Says
      <4> QED
        BY <4>2, <4>3
    <3>4. NotUnsaid(r, k)'
      <4> SUFFICES ASSUME NEW u \in {w} \cup Recent(r), NEW n \in Nat,
                          gws[k] <= n, Says(u, k, n)
                   PROVE  Says(w, k, n)
        BY <1>5, <1>7 DEF NotUnsaid
      <4>1. CASE u \in Recent(r)
        <5>1. Says(Api(r), k, n)
          BY <3>1, <4>1 DEF NotUnsaid
        <5> QED
          BY <3>3, <5>1
      <4>2. CASE u = w
        BY <4>2
      <4> QED
        BY <4>1, <4>2
    <3> QED
      BY <3>2, <3>4
  <2> QED
    BY <1>5, <1>7, <2>1, <2>3 DEF EntryInv
<1>13. ASSUME NEW q \in Routes \ {r} PROVE EntryInv(q, k)'
  <2>1. gws'[k] = 0 \/ (gws[k] > 0 /\ gws[k] <= gws'[k])
    BY <1>1, <1>5
  <2>2. EntryInv(q, k) /\ gws'[k] \in Nat /\ pc[k] # "off" /\ gen'[k] = gen[k]
    BY <1>1, <1>5 DEF RouteInv
  <2> QED
    BY <1>1, <1>7, <2>1, <2>2, EntryKept
<1>14. ASSUME NEW q \in Routes, Settling(q, k) PROVE Settling(q, k)'
  <2>1. CASE Again(k)
    BY <1>5, <2>1 DEF Settling, Again
  <2>2. CASE ~Again(k)
    <3>1. phase[k] = "busy"
      BY <1>1, <1>5 DEF RunInv
    <3>2. gen[k] = gws[k] /\ (q \in todo[k] \cup cur[k] \/ UpToDate(q, k))
      BY <1>14, <2>2, <3>1 DEF Settling
    <3>3. CASE q = r
      <4>1. UpToDate(r, k)'
        BY <1>5, <1>7, <1>10, <3>2 DEF UpToDate, VerdictsFor
      <4> QED
        BY <1>5, <3>1, <3>2, <3>3, <4>1 DEF Settling
    <3>4. CASE q # r
      <4>1. q \notin cur[k]
        BY <1>1, <1>5, <3>4 DEF TypeInv
      <4>2. UpToDate(q, k) => UpToDate(q, k)'
        <5>1. Api(q)' = Api(q) /\ gws' = gws
          BY <1>5, <1>7, <3>4
        <5> QED
          BY <5>1 DEF UpToDate
      <4> QED
        BY <1>5, <3>1, <3>2, <4>1, <4>2 DEF Settling
    <3> QED
      BY <3>3, <3>4
  <2> QED
    BY <2>1, <2>2
<1>15. AllSettling'
  BY <1>5, <1>7, <1>9, <1>14 DEF RouteInv, AllSettling
<1>16. ASSUME NEW q \in Routes, NEW g \in Gateways PROVE EntryInv(q, g)'
  BY <1>9, <1>12, <1>13
<1> QED
  BY <1>7, <1>8, <1>9, <1>15, <1>16 DEF RouteInv

(* A step that stores nothing.                                             *)
LEMMA NothingStored ==
  ASSUME RouteInv,
         \A q \in Routes : Api(q)' = Api(q) /\ Recent(q)' \subseteq Recent(q),
         \A g \in Gateways : gws'[g] \in Nat /\ (gws'[g] = 0 \/ (gws[g] > 0 /\ gws[g] <= gws'[g])),
         \A g \in Gateways : pc'[g] # "off" => \/ pc[g] # "off" /\ gen'[g] = gen[g]
                                               \/ gen'[g] = gws[g]
  PROVE  \A q \in Routes : \A g \in Gateways : EntryInv(q, g)'
<1>1. TypeOK
  BY DEF RouteInv, TypeInv
<1>2. ASSUME NEW q \in Routes, NEW g \in Gateways PROVE EntryInv(q, g)'
  <2>1. EntryInv(q, g) /\ gws[g] \in Nat /\ gen[g] \in Nat
    BY <1>1, Typed DEF RouteInv
  <2> QED
    BY <1>1, <2>1, EntryKept
<1> QED
  BY <1>2

LEMMA SameStore ==
  ASSUME RouteInv, UNCHANGED <<gws, cache, stream>>
  PROVE  /\ \A q \in Routes : Api(q)' = Api(q) /\ Recent(q)' \subseteq Recent(q)
         /\ \A q \in Routes : NoneOnTheWay(q)' <=> NoneOnTheWay(q)
         /\ \A q \in Routes : \A g \in Gateways : UpToDate(q, g)' <=> UpToDate(q, g)
         /\ \A g \in Gateways : gws'[g] \in Nat /\ (gws'[g] = 0 \/ (gws[g] > 0 /\ gws[g] <= gws'[g]))
<1>1. \A g \in Gateways : gws[g] \in Nat
  BY Typed DEF RouteInv, TypeInv
<1>2. \A q \in Routes : /\ Api(q)' = Api(q) /\ Recent(q)' = Recent(q)
                        /\ NoneOnTheWay(q)' <=> NoneOnTheWay(q)
  BY SameVersions
<1> QED
  BY <1>1, <1>2 DEF UpToDate

LEMMA EditGatewayRoute ==
  ASSUME RouteInv, NEW k \in Gateways, EditGateway(k)
  PROVE  RouteInv'
<1>1. /\ TypeInv /\ TypeOK /\ RunInv /\ ReadInv /\ Queue!TypeOK
      /\ \A g \in Gateways : gws[g] \in Nat /\ gen[g] \in Nat
  BY Typed DEF RouteInv, TypeInv
<1>2. /\ UNCHANGED <<cache, stream, pc, gen, todo, cur, read, newest, tries, aborted, missed>>
      /\ edits' \in 0 .. MaxEdits /\ gws[k] > 0 /\ Queue!Enqueue(k)
  BY <1>1, CountUp DEF EditGateway, runVars, TypeOK
<1>3. PICK n \in {0, gws[k] + 1} : gws' = [gws EXCEPT ![k] = n]
  BY DEF EditGateway
<1>4. /\ gws' \in [Gateways -> Nat] /\ gws'[k] = n
      /\ \A g \in Gateways \ {k} : gws'[g] = gws[g]
  BY <1>1, <1>3 DEF TypeOK
<1>5. /\ Queue!TypeOK' /\ \A g \in dirty' : phase'[g] # "idle"
      /\ phase'[k] = "queued" \/ k \in dirty'
      /\ \A h \in Gateways \ {k} : phase'[h] = phase[h] /\ (h \in dirty <=> h \in dirty')
      /\ \A h \in Gateways : phase'[h] = "busy" <=> phase[h] = "busy"
  BY <1>1, <1>2, EnqueueStep
<1>6. TypeInv'
  BY <1>1, <1>2, <1>4, <1>5 DEF TypeInv, TypeOK
<1>7. \A g \in Gateways : gws'[g] \in Nat /\ (gws'[g] = 0 \/ (gws[g] > 0 /\ gws[g] <= gws'[g]))
  BY <1>1, <1>2, <1>4
<1>8. RunInv'
  <2>1. ASSUME NEW g \in Gateways, gws'[g] > 0 PROVE gen'[g] <= gws'[g]
    BY <1>1, <1>2, <1>7, <2>1 DEF RunInv
  <2> QED
    BY <1>1, <1>2, <1>5, <2>1 DEF RunInv
<1>9. \A q \in Routes : /\ Api(q)' = Api(q) /\ Recent(q)' = Recent(q)
                        /\ NoneOnTheWay(q)' <=> NoneOnTheWay(q)
  BY <1>2, SameVersions
<1>10. ReadInv'
  <2>1. \A g \in Gateways : cur[g] \subseteq Routes
    BY <1>1 DEF TypeOK
  <2> QED
    BY <1>1, <1>2, <1>9, <2>1, SameRead
<1>11. \A q \in Routes : \A g \in Gateways : EntryInv(q, g)'
  BY <1>2, <1>7, <1>9, NothingStored
<1>12. AllSettling'
  <2> SUFFICES ASSUME NEW q \in Routes, NEW g \in Gateways, gws'[g] > 0, cache'[q].gen > 0,
                      NoneOnTheWay(q)', q \notin missed'
               PROVE  Settling(q, g)'
    BY DEF AllSettling
  <2>1. CASE g = k
    BY <1>5, <2>1 DEF Settling, Again
  <2>2. CASE g # k
    <3>1. gws'[g] = gws[g] /\ NoneOnTheWay(q) /\ cache[q].gen > 0 /\ q \notin missed
      BY <1>2, <1>4, <1>9, <2>2
    <3>2. Settling(q, g)
      BY <3>1 DEF RouteInv, AllSettling
    <3>3. UpToDate(q, g) => UpToDate(q, g)'
      BY <1>9, <3>1 DEF UpToDate
    <3> QED
      BY <1>2, <1>5, <2>2, <3>1, <3>2, <3>3, SettlingKept
  <2> QED
    BY <2>1, <2>2
<1> QED
  BY <1>6, <1>8, <1>11, <1>12, <1>10 DEF RouteInv

(* A new generation in the cache sends every Gateway to the Routes again;  *)
(* otherwise what is on its way to the cache was on its way before, or the *)
(* Route is one that a gap of the watch hid.                               *)
LEMMA ShowRoute ==
  ASSUME RouteInv, NEW r \in Routes, NEW v, Show(r, v), v = cache'[r],
         UNCHANGED <<gws, runVars, aborted, edits>>,
         cache' \in [Routes -> Versions], stream' \in [Routes -> Seq(Versions)],
         \A q \in Routes : Api(q)' = Api(q) /\ Recent(q)' \subseteq Recent(q),
         \A q \in Routes \ {r} : cache'[q] = cache[q] /\ (NoneOnTheWay(q)' <=> NoneOnTheWay(q)),
         missed' \subseteq Routes,
         v.gen = cache[r].gen =>
           missed \subseteq missed' /\ (NoneOnTheWay(r)' => NoneOnTheWay(r) \/ r \in missed')
  PROVE  RouteInv'
<1>1. /\ TypeInv /\ TypeOK /\ RunInv /\ ReadInv /\ Queue!TypeOK
      /\ \A g \in Gateways : gws[g] \in Nat /\ gen[g] \in Nat
  BY Typed DEF RouteInv, TypeInv
<1>2. UNCHANGED <<gws, pc, gen, todo, cur, read, newest, tries, aborted, edits>>
  BY DEF runVars
<1>3. \/ UNCHANGED <<phase, dirty>> /\ v.gen = cache[r].gen
      \/ Queue!EnqueueAll(ListedGateways)
  BY DEF Show, queueVars
<1>4. /\ Queue!TypeOK' /\ \A g \in dirty' : phase'[g] # "idle"
      /\ \A h \in Gateways : phase'[h] = "busy" <=> phase[h] = "busy"
  <2>1. CASE UNCHANGED <<phase, dirty>>
    BY <1>1, <2>1 DEF RunInv, Queue!TypeOK
  <2>2. CASE Queue!EnqueueAll(ListedGateways)
    BY <1>1, <2>2, EnqueueAllStep
  <2> QED
    BY <1>3, <2>1, <2>2
<1>5. TypeInv' /\ RunInv'
  BY <1>1, <1>2, <1>4 DEF TypeInv, TypeOK, RunInv
<1>6. \A g \in Gateways : gws'[g] \in Nat /\ (gws'[g] = 0 \/ (gws[g] > 0 /\ gws[g] <= gws'[g]))
  BY <1>1, <1>2
<1>7. \A q \in Routes : \A g \in Gateways : EntryInv(q, g)'
  BY <1>2, <1>6, NothingStored
<1>8. AllSettling'
  <2> SUFFICES ASSUME NEW q \in Routes, NEW g \in Gateways, gws'[g] > 0, cache'[q].gen > 0,
                      NoneOnTheWay(q)', q \notin missed'
               PROVE  Settling(q, g)'
    BY DEF AllSettling
  <2>1. CASE Queue!EnqueueAll(ListedGateways)
    <3>1. \A h \in Gateways : gws[h] > 0 => phase'[h] = "queued" \/ h \in dirty'
      BY <1>1, <2>1, EnqueueAllStep
    <3> QED
      BY <1>2, <3>1 DEF Settling, Again
  <2>2. CASE UNCHANGED <<phase, dirty>> /\ v.gen = cache[r].gen
    <3>1. cache[q].gen > 0 /\ NoneOnTheWay(q) /\ q \notin missed
      <4>1. CASE q = r
        BY <2>2, <4>1
      <4>2. CASE q # r
        BY <2>2, <4>2
      <4> QED
        BY <4>1, <4>2
    <3>2. Settling(q, g)
      BY <1>2, <3>1 DEF RouteInv, AllSettling
    <3>3. UpToDate(q, g) => UpToDate(q, g)'
      BY <1>2 DEF UpToDate
    <3> QED
      BY <1>2, <2>2, <3>2, <3>3, SettlingKept
  <2> QED
    BY <1>3, <2>1, <2>2
<1>9. ReadInv'
  <2>1. \A g \in Gateways : cur[g] \subseteq Routes
    BY <1>1 DEF TypeOK
  <2> QED
    BY <1>1, <1>2, <2>1, SameRead
<1> QED
  BY <1>5, <1>7, <1>8, <1>9 DEF RouteInv

LEMMA SyncRoute ==
  ASSUME RouteInv, NEW r \in Routes, Sync(r)
  PROVE  RouteInv'
<1>1. TypeOK /\ missed \subseteq Routes
  BY DEF RouteInv, TypeInv, TypeOK
<1>2. /\ cache' \in [Routes -> Versions] /\ stream' \in [Routes -> Seq(Versions)]
      /\ cache'[r] = Head(stream[r])
      /\ Api(r)' = Api(r) /\ Recent(r)' \subseteq Recent(r)
      /\ cache'[r].gen = cache[r].gen => (NoneOnTheWay(r)' => NoneOnTheWay(r))
      /\ \A q \in Routes \ {r} : /\ cache'[q] = cache[q]
                                 /\ Api(q)' = Api(q) /\ Recent(q)' = Recent(q)
                                 /\ NoneOnTheWay(q)' <=> NoneOnTheWay(q)
  BY <1>1, SyncStep
<1>3. /\ Show(r, Head(stream[r])) /\ UNCHANGED <<gws, runVars, aborted, edits>>
      /\ missed' = IF Head(stream[r]).gen # cache[r].gen THEN {} ELSE missed
  BY DEF Sync
<1>4. missed' \subseteq Routes
  BY <1>1, <1>3
<1>5. \A q \in Routes : Api(q)' = Api(q) /\ Recent(q)' \subseteq Recent(q)
  BY <1>2
<1> QED
  BY <1>2, <1>3, <1>4, <1>5, ShowRoute

(* A list that shows a Route with the generation the cache had either      *)
(* skipped versions of that generation only, or is remembered.             *)
LEMMA RelistRoute ==
  ASSUME RouteInv, NEW r \in Routes, Relist(r)
  PROVE  RouteInv'
<1>1. TypeOK /\ missed \subseteq Routes
  BY DEF RouteInv, TypeInv, TypeOK
<1>2. /\ cache' \in [Routes -> Versions] /\ stream' \in [Routes -> Seq(Versions)]
      /\ cache'[r] = Api(r)
      /\ Api(r)' = Api(r) /\ Recent(r)' \subseteq Recent(r)
      /\ \A q \in Routes \ {r} : /\ cache'[q] = cache[q]
                                 /\ Api(q)' = Api(q) /\ Recent(q)' = Recent(q)
                                 /\ NoneOnTheWay(q)' <=> NoneOnTheWay(q)
  BY <1>1, RelistStep
<1>3. /\ Show(r, Api(r)) /\ UNCHANGED <<gws, runVars, aborted, edits>>
      /\ missed' = IF Api(r).gen # cache[r].gen THEN {}
                   ELSE IF \E i \in 1 .. Len(stream[r]) : stream[r][i].gen # cache[r].gen
                        THEN missed \cup {r} ELSE missed
  BY DEF Relist
<1>4. missed' \subseteq Routes
  BY <1>1, <1>3
<1>5. \A q \in Routes : Api(q)' = Api(q) /\ Recent(q)' \subseteq Recent(q)
  BY <1>2
<1>6. Api(r).gen = cache[r].gen =>
        missed \subseteq missed' /\ (NoneOnTheWay(r) \/ r \in missed')
  BY <1>3 DEF NoneOnTheWay
<1> QED
  BY <1>2, <1>3, <1>4, <1>5, <1>6, ShowRoute

LEMMA PeriodicRefreshRoute ==
  ASSUME RouteInv, PeriodicRefresh
  PROVE  RouteInv'
<1>1. TypeInv /\ TypeOK /\ RunInv /\ ReadInv /\ Queue!TypeOK
  BY Typed DEF RouteInv, TypeInv
<1>2. /\ UNCHANGED <<gws, cache, stream, pc, gen, todo, cur, read, newest, tries, aborted, edits>>
      /\ Queue!EnqueueAll(ListedGateways) /\ missed' = {}
  BY DEF PeriodicRefresh, runVars
<1>3. /\ Queue!TypeOK' /\ \A g \in dirty' : phase'[g] # "idle"
      /\ \A h \in Gateways : gws[h] > 0 => phase'[h] = "queued" \/ h \in dirty'
      /\ \A h \in Gateways : phase'[h] = "busy" <=> phase[h] = "busy"
  BY <1>1, <1>2, EnqueueAllStep
<1>4. TypeInv' /\ RunInv'
  BY <1>1, <1>2, <1>3 DEF TypeInv, TypeOK, RunInv
<1>5. ReadInv'
  <2>1. \A g \in Gateways : cur[g] \subseteq Routes
    BY <1>1 DEF TypeOK
  <2> QED
    BY <1>1, <1>2, <2>1, SameStore, SameRead
<1>6. \A q \in Routes : \A g \in Gateways : EntryInv(q, g)'
  BY <1>2, SameStore, NothingStored
<1>7. AllSettling'
  BY <1>2, <1>3 DEF AllSettling, Settling, Again
<1> QED
  BY <1>4, <1>6, <1>7, <1>5 DEF RouteInv

(* A run begins with every Route that the cache shows still to visit.      *)
LEMMA BeginRoute ==
  ASSUME RouteInv, NEW k \in Gateways, Begin(k)
  PROVE  RouteInv'
<1>1. /\ TypeInv /\ TypeOK /\ RunInv /\ ReadInv /\ Queue!TypeOK
      /\ \A g \in Gateways : gws[g] \in Nat /\ gen[g] \in Nat
  BY Typed DEF RouteInv, TypeInv
<1>2. /\ UNCHANGED <<gws, cache, stream, cur, read, newest, tries, aborted, missed, edits>>
      /\ Queue!Begin(k)
  BY DEF Begin
<1>3. /\ Queue!TypeOK' /\ \A g \in dirty' : phase'[g] # "idle"
      /\ phase'[k] = "busy" /\ dirty' = dirty
      /\ \A h \in Gateways \ {k} : phase'[h] = phase[h]
  BY <1>1, <1>2, BeginStep
<1>4. /\ pc' \in [Gateways -> {"off", "get", "write"}] /\ pc'[k] = "get"
      /\ gen' \in [Gateways -> Nat] /\ gen'[k] = gws[k]
      /\ todo' \in [Gateways -> SUBSET Routes]
      /\ gws[k] > 0 => todo'[k] = {q \in Routes : cache[q].gen > 0}
      /\ \A h \in Gateways \ {k} : pc'[h] = pc[h] /\ gen'[h] = gen[h] /\ todo'[h] = todo[h]
  <2>1. /\ pc' \in [Gateways -> {"off", "get", "write"}] /\ pc'[k] = "get"
        /\ gen' \in [Gateways -> Nat] /\ gen'[k] = gws[k]
        /\ \A h \in Gateways \ {k} : pc'[h] = pc[h] /\ gen'[h] = gen[h]
    BY <1>1 DEF Begin, TypeOK
  <2> DEFINE R == {q \in Routes : cache[q].gen > 0}
  <2>2. R \in SUBSET Routes /\ todo' = [todo EXCEPT ![k] = IF gws[k] = 0 THEN {} ELSE R]
    BY DEF Begin
  <2> HIDE DEF R
  <2>3. /\ todo' \in [Gateways -> SUBSET Routes] /\ (gws[k] > 0 => todo'[k] = R)
        /\ \A h \in Gateways \ {k} : todo'[h] = todo[h]
    BY <1>1, <2>2 DEF TypeOK
  <2> QED
    BY <2>1, <2>3 DEF R
<1>5. TypeInv' /\ RunInv'
  <2>1. TypeInv'
    BY <1>1, <1>2, <1>3, <1>4 DEF TypeInv, TypeOK
  <2>2. ASSUME NEW g \in Gateways, gws'[g] > 0 PROVE gen'[g] <= gws'[g]
    <3>1. CASE g = k
      BY <1>1, <1>2, <1>4, <3>1
    <3>2. CASE g # k
      BY <1>1, <1>2, <1>4, <2>2, <3>2 DEF RunInv
    <3> QED
      BY <3>1, <3>2
  <2>3. \A g \in Gateways : phase'[g] = "busy" <=> pc'[g] # "off"
    BY <1>1, <1>3, <1>4 DEF RunInv
  <2> QED
    BY <1>3, <2>1, <2>2, <2>3 DEF RunInv
<1>6. \A q \in Routes : \A g \in Gateways : EntryInv(q, g)'
  <2>1. \A g \in Gateways : pc'[g] # "off" => \/ pc[g] # "off" /\ gen'[g] = gen[g]
                                              \/ gen'[g] = gws[g]
    BY <1>4
  <2> QED
    BY <1>2, <2>1, SameStore, NothingStored
<1>7. ReadInv'
  <2>1. \A g \in Gateways : cur[g] \subseteq Routes
    BY <1>1 DEF TypeOK
  <2>2. \A g \in Gateways : pc'[g] = "write" => pc[g] = "write"
    BY <1>4
  <2> QED
    BY <1>1, <1>2, <2>1, <2>2, SameStore, SameRead
<1>8. AllSettling'
  <2> SUFFICES ASSUME NEW q \in Routes, NEW g \in Gateways, gws'[g] > 0, cache'[q].gen > 0,
                      NoneOnTheWay(q)', q \notin missed'
               PROVE  Settling(q, g)'
    BY DEF AllSettling
  <2>1. CASE g = k
    BY <1>2, <1>3, <1>4, <2>1 DEF Settling
  <2>2. CASE g # k
    <3>1. Settling(q, g)
      BY <1>2, SameStore DEF RouteInv, AllSettling
    <3> QED
      BY <1>2, <1>3, <1>4, <2>2, <3>1, SameStore, SettlingKept
  <2> QED
    BY <2>1, <2>2
<1> QED
  BY <1>5, <1>6, <1>8, <1>7 DEF RouteInv

(* A Route needs no write if its cached version says what is right: then   *)
(* so does the newest, unless a new generation is on its way.              *)
LEMMA GetRouteRoute ==
  ASSUME RouteInv, NEW k \in Gateways, NEW r \in Routes, GetRoute(k, r)
  PROVE  RouteInv'
<1>1. /\ TypeInv /\ TypeOK /\ RunInv /\ ReadInv /\ Queue!TypeOK
      /\ \A g \in Gateways : gws[g] \in Nat /\ gen[g] \in Nat
  BY Typed DEF RouteInv, TypeInv
<1>2. /\ UNCHANGED <<gws, cache, stream, phase, dirty, gen, aborted, missed, edits>>
      /\ pc[k] = "get" /\ cache[r].gen > 0
      /\ todo' = [todo EXCEPT ![k] = @ \ {r}]
      /\ r \in (IF cur[k] # {} THEN cur[k] ELSE todo[k])
  BY DEF GetRoute, queueVars
<1>3. /\ todo' \in [Gateways -> SUBSET Routes] /\ todo'[k] = todo[k] \ {r}
      /\ \A h \in Gateways \ {k} : todo'[h] = todo[h]
  BY <1>1, <1>2 DEF TypeOK
<1>4. \/ /\ Updated(cache[r], k) = cache[r].parents
         /\ cur' = [cur EXCEPT ![k] = {}] /\ tries' = [tries EXCEPT ![k] = 0]
         /\ UNCHANGED <<pc, read, newest>>
      \/ /\ cur' = [cur EXCEPT ![k] = {r}] /\ pc' = [pc EXCEPT ![k] = "write"]
         /\ read' = [read EXCEPT ![k] = cache[r]]
         /\ newest' = [newest EXCEPT ![k] = (stream[r] = <<>>)]
         /\ UNCHANGED tries
  BY DEF GetRoute
<1>5. /\ cur' \in [Gateways -> SUBSET Routes]
      /\ cur'[k] = {r} \/ (cur'[k] = {} /\ Updated(cache[r], k) = cache[r].parents)
      /\ \A h \in Gateways \ {k} : cur'[h] = cur[h]
      /\ pc' \in [Gateways -> {"off", "get", "write"}]
      /\ \A h \in Gateways : pc'[h] # "off" <=> pc[h] # "off"
      /\ newest' \in [Gateways -> BOOLEAN] /\ read' \in [Gateways -> Versions]
      /\ tries' \in [Gateways -> 0 .. ConflictSteps - 1]
  <2>1. /\ cur' \in [Gateways -> SUBSET Routes]
        /\ cur'[k] = {r} \/ (cur'[k] = {} /\ Updated(cache[r], k) = cache[r].parents)
        /\ \A h \in Gateways \ {k} : cur'[h] = cur[h]
    <3>1. cur \in [Gateways -> SUBSET Routes]
      BY <1>1 DEF TypeOK
    <3>2. CASE cur' = [cur EXCEPT ![k] = {}] /\ Updated(cache[r], k) = cache[r].parents
      BY <3>1, <3>2
    <3>3. CASE cur' = [cur EXCEPT ![k] = {r}]
      BY <3>1, <3>3
    <3> QED
      BY <1>4, <3>2, <3>3
  <2>2. /\ pc' \in [Gateways -> {"off", "get", "write"}]
        /\ \A h \in Gateways : pc'[h] # "off" <=> pc[h] # "off"
    BY <1>1, <1>2, <1>4 DEF TypeOK
  <2>3. newest' \in [Gateways -> BOOLEAN]
    <3>1. (stream[r] = <<>>) \in BOOLEAN
      OBVIOUS
    <3>2. newest' = newest \/ newest' = [newest EXCEPT ![k] = (stream[r] = <<>>)]
      BY <1>4
    <3> QED
      BY <1>1, <3>1, <3>2 DEF TypeOK
  <2>4. tries' \in [Gateways -> 0 .. ConflictSteps - 1]
    <3>1. 0 \in 0 .. ConflictSteps - 1 /\ tries \in [Gateways -> 0 .. ConflictSteps - 1]
      BY <1>1 DEF TypeOK
    <3>2. tries' = tries \/ tries' = [tries EXCEPT ![k] = 0]
      BY <1>4
    <3> QED
      BY <3>1, <3>2
  <2>5. read' \in [Gateways -> Versions]
    <3>1. cache[r] \in Versions /\ read \in [Gateways -> Versions]
      BY <1>1 DEF TypeOK
    <3>2. read' = read \/ read' = [read EXCEPT ![k] = cache[r]]
      BY <1>4
    <3> QED
      BY <3>1, <3>2
  <2> QED
    BY <2>1, <2>2, <2>3, <2>4, <2>5
<1>6. TypeInv' /\ RunInv'
  <2>1. \A g \in Gateways : cur'[g] = {} \/ \E q \in Routes : cur'[g] = {q}
    BY <1>1, <1>5 DEF TypeInv
  <2>2. \A g \in Gateways : Cardinality(cur'[g]) <= 1
    BY <2>1, SmallCur
  <2>3. Queue!TypeOK'
    BY <1>1, <1>2 DEF Queue!TypeOK
  <2>4. RunInv'
    BY <1>1, <1>2, <1>5 DEF RunInv
  <2> QED
    BY <1>1, <1>2, <1>3, <1>5, <2>1, <2>2, <2>3, <2>4 DEF TypeInv, TypeOK
<1>7. \A q \in Routes : \A g \in Gateways : EntryInv(q, g)'
  <2>1. \A g \in Gateways : pc'[g] # "off" => pc[g] # "off" /\ gen'[g] = gen[g]
    BY <1>2, <1>5
  <2> QED
    BY <1>2, <2>1, SameStore, NothingStored
<1>8. ReadInv'
  <2> SUFFICES ASSUME NEW g \in Gateways, pc'[g] = "write", newest'[g], NEW q \in cur'[g]
               PROVE  read'[g] = Api(q)'
    BY DEF ReadInv
  <2>1. cur[g] \subseteq Routes /\ pc \in [Gateways -> {"off", "get", "write"}]
        /\ newest \in [Gateways -> BOOLEAN] /\ read \in [Gateways -> Versions]
    BY <1>1 DEF TypeOK
  <2>2. CASE g = k
    <3>1. /\ read'[k] = cache[r] /\ (newest'[k] <=> stream[r] = <<>>) /\ cur'[k] = {r}
      BY <1>1, <1>2, <1>4, <2>1, <2>2 DEF TypeOK
    <3>2. cache[r] = Api(r)
      BY <1>1, <2>2, <3>1, NothingShown
    <3> QED
      BY <1>2, <2>2, <3>1, <3>2, SameStore
  <2>3. CASE g # k
    <3>1. pc[g] = "write" /\ newest[g] /\ read'[g] = read[g] /\ cur'[g] = cur[g]
      BY <1>4, <1>5, <2>1, <2>3
    <3>2. q \in cur[g] /\ q \in Routes
      BY <2>1, <3>1
    <3> QED
      BY <1>1, <1>2, <3>1, <3>2, SameStore DEF ReadInv
  <2> QED
    BY <2>2, <2>3
<1>9. AllSettling'
  <2> SUFFICES ASSUME NEW q \in Routes, NEW g \in Gateways, gws'[g] > 0, cache'[q].gen > 0,
                      NoneOnTheWay(q)', q \notin missed'
               PROVE  Settling(q, g)'
    BY DEF AllSettling
  <2>1. Settling(q, g) /\ NoneOnTheWay(q) /\ gws[g] > 0
    BY <1>2, SameStore DEF RouteInv, AllSettling
  <2>2. CASE g # k
    BY <1>2, <1>3, <1>5, <2>1, <2>2, SameStore, SettlingKept
  <2>3. CASE g = k
    <3>1. CASE Again(k)
      BY <1>2, <2>3, <3>1 DEF Settling, Again
    <3>2. CASE ~Again(k)
      <4>1. phase[k] = "busy"
        BY <1>1, <1>2 DEF RunInv
      <4>2. gen[k] = gws[k] /\ (q \in todo[k] \cup cur[k] \/ UpToDate(q, k))
        BY <2>1, <2>3, <3>2, <4>1 DEF Settling
      <4>3. q # r /\ q \in cur[k] => FALSE
        BY <1>1, <1>2 DEF TypeInv
      <4>4. CASE q = r /\ cur'[k] = {} /\ Updated(cache[r], k) = cache[r].parents
        <5>1. cache[r] \in Versions /\ cache[r] \in Recent(r)
          BY <1>1, <2>1, <4>4, Typed, ApiVersion
        <5>2. EntriesOf(cache[r].parents, k) = RouteParentStatuses(cache[r], k)
          BY <1>1, <4>4, <5>1, UpdatedEntries
        <5>3. Says(cache[r], k, gws[k])
          BY <4>2, <5>2 DEF Says, RouteParentStatuses, VerdictsFor
        <5>5. NotUnsaid(r, k)
          BY <2>1, <2>3 DEF RouteInv, EntryInv
        <5>6. Says(Api(r), k, gws[k])
          BY <1>1, <5>1, <5>3, <5>5 DEF NotUnsaid
        <5>7. UpToDate(r, k)
          BY <5>6 DEF UpToDate, Says, VerdictsFor
        <5>8. UpToDate(q, k)'
          BY <1>2, <4>4, <5>7, SameStore
        <5> QED
          BY <1>2, <2>3, <4>1, <4>2, <5>8 DEF Settling
      <4>5. CASE q = r /\ cur'[k] = {r}
        BY <1>2, <2>3, <4>1, <4>2, <4>5 DEF Settling
      <4>6. CASE q # r
        <5>1. q \in todo'[k] \/ UpToDate(q, k)'
          BY <1>2, <1>3, <4>2, <4>3, <4>6, SameStore
        <5> QED
          BY <1>2, <2>3, <4>1, <4>2, <5>1 DEF Settling
      <4> QED
        BY <1>5, <4>4, <4>5, <4>6
    <3> QED
      BY <3>1, <3>2
  <2> QED
    BY <2>2, <2>3
<1> QED
  BY <1>6, <1>7, <1>9, <1>8 DEF RouteInv

LEMMA WriteConflictRoute ==
  ASSUME RouteInv, NEW k \in Gateways, NEW r \in Routes, WriteConflict(k, r)
  PROVE  RouteInv'
<1>1. TypeInv /\ TypeOK /\ RunInv /\ ReadInv /\ Queue!TypeOK /\ tries[k] \in 0 .. ConflictSteps - 1
  BY Typed DEF RouteInv, TypeInv
<1>2. /\ UNCHANGED <<gws, cache, stream, phase, dirty, gen, todo, cur, newest, aborted, missed,
                     edits>>
      /\ pc[k] = "write" /\ tries[k] + 1 < ConflictSteps
      /\ tries' = [tries EXCEPT ![k] = @ + 1] /\ pc' = [pc EXCEPT ![k] = "get"]
      /\ read' = [read EXCEPT ![k] = NoRoute]
  BY DEF WriteConflict, queueVars
<1>3. tries[k] + 1 \in 0 .. ConflictSteps - 1
  BY <1>1, <1>2
<1>4. /\ tries' \in [Gateways -> 0 .. ConflictSteps - 1]
      /\ pc' \in [Gateways -> {"off", "get", "write"}]
      /\ read' \in [Gateways -> Versions]
      /\ \A h \in Gateways : pc'[h] # "off" <=> pc[h] # "off"
      /\ \A h \in Gateways : pc'[h] = "write" => pc[h] = "write" /\ read'[h] = read[h]
  BY <1>1, <1>2, <1>3, NoVersion DEF TypeOK
<1>5. TypeInv' /\ RunInv'
  BY <1>1, <1>2, <1>4 DEF TypeInv, TypeOK, RunInv, Queue!TypeOK
<1>6. \A q \in Routes : \A g \in Gateways : EntryInv(q, g)'
  <2>1. \A g \in Gateways : pc'[g] # "off" => pc[g] # "off" /\ gen'[g] = gen[g]
    BY <1>2, <1>4
  <2> QED
    BY <1>2, <2>1, SameStore, NothingStored
<1>7. ReadInv'
  <2>1. \A g \in Gateways : cur[g] \subseteq Routes
    BY <1>1 DEF TypeOK
  <2> QED
    BY <1>1, <1>2, <1>4, <2>1, SameStore, SameRead
<1>8. AllSettling'
  BY <1>2, SameStore, SettlingKept DEF RouteInv, AllSettling
<1> QED
  BY <1>5, <1>6, <1>8, <1>7 DEF RouteInv

(* A run ends: complete, or remembered as cut short.                       *)
LEMMA LeaveRoute ==
  ASSUME RouteInv, NEW k \in Gateways, Leave(k), UNCHANGED <<gws, cache, stream, missed, edits>>,
         \/ aborted' = aborted \cup {k}
         \/ aborted' = aborted \ {k} /\ todo[k] = {} /\ cur[k] = {}
  PROVE  RouteInv'
<1>1. /\ TypeInv /\ TypeOK /\ RunInv /\ ReadInv /\ Queue!TypeOK
      /\ \A g \in Gateways : gws[g] \in Nat /\ gen[g] \in Nat
  BY Typed DEF RouteInv, TypeInv
<1>2. /\ Queue!TypeOK' /\ \A g \in dirty' : phase'[g] # "idle"
      /\ phase[k] = "busy"
      /\ k \in dirty => phase'[k] = "queued"
      /\ k \notin dirty => phase'[k] = "idle"
      /\ \A h \in Gateways \ {k} : phase'[h] = phase[h] /\ (h \in dirty <=> h \in dirty')
  BY <1>1, FinishStep DEF Leave
<1>3. /\ pc' \in [Gateways -> {"off", "get", "write"}] /\ pc'[k] = "off"
      /\ todo' \in [Gateways -> SUBSET Routes]
      /\ cur' \in [Gateways -> SUBSET Routes] /\ cur'[k] = {}
      /\ newest' \in [Gateways -> BOOLEAN] /\ read' \in [Gateways -> Versions]
      /\ gen' \in [Gateways -> Nat] /\ gen'[k] = 0
      /\ \A h \in Gateways \ {k} : /\ pc'[h] = pc[h] /\ gen'[h] = gen[h]
                                   /\ todo'[h] = todo[h] /\ cur'[h] = cur[h]
                                   /\ read'[h] = read[h] /\ newest'[h] = newest[h]
  BY <1>1, NoVersion DEF Leave, TypeOK
<1>4. tries' \in [Gateways -> 0 .. ConflictSteps - 1]
  BY <1>1 DEF Leave, TypeOK
<1>5. aborted' \subseteq Gateways /\ \A h \in Gateways \ {k} : h \in aborted <=> h \in aborted'
  BY <1>1 DEF TypeOK
<1>6. TypeInv' /\ RunInv'
  <2>1. \A g \in Gateways : cur'[g] = {} \/ \E q \in Routes : cur'[g] = {q}
    BY <1>1, <1>3 DEF TypeInv
  <2>2. \A g \in Gateways : Cardinality(cur'[g]) <= 1
    BY <2>1, SmallCur
  <2>3. RunInv'
    BY <1>1, <1>2, <1>3 DEF RunInv
  <2> QED
    BY <1>1, <1>2, <1>3, <1>4, <1>5, <2>1, <2>2, <2>3 DEF TypeInv, TypeOK
<1>7. \A q \in Routes : \A g \in Gateways : EntryInv(q, g)'
  <2>1. \A g \in Gateways : pc'[g] # "off" => pc[g] # "off" /\ gen'[g] = gen[g]
    BY <1>3
  <2> QED
    BY <2>1, SameStore, NothingStored
<1>8. ReadInv'
  <2>1. \A g \in Gateways : cur[g] \subseteq Routes
    BY <1>1 DEF TypeOK
  <2>2. \A g \in Gateways : pc'[g] = "write" => g # k
    BY <1>3
  <2> QED
    BY <1>1, <1>3, <2>1, <2>2, SameStore, SameRead
<1>9. AllSettling'
  <2> SUFFICES ASSUME NEW q \in Routes, NEW g \in Gateways, gws'[g] > 0, cache'[q].gen > 0,
                      NoneOnTheWay(q)', q \notin missed'
               PROVE  Settling(q, g)'
    BY DEF AllSettling
  <2>1. Settling(q, g) /\ gws[g] > 0
    BY SameStore DEF RouteInv, AllSettling
  <2>2. CASE g # k
    BY <1>2, <1>3, <1>5, <2>1, <2>2, SameStore, SettlingKept
  <2>3. CASE g = k
    <3>1. CASE k \in dirty
      BY <1>2, <2>3, <3>1 DEF Settling, Again
    <3>2. CASE k \notin dirty
      <4>1. phase'[k] = "idle"
        BY <1>2, <3>2
      <4>2. k \in aborted' \/ UpToDate(q, k)'
        BY <1>2, <2>1, <2>3, <3>2, SameStore DEF Settling, Again
      <4> QED
        BY <2>3, <4>1, <4>2 DEF Settling
    <3> QED
      BY <3>1, <3>2
  <2> QED
    BY <2>2, <2>3
<1> QED
  BY <1>6, <1>7, <1>9, <1>8 DEF RouteInv

LEMMA NextRoute == RouteInv /\ [Next]_vars => RouteInv'
<1> SUFFICES ASSUME RouteInv, [Next]_vars PROVE RouteInv'
  OBVIOUS
<1>1. ASSUME NEW r \in Routes, EditRoute(r) PROVE RouteInv'
  BY <1>1, EditRouteRoute
<1>2. ASSUME NEW r \in Routes, Sync(r) PROVE RouteInv'
  BY <1>2, SyncRoute
<1>3. ASSUME NEW r \in Routes, Relist(r) PROVE RouteInv'
  BY <1>3, RelistRoute
<1>4. ASSUME NEW r \in Routes, NEW g \in Gateways, ForeignWrite(r, g) PROVE RouteInv'
  BY <1>4, ForeignWriteRoute
<1>5. ASSUME NEW g \in Gateways, EditGateway(g) PROVE RouteInv'
  BY <1>5, EditGatewayRoute
<1>6. CASE PeriodicRefresh
  BY <1>6, PeriodicRefreshRoute
<1>7. ASSUME NEW g \in Gateways, Run(g) PROVE RouteInv'
  <2>1. CASE Begin(g)
    BY <2>1, BeginRoute
  <2>2. CASE Abort(g)
    BY <2>2, LeaveRoute DEF Abort
  <2>3. CASE Fails(g)
    BY <2>3, LeaveRoute DEF Fails
  <2>4. CASE End(g)
    BY <2>4, LeaveRoute DEF End
  <2>5. ASSUME NEW r \in Routes, GetRoute(g, r) PROVE RouteInv'
    BY <2>5, GetRouteRoute
  <2>6. ASSUME NEW r \in Routes, WriteRoute(g, r) PROVE RouteInv'
    BY <2>6, WriteRouteRoute
  <2>7. ASSUME NEW r \in Routes, WriteConflict(g, r) PROVE RouteInv'
    BY <2>7, WriteConflictRoute
  <2> QED
    BY <1>7, <2>1, <2>2, <2>3, <2>4, <2>5, <2>6, <2>7 DEF Run
<1>8. CASE UNCHANGED vars
  <2>1. \A q \in Routes : \A g \in Gateways : EntryInv(q, g)'
    BY <1>8, SameStore, NothingStored DEF vars
  <2>2. TypeInv' /\ RunInv'
    BY <1>8 DEF vars, RouteInv, TypeInv, TypeOK, RunInv, Queue!TypeOK
  <2>4. ReadInv'
    <3>1. ReadInv /\ \A g \in Gateways : cur[g] \subseteq Routes
      BY DEF RouteInv, TypeInv, TypeOK
    <3> QED
      BY <1>8, <3>1, SameStore, SameRead DEF vars
  <2>3. AllSettling'
    BY <1>8, SameStore, SettlingKept DEF vars, RouteInv, AllSettling
  <2> QED
    BY <2>1, <2>2, <2>3, <2>4 DEF RouteInv
<1> QED
  BY <1>1, <1>2, <1>4, <1>5, <1>6, <1>7, <1>8, <1>3 DEF Next

-----------------------------------------------------------------------------
(* The variables of the Route writers keep their types: the lists hold     *)
(* entries only, a run writes one Route at a time, and RetryOnConflict     *)
(* stays within its steps.                                                 *)
THEOREM TypeCorrect == Spec => []TypeOK
<1>1. RouteInv => TypeOK
  BY DEF RouteInv, TypeInv
<1> QED
  BY <1>1, InitRoute, NextRoute, PTL DEF Spec

(* However many reconciles and other controllers rewrite the list of a     *)
(* Route, mergeRouteParents never leaves two entries of this controller    *)
(* for one parentRef in it, nor entries of different runs for one Gateway. *)
THEOREM OneEntryHolds == Spec => []OneEntryPerParentRef
<1>1. RouteInv => OneEntryPerParentRef
  BY DEF RouteInv, EntryInv, OneEntryPerParentRef, OfOneRun
<1> QED
  BY <1>1, InitRoute, NextRoute, PTL DEF Spec

(* The write for one Gateway keeps the entries of the other Gateways and   *)
(* of other controllers, in their order, for lists of any length.          *)
THEOREM OnlyOwnEntriesChangeHolds == Spec => OnlyOwnEntriesChange
<1>1. ASSUME RouteInv, [Next]_vars, NEW g \in Gateways, NEW r \in Routes, WriteRoute(g, r)
      PROVE  Keep(Api(r)'.parents, Entries \ OwnEntries(g))
               = Keep(Api(r).parents, Entries \ OwnEntries(g))
  <2>1. TypeOK /\ TypeOK' /\ Api(r) \in Versions /\ gen[g] \in Nat
    BY <1>1, NextRoute, ApiVersion, Typed DEF RouteInv, TypeInv
  <2> DEFINE w == [Api(r) EXCEPT !.parents = Updated(Api(r), g)]
  <2>2. /\ Updated(Api(r), g) \in Seq(Entries)
        /\ Keep(Updated(Api(r), g), Entries \ OwnEntries(g))
             = Keep(Api(r).parents, Entries \ OwnEntries(g))
    BY <2>1, UpdatedEntries
  <2>3. w \in Versions /\ w.parents = Updated(Api(r), g)
    BY <2>1, <2>2, ChangedVersion
  <2>4. cache' = cache /\ stream' = [stream EXCEPT ![r] = Append(@, w)]
    <3>1. read[g] = Api(r)
      BY <1>1 DEF RouteInv, ReadInv, WriteRoute
    <3> QED
      BY <1>1, <3>1 DEF WriteRoute, Store
  <2> HIDE DEF w
  <2>5. Api(r)' = w
    BY <2>1, <2>3, <2>4, StoreStep
  <2> QED
    BY <2>2, <2>3, <2>5
<1>2. RouteInv /\ [Next]_vars =>
        [ \A g \in Gateways : \A r \in Routes :
            WriteRoute(g, r) =>
              Keep(Api(r)'.parents, Entries \ OwnEntries(g))
                = Keep(Api(r).parents, Entries \ OwnEntries(g)) ]_vars
  BY <1>1
<1> QED
  BY <1>2, InitRoute, NextRoute, PTL DEF Spec, OnlyOwnEntriesChange

(* Once all is at rest every Route says of every Gateway what the current  *)
(* Route and the current Gateway give, unless the Gateway's last run was   *)
(* cut short or the Route was created again in a gap of the watch: no      *)
(* stale cache, conflict, concurrent writer or change of a generation in   *)
(* the middle of a run leaves an entry behind.                             *)
THEOREM SettledRoutesHolds == Spec => []SettledRoutes
<1>1. RouteInv => SettledRoutes
  <2> SUFFICES ASSUME RouteInv, AtRest, NEW r \in Routes \ missed, NEW g \in Gateways \ aborted,
                      Api(r).gen > 0, gws[g] > 0
               PROVE  UpToDate(r, g)
    BY DEF SettledRoutes
  <2>1. TypeOK /\ stream[r] = <<>> /\ phase[g] = "idle"
    BY DEF RouteInv, TypeInv, AtRest
  <2>2. Api(r) = cache[r] /\ NoneOnTheWay(r)
    BY <2>1, NothingShown
  <2>3. Settling(r, g)
    BY <2>2 DEF RouteInv, AllSettling
  <2>4. ~Again(g)
    BY <2>1 DEF RouteInv, RunInv, Again
  <2> QED
    BY <2>1, <2>3, <2>4 DEF Settling
<1> QED
  BY <1>1, InitRoute, NextRoute, PTL DEF Spec
=============================================================================
