---------------------- MODULE ClassAndDecisions_proofs ----------------------
(***************************************************************************)
(* Theorems about two parts of the status writer.                          *)
(*                                                                         *)
(* Decisions: each operation computes what its reference definition says,  *)
(* for all arguments that the assumptions of that module admit, lists and  *)
(* hostnames of any length among them.                                     *)
(* GatewayClassProcessor, in the second half: for any number of attempts,  *)
(* conflict steps, edits and failures.                                     *)
(*                                                                         *)
(* The modules share no variable; CallSpec is the specification of the one *)
(* and Spec that of the other.                                             *)
(***************************************************************************)
EXTENDS Decisions, GatewayClassProcessor, SequenceTheorems, FiniteSetTheorems, TLAPS

Wf == INSTANCE WellFoundedInduction

(* A call is one of Calls, and what it has returned is its result.         *)
CallInv == call \in Calls /\ done \in BOOLEAN /\ (done => result = Result(call.op, call.arg))

LEMMA Computed == CallSpec => []CallInv
<1>1. CallInit => CallInv
  BY DEF CallInit, CallInv
<1>2. CallInv /\ [CallNext]_callVars => CallInv'
  <2> SUFFICES ASSUME CallInv, [CallNext]_callVars PROVE CallInv'
    OBVIOUS
  <2>1. CASE Evaluate
    BY <2>1, Zenon DEF CallInv, Evaluate
  <2>2. CASE UNCHANGED callVars
    BY <2>2, Zenon DEF CallInv, callVars
  <2> QED
    BY <2>1, <2>2 DEF CallNext
<1> QED
  BY <1>1, <1>2, PTL DEF CallSpec

(* A call has the arguments of its operation.                              *)
LEMMA Arguments ==
  ASSUME NEW c \in Calls
  PROVE  /\ c.op = "hostnames" => c.arg \in Hostnames \X Hostnames
         /\ c.op = "attach" => c.arg \in Attachments
         /\ c.op = "backend" => c.arg \in Backends
         /\ c.op = "grant" => c.arg \in GrantCalls
         /\ c.op = "validate" => c.arg \in Validations
         /\ c.op = "template" => c.arg \in Listings
         /\ c.op = "service" => c.arg \in ServiceApplies
  BY DEF Calls

-----------------------------------------------------------------------------
(***************************************************************************)
(* References.                                                             *)
(***************************************************************************)

(* The two copies of the ReferenceGrant rule agree on every grant, however *)
(* many entries it has: one loops over pairs of entries, one over each     *)
(* list for itself.                                                        *)
THEOREM GrantRulesAgreeHolds == CallSpec => []GrantRulesAgree
<1>1. ASSUME NEW c \in GrantCalls
      PROVE  GatewayReferenceGrantAllows(c.grant, c.ns, c.name)
               <=> ReferenceGrantAllows(c.grant, "Gateway", c.ns, "Secret", c.name)
  <2>1. \A f \in Range(c.grant.from) :
          f = [kind |-> "Gateway", ns |-> c.ns] <=> f.kind = "Gateway" /\ f.ns = c.ns
    BY GrantsAssumption
  <2> QED
    BY <2>1 DEF GatewayReferenceGrantAllows, ReferenceGrantAllows
<1>2. CallInv => GrantRulesAgree
  <2> SUFFICES ASSUME CallInv, Done("grant") PROVE GrantRulesAgree
    BY DEF GrantRulesAgree
  <2>1. call.arg \in GrantCalls
    BY Arguments DEF CallInv, Done
  <2>2. result = GatewayReferenceGrantAllows(call.arg.grant, call.arg.ns, call.arg.name)
    BY DEF CallInv, Done, Result
  <2> QED
    BY <1>1, <2>1, <2>2 DEF GrantRulesAgree
<1> QED
  BY <1>2, Computed, PTL

(* Validation and mounting read the certificate references of a Gateway in *)
(* two ways and agree: what passed is mounted, and what is mounted passed. *)
THEOREM ValidatedMeansMountedHolds == CallSpec => []ValidatedMeansMounted
<1>1. ASSUME NEW gw, NEW usable, ValidateGatewayTLSAssets(gw, usable)
      PROVE  /\ GatewayCertNames(gw) \subseteq usable
             /\ \A l \in Terminating(gw) :
                  /\ l.refs # <<>> /\ l.tls # "unset"
                  /\ \A ref \in Range(l.refs) : ref.name \in GatewayCertNames(gw)
  <2>1. \A ref \in Range(gw.backend) : UsableRef(ref, usable)
    BY <1>1 DEF ValidateGatewayTLSAssets
  <2>2. ASSUME NEW l \in Range(gw.listeners), l.protocol \in {"HTTPS", "TLS"},
               l.tls \notin {"unset", "Passthrough"}
        PROVE  l.refs # <<>> /\ \A ref \in Range(l.refs) : UsableRef(ref, usable)
    BY <1>1, <2>2 DEF ValidateGatewayTLSAssets, RequiresCertificateRefs, ListenerCertificateRefs
  <2>3. GatewayBackendTLSCertNames(gw) \subseteq usable
    BY <2>1 DEF GatewayBackendTLSCertNames, SecretObjectReferenceNames, UsableRef
  <2>4. ASSUME NEW l \in Range(gw.listeners) PROVE ListenerCertNames(l) \subseteq usable
    BY <2>2 DEF ListenerCertNames, SecretObjectReferenceNames, UsableRef
  <2>5. GatewayCertNames(gw) \subseteq usable
    BY <2>3, <2>4 DEF GatewayCertNames, GatewayTLSCertNames
  <2>6. ASSUME NEW l \in Terminating(gw)
        PROVE  /\ l.refs # <<>> /\ l.tls # "unset"
               /\ \A ref \in Range(l.refs) : ref.name \in GatewayCertNames(gw)
    <3>1. l \in Range(gw.listeners) /\ l.protocol \in {"HTTPS", "TLS"} /\ l.tls # "Passthrough"
      BY DEF Terminating
    <3>2. l.tls # "unset"
      BY <1>1, <3>1 DEF Terminating, ValidateGatewayTLSAssets, RequiresCertificateRefs,
                        ListenerCertificateRefs
    <3>3. l.refs # <<>> /\ \A ref \in Range(l.refs) : UsableRef(ref, usable)
      BY <2>2, <3>1, <3>2
    <3>4. \A ref \in Range(l.refs) : ref.name \in ListenerCertNames(l)
      BY <3>1, <3>2, <3>3 DEF ListenerCertNames, SecretObjectReferenceNames, UsableRef
    <3> QED
      BY <3>1, <3>2, <3>3, <3>4 DEF GatewayCertNames, GatewayTLSCertNames
  <2> QED
    BY <2>5, <2>6
<1>2. CallInv => ValidatedMeansMounted
  <2> SUFFICES ASSUME CallInv, Done("validate") PROVE ValidatedMeansMounted
    BY DEF ValidatedMeansMounted
  <2>1. result = ValidateGatewayTLSAssets(call.arg.gw, call.arg.usable)
    BY DEF CallInv, Done, Result
  <2> QED
    BY <1>1, <2>1 DEF ValidatedMeansMounted
<1> QED
  BY <1>2, Computed, PTL

-----------------------------------------------------------------------------
(***************************************************************************)
(* Hostnames.                                                              *)
(***************************************************************************)

(* The last labels of n are those of t.                                    *)
Ends(n, t) == Len(t) <= Len(n) /\ \A i \in 1 .. Len(t) : n[Len(n) - Len(t) + i] = t[i]

(* The code's test for a suffix.                                           *)
LEMMA SuffixMeansEnds ==
  ASSUME NEW s \in Seq(STRING), NEW t \in Seq(STRING)
  PROVE  IsSuffix(s, t) <=> Ends(t, s)
<1> DEFINE rs == Reverse(s)
           rt == Reverse(t)
           m  == Len(s)
           n  == Len(t)
<1>1. /\ m \in Nat /\ n \in Nat
      /\ rs \in Seq(STRING) /\ Len(rs) = m /\ \A i \in 1 .. m : rs[i] = s[m - i + 1]
      /\ rt \in Seq(STRING) /\ Len(rt) = n /\ \A i \in 1 .. n : rt[i] = t[n - i + 1]
  BY DEF Reverse
<1> HIDE DEF rs, rt
<1>2. IsSuffix(s, t) <=> m <= n /\ SubSeq(rs, 1, m) = SubSeq(rt, 1, m)
  BY <1>1 DEF IsSuffix, IsPrefix, rs, rt
<1>3. ASSUME m <= n
      PROVE  SubSeq(rs, 1, m) = SubSeq(rt, 1, m) <=> \A i \in 1 .. m : rs[i] = rt[i]
  <2>1. /\ SubSeq(rs, 1, m) \in Seq(STRING) /\ Len(SubSeq(rs, 1, m)) = m
        /\ \A i \in 1 .. m : SubSeq(rs, 1, m)[i] = rs[i]
    BY <1>1
  <2>2. /\ SubSeq(rt, 1, m) \in Seq(STRING) /\ Len(SubSeq(rt, 1, m)) = m
        /\ \A i \in 1 .. m : SubSeq(rt, 1, m)[i] = rt[i]
    BY <1>1, <1>3
  <2> QED
    BY <2>1, <2>2, SeqEqual
<1>4. ASSUME m <= n
      PROVE  (\A i \in 1 .. m : rs[i] = rt[i]) <=> \A i \in 1 .. m : t[n - m + i] = s[i]
  <2>1. ASSUME \A i \in 1 .. m : rs[i] = rt[i], NEW i \in 1 .. m
        PROVE  t[n - m + i] = s[i]
    <3>1. m - i + 1 \in 1 .. m /\ m - i + 1 \in 1 .. n
      BY <1>1, <1>4
    <3>2. rs[m - i + 1] = s[i] /\ rt[m - i + 1] = t[n - m + i]
      <4>1. m - (m - i + 1) + 1 = i /\ n - (m - i + 1) + 1 = n - m + i
        BY <1>1
      <4> QED
        BY <1>1, <3>1, <4>1
    <3> QED
      BY <2>1, <3>1, <3>2
  <2>2. ASSUME \A i \in 1 .. m : t[n - m + i] = s[i], NEW i \in 1 .. m
        PROVE  rs[i] = rt[i]
    <3>1. m - i + 1 \in 1 .. m /\ i \in 1 .. n /\ n - m + (m - i + 1) = n - i + 1
      BY <1>1, <1>4
    <3>2. t[n - i + 1] = s[m - i + 1]
      BY <2>2, <3>1
    <3> QED
      BY <1>1, <3>1, <3>2
  <2> QED
    BY <2>1, <2>2
<1> QED
  BY <1>2, <1>3, <1>4 DEF Ends

(* A wildcard stands for the names that end in what follows the "*" and    *)
(* are longer than that.                                                   *)
LEMMA WildcardDenotes ==
  ASSUME NEW h \in Seq(STRING), Wildcard(h), NEW n \in Names
  PROVE  /\ Tail(h) \in Seq(STRING) /\ Len(Tail(h)) = Len(h) - 1 /\ Len(h) > 1
         /\ n \in Denotes(h) <=> Len(n) >= Len(h) /\ Ends(n, Tail(h))
<1>1. /\ Len(h) \in Nat /\ Len(h) > 1 /\ Tail(h) \in Seq(STRING) /\ Len(Tail(h)) = Len(h) - 1
      /\ n \in Seq(STRING) /\ Len(n) \in Nat
  BY NamesAssumption DEF Wildcard
<1> DEFINE t == Tail(h)
           e == SubSeq(n, Len(n) - Len(h) + 2, Len(n))
<1>2. ASSUME Len(n) >= Len(h) PROVE e = t <=> Ends(n, t)
  <2> DEFINE a == Len(n) - Len(h) + 2
  <2>1. a \in 1 .. Len(n) /\ Len(n) - a + 1 = Len(t)
    BY <1>1, <1>2
  <2>2. e \in Seq(STRING) /\ Len(e) = Len(t) /\ \A i \in 1 .. Len(t) : e[i] = n[a + i - 1]
    BY <1>1, <2>1, SubSeqProperties
  <2>3. \A i \in 1 .. Len(t) : a + i - 1 = Len(n) - Len(t) + i
    BY <1>1
  <2>4. e = t <=> \A i \in 1 .. Len(t) : e[i] = t[i]
    BY <1>1, <2>2, SeqEqual
  <2> HIDE DEF e, t, a
  <2>5. (\A i \in 1 .. Len(t) : e[i] = t[i])
          <=> \A i \in 1 .. Len(t) : n[Len(n) - Len(t) + i] = t[i]
    BY <2>2, <2>3
  <2>6. Len(t) <= Len(n)
    BY <1>1, <1>2 DEF t
  <2> QED
    BY <2>4, <2>5, <2>6 DEF Ends
<1>3. n \in Denotes(h) <=> Len(n) >= Len(h) /\ e = t
  BY DEF Denotes
<1> QED
  BY <1>1, <1>2, <1>3

LEMMA EndsFacts ==
  ASSUME NEW n \in Seq(STRING), NEW t \in Seq(STRING), NEW u \in Seq(STRING)
  PROVE  /\ Ends(n, t) /\ Len(n) = Len(t) => n = t
         /\ Ends(n, u) /\ Ends(u, t) => Ends(n, t)
         /\ Ends(n, u) /\ Ends(n, t) /\ Len(t) <= Len(u) => Ends(u, t)
<1>0. Len(n) \in Nat /\ Len(t) \in Nat /\ Len(u) \in Nat
  OBVIOUS
<1>1. ASSUME Ends(n, t), Len(n) = Len(t) PROVE n = t
  <2>1. \A i \in 1 .. Len(t) : Len(n) - Len(t) + i = i
    BY <1>0, <1>1
  <2> QED
    BY <1>1, <2>1, SeqEqual DEF Ends
<1>2. ASSUME Ends(n, u), Ends(u, t), NEW i \in 1 .. Len(t)
      PROVE  n[Len(n) - Len(t) + i] = t[i]
  <2> DEFINE j == Len(u) - Len(t) + i
  <2>1. j \in 1 .. Len(u) /\ Len(n) - Len(u) + j = Len(n) - Len(t) + i
    BY <1>0, <1>2 DEF Ends
  <2>2. u[j] = t[i]
    BY <1>2 DEF Ends
  <2> HIDE DEF j
  <2>3. n[Len(n) - Len(u) + j] = u[j]
    BY <1>2, <2>1 DEF Ends
  <2> QED
    BY <2>1, <2>2, <2>3
<1>3. ASSUME Ends(n, u), Ends(n, t), Len(t) <= Len(u), NEW i \in 1 .. Len(t)
      PROVE  u[Len(u) - Len(t) + i] = t[i]
  <2> DEFINE j == Len(u) - Len(t) + i
  <2>1. j \in 1 .. Len(u) /\ Len(n) - Len(u) + j = Len(n) - Len(t) + i
    BY <1>0, <1>3
  <2> HIDE DEF j
  <2>2. n[Len(n) - Len(u) + j] = u[j]
    BY <1>3, <2>1 DEF Ends
  <2>3. n[Len(n) - Len(t) + i] = t[i]
    BY <1>3 DEF Ends
  <2> QED
    BY <2>1, <2>2, <2>3 DEF j
<1> QED
  BY <1>0, <1>1, <1>2, <1>3 DEF Ends

(* Ends speaks of a wildcard's labels as well as of those after the "*".   *)
LEMMA EndsTail ==
  ASSUME NEW h \in Seq(STRING), Len(h) > 1, NEW t \in Seq(STRING)
  PROVE  Ends(Tail(h), t) <=> Ends(h, t) /\ h # t
<1>1. /\ Tail(h) \in Seq(STRING) /\ Len(Tail(h)) = Len(h) - 1
      /\ \A i \in 1 .. Len(h) - 1 : Tail(h)[i] = h[i + 1]
      /\ Len(h) \in Nat /\ Len(t) \in Nat
  OBVIOUS
<1>2. ASSUME Len(t) <= Len(h) - 1, NEW i \in 1 .. Len(t)
      PROVE  Tail(h)[Len(Tail(h)) - Len(t) + i] = h[Len(h) - Len(t) + i]
  <2>1. /\ Len(Tail(h)) - Len(t) + i \in 1 .. Len(h) - 1
        /\ Len(Tail(h)) - Len(t) + i + 1 = Len(h) - Len(t) + i
    BY <1>1, <1>2
  <2> QED
    BY <1>1, <2>1
<1>3. ASSUME Ends(Tail(h), t) PROVE Ends(h, t) /\ h # t
  <2>1. Len(t) <= Len(h) - 1
    BY <1>1, <1>3 DEF Ends
  <2> QED
    BY <1>1, <1>2, <1>3, <2>1 DEF Ends
<1>4. ASSUME Ends(h, t), h # t PROVE Ends(Tail(h), t)
  <2>1. Len(t) <= Len(h) - 1
    <3>1. Len(h) # Len(t)
      BY <1>4, EndsFacts
    <3> QED
      BY <1>1, <1>4, <3>1 DEF Ends
  <2> QED
    BY <1>1, <1>2, <1>4, <2>1 DEF Ends
<1> QED
  BY <1>3, <1>4

(* A hostname that another one covers stands for names of the other.       *)
LEMMA CoveredDenotes ==
  ASSUME NEW a \in Hostnames, NEW b \in Hostnames, Covers(a, b)
  PROVE  Denotes(b) \subseteq Denotes(a)
<1>1. /\ a \in Seq(STRING) /\ b \in Seq(STRING) /\ Wildcard(a)
      /\ Names \subseteq Seq(STRING) /\ Names # {}
  BY NamesAssumption DEF Covers
<1>2. Tail(a) \in Seq(STRING) /\ Len(Tail(a)) = Len(a) - 1 /\ Len(a) > 1 /\ Len(a) \in Nat
  BY <1>1, WildcardDenotes
<1>3. Ends(b, Tail(a)) /\ b # Tail(a)
  BY <1>1, <1>2, SuffixMeansEnds DEF Covers
<1> SUFFICES ASSUME NEW n \in Denotes(b) PROVE n \in Denotes(a)
  OBVIOUS
<1>4. n \in Names /\ n \in Seq(STRING) /\ Len(n) \in Nat
  BY <1>1 DEF Denotes
<1>5. CASE Wildcard(b)
  <2>1. /\ Tail(b) \in Seq(STRING) /\ Len(Tail(b)) = Len(b) - 1 /\ Len(b) > 1
        /\ Len(n) >= Len(b) /\ Ends(n, Tail(b))
    BY <1>1, <1>4, <1>5, WildcardDenotes
  <2>2. Ends(Tail(b), Tail(a))
    BY <1>1, <1>2, <1>3, <2>1, EndsTail
  <2>3. Ends(n, Tail(a)) /\ Len(Tail(a)) <= Len(Tail(b))
    BY <1>2, <1>4, <2>1, <2>2, EndsFacts DEF Ends
  <2>4. Len(n) >= Len(a)
    BY <1>1, <1>2, <1>4, <2>1, <2>3
  <2> QED
    BY <1>1, <1>4, <2>3, <2>4, WildcardDenotes
<1>6. CASE ~Wildcard(b)
  <2>1. b # <<>>
    BY <1>2, <1>3 DEF Ends
  <2>2. n = b
    BY <1>6, <2>1 DEF Denotes
  <2>3. Len(b) >= Len(Tail(a))
    BY <1>3 DEF Ends
  <2>4. Len(b) # Len(Tail(a))
    BY <1>1, <1>2, <1>3, EndsFacts
  <2>5. Len(b) >= Len(a)
    <3> DEFINE t == Tail(a)
    <3>1. Len(b) \in Nat
      BY <1>1
    <3>2. /\ Len(a) \in Nat /\ Len(t) = Len(a) - 1
          /\ Len(b) >= Len(t) /\ Len(b) # Len(t)
      BY <1>2, <2>3, <2>4, Zenon
    <3> HIDE DEF t
    <3> QED
      BY <3>1, <3>2
  <2> QED
    BY <1>1, <1>3, <1>4, <2>2, <2>5, WildcardDenotes
<1> QED
  BY <1>5, <1>6

(* A wildcard that shares a name with a hostname that is exact, or not     *)
(* shorter, covers it.                                                     *)
LEMMA SharedIsCovered ==
  ASSUME NEW a \in Hostnames, NEW b \in Hostnames, Wildcard(a), b # <<>>,
         ~Wildcard(b) \/ Len(a) <= Len(b),
         NEW n \in Denotes(a) \cap Denotes(b)
  PROVE  Covers(a, b)
<1>1. /\ a \in Seq(STRING) /\ b \in Seq(STRING)
      /\ n \in Names /\ n \in Seq(STRING) /\ Len(n) \in Nat /\ Len(b) \in Nat
  BY NamesAssumption DEF Denotes
<1>2. /\ Tail(a) \in Seq(STRING) /\ Len(Tail(a)) = Len(a) - 1 /\ Len(a) > 1 /\ Len(a) \in Nat
      /\ Len(n) >= Len(a) /\ Ends(n, Tail(a))
  BY <1>1, WildcardDenotes
<1>3. Ends(b, Tail(a)) /\ b # Tail(a)
  <2>1. CASE ~Wildcard(b)
    <3>1. n = b
      BY <2>1 DEF Denotes
    <3> QED
      BY <1>2, <3>1
  <2>2. CASE Wildcard(b)
    <3>1. /\ Tail(b) \in Seq(STRING) /\ Len(Tail(b)) = Len(b) - 1 /\ Len(b) > 1
          /\ Ends(n, Tail(b))
      BY <1>1, <2>2, WildcardDenotes
    <3>2. Len(Tail(a)) <= Len(Tail(b))
      BY <1>1, <1>2, <2>2, <3>1
    <3>3. Ends(Tail(b), Tail(a))
      BY <1>1, <1>2, <3>1, <3>2, EndsFacts
    <3> QED
      BY <1>1, <1>2, <3>1, <3>3, EndsTail
  <2> QED
    BY <2>1, <2>2
<1> QED
  BY <1>1, <1>2, <1>3, SuffixMeansEnds DEF Covers

LEMMA HostnamesMeet ==
  ASSUME NEW a \in Hostnames, NEW b \in Hostnames
  PROVE  HostnamesIntersect(a, b) <=> Denotes(a) \cap Denotes(b) # {}
<1>1. /\ a \in Seq(STRING) /\ b \in Seq(STRING) /\ Len(a) \in Nat /\ Len(b) \in Nat
      /\ Denotes(a) # {} /\ Denotes(b) # {}
      /\ Denotes(a) \subseteq Names /\ Denotes(b) \subseteq Names
  BY NamesAssumption DEF Denotes
<1>2. ASSUME HostnamesIntersect(a, b) PROVE Denotes(a) \cap Denotes(b) # {}
  <2>1. CASE a = b
    BY <1>1, <2>1
  <2>2. CASE a = <<>> \/ b = <<>>
    <3>1. \A h : h = <<>> => Denotes(h) = Names
      BY DEF Denotes, Wildcard
    <3> QED
      BY <1>1, <2>2, <3>1
  <2>3. CASE Covers(a, b)
    BY <1>1, <2>3, CoveredDenotes
  <2>4. CASE Covers(b, a)
    BY <1>1, <2>4, CoveredDenotes
  <2> QED
    BY <1>2, <2>1, <2>2, <2>3, <2>4 DEF HostnamesIntersect
<1>3. ASSUME NEW n \in Denotes(a) \cap Denotes(b), a # <<>>, b # <<>>
      PROVE  HostnamesIntersect(a, b)
  <2>1. CASE ~Wildcard(a) /\ ~Wildcard(b)
    <3>1. n = a /\ n = b
      BY <1>3, <2>1 DEF Denotes
    <3> QED
      BY <3>1 DEF HostnamesIntersect
  <2>2. CASE Wildcard(a) /\ (~Wildcard(b) \/ Len(a) <= Len(b))
    BY <1>3, <2>2, SharedIsCovered DEF HostnamesIntersect
  <2>3. CASE Wildcard(b) /\ (~Wildcard(a) \/ Len(b) <= Len(a))
    BY <1>3, <2>3, SharedIsCovered DEF HostnamesIntersect
  <2> QED
    BY <1>1, <2>1, <2>2, <2>3
<1> QED
  BY <1>2, <1>3 DEF HostnamesIntersect

(* hostnamesIntersect is the intersection of what two hostnames stand for, *)
(* for any labels and any number of them.                                  *)
THEOREM HostnamesIntersectHolds == CallSpec => []HostnamesIntersectIsSetIntersection
<1>1. CallInv => HostnamesIntersectIsSetIntersection
  <2> SUFFICES ASSUME CallInv, Done("hostnames") PROVE HostnamesIntersectIsSetIntersection
    BY DEF HostnamesIntersectIsSetIntersection
  <2>1. call.arg[1] \in Hostnames /\ call.arg[2] \in Hostnames
    BY Arguments DEF CallInv, Done
  <2>2. result = HostnamesIntersect(call.arg[1], call.arg[2])
    BY DEF CallInv, Done, Result
  <2> QED
    BY <2>1, <2>2, HostnamesMeet DEF HostnamesIntersectIsSetIntersection
<1> QED
  BY <1>1, Computed, PTL

-----------------------------------------------------------------------------
(***************************************************************************)
(* Attachment.                                                             *)
(***************************************************************************)

(* The protocol test of routeAcceptedByGateway and the kinds that the      *)
(* listener's status advertises agree.                                     *)
LEMMA SupportedMeansAdvertised ==
  ASSUME NEW protocol, NEW kind
  PROVE  ListenerSupportsRouteKind(protocol, kind) <=> kind \in SupportedKindsForProtocol(protocol)
  BY DEF ListenerSupportsRouteKind, SupportedKindsForProtocol

LEMMA AllowsMeansPolicy ==
  ASSUME NEW l, NEW gwNs, NEW ns, NEW kind
  PROVE  ListenerAllowsRoute(l, gwNs, ns, kind) <=>
           /\ l.kinds = {} \/ kind \in l.kinds
           /\ \/ l.from = "All"
              \/ l.from \in {Nil, "Same"} /\ ns = gwNs
              \/ l.from = "Selector" /\ ns \in l.selected
  BY NilAssumption DEF ListenerAllowsRoute

(* The hostname test finds out whether a request can carry a name that     *)
(* both the listener and the Route take.                                   *)
LEMMA IntersectMeansReaching ==
  ASSUME NEW c \in Attachments, NEW l \in Range(c.gw.listeners)
  PROVE  RouteHostnamesIntersect(l.hostname, c.route.hostnames) <=> Reaching(l, c.route) # {}
<1> DEFINE hs == c.route.hostnames
           lh == l.hostname
<1>1. lh \in Hostnames \cup {Nil} /\ hs \subseteq Hostnames
  BY AttachmentsAssumption
<1>2. Names # {} /\ \A h \in Hostnames : Denotes(h) # {} /\ Denotes(h) \subseteq Names
  BY NamesAssumption DEF Denotes
<1>3. \A n : n \in Reaching(l, c.route) <=>
        /\ n \in Names
        /\ lh = Nil \/ n \in Denotes(lh)
        /\ hs = {} \/ \E h \in hs : n \in Denotes(h)
  BY DEF Reaching
<1>4. RouteHostnamesIntersect(lh, hs) <=>
        lh = Nil \/ hs = {} \/ \E h \in hs : HostnamesIntersect(lh, h)
  BY DEF RouteHostnamesIntersect
<1> HIDE DEF hs, lh
<1>5. CASE lh = Nil
  <2>1. CASE hs = {}
    <3>1. PICK n : n \in Names
      BY <1>2
    <3>2. n \in Reaching(l, c.route)
      BY <1>3, <1>5, <2>1, <3>1
    <3> QED
      BY <1>4, <1>5, <3>2 DEF hs, lh
  <2>2. ASSUME NEW h \in hs PROVE Reaching(l, c.route) # {}
    <3>1. PICK n : n \in Denotes(h) /\ n \in Names
      BY <1>1, <1>2
    <3> QED
      BY <1>3, <1>5, <3>1
  <2> QED
    BY <1>4, <1>5, <2>1, <2>2 DEF hs, lh
<1>6. CASE lh # Nil /\ hs = {}
  <2>1. PICK n : n \in Denotes(lh) /\ n \in Names
    BY <1>1, <1>2, <1>6
  <2> QED
    BY <1>3, <1>4, <1>6, <2>1 DEF hs, lh
<1>7. CASE lh # Nil /\ hs # {}
  <2>1. \A h \in hs : HostnamesIntersect(lh, h) <=> \E n : n \in Denotes(lh) /\ n \in Denotes(h)
    BY <1>1, <1>7, HostnamesMeet
  <2>2. \A n : n \in Reaching(l, c.route) <=> n \in Denotes(lh) /\ \E h \in hs : n \in Denotes(h)
    BY <1>1, <1>2, <1>3, <1>7
  <2>3. RouteHostnamesIntersect(lh, hs) <=> \E h \in hs : HostnamesIntersect(lh, h)
    BY <1>4, <1>7
  <2> HIDE DEF HostnamesIntersect
  <2>4. RouteHostnamesIntersect(lh, hs) <=> \E n : n \in Reaching(l, c.route)
    BY <2>1, <2>2, <2>3
  <2> QED
    BY <2>4 DEF hs, lh
<1> QED
  BY <1>5, <1>6, <1>7

(* A Route is accepted exactly if some request can reach it through some   *)
(* listener of the Gateway it names, for any listeners, hostnames and      *)
(* namespace policies.                                                     *)
THEOREM AcceptedMeansReachableHolds == CallSpec => []AcceptedMeansReachable
<1>1. ASSUME NEW c \in Attachments
      PROVE  RouteAcceptedByGateway(c.ref, c.route, c.gw) = "Accepted" <=>
               \E l \in Range(c.gw.listeners) : Attaches(c.ref, c.route, c.gw, l)
  <2> DEFINE matched == {l \in Range(c.gw.listeners) : MatchesSection(c.ref, l, c.route.kind)}
             meeting == {l \in matched : RouteHostnamesIntersect(l.hostname, c.route.hostnames)}
             Admits(l) == ListenerAllowsRoute(l, c.gw.ns, c.route.ns, c.route.kind)
  <2>1. RouteAcceptedByGateway(c.ref, c.route, c.gw) = "Accepted" <=> \E l \in meeting : Admits(l)
    BY DEF RouteAcceptedByGateway
  <2>2. ASSUME NEW l \in Range(c.gw.listeners)
        PROVE  l \in meeting /\ Admits(l) <=> Attaches(c.ref, c.route, c.gw, l)
    BY SupportedMeansAdvertised, AllowsMeansPolicy, IntersectMeansReaching
       DEF MatchesSection, Attaches
  <2> QED
    BY <2>1, <2>2
<1>2. ASSUME NEW c \in Attachments
      PROVE  ParentRefMatchesGateway(c.ref, c.route.ns, c.gw) <=>
               /\ c.ref.name = c.gw.name /\ c.ref.kind # "Other"
               /\ c.ref.ns = c.gw.ns \/ (c.ref.ns = Nil /\ c.route.ns = c.gw.ns)
  <2>1. c.ref.kind \in {Nil, "Gateway", "Other"} /\ c.gw.ns # Nil /\ Nil # "Other"
    BY AttachmentsAssumption, NilAssumption
  <2> QED
    BY <2>1 DEF ParentRefMatchesGateway
<1>3. CallInv => AcceptedMeansReachable
  <2> SUFFICES ASSUME CallInv, Done("attach") PROVE AcceptedMeansReachable
    BY DEF AcceptedMeansReachable
  <2>1. call.arg \in Attachments
    BY Arguments DEF CallInv, Done
  <2>2. result = RouteParentStatus(call.arg.ref, call.arg.route, call.arg.gw)
    BY DEF CallInv, Done, Result
  <2>3. Nil # "Accepted"
    BY NilAssumption
  <2> QED
    BY <1>1, <1>2, <2>1, <2>2, <2>3 DEF AcceptedMeansReachable, RouteParentStatus
<1> QED
  BY <1>3, Computed, PTL

-----------------------------------------------------------------------------
(***************************************************************************)
(* Backend references.                                                     *)
(***************************************************************************)
Before == {p \in Nat \X Nat : p[1] < p[2]}

LEMMA LeastNumber ==
  ASSUME NEW T, T \subseteq Nat, T # {}
  PROVE  \E x \in T : \A y \in T : x <= y
<1>1. Wf!OpToRel(<, Nat) = Before
  BY DEF Wf!OpToRel, Before
<1>2. Wf!IsWellFoundedOn(Before, Nat)
  BY <1>1, Wf!NatLessThanWellFounded
<1>3. PICK x \in T : \A y \in T : ~(<<y, x>> \in Before)
  BY <1>2, Wf!WFMin
<1>4. ASSUME NEW y \in T PROVE x <= y
  <2>1. x \in Nat /\ y \in Nat
    OBVIOUS
  <2>2. y < x => <<y, x>> \in Before
    BY <2>1 DEF Before
  <2> QED
    BY <1>3, <2>1, <2>2
<1> QED
  BY <1>4

(* Of several places in a list of lists one comes first.                   *)
LEMMA FirstPlace ==
  ASSUME NEW B, B \subseteq Nat \X Nat, B # {}
  PROVE  \E p \in B : \A q \in B : NotAfter(p, q)
<1> DEFINE R == {p[1] : p \in B}
<1>1. R \subseteq Nat /\ R # {}
  OBVIOUS
<1>2. PICK i \in R : \A k \in R : i <= k
  BY <1>1, LeastNumber
<1> DEFINE S == {p[2] : p \in {q \in B : q[1] = i}}
<1>3. S \subseteq Nat /\ S # {}
  OBVIOUS
<1>4. PICK j \in S : \A k \in S : j <= k
  BY <1>3, LeastNumber
<1>5. PICK p \in B : p[1] = i /\ p[2] = j
  OBVIOUS
<1>6. ASSUME NEW q \in B PROVE NotAfter(p, q)
  <2>1. q[1] \in Nat /\ q[2] \in Nat /\ i \in Nat /\ j \in Nat
    BY <1>1, <1>3
  <2>2. i <= q[1]
    BY <1>2
  <2>3. q[1] = i => j <= q[2]
    BY <1>4
  <2> QED
    BY <1>5, <2>1, <2>2, <2>3 DEF NotAfter
<1> QED
  BY <1>6

(* A reference resolves exactly if its backend exists and may be used.     *)
LEMMA ResolvedMeansExists ==
  ASSUME NEW c \in Backends, NEW ref
  PROVE  BackendRefStatus(c, ref) = "ResolvedRefs" <=> BackendExists(c, ref)
<1> DEFINE ns  == IF ref.ns = Nil THEN c.ns ELSE ref.ns
           key == [ns |-> ns, name |-> ref.name]
           HasPort == ref.port # Nil /\ key \in DOMAIN c.services /\ ref.port \in c.services[key]
           May == ReferencePermitted(c.grants, c.kind, c.ns, ns, ref.name)
<1>1. BackendRefStatus(c, ref) = "ResolvedRefs" <=> ref.kind = "Service" /\ May /\ HasPort
  BY DEF BackendRefStatus
<1>2. May <=> (ns # c.ns => \E g \in c.grants : g.ns = ns
           /\ [kind |-> c.kind, ns |-> c.ns] \in Range(g.from)
           /\ \E t \in Range(g.to) : t.kind = "Service" /\ t.name \in {Nil, ref.name})
  BY DEF ReferencePermitted, ReferenceGrantAllows, GrantsTo
<1>3. \A k \in DOMAIN c.services : k = [ns |-> k.ns, name |-> k.name] /\ Nil \notin c.services[k]
  BY BackendsAssumption
<1>4. \A k \in DOMAIN c.services : k.ns = ns /\ k.name = ref.name <=> k = key
  BY <1>3
<1>5. key \in DOMAIN c.services => key.ns = ns /\ key.name = ref.name
  OBVIOUS
<1> HIDE DEF key
<1>6. HasPort <=> \E k \in DOMAIN c.services :
                    k.ns = ns /\ k.name = ref.name /\ ref.port \in c.services[k]
  BY <1>3, <1>4, <1>5
<1> QED
  BY <1>1, <1>2, <1>6 DEF BackendExists

(* ResolvedRefs=True exactly if every reference of every rule is to a      *)
(* Service port that exists and may be referred to, for any number of      *)
(* rules and references in them.                                           *)
THEOREM ResolvedMeansAllExistHolds == CallSpec => []ResolvedMeansAllExist
<1>1. ASSUME NEW c \in Backends
      PROVE  BackendRefsResolved(c) = "ResolvedRefs" <=>
               \A ref \in UNION {Range(rule) : rule \in Range(c.rules)} : BackendExists(c, ref)
  <2> DEFINE Status(p) == BackendRefStatus(c, c.rules[p[1]][p[2]])
             bad == {p \in BackendObjectRefs(c.rules) : Status(p) # "ResolvedRefs"}
             first == CHOOSE p \in bad : \A q \in bad : NotAfter(p, q)
  <2>1. /\ DOMAIN c.rules \subseteq Nat
        /\ \A i \in DOMAIN c.rules : DOMAIN c.rules[i] \subseteq Nat
    BY BackendsAssumption
  <2>2. bad \subseteq Nat \X Nat
    BY <2>1 DEF BackendObjectRefs
  <2>3. bad # {} => first \in bad
    <3> HIDE DEF bad
    <3> QED
      BY <2>2, FirstPlace
  <2>4. BackendRefsResolved(c) = IF bad = {} THEN "ResolvedRefs" ELSE Status(first)
    BY DEF BackendRefsResolved
  <2>5. BackendRefsResolved(c) = "ResolvedRefs" <=> bad = {}
    <3>1. bad # {} => Status(first) # "ResolvedRefs"
      BY <2>3
    <3> HIDE DEF bad, first
    <3> QED
      BY <2>4, <3>1
  <2>6. ASSUME bad = {}, NEW ref \in UNION {Range(rule) : rule \in Range(c.rules)}
        PROVE  BackendExists(c, ref)
    <3>1. PICK i \in DOMAIN c.rules : ref \in Range(c.rules[i])
      BY <2>6 DEF Range
    <3>2. PICK j \in DOMAIN c.rules[i] : ref = c.rules[i][j]
      BY <3>1 DEF Range
    <3>3. <<i, j>> \in BackendObjectRefs(c.rules)
      BY DEF BackendObjectRefs
    <3>4. Status(<<i, j>>) = "ResolvedRefs"
      BY <2>6, <3>3
    <3> QED
      BY <3>2, <3>4, ResolvedMeansExists
  <2>7. ASSUME NEW p \in bad
        PROVE  \E ref \in UNION {Range(rule) : rule \in Range(c.rules)} : ~BackendExists(c, ref)
    <3>1. PICK i \in DOMAIN c.rules : p \in {i} \X DOMAIN c.rules[i]
      BY DEF BackendObjectRefs
    <3>2. p[1] = i /\ p[2] \in DOMAIN c.rules[i]
      BY <3>1
    <3>3. /\ c.rules[i][p[2]] \in Range(c.rules[i])
          /\ c.rules[i] \in Range(c.rules)
      BY <3>2 DEF Range
    <3>4. BackendRefStatus(c, c.rules[i][p[2]]) # "ResolvedRefs"
      BY <3>2
    <3>5. ~BackendExists(c, c.rules[i][p[2]])
      BY <3>4, ResolvedMeansExists
    <3> QED
      BY <3>3, <3>5
  <2> HIDE DEF bad
  <2> QED
    BY <2>5, <2>6, <2>7
<1>2. CallInv => ResolvedMeansAllExist
  <2> SUFFICES ASSUME CallInv, Done("backend") PROVE ResolvedMeansAllExist
    BY DEF ResolvedMeansAllExist
  <2>1. call.arg \in Backends
    BY Arguments DEF CallInv, Done
  <2>2. result = BackendRefsResolved(call.arg)
    BY DEF CallInv, Done, Result
  <2> QED
    BY <1>1, <2>1, <2>2 DEF ResolvedMeansAllExist
<1> QED
  BY <1>2, Computed, PTL

-----------------------------------------------------------------------------
(***************************************************************************)
(* Sorted lists.                                                           *)
(***************************************************************************)
LEMMA NumberInduction ==
  ASSUME NEW T, T \subseteq Nat, 0 \in T, \A n \in T : n + 1 \in T
  PROVE  T = Nat
<1> SUFFICES ASSUME T # Nat PROVE FALSE
  OBVIOUS
<1>1. Nat \ T \subseteq Nat /\ Nat \ T # {}
  OBVIOUS
<1>2. PICK x \in Nat \ T : \A y \in Nat \ T : x <= y
  BY <1>1, LeastNumber
<1>3. x - 1 \in T /\ x # 0
  BY <1>2
<1> QED
  BY <1>2, <1>3

(* s lists n elements of S, smallest first.                                *)
Lists(s, n, S) == s \in [1 .. n -> S] /\ \A i, j \in 1 .. n : i < j => s[i] < s[j]

(* Every finite set of numbers has such a list: its least element, then    *)
(* the list of the others.                                                 *)
LEMMA ListExists ==
  ASSUME NEW S, S \subseteq Nat, IsFiniteSet(S)
  PROVE  \E s : Lists(s, Cardinality(S), S)
<1> DEFINE N == {n \in Nat : \A T \in SUBSET Nat :
                   IsFiniteSet(T) /\ Cardinality(T) = n => \E s : Lists(s, n, T)}
<1>1. 0 \in N
  <2> SUFFICES ASSUME NEW T \in SUBSET Nat PROVE \E s : Lists(s, 0, T)
    OBVIOUS
  <2> DEFINE s == [i \in 1 .. 0 |-> 0]
  <2>1. s \in [1 .. 0 -> T] /\ 1 .. 0 = {}
    OBVIOUS
  <2> HIDE DEF s
  <2>2. Lists(s, 0, T)
    BY <2>1 DEF Lists
  <2> QED
    BY <2>2
<1>2. ASSUME NEW n \in N PROVE n + 1 \in N
  <2>0. n \in Nat
    OBVIOUS
  <2> SUFFICES ASSUME NEW T \in SUBSET Nat, IsFiniteSet(T), Cardinality(T) = n + 1
               PROVE  \E s : Lists(s, n + 1, T)
    BY <2>0
  <2>1. T # {}
    BY <2>0, FS_EmptySet
  <2>2. PICK x \in T : \A y \in T : x <= y
    BY <2>1, LeastNumber
  <2>3. IsFiniteSet(T \ {x}) /\ Cardinality(T \ {x}) = n
    <3>1. IsFiniteSet(T \ {x}) /\ Cardinality(T \ {x}) = Cardinality(T) - 1
      BY FS_RemoveElement
    <3>2. Cardinality(T) - 1 = n
      BY <2>0
    <3> QED
      BY <3>1, <3>2
  <2>4. PICK t : Lists(t, n, T \ {x})
    BY <2>3
  <2> DEFINE s == [i \in 1 .. n + 1 |-> IF i = 1 THEN x ELSE t[i - 1]]
  <2>5. \A i \in 1 .. n + 1 : i # 1 => i - 1 \in 1 .. n /\ t[i - 1] \in T \ {x}
    BY <2>0, <2>4 DEF Lists
  <2>6. s \in [1 .. n + 1 -> T]
    BY <2>5
  <2>7. ASSUME NEW i \in 1 .. n + 1, NEW j \in 1 .. n + 1, i < j PROVE s[i] < s[j]
    <3>1. j # 1 /\ s[j] = t[j - 1] /\ j - 1 \in 1 .. n /\ t[j - 1] \in T \ {x}
      BY <2>0, <2>5, <2>7
    <3>2. CASE i = 1
      <4>1. s[i] = x /\ x \in Nat /\ t[j - 1] \in Nat /\ x <= t[j - 1] /\ t[j - 1] # x
        BY <2>2, <3>1, <3>2
      <4> QED
        BY <3>1, <4>1
    <3>3. CASE i # 1
      <4>1. s[i] = t[i - 1] /\ i - 1 \in 1 .. n /\ i - 1 < j - 1
        BY <2>0, <2>5, <2>7, <3>3
      <4>2. t[i - 1] < t[j - 1]
        BY <2>4, <3>1, <4>1 DEF Lists
      <4> QED
        BY <3>1, <4>1, <4>2
    <3> QED
      BY <3>2, <3>3
  <2> HIDE DEF s
  <2> QED
    BY <2>6, <2>7 DEF Lists
<1>3. N = Nat
  BY <1>1, <1>2, NumberInduction
<1>4. Cardinality(S) \in N
  BY <1>3, FS_CardinalityType
<1> QED
  BY <1>4

(* What Ascending returns has every element of the set, once.              *)
LEMMA AscendingLists ==
  ASSUME NEW S, S \subseteq Nat, IsFiniteSet(S)
  PROVE  LET s == Ascending(S)
         IN  /\ s \in [DOMAIN s -> S] /\ Range(s) = S
             /\ \A i, j \in DOMAIN s : s[i] = s[j] => i = j
<1> DEFINE n == Cardinality(S)
           s == Ascending(S)
<1>1. n \in Nat
  BY FS_CardinalityType
<1>2. \A t \in [1 .. n -> S] : Len(t) = n /\ DOMAIN t = 1 .. n
  BY <1>1
<1>3. \A t : Lists(t, n, S) <=> t \in SetToSeqs(S) /\ IsSorted(t, <)
  <2>1. ASSUME NEW t, Lists(t, n, S) PROVE t \in SetToSeqs(S) /\ IsSorted(t, <)
    <3>1. t \in [1 .. n -> S] /\ \A i, j \in 1 .. n : i < j => t[i] < t[j]
      BY <2>1 DEF Lists
    <3>2. ASSUME NEW i \in 1 .. n, NEW j \in 1 .. n, i # j PROVE t[i] # t[j]
      <4>1. i < j \/ j < i
        BY <1>1, <3>2
      <4>2. t[i] \in Nat /\ t[j] \in Nat
        BY <3>1
      <4> QED
        BY <3>1, <4>1, <4>2
    <3> QED
      BY <1>2, <3>1, <3>2 DEF SetToSeqs, IsSorted
  <2>2. ASSUME NEW t, t \in SetToSeqs(S), IsSorted(t, <) PROVE Lists(t, n, S)
    <3>1. t \in [1 .. n -> S]
      BY <2>2 DEF SetToSeqs
    <3> QED
      BY <1>2, <2>2, <3>1 DEF IsSorted, Lists
  <2> QED
    BY <2>1, <2>2
<1>4. s \in SetToSeqs(S)
  BY <1>3, ListExists DEF Ascending
<1>5. s \in [1 .. n -> S] /\ \A i, j \in 1 .. n : s[i] = s[j] => i = j
  BY <1>4 DEF SetToSeqs
<1> HIDE DEF s
<1>6. s \in Injection(1 .. n, S)
  BY <1>5 DEF Injection, IsInjective
<1>7. IsFiniteSet(1 .. n) /\ Cardinality(1 .. n) = n
  BY <1>1, FS_Interval
<1>8. s \in Surjection(1 .. n, S)
  BY <1>6, <1>7, FS_Injection
<1>9. \A x \in S : \E i \in 1 .. n : s[i] = x
  BY <1>8 DEF Surjection
<1>10. Range(s) = S
  <2>1. DOMAIN s = 1 .. n /\ \A i \in 1 .. n : s[i] \in S
    BY <1>5
  <2>2. Range(s) = {s[i] : i \in 1 .. n}
    BY <2>1 DEF Range
  <2> HIDE DEF n
  <2> QED
    BY <1>9, <2>1, <2>2
<1> QED
  BY <1>5, <1>10 DEF s

LEMMA RangeIsFinite ==
  ASSUME NEW s \in Seq(Nat)
  PROVE  IsFiniteSet(Range(s)) /\ Range(s) \subseteq Nat
<1>1. s \in Surjection(1 .. Len(s), Range(s))
  BY DEF Surjection, Range
<1>2. IsFiniteSet(1 .. Len(s))
  BY FS_Interval
<1>3. IsFiniteSet(Range(s))
  BY <1>1, <1>2, FS_Surjection
<1> QED
  BY <1>3 DEF Range

(* Two listings of certificates make the same pod template of Istiod       *)
(* exactly if they name the same certificates, whatever the order in which *)
(* the caches list them and however often each occurs.                     *)
THEOREM TemplateIsOfTheSetHolds == CallSpec => []TemplateIsOfTheSet
<1>1. ASSUME NEW names \in Listings
      PROVE  Range(SortedUniq(names)) = Range(names) \ {0}
  <2>1. IsFiniteSet(Range(names)) /\ Range(names) \subseteq Nat
    BY ListingsAssumption, RangeIsFinite
  <2>2. IsFiniteSet(Range(names) \ {0}) /\ Range(names) \ {0} \subseteq Nat
    BY <2>1, FS_RemoveElement
  <2> QED
    BY <2>2, AscendingLists DEF SortedUniq
<1>2. ASSUME NEW names \in Listings, NEW other \in Listings
      PROVE  IstiodTemplate(other) = IstiodTemplate(names)
               <=> Range(other) \ {0} = Range(names) \ {0}
  <2>1. IstiodTemplate(other) = IstiodTemplate(names) => SortedUniq(other) = SortedUniq(names)
    BY DEF IstiodTemplate
  <2>2. SortedUniq(other) = SortedUniq(names) => Range(other) \ {0} = Range(names) \ {0}
    BY <1>1
  <2>3. Range(other) \ {0} = Range(names) \ {0} => SortedUniq(other) = SortedUniq(names)
    BY DEF SortedUniq
  <2>4. SortedUniq(other) = SortedUniq(names) => IstiodTemplate(other) = IstiodTemplate(names)
    BY DEF IstiodTemplate
  <2> QED
    BY <2>1, <2>2, <2>3, <2>4
<1>3. CallInv => TemplateIsOfTheSet
  <2> SUFFICES ASSUME CallInv, Done("template") PROVE TemplateIsOfTheSet
    BY DEF TemplateIsOfTheSet
  <2>1. call.arg \in Listings
    BY Arguments DEF CallInv, Done
  <2>2. result = IstiodTemplate(call.arg)
    BY DEF CallInv, Done, Result
  <2> QED
    BY <1>2, <2>1, <2>2 DEF TemplateIsOfTheSet
<1> QED
  BY <1>3, Computed, PTL

-----------------------------------------------------------------------------
(***************************************************************************)
(* Service ports.                                                          *)
(***************************************************************************)

(* One port is rendered for each number in the list.                       *)
LEMMA RenderedPorts ==
  ASSUME NEW ports \in Seq(Nat), ports # <<>>
  PROVE  LET desired == AgentGatewayServicePorts(ports)
         IN  /\ \A i \in DOMAIN desired :
                  desired[i] = ServicePort(<<"p", desired[i].port>>, desired[i].port)
             /\ \A i \in DOMAIN desired : desired[i].port \in Range(ports)
             /\ \A x \in Range(ports) : \E i \in DOMAIN desired : desired[i].port = x
             /\ \A i, j \in DOMAIN desired : desired[i].port = desired[j].port => i = j
<1> DEFINE F == FirstPlaces(ports)
           order == Ascending(F)
           desired == AgentGatewayServicePorts(ports)
<1>1. F \subseteq 1 .. Len(ports) /\ Len(ports) \in Nat /\ DOMAIN ports = 1 .. Len(ports)
  BY DEF FirstPlaces
<1>2. F \subseteq Nat /\ IsFiniteSet(F)
  <2>1. IsFiniteSet(1 .. Len(ports))
    BY <1>1, FS_Interval
  <2> QED
    BY <1>1, <2>1, FS_Subset
<1>3. /\ order \in [DOMAIN order -> F] /\ Range(order) = F
      /\ \A i, j \in DOMAIN order : order[i] = order[j] => i = j
  BY <1>2, AscendingLists
<1>4. desired = [i \in DOMAIN order |-> ServicePort(<<"p", ports[order[i]]>>, ports[order[i]])]
  BY DEF AgentGatewayServicePorts
<1> HIDE DEF order, F
<1>5. /\ DOMAIN desired = DOMAIN order
      /\ \A i \in DOMAIN order :
           /\ desired[i] = ServicePort(<<"p", ports[order[i]]>>, ports[order[i]])
           /\ desired[i].port = ports[order[i]]
  BY <1>4 DEF ServicePort
<1> HIDE DEF desired
<1>6. ASSUME NEW i \in DOMAIN desired PROVE desired[i].port \in Range(ports)
  <2>1. order[i] \in DOMAIN ports
    BY <1>1, <1>3, <1>5
  <2> QED
    BY <1>5, <2>1 DEF Range
<1>7. ASSUME NEW x \in Range(ports) PROVE \E i \in DOMAIN desired : desired[i].port = x
  <2> DEFINE T == {k \in 1 .. Len(ports) : ports[k] = x}
  <2>1. T \subseteq Nat /\ T # {}
    BY <1>1, <1>7 DEF Range
  <2>2. PICK k \in T : \A j \in T : k <= j
    BY <2>1, LeastNumber
  <2>3. ASSUME NEW j \in 1 .. k - 1 PROVE ports[j] # ports[k]
    <3>1. j \in 1 .. Len(ports) /\ ~(k <= j)
      BY <1>1
    <3> QED
      BY <2>2, <3>1
  <2>4. k \in F
    BY <1>1, <2>3 DEF F, FirstPlaces
  <2>5. PICK i \in DOMAIN order : order[i] = k
    BY <1>3, <2>4 DEF Range
  <2> QED
    BY <1>5, <2>5
<1>8. ASSUME NEW i \in DOMAIN desired, NEW j \in DOMAIN desired, desired[i].port = desired[j].port
      PROVE  i = j
  <2>1. order[i] \in F /\ order[j] \in F /\ ports[order[i]] = ports[order[j]]
    BY <1>3, <1>5, <1>8
  <2>2. ASSUME NEW a \in F, NEW b \in F, a < b PROVE ports[a] # ports[b]
    <3>1. a \in 1 .. b - 1
      BY <1>1, <2>2
    <3> QED
      BY <3>1 DEF F, FirstPlaces
  <2>3. order[i] = order[j]
    <3>1. order[i] \in Nat /\ order[j] \in Nat
      BY <1>2, <2>1
    <3> QED
      BY <2>1, <2>2, <3>1
  <2> QED
    BY <1>3, <1>5, <2>3
<1> QED
  BY <1>5, <1>6, <1>7, <1>8 DEF desired

(* A rendered port is paired with the current port that goes on as it.     *)
LEMMA PortsPaired ==
  ASSUME NEW c \in ServiceApplies, NEW i \in DOMAIN c.current, NEW n \in Range(c.ports)
  PROVE  LET p == ServicePort(<<"p", n>>, n)
         IN  ServicePortMatches(p, c.current[i]) <=> GoesOnAs(c.current[i], p)
<1>1. c.current[i].name = <<"p", n>> => c.current[i].port = n
  BY ServicesAssumption
<1>2. \A x : <<"p", x>> # <<>>
  OBVIOUS
<1> QED
  BY <1>1, <1>2 DEF ServicePortMatches, ServicePort, GoesOnAs

(* A Service that is applied again has the ports of the listeners, each    *)
(* once, and each keeps its NodePort, however the list was reordered.      *)
THEOREM PortsKeepNodePortsHolds == CallSpec => []PortsKeepNodePorts
<1>1. ASSUME NEW c \in ServiceApplies
      PROVE  LET r == PreserveServicePorts(c.current, AgentGatewayServicePorts(c.ports))
             IN  /\ {p.port : p \in Range(r)} = Range(c.ports)
                 /\ \A i, j \in DOMAIN r : i # j => r[i].port # r[j].port
                 /\ \A p \in Range(r) :
                      p.nodePort = IF \E q \in Range(c.current) : GoesOnAs(q, p)
                                   THEN (CHOOSE q \in Range(c.current) : GoesOnAs(q, p)).nodePort
                                   ELSE 0
  <2> DEFINE desired == AgentGatewayServicePorts(c.ports)
             r == PreserveServicePorts(c.current, desired)
             Match(i) == {j \in DOMAIN c.current : ServicePortMatches(desired[i], c.current[j])}
             Kept(i) == c.current[CHOOSE j \in Match(i) : \A k \in Match(i) : j <= k].nodePort
  <2>1. /\ c.ports \in Seq(Nat) /\ c.ports # <<>> /\ DOMAIN c.current \subseteq Nat
        /\ \A i, j \in DOMAIN c.current : c.current[i].port = c.current[j].port => i = j
    BY ServicesAssumption
  <2>2. /\ \A i \in DOMAIN desired :
             desired[i] = ServicePort(<<"p", desired[i].port>>, desired[i].port)
        /\ \A i \in DOMAIN desired : desired[i].port \in Range(c.ports)
        /\ \A x \in Range(c.ports) : \E i \in DOMAIN desired : desired[i].port = x
        /\ \A i, j \in DOMAIN desired : desired[i].port = desired[j].port => i = j
    BY <2>1, RenderedPorts
  <2>3. r = [i \in DOMAIN desired |->
               IF Match(i) = {} THEN desired[i] ELSE [desired[i] EXCEPT !.nodePort = Kept(i)]]
    BY DEF PreserveServicePorts
  <2> HIDE DEF desired, r
  <2>4. ASSUME NEW i \in DOMAIN desired
        PROVE  /\ r[i].port = desired[i].port
               /\ r[i].nodePort = IF Match(i) = {} THEN 0 ELSE Kept(i)
    <3>1. /\ desired[i] = ServicePort(<<"p", desired[i].port>>, desired[i].port)
          /\ r[i] = IF Match(i) = {} THEN desired[i] ELSE [desired[i] EXCEPT !.nodePort = Kept(i)]
      BY <2>2, <2>3
    <3> HIDE DEF Match, Kept
    <3> QED
      BY <3>1 DEF ServicePort
  <2>5. DOMAIN r = DOMAIN desired
    BY <2>3
  <2>6. ASSUME NEW i \in DOMAIN desired
        PROVE  Match(i) = {j \in DOMAIN c.current : GoesOnAs(c.current[j], desired[i])}
    <3> DEFINE n == desired[i].port
    <3>1. desired[i] = ServicePort(<<"p", n>>, n) /\ n \in Range(c.ports)
      BY <2>2
    <3>2. \A j \in DOMAIN c.current :
            ServicePortMatches(ServicePort(<<"p", n>>, n), c.current[j])
              <=> GoesOnAs(c.current[j], ServicePort(<<"p", n>>, n))
      BY <3>1, PortsPaired
    <3>3. \A j \in DOMAIN c.current :
            ServicePortMatches(desired[i], c.current[j]) <=> GoesOnAs(c.current[j], desired[i])
      BY <3>1, <3>2, Zenon
    <3> QED
      BY <3>3
  <2>7. ASSUME NEW i \in DOMAIN desired, NEW j \in Match(i)
        PROVE  Kept(i) = c.current[j].nodePort
    <3>1. \A k \in Match(i) : k = j
      BY <2>1, <2>6 DEF GoesOnAs
    <3>2. j <= j
      BY <2>1
    <3> QED
      BY <3>1, <3>2
  <2>8. {p.port : p \in Range(r)} = Range(c.ports)
    <3>1. ASSUME NEW p \in Range(r) PROVE p.port \in Range(c.ports)
      <4>1. PICK i \in DOMAIN desired : p = r[i]
        BY <2>5, <3>1 DEF Range
      <4> QED
        BY <2>2, <2>4, <4>1
    <3>2. ASSUME NEW x \in Range(c.ports) PROVE \E p \in Range(r) : p.port = x
      <4>1. PICK i \in DOMAIN desired : desired[i].port = x
        BY <2>2
      <4>2. r[i] \in Range(r)
        BY <2>5 DEF Range
      <4> QED
        BY <2>4, <4>1, <4>2
    <3> QED
      BY <3>1, <3>2
  <2>9. \A i, j \in DOMAIN r : i # j => r[i].port # r[j].port
    BY <2>2, <2>4, <2>5
  <2>10. ASSUME NEW p \in Range(r)
         PROVE  p.nodePort = IF \E q \in Range(c.current) : GoesOnAs(q, p)
                             THEN (CHOOSE q \in Range(c.current) : GoesOnAs(q, p)).nodePort
                             ELSE 0
    <3>1. PICK i \in DOMAIN desired : p = r[i]
      BY <2>5, <2>10 DEF Range
    <3>2. p.port = desired[i].port /\ p.nodePort = IF Match(i) = {} THEN 0 ELSE Kept(i)
      BY <2>4, <3>1
    <3>3. CASE Match(i) = {}
      <4>1. \A j \in DOMAIN c.current : ~GoesOnAs(c.current[j], p)
        <5>1. \A q : GoesOnAs(q, desired[i]) <=> GoesOnAs(q, p)
          BY <3>2 DEF GoesOnAs
        <5> QED
          BY <2>6, <3>3, <5>1
      <4>2. ~\E q \in Range(c.current) : GoesOnAs(q, p)
        BY <4>1 DEF Range
      <4> QED
        BY <3>2, <3>3, <4>2
    <3>4. ASSUME NEW j \in Match(i)
          PROVE  /\ \E q \in Range(c.current) : GoesOnAs(q, p)
                 /\ p.nodePort = (CHOOSE q \in Range(c.current) : GoesOnAs(q, p)).nodePort
      <4>1. j \in DOMAIN c.current /\ GoesOnAs(c.current[j], p)
        BY <2>6, <3>2 DEF GoesOnAs
      <4>2. c.current[j] \in Range(c.current)
        BY <4>1 DEF Range
      <4>3. \A q \in Range(c.current) : GoesOnAs(q, p) => q = c.current[j]
        BY <2>1, <4>1 DEF Range, GoesOnAs
      <4>4. (CHOOSE q \in Range(c.current) : GoesOnAs(q, p)) = c.current[j]
        BY <4>1, <4>2, <4>3
      <4>5. p.nodePort = c.current[j].nodePort
        BY <2>7, <3>2
      <4> QED
        BY <4>1, <4>2, <4>4, <4>5
    <3> QED
      BY <3>3, <3>4
  <2> QED
    BY <2>8, <2>9, <2>10 DEF r, desired
<1>2. CallInv => PortsKeepNodePorts
  <2> SUFFICES ASSUME CallInv, Done("service") PROVE PortsKeepNodePorts
    BY DEF PortsKeepNodePorts
  <2>1. call.arg \in ServiceApplies
    BY Arguments DEF CallInv, Done
  <2>2. result = PreserveServicePorts(call.arg.current, AgentGatewayServicePorts(call.arg.ports))
    BY DEF CallInv, Done, Result
  <2> QED
    BY <1>1, <2>1, <2>2 DEF PortsKeepNodePorts
<1> QED
  BY <1>2, Computed, PTL

-----------------------------------------------------------------------------
(***************************************************************************)
(* The GatewayClass processor.                                             *)
(***************************************************************************)
(* RetryOnConflict makes another call only while steps are left.           *)
StepsLeft == pc \in {"read", "update"} => tries < ConflictSteps

TypeInv == TypeOK /\ StepsLeft

(* Once the cache shows the newest version and nothing was missed, that    *)
(* version is accepted, or a handler call or a goroutine is still to look  *)
(* at it.                                                                  *)
NewestIsHandled ==
  seen = Len(log) /\ ~missed /\ log[seen].gen > 0 /\ log[seen].ours =>
    \/ log[seen].accepted = log[seen].gen
    \/ events > 0
    \/ pc \in {"check", "read", "update", "backoff"}

ClassInv == TypeInv /\ NewestIsHandled

-----------------------------------------------------------------------------
USE BoundsAssumption

(* The history, the newest version and the cached one.                     *)
LEMMA LogFacts ==
  ASSUME TypeOK
  PROVE  /\ log \in Seq(Versions)
         /\ Len(log) \in Nat \ {0} /\ seen \in 1 .. Len(log)
         /\ Current = log[Len(log)]
         /\ \A i \in 1 .. Len(log) : log[i] \in Versions
         /\ Current \in Versions /\ Cached \in Versions
<1>1. log \in Seq(Versions) /\ log # <<>> /\ seen \in 1 .. Len(log)
  BY DEF TypeOK
<1>2. Len(log) \in Nat \ {0} /\ \A i \in 1 .. Len(log) : log[i] \in Versions
  BY <1>1
<1>3. Current = log[Len(log)]
  BY DEF Current, Last
<1> QED
  BY <1>1, <1>2, <1>3 DEF Cached

(* What storing a version does to the history.                             *)
LEMMA Stored ==
  ASSUME TypeOK, NEW v \in Versions, log' = Append(log, v)
  PROVE  /\ log' \in Seq(Versions) /\ log' # <<>>
         /\ Len(log') = Len(log) + 1
         /\ log'[Len(log')] = v
         /\ \A i \in 1 .. Len(log) : log'[i] = log[i]
<1>1. log \in Seq(Versions)
  BY DEF TypeOK
<1> QED
  BY <1>1

(* The versions that users store.                                          *)
LEMMA UserVersions ==
  ASSUME TypeOK
  PROVE  /\ \A ours \in BOOLEAN : [gen |-> 1, ours |-> ours, accepted |-> 0] \in Versions
         /\ [Current EXCEPT !.gen = @ + 1] \in Versions
         /\ NoClass \in Versions
         /\ [Current EXCEPT !.accepted = 0] \in Versions
<1>1. Current \in Versions
  BY LogFacts
<1> QED
  BY <1>1 DEF Versions, NoClass

-----------------------------------------------------------------------------
LEMMA InitClass == Init => ClassInv
<1> SUFFICES ASSUME Init PROVE ClassInv
  OBVIOUS
<1>1. NoClass \in Versions /\ NoClass.gen = 0
  BY DEF NoClass, Versions
<1>2. /\ log \in Seq(Versions) /\ log # <<>> /\ Len(log) = 1 /\ log[1] = NoClass
  BY <1>1 DEF Init
<1>3. missed \in BOOLEAN
  BY DEF Init
<1>4. TypeInv
  BY <1>2, <1>3 DEF Init, TypeInv, TypeOK, StepsLeft
<1>5. NewestIsHandled
  BY <1>1, <1>2 DEF Init, NewestIsHandled
<1> QED
  BY <1>4, <1>5 DEF ClassInv

(* A stored version is news to the cache.                                  *)
LEMMA StoreClass ==
  ASSUME ClassInv, NEW v \in Versions, Store(v)
  PROVE  ClassInv'
<1>1. TypeOK /\ StepsLeft
  BY DEF ClassInv, TypeInv
<1>2. /\ log' \in Seq(Versions) /\ log' # <<>> /\ Len(log') = Len(log) + 1
      /\ log'[Len(log')] = v
      /\ \A i \in 1 .. Len(log) : log'[i] = log[i]
  BY <1>1, Stored DEF Store
<1>3. Len(log) \in Nat \ {0} /\ seen \in 1 .. Len(log) /\ Current = log[Len(log)]
  BY <1>1, LogFacts
<1>4. TypeInv'
  BY <1>1, <1>2, <1>3 DEF Store, flight, TypeInv, TypeOK, StepsLeft
<1>5. NewestIsHandled'
  BY <1>2, <1>3 DEF Store, NewestIsHandled
<1> QED
  BY <1>4, <1>5 DEF ClassInv

(* The cache reaches a version with a handler call, finds it accepted, or  *)
(* has missed something.                                                   *)
LEMMA DeliverClass ==
  ASSUME ClassInv, NEW i \in 1 .. Len(log), Deliver(i)
  PROVE  ClassInv'
<1>1. TypeOK /\ StepsLeft
  BY DEF ClassInv, TypeInv
<1>2. Len(log) \in Nat \ {0} /\ log[seen] \in Versions /\ log[i] \in Versions
  BY <1>1, LogFacts
<1>3. missed \in BOOLEAN /\ missed' \in BOOLEAN
  BY <1>1 DEF Deliver, TypeOK
<1>4. TypeInv'
  BY <1>1, <1>2, <1>3 DEF Deliver, flight, TypeInv, TypeOK, StepsLeft
<1>5. NewestIsHandled'
  <2>1. CASE log[i].gen = log[seen].gen
    <3>1. log[i].gen > 0 /\ ~missed' => log[i].accepted = log[i].gen
      BY <1>2, <2>1 DEF Deliver, Lost, Versions
    <3> QED
      BY <3>1 DEF Deliver, NewestIsHandled
  <2>2. CASE log[i].gen # log[seen].gen
    BY <1>1, <1>2, <2>2 DEF Deliver, HandlerCalls, TypeOK, NewestIsHandled
  <2> QED
    BY <2>1, <2>2
<1> QED
  BY <1>4, <1>5 DEF ClassInv

(* The write lands on the version that was read, which it accepts.         *)
LEMMA WriteClass ==
  ASSUME ClassInv, WriteStatus
  PROVE  ClassInv'
<1>1. TypeOK /\ StepsLeft
  BY DEF ClassInv, TypeInv
<1>2. Len(log) \in Nat \ {0} /\ seen \in 1 .. Len(log) /\ log[base] \in Versions
  BY <1>1, LogFacts DEF WriteStatus
<1>3. /\ Accepted(log[base]) \in Versions
      /\ Accepted(log[base]).accepted = Accepted(log[base]).gen
  BY <1>2 DEF Accepted, Versions
<1>4. /\ log' \in Seq(Versions) /\ log' # <<>> /\ Len(log') = Len(log) + 1
      /\ log'[Len(log')] = Accepted(log[base])
      /\ \A i \in 1 .. Len(log) : log'[i] = log[i]
  BY <1>1, <1>3, Stored DEF WriteStatus
<1>5. TypeInv'
  BY <1>1, <1>2, <1>4 DEF WriteStatus, TypeInv, TypeOK, StepsLeft
<1>6. NewestIsHandled'
  BY <1>2, <1>4 DEF WriteStatus, NewestIsHandled
<1> QED
  BY <1>5, <1>6 DEF ClassInv

LEMMA NextClass == ClassInv /\ [Next]_vars => ClassInv'
<1> SUFFICES ASSUME ClassInv, [Next]_vars PROVE ClassInv'
  OBVIOUS
<1> USE DEF ClassInv, TypeInv
<1>0. /\ TypeOK
      /\ log \in Seq(Versions)
      /\ Len(log) \in Nat \ {0} /\ seen \in 1 .. Len(log)
      /\ Current = log[Len(log)] /\ Current \in Versions
      /\ log[seen] \in Versions
  BY LogFacts DEF Cached
<1>1. ASSUME NEW ours \in BOOLEAN, Create(ours) PROVE ClassInv'
  BY <1>0, <1>1, StoreClass, UserVersions DEF Create
<1>2. CASE Edit
  BY <1>0, <1>2, StoreClass, UserVersions DEF Edit
<1>3. CASE Delete
  BY <1>0, <1>3, StoreClass, UserVersions DEF Delete
<1>4. CASE Wipe
  BY <1>0, <1>4, StoreClass, UserVersions DEF Wipe
<1>5. CASE Sync
  <2>1. seen + 1 \in 1 .. Len(log) /\ Deliver(seen + 1)
    BY <1>0, <1>5 DEF Sync
  <2> QED
    BY <2>1, DeliverClass
<1>6. CASE Relist
  <2>1. Len(log) \in 1 .. Len(log) /\ Deliver(Len(log))
    BY <1>0, <1>6 DEF Relist
  <2> QED
    BY <2>1, DeliverClass
<1>7. CASE Process
  <2>1. missed \in BOOLEAN /\ missed' \in BOOLEAN
    BY <1>0, <1>7 DEF Process, TypeOK
  <2>2. TypeInv'
    BY <1>0, <1>7, <2>1 DEF Process, TypeOK, StepsLeft
  <2>3. NewestIsHandled'
    BY <1>0, <1>7 DEF Process, TypeOK, NewestIsHandled
  <2> QED
    BY <2>2, <2>3
<1>8. CASE ReconcileGatewayClass
  BY <1>0, <1>8 DEF ReconcileGatewayClass, Cached, TypeOK, StepsLeft, NewestIsHandled
<1>9. CASE ReadFresh
  BY <1>0, <1>9 DEF ReadFresh, Cached, TypeOK, StepsLeft, NewestIsHandled
<1>10. CASE WriteStatus
  BY <1>10, WriteClass
<1>11. CASE WriteRefused
  BY <1>0, <1>11 DEF WriteRefused, TypeOK, StepsLeft, NewestIsHandled
<1>12. CASE WriteFails
  BY <1>0, <1>12 DEF WriteFails, TypeOK, StepsLeft, NewestIsHandled
<1>13. CASE Backoff
  <2>1. missed \in BOOLEAN /\ missed' \in BOOLEAN
    BY <1>0, <1>13 DEF Backoff, TypeOK
  <2>2. TypeInv'
    BY <1>0, <1>13, <2>1 DEF Backoff, TypeOK, StepsLeft
  <2>3. NewestIsHandled'
    BY <1>0, <1>13 DEF Backoff, TypeOK, NewestIsHandled
  <2> QED
    BY <2>2, <2>3
<1>14. CASE Exit
  BY <1>0, <1>14 DEF Exit, TypeOK, StepsLeft, NewestIsHandled
<1>15. CASE UNCHANGED vars
  BY <1>0, <1>15 DEF vars, TypeOK, StepsLeft, NewestIsHandled
<1> QED
  BY <1>1, <1>2, <1>3, <1>4, <1>5, <1>6, <1>7, <1>8, <1>9, <1>10, <1>11, <1>12, <1>13,
     <1>14, <1>15 DEF Next, Goroutine

-----------------------------------------------------------------------------
(* Every reachable state is well typed: the goroutine stays within its     *)
(* attempts and RetryOnConflict within its steps.                          *)
THEOREM TypeCorrect == Spec => []TypeOK
<1>1. ClassInv => TypeOK
  BY DEF ClassInv, TypeInv
<1> QED
  BY InitClass, NextClass, <1>1, PTL DEF Spec

(* At rest an owned class is accepted at its generation, unless since the  *)
(* last goroutine was started LoadOrStore dropped an event, all attempts   *)
(* failed, the class was created again in a gap of the watch, or its       *)
(* condition was taken away by others.                                     *)
THEOREM AcceptedUnlessMissedHolds == Spec => []AcceptedUnlessMissed
<1>1. ClassInv => AcceptedUnlessMissed
  <2> SUFFICES ASSUME ClassInv, AtRest, ~missed, Current.gen > 0, Current.ours
               PROVE  Current.accepted = Current.gen
    BY DEF AcceptedUnlessMissed
  <2>1. Current = log[seen] /\ seen = Len(log) /\ events = 0 /\ pc = "idle"
    BY LogFacts DEF ClassInv, TypeInv, AtRest
  <2> QED
    BY <2>1 DEF ClassInv, NewestIsHandled
<1> QED
  BY InitClass, NextClass, <1>1, PTL DEF Spec

(* MarkGatewayClassAccepted stamps the generation that the API server      *)
(* holds at that moment, however far the cache lags.                       *)
THEOREM StampsCurrentHolds == Spec => StampsCurrent
<1>1. ASSUME ClassInv, [Next]_vars, log' # log, edits' = edits
      PROVE  Current' = [Current EXCEPT !.accepted = Current.gen]
  <2>1. TypeOK /\ edits \in Nat
    BY <1>1 DEF ClassInv, TypeInv, TypeOK
  <2>2. WriteStatus
    <3>1. ASSUME NEW v, Store(v) PROVE FALSE
      BY <1>1, <2>1, <3>1 DEF Store
    <3>2. ~(Sync \/ Relist \/ Process \/ ReconcileGatewayClass \/ ReadFresh \/ WriteRefused
            \/ WriteFails \/ Backoff \/ Exit \/ UNCHANGED vars)
      BY <1>1 DEF Sync, Relist, Deliver, Process, ReconcileGatewayClass, ReadFresh, WriteRefused, WriteFails,
         Backoff, Exit, vars
    <3> QED
      BY <1>1, <3>1, <3>2 DEF Next, Goroutine, Create, Edit, Delete, Wipe
  <2>3. log[base] = Current /\ Current \in Versions
    BY <2>1, <2>2, LogFacts DEF WriteStatus
  <2>4. Accepted(Current) \in Versions
    BY <2>3 DEF Accepted, Versions
  <2>5. Current' = Accepted(Current)
    BY <2>1, <2>2, <2>3, <2>4, Stored DEF WriteStatus, Current, Last
  <2> QED
    BY <2>5 DEF Accepted
<1>2. ClassInv /\ [Next]_vars =>
        [ log' # log /\ edits' = edits =>
            Current' = [Current EXCEPT !.accepted = Current.gen] ]_vars
  BY <1>1
<1> QED
  BY InitClass, NextClass, <1>2, PTL DEF Spec, StampsCurrent
=============================================================================
