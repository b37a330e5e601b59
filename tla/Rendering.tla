------------------------------ MODULE Rendering ------------------------------
(***************************************************************************)
(* The decisions behind the rendered infra objects, as operators: which    *)
(* certificates Istiod mounts and in what order, which of them a Gateway's *)
(* validation has seen, and which NodePorts an applied Service keeps       *)
(* (controller/internal/gateway/reconciler.go,                             *)
(* controller/internal/provisioner/render.go and apply.go).                *)
(*                                                                         *)
(* A listener is [protocol, tls, refs, port], tls being the mode, "" for   *)
(* the default mode and "unset" without a tls section.  A reference is     *)
(* [kind, name]; kind "Secret" stands for a core Secret, also by default.  *)
(* Names of certificates are numbers, ordered as sort.Strings orders them, *)
(* and 0 is the empty name.                                                *)
(***************************************************************************)
EXTENDS Naturals, Sequences, SequencesExt

(* secretObjectReferenceName, for the references in a sequence.  The names *)
(* a Gateway declares are a set: they end up in sortedUniq.                *)
SecretObjectReferenceNames(refs) == {ref.name : ref \in {r \in Range(refs) : r.kind = "Secret"}}

(* Mutant: an HTTPS listener without a tls section needs no certificate.   *)
RequiresCertificateRefsLenient(l) ==
  /\ l.protocol \in {"HTTPS", "TLS"}
  /\ l.tls \notin {"unset", "Passthrough"}

(* listenerCertificateRefs: whether the listener must have certificates.   *)
RequiresCertificateRefs(l) ==
  /\ l.protocol \in {"HTTPS", "TLS"}
  /\ ~(l.protocol = "TLS" /\ l.tls = "unset")
  /\ l.tls # "Passthrough"

(* The references it then returns.                                         *)
ListenerCertificateRefs(l) == IF l.tls = "unset" THEN <<>> ELSE l.refs

(* validateGatewayTLSAssets; usable are the names that the Gateway may     *)
(* refer to and whose infra Secret has the keys.                           *)
UsableRef(ref, usable) == ref.kind = "Secret" /\ ref.name \in usable

ValidateGatewayTLSAssets(gw, usable) ==
  /\ \A l \in Range(gw.listeners) : RequiresCertificateRefs(l) =>
       /\ ListenerCertificateRefs(l) # <<>>
       /\ \A ref \in Range(ListenerCertificateRefs(l)) : UsableRef(ref, usable)
  /\ \A ref \in Range(gw.backend) : UsableRef(ref, usable)

(* gatewayTLSCertNames, which does not ask listenerCertificateRefs.        *)
ListenerCertNames(l) ==
  IF l.protocol \in {"HTTPS", "TLS"} /\ l.tls \notin {"unset", "Passthrough"}
  THEN SecretObjectReferenceNames(l.refs) ELSE {}

GatewayTLSCertNames(gw) == UNION {ListenerCertNames(l) : l \in Range(gw.listeners)}

(* gatewayBackendTLSCertNames; backend is a sequence of at most one.       *)
GatewayBackendTLSCertNames(gw) == SecretObjectReferenceNames(gw.backend)

(* What RefreshIstiod collects of one Gateway.                             *)
GatewayCertNames(gw) == GatewayTLSCertNames(gw) \cup GatewayBackendTLSCertNames(gw)

-----------------------------------------------------------------------------
(* The elements of a set of numbers, smallest first.                       *)
Ascending(S) == CHOOSE s \in SetToSeqs(S) : IsSorted(s, <)

(* The places of a list where an element occurs for the first time.        *)
FirstPlaces(s) == {i \in DOMAIN s : \A j \in 1 .. i - 1 : s[j] # s[i]}

(* Mutant: duplicates go but the order of the list stays.                  *)
SortedUniqUnsorted(names) ==
  LET order == Ascending({i \in FirstPlaces(names) : names[i] # 0})
  IN  [i \in DOMAIN order |-> names[order[i]]]

SortedUniq(names) == Ascending(Range(names) \ {0})

(* The part of Istiod's pod template that depends on the certificates: a   *)
(* required volume for each, and the hash, taken to be without collisions. *)
TlsCertHash(names) == IF names = <<>> THEN <<"none">> ELSE <<"hash", SortedUniq(names)>>

IstiodTemplate(names) ==
  [volumes |-> SortedUniq(names), hash |-> TlsCertHash(SortedUniq(names))]

-----------------------------------------------------------------------------
(***************************************************************************)
(* Service ports are [name, port, nodePort], all TCP.  A rendered port is  *)
(* named p-<number>, here <<"p", number>>; <<>> is no name.                *)
(***************************************************************************)
ServicePort(name, port) == [name |-> name, port |-> port, nodePort |-> 0]

(* AgentGatewayService: one port for each number, in the listeners' order, *)
(* and port 80, named "http", if there is none.                            *)
AgentGatewayServicePorts(ports) ==
  LET order == Ascending(FirstPlaces(ports))
  IN  IF ports = <<>> THEN <<ServicePort(<<"http">>, 80)>>
      ELSE [i \in DOMAIN order |-> ServicePort(<<"p", ports[order[i]]>>, ports[order[i]])]

ServicePortMatches(a, b) ==
  IF a.name # <<>> /\ b.name # <<>> THEN a.name = b.name ELSE a.port = b.port

(* Mutant: ports are paired by their position.                             *)
PreserveServicePortsByIndex(current, desired) ==
  [i \in DOMAIN desired |->
     [desired[i] EXCEPT !.nodePort = IF i \in DOMAIN current THEN current[i].nodePort ELSE @]]

(* preserveServiceFields: the first match in the current Service counts.   *)
PreserveServicePorts(current, desired) ==
  [i \in DOMAIN desired |->
     LET match == {j \in DOMAIN current : ServicePortMatches(desired[i], current[j])}
     IN  IF match = {} THEN desired[i]
         ELSE [desired[i] EXCEPT !.nodePort =
                 current[CHOOSE j \in match : \A k \in match : j <= k].nodePort]]
=============================================================================
