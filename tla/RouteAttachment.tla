--------------------------- MODULE RouteAttachment ---------------------------
(***************************************************************************)
(* The decisions behind Route and listener status, as operators: whether a *)
(* Gateway accepts a Route, whether backend references resolve, whether a  *)
(* ReferenceGrant allows a reference (controller/internal/status/writer.go *)
(* and controller/internal/gateway/reconciler.go).                         *)
(*                                                                         *)
(* Decisions compares each with a definition that says what its result     *)
(* means.                                                                  *)
(*                                                                         *)
(* A hostname is a sequence of labels whose first label may be "*"; an     *)
(* unset optional field is Nil.                                            *)
(***************************************************************************)
EXTENDS Naturals, Sequences, SequencesExt

CONSTANT Nil      \* an optional field that is not set

ASSUME NilAssumption == Nil \notin {"All", "Selector", "Other", "Accepted"}

-----------------------------------------------------------------------------
(* hostnamesIntersect.  "*.x" covers what ends in ".x", "x" itself not.    *)
Wildcard(h) == Len(h) > 1 /\ Head(h) = "*"

(* Mutant: the apex is taken to be covered.                                *)
CoversApex(a, b) == Wildcard(a) /\ IsSuffix(Tail(a), b)

Covers(a, b) == Wildcard(a) /\ IsSuffix(Tail(a), b) /\ b # Tail(a)

HostnamesIntersect(a, b) ==
  a = b \/ a = <<>> \/ b = <<>> \/ Covers(a, b) \/ Covers(b, a)

RouteHostnamesIntersect(listenerHostname, routeHostnames) ==
  \/ listenerHostname = Nil
  \/ routeHostnames = {}
  \/ \E h \in routeHostnames : HostnamesIntersect(listenerHostname, h)

-----------------------------------------------------------------------------
(***************************************************************************)
(* Listeners: [name, port, protocol, hostname, kinds, from, selected].     *)
(* kinds is empty and from is Nil when allowedRoutes leaves them out;      *)
(* selected is the set of namespaces whose labels the selector matches.    *)
(***************************************************************************)
ListenerSupportsRouteKind(protocol, kind) ==
  \/ kind \in {"HTTPRoute", "GRPCRoute"} /\ protocol \in {"HTTP", "HTTPS"}
  \/ kind = "TLSRoute" /\ protocol = "TLS"

(* What listener.status.supportedKinds advertises.                         *)
SupportedKindsForProtocol(protocol) ==
  CASE protocol \in {"HTTP", "HTTPS"} -> {"HTTPRoute", "GRPCRoute"}
    [] protocol = "TLS" -> {"TLSRoute"}
    [] OTHER -> {}

(* Mutant: a missing namespaces policy admits every namespace.             *)
ListenerAllowsRouteOpen(l, gwNs, ns, kind) ==
  /\ l.kinds # {} => kind \in l.kinds
  /\ CASE l.from \in {Nil, "All"} -> TRUE
       [] l.from = "Same" -> ns = gwNs
       [] l.from = "Selector" -> ns \in l.selected
       [] OTHER -> FALSE

ListenerAllowsRoute(l, gwNs, ns, kind) ==
  /\ l.kinds # {} => kind \in l.kinds
  /\ CASE l.from \in {Nil, "Same"} -> ns = gwNs
       [] l.from = "All" -> TRUE
       [] l.from = "Selector" -> ns \in l.selected
       [] OTHER -> FALSE

(* parentRefMatchesGateway; ref.ns is Nil for the Route's own namespace,   *)
(* and ref.kind, which stands for group and kind, Nil for a Gateway.       *)
ParentRefMatchesGateway(ref, ns, gw) ==
  /\ ref.name = gw.name /\ ref.kind \in {Nil, "Gateway"}
  /\ (IF ref.ns = Nil THEN ns ELSE ref.ns) = gw.ns

(* routeAcceptedByGateway: the first listener that fits ends the loop; if  *)
(* none does, the reason tells how far the best one came.                  *)
MatchesSection(ref, l, kind) ==
  /\ ref.section \in {Nil, l.name}
  /\ ref.port \in {Nil, l.port}
  /\ ListenerSupportsRouteKind(l.protocol, kind)

RouteAcceptedByGateway(ref, route, gw) ==
  LET matched == {l \in Range(gw.listeners) : MatchesSection(ref, l, route.kind)}
      meeting == {l \in matched : RouteHostnamesIntersect(l.hostname, route.hostnames)}
  IN  IF \E l \in meeting : ListenerAllowsRoute(l, gw.ns, route.ns, route.kind) THEN "Accepted"
      ELSE CASE matched = {} -> "NoMatchingParent"
             [] meeting # matched -> "NoMatchingListenerHostname"
             [] OTHER -> "NotAllowedByListeners"

(* routeParentStatuses for one parentRef: Nil when it names another parent.*)
RouteParentStatus(ref, route, gw) ==
  IF ParentRefMatchesGateway(ref, route.ns, gw)
  THEN RouteAcceptedByGateway(ref, route, gw) ELSE Nil

-----------------------------------------------------------------------------
(***************************************************************************)
(* References.  A grant is [ns, from, to] with from a sequence of          *)
(* [kind, ns] and to a sequence of [kind, name], name Nil for all.  Kinds  *)
(* stand for group and kind.                                               *)
(***************************************************************************)
GrantsTo(t, kind, name) == t.kind = kind /\ t.name \in {Nil, name}

ReferenceGrantAllows(grant, fromKind, fromNs, toKind, toName) ==
  /\ \E f \in Range(grant.from) : f = [kind |-> fromKind, ns |-> fromNs]
  /\ \E t \in Range(grant.to) : GrantsTo(t, toKind, toName)

(* Mutant: the namespace of the "from" entry is not compared.              *)
GatewayReferenceGrantAllowsAnyNs(grant, fromNs, toName) ==
  \E f \in Range(grant.from) :
    /\ f.kind = "Gateway"
    /\ \E t \in Range(grant.to) : GrantsTo(t, "Secret", toName)

(* The Gateway's copy of the same rule, with the loops nested.             *)
GatewayReferenceGrantAllows(grant, fromNs, toName) ==
  \E f \in Range(grant.from) :
    /\ f.kind = "Gateway" /\ f.ns = fromNs
    /\ \E t \in Range(grant.to) : GrantsTo(t, "Secret", toName)

ReferencePermitted(grants, fromKind, fromNs, toNs, toName) ==
  \/ fromNs = toNs
  \/ \E g \in grants : g.ns = toNs /\ ReferenceGrantAllows(g, fromKind, fromNs, "Service", toName)

(* backendRefsResolved for one reference [kind, ns, name, port], in the    *)
(* order of its checks; services maps [ns, name] to ports.                 *)
BackendRefStatus(c, ref) ==
  LET ns  == IF ref.ns = Nil THEN c.ns ELSE ref.ns
      key == [ns |-> ns, name |-> ref.name]
  IN  CASE ref.kind # "Service" -> "InvalidKind"
        [] ref.kind = "Service" /\ ~ReferencePermitted(c.grants, c.kind, c.ns, ns, ref.name)
             -> "RefNotPermitted"
        [] OTHER -> IF ref.port # Nil /\ key \in DOMAIN c.services
                       /\ ref.port \in c.services[key]
                    THEN "ResolvedRefs" ELSE "BackendNotFound"

(* Mutant: only the first rule is looked at.                               *)
BackendObjectRefsFirst(rules) == {<<1, j>> : j \in IF rules = <<>> THEN {} ELSE DOMAIN rules[1]}

(* The references of all rules of a Route, for each of the three kinds, as *)
(* pairs of the rule and the place in it; their list has them in order.    *)
BackendObjectRefs(rules) == UNION {{i} \X DOMAIN rules[i] : i \in DOMAIN rules}

NotAfter(p, q) == p[1] < q[1] \/ (p[1] = q[1] /\ p[2] <= q[2])

(* The first bad reference decides.                                        *)
BackendRefsResolved(c) ==
  LET Status(p) == BackendRefStatus(c, c.rules[p[1]][p[2]])
      bad == {p \in BackendObjectRefs(c.rules) : Status(p) # "ResolvedRefs"}
  IN  IF bad = {} THEN "ResolvedRefs"
      ELSE Status(CHOOSE p \in bad : \A q \in bad : NotAfter(p, q))
=============================================================================
