------------------------------ MODULE Decisions ------------------------------
(***************************************************************************)
(* The pure decisions of RouteAttachment and Rendering against reference   *)
(* definitions that say what a result means: hostnames are sets of         *)
(* concrete names, a Route is accepted when some request could reach it    *)
(* through some listener, a template depends on the set of certificates, a *)
(* port of a Service keeps its NodePort by its number.  A state is a call  *)
(* and, once Evaluate has taken place, its result.                         *)
(***************************************************************************)
EXTENDS RouteAttachment, Rendering

CONSTANTS
  Names,          \* concrete host names of the instance, sequences of labels
  Hostnames,      \* hostnames that listeners and Routes may use
  Attachments,    \* [ref, route, gw] arguments of routeAcceptedByGateway
  Backends,       \* [ns, kind, rules, services, grants] of backendRefsResolved
  GrantCalls,     \* [grant, ns, name] of gatewayReferenceGrantAllows
  Validations,    \* [gw, usable] of validateGatewayTLSAssets
  Listings,       \* lists of certificate names
  ServiceApplies  \* [current, ports] of preserveServiceFields

(* The arguments are what the API server and its validation let through:   *)
(* lists are numbered, names and ports that are set are not Nil.           *)
ASSUME AttachmentsAssumption ==
  \A c \in Attachments :
    /\ c.ref.kind \in {Nil, "Gateway", "Other"} /\ c.gw.ns # Nil
    /\ \A l \in Range(c.gw.listeners) : l.hostname \in Hostnames \cup {Nil}
    /\ c.route.hostnames \subseteq Hostnames
ASSUME BackendsAssumption ==
  \A c \in Backends :
    /\ DOMAIN c.rules \subseteq Nat /\ \A i \in DOMAIN c.rules : DOMAIN c.rules[i] \subseteq Nat
    /\ \A key \in DOMAIN c.services :
         key = [ns |-> key.ns, name |-> key.name] /\ Nil \notin c.services[key]
ASSUME GrantsAssumption ==
  \A c \in GrantCalls : \A f \in Range(c.grant.from) : f = [kind |-> f.kind, ns |-> f.ns]
ASSUME ListingsAssumption == Listings \subseteq Seq(Nat)

(* A Gateway has a listener.  The current Service has been rendered for    *)
(* the Gateway before, or Apply takes it over from somebody who chose the  *)
(* names of its ports, or left them out; only a name p-<number> is as      *)
(* rendered, of the port with that number.  All are TCP ports.             *)
ASSUME ServicesAssumption ==
  \A c \in ServiceApplies :
    /\ c.ports \in Seq(Nat) \ {<<>>} /\ DOMAIN c.current \subseteq Nat
    /\ \A i \in DOMAIN c.current :
         /\ \A n \in Range(c.ports) : c.current[i].name = <<"p", n>> => c.current[i].port = n
         /\ \A j \in DOMAIN c.current : c.current[i].port = c.current[j].port => i = j

VARIABLES call, result, done

callVars == <<call, result, done>>

Calls ==
  [op : {"hostnames"}, arg : Hostnames \X Hostnames]
    \cup [op : {"attach"}, arg : Attachments]
    \cup [op : {"backend"}, arg : Backends]
    \cup [op : {"grant"}, arg : GrantCalls]
    \cup [op : {"validate"}, arg : Validations]
    \cup [op : {"template"}, arg : Listings]
    \cup [op : {"service"}, arg : ServiceApplies]

Result(op, arg) ==
  CASE op = "hostnames" -> HostnamesIntersect(arg[1], arg[2])
    [] op = "attach"    -> RouteParentStatus(arg.ref, arg.route, arg.gw)
    [] op = "backend"   -> BackendRefsResolved(arg)
    [] op = "grant"     -> GatewayReferenceGrantAllows(arg.grant, arg.ns, arg.name)
    [] op = "validate"  -> ValidateGatewayTLSAssets(arg.gw, arg.usable)
    [] op = "template"  -> IstiodTemplate(arg)
    [] op = "service"   -> PreserveServicePorts(arg.current, AgentGatewayServicePorts(arg.ports))

CallInit == call \in Calls /\ result = Nil /\ done = FALSE

Evaluate ==
  /\ ~done
  /\ done' = TRUE
  /\ result' = Result(call.op, call.arg)
  /\ UNCHANGED call

CallNext == Evaluate

CallSpec == CallInit /\ [][CallNext]_callVars

-----------------------------------------------------------------------------
(***************************************************************************)
(* Reference definitions and properties.                                   *)
(***************************************************************************)
Done(op) == call.op = op /\ done

(* The concrete names a hostname stands for: a wildcard replaces one or    *)
(* more labels.                                                            *)
Denotes(h) ==
  IF Wildcard(h)
  THEN {n \in Names : Len(n) >= Len(h) /\ SubSeq(n, Len(n) - Len(h) + 2, Len(n)) = Tail(h)}
  ELSE {n \in Names : h = <<>> \/ n = h}

(* There are names enough for every hostname to stand for one.             *)
ASSUME NamesAssumption ==
  /\ Names \subseteq Seq(STRING) /\ Hostnames \subseteq Seq(STRING)
  /\ Names # {} /\ \A h \in Hostnames : Denotes(h) # {}

(* hostnamesIntersect says whether some concrete name is meant by both,    *)
(* for exact names, wildcards and wildcards under wildcards, in either     *)
(* order of the arguments.                                                 *)
HostnamesIntersectIsSetIntersection ==
  Done("hostnames") =>
    (result <=> Denotes(call.arg[1]) \cap Denotes(call.arg[2]) # {})

(* The names a request may carry so that listener l hands it to the Route. *)
Reaching(l, route) ==
  {n \in Names : /\ l.hostname = Nil \/ n \in Denotes(l.hostname)
                 /\ route.hostnames = {} \/ \E h \in route.hostnames : n \in Denotes(h)}

(* Some request reaches the Route through listener l of the Gateway: the   *)
(* parentRef, the protocol, the hostnames and the namespace policy agree.  *)
Attaches(ref, route, gw, l) ==
  /\ ref.section \in {Nil, l.name} /\ ref.port \in {Nil, l.port}
  /\ route.kind \in SupportedKindsForProtocol(l.protocol)
  /\ l.kinds = {} \/ route.kind \in l.kinds
  /\ Reaching(l, route) # {}
  /\ \/ l.from = "All"
     \/ l.from \in {Nil, "Same"} /\ route.ns = gw.ns
     \/ l.from = "Selector" /\ route.ns \in l.selected

(* A Route is Accepted exactly if it names the Gateway and some request    *)
(* can reach it through one of the listeners, given what the listeners     *)
(* advertise as supported kinds.                                           *)
AcceptedMeansReachable ==
  Done("attach") =>
    LET c == call.arg
    IN  result = "Accepted" <=>
          /\ c.ref.name = c.gw.name /\ c.ref.kind # "Other"
          /\ c.ref.ns = c.gw.ns \/ (c.ref.ns = Nil /\ c.route.ns = c.gw.ns)
          /\ \E l \in Range(c.gw.listeners) : Attaches(c.ref, c.route, c.gw, l)

(* The backend is a Service port that exists and that the Route may refer  *)
(* to.                                                                     *)
BackendExists(c, ref) ==
  LET ns == IF ref.ns = Nil THEN c.ns ELSE ref.ns
  IN  /\ ref.kind = "Service"
      /\ \E key \in DOMAIN c.services :
           key.ns = ns /\ key.name = ref.name /\ ref.port \in c.services[key]
      /\ ns # c.ns => \E g \in c.grants : g.ns = ns
           /\ [kind |-> c.kind, ns |-> c.ns] \in Range(g.from)
           /\ \E t \in Range(g.to) : t.kind = "Service" /\ t.name \in {Nil, ref.name}

(* ResolvedRefs=True exactly if every backend exists and may be used: one  *)
(* bad reference, in whichever rule, is enough.                            *)
ResolvedMeansAllExist ==
  Done("backend") =>
    LET c == call.arg
    IN  result = "ResolvedRefs" <=>
          \A ref \in UNION {Range(rule) : rule \in Range(c.rules)} : BackendExists(c, ref)

(* The two copies of the ReferenceGrant rule, one for certificates in the  *)
(* gateway package and one for backends in the status package, agree.      *)
GrantRulesAgree ==
  Done("grant") =>
    (result <=>
       ReferenceGrantAllows(call.arg.grant, "Gateway", call.arg.ns, "Secret", call.arg.name))

(* The listeners that end TLS themselves.                                  *)
Terminating(gw) ==
  {l \in Range(gw.listeners) :
     \/ l.protocol = "HTTPS" /\ l.tls # "Passthrough"
     \/ l.protocol = "TLS" /\ l.tls \in {"", "Terminate"}}

(* Two functions read the certificate references, one to validate them and *)
(* one to mount them.  For a Gateway that validation lets through, what    *)
(* Istiod mounts for it is what was validated, and each listener that ends *)
(* TLS has a certificate among it.                                         *)
ValidatedMeansMounted ==
  Done("validate") =>
    LET gw == call.arg.gw  mounted == GatewayCertNames(gw)
    IN  result => /\ mounted \subseteq call.arg.usable
                  /\ \A l \in Terminating(gw) :
                       /\ l.refs # <<>> /\ l.tls # "unset"
                       /\ \A ref \in Range(l.refs) : ref.name \in mounted

(* Lists come from caches in no particular order: two listings of the same *)
(* certificates make the same pod template, so that Istiod is not rolled   *)
(* for nothing, and two sets that differ make templates that differ.       *)
TemplateIsOfTheSet ==
  Done("template") =>
    \A other \in Listings :
      IstiodTemplate(other) = result <=> Range(other) \ {0} = Range(call.arg) \ {0}

(* The port of the current Service goes on as the applied port p: it has   *)
(* its number, and no name or the rendered one.                            *)
GoesOnAs(q, p) == q.port = p.port /\ q.name \in {<<>>, <<"p", p.port>>}

(* An applied Service has one port for every listener port, and each that  *)
(* the current Service has too, whatever its position, keeps the NodePort  *)
(* that clients and load balancers use; none gets that of another port.    *)
(* The exception is a Service taken over from somebody who named its ports *)
(* otherwise: those have new NodePorts allocated.                          *)
PortsKeepNodePorts ==
  Done("service") =>
    LET current == call.arg.current
    IN  /\ {p.port : p \in Range(result)} = Range(call.arg.ports)
        /\ \A i, j \in DOMAIN result : i # j => result[i].port # result[j].port
        /\ \A p \in Range(result) :
             p.nodePort = IF \E q \in Range(current) : GoesOnAs(q, p)
                          THEN (CHOOSE q \in Range(current) : GoesOnAs(q, p)).nodePort ELSE 0
=============================================================================
