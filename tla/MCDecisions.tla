----------------------------- MODULE MCDecisions -----------------------------
(***************************************************************************)
(* Bounded inputs for Decisions: host names of up to four labels over two  *)
(* letters (one more than the longest hostname, so that every wildcard     *)
(* denotes something), Gateways with one or two listeners, certificate     *)
(* lists and Services of up to three entries.                              *)
(***************************************************************************)
EXTENDS Decisions, FiniteSets

Labels == {"a", "b"}

AllNames == UNION {[1 .. n -> Labels] : n \in 1 .. 4}

AllHostnames ==
  UNION {[1 .. n -> Labels] : n \in 1 .. 3}
    \cup {<<"*">> \o s : s \in UNION {[1 .. n -> Labels] : n \in 1 .. 2}}

Listener(name, port) ==
  {[name |-> name, port |-> port, protocol |-> p, hostname |-> h, kinds |-> k, from |-> f,
    selected |-> {"ns2"}] :
     p \in {"HTTP", "TLS"}, h \in {Nil, <<"a", "b">>, <<"*", "b">>},
     k \in {{}, {"TLSRoute"}}, f \in {Nil, "All", "Selector"}}

AllGateways ==
  {[name |-> "gw", ns |-> "ns1", listeners |-> ls] :
     ls \in {<<l>> : l \in Listener("l1", 80)}
            \cup {<<l, m>> : l \in Listener("l1", 80), m \in Listener("l2", 443)}}

AllRoutes ==
  {[ns |-> ns, kind |-> k, hostnames |-> hs] :
     ns \in {"ns1", "ns2"}, k \in {"HTTPRoute", "TLSRoute"},
     hs \in {{}, {<<"a", "b">>}, {<<"b">>, <<"*", "a", "b">>}}}

AllParentRefs ==
  {[name |-> "gw", kind |-> k, ns |-> ns, section |-> s, port |-> p] :
     k \in {Nil, "Other"}, ns \in {Nil, "ns1"}, s \in {Nil, "l1"}, p \in {Nil, 443}}

AllAttachments == [ref : AllParentRefs, route : AllRoutes, gw : AllGateways]

AllGrants ==
  {[ns |-> "ns2", from |-> f, to |-> t] :
     f \in {<<>>, <<[kind |-> "HTTPRoute", ns |-> "ns1"]>>,
            <<[kind |-> "Gateway", ns |-> "ns1"], [kind |-> "HTTPRoute", ns |-> "ns2"]>>},
     t \in {<<[kind |-> "Service", name |-> Nil]>>,
            <<[kind |-> "Secret", name |-> "x"], [kind |-> "Service", name |-> "y"]>>}}

AllBackendRefs ==
  {[kind |-> k, ns |-> ns, name |-> n, port |-> p] :
     k \in {"Service", "Other"}, ns \in {Nil, "ns2"}, n \in {"x", "y"}, p \in {Nil, 1, 2}}

AllServices ==
  {[k \in {[ns |-> "ns1", name |-> "x"], [ns |-> "ns2", name |-> "y"]} |-> {1}],
   [k \in {[ns |-> "ns2", name |-> "x"]} |-> {1, 2}]}

AllBackends ==
  [ns : {"ns1"}, kind : {"HTTPRoute"}, services : AllServices,
   rules : {<<>>} \cup {<<<<>>, <<r>>>> : r \in AllBackendRefs}
           \cup {<<<<r>>, <<s>>>> : r \in AllBackendRefs, s \in AllBackendRefs}
           \cup {<<<<r, s>>>> : r \in AllBackendRefs, s \in AllBackendRefs},
   grants : {{g} : g \in AllGrants} \cup {{}}]

AllGrantCalls == [grant : AllGrants, ns : {"ns1", "ns2"}, name : {"x", "y"}]

UpTo(n, S) == UNION {[1 .. k -> S] : k \in 0 .. n}

AllCertRefs == [kind : {"Secret", "Other"}, name : {1, 2}]

AllTLSListeners ==
  [protocol : {"HTTP", "HTTPS", "TLS"}, tls : {"unset", "", "Terminate", "Passthrough"},
   refs : UpTo(1, AllCertRefs)
          \cup {<<[kind |-> "Secret", name |-> 1], [kind |-> "Secret", name |-> 2]>>}]

AllValidations ==
  [usable : {{}, {1}, {1, 2}},
   gw : [backend : UpTo(1, AllCertRefs), listeners : [1 .. 2 -> AllTLSListeners]]]

AllListings == UpTo(3, 0 .. 2)

(* Services rendered before, for the one or more listeners of a Gateway,   *)
(* with NodePorts allocated, and Services that somebody else had created,  *)
(* with one unnamed port or with two named otherwise, or one as rendered.  *)
AllCurrent ==
  {<<>>} \cup {<<[name |-> <<>>, port |-> p, nodePort |-> 30001]>> : p \in {80, 443}}
    \cup {<<[name |-> <<"x">>, port |-> p, nodePort |-> 30001],
            [name |-> name, port |-> 8080, nodePort |-> 30002]>> :
            p \in {80, 443}, name \in {<<"y">>, <<"p", 8080>>}}
    \cup UNION {{[i \in DOMAIN s |-> [s[i] EXCEPT !.nodePort = 30000 + n[i]]] :
                  n \in {f \in [DOMAIN s -> 1 .. 3] : \A i, j \in DOMAIN s : i # j => f[i] # f[j]}} :
                s \in {AgentGatewayServicePorts(l) : l \in UpTo(3, {80, 443, 8080}) \ {<<>>}}}

AllServiceApplies == [current : AllCurrent, ports : UpTo(3, {80, 443, 8080}) \ {<<>>}]
=============================================================================
