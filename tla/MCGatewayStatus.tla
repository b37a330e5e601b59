--------------------------- MODULE MCGatewayStatus ---------------------------
(***************************************************************************)
(* Instances of GatewayStatus: the specs that differ in what Reconcile     *)
(* does with them (plain listeners, the last one with a certificate, a     *)
(* backend client certificate, another controller's class).                *)
(***************************************************************************)
EXTENDS GatewayStatus

CONSTANT r1

Plain == [ours |-> TRUE, want |-> [l \in Listeners |-> NoRef], backend |-> NoRef]
Secure == [Plain EXCEPT !.want[N] = r1]
Backend == [Plain EXCEPT !.backend = r1]
Foreign == [Plain EXCEPT !.ours = FALSE]

OneRef == {r1}
SpecsAll == {Plain, Secure, Backend, Foreign}
SpecsSecure == {Plain, Secure}
=============================================================================
