----------------------------- MODULE MCRouteRows -----------------------------
(* Session trees for the runs of RouteRows. *)
EXTENDS RouteRows

PathParent == [n \in Nodes \ {Origin} |-> n - 1]
Nobody == {}
OriginsKeepalives == {<<1, 2>>}
=============================================================================
