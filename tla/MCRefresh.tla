------------------------------ MODULE MCRefresh ------------------------------
(* A name that moves from a dual-stack zone to an IPv4-only one. *)
EXTENDS Refresh

DualThenV4 == {[AAAA |-> <<"x6">>, A |-> <<"x4">>], [AAAA |-> <<>>, A |-> <<"y4">>]}
V6 == {"x6"}
=============================================================================
