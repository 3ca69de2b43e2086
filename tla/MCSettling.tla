------------------------------ MODULE MCSettling ------------------------------
(* A small instance of Settling: an always-on node. *)
EXTENDS Settling

OneRate == {<<>>, <<"rate">>}

=============================================================================
