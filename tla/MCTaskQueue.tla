----------------------------- MODULE MCTaskQueue -----------------------------
(* Small instances of TaskQueue: an always-on node and a low-power one. *)
EXTENDS TaskQueue

OneRate == {<<>>, <<"rate">>}
OneCmd == {<<>>, <<"cmd">>}

=============================================================================
