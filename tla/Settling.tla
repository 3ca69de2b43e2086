------------------------------- MODULE Settling -------------------------------
(***************************************************************************)
(* TaskQueue with a history of what a queue may lose that would have moved *)
(* it on.  A TASK_TIMEOUT that comes while its node is off the whitelist,  *)
(* or the gateway a listener, is dropped by task_handler, and no timer of  *)
(* the queue runs any more: nothing takes the queue up again when the node *)
(* is whitelisted again or the mode changes back.                          *)
(***************************************************************************)
EXTENDS TaskQueue

VARIABLE stranded  \* nodes whose queue has lost its timeout or its slot

settling == <<vars, stranded>>

\* The step drops a TASK_TIMEOUT of n: at the whitelist check, or by a KeyError.
TimeoutDropped(n) ==
  \/ /\ Dispatch /\ pc'["ev"] # "lock"
     /\ Head(events) = [type |-> "task_timeout", node |-> n]
  \/ Restart /\ target["ev"] = n /\ current = "task_timeout" /\ pc'["ev"] = "idle"

\* The step ends the slot of n under a queue that waits for the node to wake up.
SlotLost(n) == node[n].config # "none" /\ node'[n].config = "none"

Strands(n) == TimeoutDropped(n) \/ SlotLost(n) \/ node'[n].left

Stranded ==
  stranded' = {n \in Nodes : node'[n].queue # <<>> /\ (n \in stranded \/ Strands(n))}

SettlingSpec ==
  /\ Init /\ stranded = {}
  /\ [][Next /\ Stranded]_settling
  /\ Fairness

\* Every command for a whitelisted node that is always on is acknowledged or
\* given up, once the nodes and the application are silent: its queue does not
\* stay busy, which would leave every later command of the node unexecuted.
\* Excepted is a queue that was stranded.
CommandsSettle ==
  Silent => <>[](\A n \in whitelist \ (LowPower \union stranded) :
                   node[n].queue = <<>>)

=============================================================================
