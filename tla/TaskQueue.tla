------------------------------ MODULE TaskQueue ------------------------------
(***************************************************************************)
(* The task queue of the gateway (models/task_queue.py) with what it runs  *)
(* between: the event-handler thread that feeds it (events/event_handler.  *)
(* py), the timers (events/time_events.py), the whitelist (whitelist.py),  *)
(* the application thread that calls the gateway, and the nodes.           *)
(*                                                                         *)
(* config_nodes and configuring_nodes are changed without queue_lock by    *)
(* config_timeout_handler and by the removal of a node from the whitelist, *)
(* which either thread may run.  Each such access is a step, and the block *)
(* task_handler runs under the lock is cut into steps where it looks at    *)
(* the two again.  The other methods that take the lock are one step.      *)
(***************************************************************************)
EXTENDS NodeTasks

CONSTANTS Nodes,
          LowPower,        \* the nodes whose is_low_power() is true
          MaxConfigNodes,  \* TaskQueue.MAX_CONFIG_NODES
          CbTasks,         \* the commands configuration_cb may add, sequences
          Messages,        \* the events a node's messages become
          ApiTasks,        \* the tasks the application adds
          ApiOps,          \* the other calls the application makes
          NoNode,          \* model value, not a node
          \* Bounds on the environment.
          MaxLoad,         \* timers and pending events of one node
          MaxPending,      \* pending events when a message arrives
          MaxQueue,        \* tasks of a node when the application adds one
          MaxExpiries      \* pending CONFIGURATION_TIMEOUT events of one node

ASSUME TaskQueueAssumption ==
  /\ IsFiniteSet(Nodes)
  /\ LowPower \subseteq Nodes
  /\ MaxConfigNodes \in Nat
  /\ CbTasks \subseteq Seq(Command)
  /\ Messages \subseteq Notifies \union Acks \union {"wake_reset"}
  /\ ApiTasks \subseteq Command \union {"reset"}
  /\ NoNode \notin Nodes

VARIABLES
  node,       \* node[n] \in NodeState: queue, config_nodes, configuring_nodes
  sleepTime,  \* wake_up.sleep_time
  whitelist,  \* gw.whitelist
  db,         \* the nodes of gw.node_db
  listener,   \* is_listener(); is_provisioner_mode() when it never changes
  events,     \* event_handler.event_queue
  pc,         \* where the event thread "ev" and the application "api" are
  target,     \* the node each of them works on
  current     \* the type of the event the event thread handles

vars ==
  <<node, sleepTime, whitelist, db, listener, events, pc, target, current>>

Threads == {"ev", "api"}
Removing == {"check", "in_queue", "clean_queue", "clean_config", "cancel",
             "delete", "clean_configuring", "unmark", "unlist"}
Ending == {"end", "end_cancel", "end_del", "end_check", "end_unmark", "end_queue"}
Block == {"mark", "renew", "restart", "head"} \union Ending
Expiring == {"expire", "forget", "forget_del", "forget_check", "forget_unmark",
             "forget_queue"} \union Removing
EvPlaces == {"idle", "lock"} \union Block \union Expiring

Event == [type : EventTypes, node : Nodes]

Low(n) == n \in LowPower
ConfigNodes == {n \in Nodes : node[n].config # "none"}
Room == Cardinality(ConfigNodes) < MaxConfigNodes

TypeOK ==
  /\ node \in [Nodes -> NodeState]
  /\ sleepTime \in SleepTimes
  /\ whitelist \subseteq Nodes
  /\ db \subseteq Nodes
  /\ listener \in BOOLEAN
  /\ events \in Seq(Event)
  /\ pc \in [Threads -> EvPlaces]
  /\ pc["api"] \in {"idle"} \union Removing
  /\ target \in [Threads -> Nodes \union {NoNode}]
  /\ \A t \in Threads : pc[t] # "idle" => target[t] \in Nodes
  /\ current \in EventTypes \union {"none"}
  /\ pc["ev"] # "idle" => current \in EventTypes
  /\ pc["ev"] \in Expiring => current = "config_timeout"

Init ==
  /\ node = [n \in Nodes |-> Fresh]
  /\ sleepTime \in SleepTimes
  /\ whitelist \in {{}, Nodes}
  /\ db = Nodes
  /\ listener = FALSE
  /\ events = <<>>
  /\ pc = [t \in Threads |-> "idle"]
  /\ target = [t \in Threads |-> NoNode]
  /\ current = "none"

-----------------------------------------------------------------------------
(* The environment: nodes and timers put events in the queue. *)

Pending(n, types) ==
  Cardinality({i \in DOMAIN events : events[i].node = n /\ events[i].type \in types})

\* What the environment has given the gateway to do about n.  Handling an event
\* never increases it, so bounding what comes in bounds everything.
Load(n) == Pending(n, EventTypes \ {"config_timeout"})
             + node[n].stray + Running(node[n].queue)

Put(n, type) == events' = Append(events, [type |-> type, node |-> n])

\* A message of a node of the database arrives (event_parser looks the node up
\* when it arrives); a mesh message may be lost, late or repeated.
Message(n) ==
  /\ n \in db
  /\ Load(n) < MaxLoad /\ Len(events) < MaxPending
  /\ \E m \in Messages : Put(n, m)
  /\ UNCHANGED <<node, sleepTime, whitelist, db, listener, pc, target, current>>

\* A TaskTimeout fires: of a queued task, or of one that is gone.
TaskTimer(n) ==
  /\ Put(n, "task_timeout")
  /\ \/ \E i \in DOMAIN node[n].queue :
          /\ node[n].queue[i].timer = "running"
          /\ node' = [node EXCEPT ![n].queue[i].timer = "spent"]
     \/ /\ node[n].stray > 0
        /\ node' = [node EXCEPT ![n].stray = @ - 1]
  /\ UNCHANGED <<sleepTime, whitelist, db, listener, pc, target, current>>

\* The ConfigTimeout of a node fires, or one whose entry was deleted.
ConfigTimer(n) ==
  /\ Pending(n, {"config_timeout"}) < MaxExpiries
  /\ Put(n, "config_timeout")
  /\ \/ /\ node[n].config = "running"
        /\ node' = [node EXCEPT ![n].config = "stopped"]
     \/ /\ node[n].orphans > 0
        /\ node' = [node EXCEPT ![n].orphans = @ - 1]
  /\ UNCHANGED <<sleepTime, whitelist, db, listener, pc, target, current>>

-----------------------------------------------------------------------------
(* Threads. *)

Goto(t, place) == pc' = [pc EXCEPT ![t] = place] /\ UNCHANGED <<target, current>>

\* The thread is done with what it was doing, normally or by an exception.
Idle(t) ==
  /\ pc' = [pc EXCEPT ![t] = "idle"]
  /\ target' = [target EXCEPT ![t] = NoNode]
  /\ current' = IF t = "ev" THEN "none" ELSE current

\* Mutant: config_timeout_handler does not look at the type of the event.
ConfigTimeoutHandlerUntested(n, type) ==
  /\ pc' = [pc EXCEPT !["ev"] = "expire"]
  /\ target' = [target EXCEPT !["ev"] = n]
  /\ current' = type

\* Mutant: config_timeout_handler is not registered.
NoConfigTimeoutHandler(n, type) == Idle("ev")

\* After task_handler the event goes to config_timeout_handler.
ToConfigTimeoutHandler(n, type) ==
  IF type = "config_timeout"
    THEN /\ pc' = [pc EXCEPT !["ev"] = "expire"]
         /\ target' = [target EXCEPT !["ev"] = n]
         /\ current' = type
    ELSE Idle("ev")

\* process_packets takes the next event; task_handler looks at the mode and at
\* the whitelist before it takes the lock.
Dispatch ==
  /\ pc["ev"] = "idle"
  /\ events # <<>>
  /\ LET e == Head(events)
     IN IF ~listener /\ e.node \in whitelist
          THEN /\ pc' = [pc EXCEPT !["ev"] = "lock"]
               /\ target' = [target EXCEPT !["ev"] = e.node]
               /\ current' = e.type
          ELSE ToConfigTimeoutHandler(e.node, e.type)
  /\ events' = Tail(events)
  /\ UNCHANGED <<node, sleepTime, whitelist, db, listener>>

\* The kind of the task the event completes, if it does.
Acked(n, type) ==
  IF Succeeds(node[n], type) THEN node[n].queue[1].kind ELSE "none"

\* The event thread is in the block that it runs under queue_lock.
Locked == pc["ev"] \in Block

\* wake_reset_cb and notify_cb, up to the callback and the re-adding of tasks.
Callbacks ==
  LET n == target["ev"]
  IN /\ pc["ev"] = "lock"
     /\ \E cb \in CbTasks :
          LET p == Prepared(node[n], Low(n), sleepTime, current, Room, cb)
          IN /\ node' = [node EXCEPT ![n] = p]
             /\ IF current = "notify0" /\ Reconfigures(node[n], Room)
                  THEN Goto("ev", "mark")
                ELSE IF Raises(node[n], current, p)
                  THEN ToConfigTimeoutHandler(n, current)
                ELSE Goto("ev", "renew")
     /\ UNCHANGED <<sleepTime, whitelist, db, listener, events>>

\* configuring_nodes.add(node); the self.queue[node] that follows raises when
\* no task was added.
Mark ==
  LET n == target["ev"]
  IN /\ pc["ev"] = "mark"
     /\ node' = [node EXCEPT ![n] = Marked(@)]
     /\ IF node[n].queue = <<>> THEN Idle("ev") ELSE Goto("ev", "renew")
     /\ UNCHANGED <<sleepTime, whitelist, db, listener, events>>

\* Any event of the node restarts its configuration timer.
Renew ==
  /\ pc["ev"] = "renew"
  /\ IF node[target["ev"]].config # "none" THEN Goto("ev", "restart")
                                           ELSE Goto("ev", "head")
  /\ UNCHANGED <<node, sleepTime, whitelist, db, listener, events>>

Restart ==
  LET n == target["ev"]
  IN /\ pc["ev"] = "restart"
     /\ IF node[n].config = "none"
          THEN Idle("ev") /\ UNCHANGED node  \* KeyError
          ELSE Goto("ev", "head") /\ node' = [node EXCEPT ![n].config = "running"]
     /\ UNCHANGED <<sleepTime, whitelist, db, listener, events>>

\* The head task sees the event.  A reset task that succeeds removes the node
\* from the database, a sleep-period command stores it.  An empty list that was
\* left in the dict has no head: an IndexError hides the event from
\* config_timeout_handler.
HeadTask ==
  LET n == target["ev"]
  IN /\ pc["ev"] = "head"
     /\ node' = [node EXCEPT ![n] = HeadHandled(@, Low(n), sleepTime, current)]
     /\ db' = CASE Acked(n, current) = "reset" -> db \ {n}
                [] Acked(n, current) = "conf"  -> db \union {n}
                [] OTHER                       -> db
     /\ IF Acked(n, current) \in Final THEN Goto("ev", "end")
        ELSE IF node[n].queue = <<>> /\ node[n].left THEN Idle("ev")
        ELSE ToConfigTimeoutHandler(n, current)
     /\ UNCHANGED <<sleepTime, whitelist, listener, events>>

-----------------------------------------------------------------------------
(* What task_handler, config_timeout_handler and node_clean_tasks do to    *)
(* the entries of a node: each test and each change is a step of thread t, *)
(* from place `at'.                                                        *)

Quiet == UNCHANGED <<sleepTime, db, listener, events>>

TestConfig(t, at, yes, no) ==
  /\ pc[t] = at
  /\ Goto(t, IF node[target[t]].config # "none" THEN yes ELSE no)
  /\ UNCHANGED <<node, whitelist>> /\ Quiet

TestConfiguring(t, at, yes, no) ==
  /\ pc[t] = at
  /\ Goto(t, IF node[target[t]].configuring THEN yes ELSE no)
  /\ UNCHANGED <<node, whitelist>> /\ Quiet

\* The entry has gone since it was tested: the rest is skipped.  task_handler
\* then leaves in the dict what pop(0) left of the queue.
KeyError(t) ==
  /\ Idle(t)
  /\ node' = [node EXCEPT ![target[t]].left = @ \/ pc[t] \in Ending]

CancelEntry(t, at, then) ==
  /\ pc[t] = at
  /\ \/ node[target[t]].config = "none" /\ KeyError(t)
     \/ /\ node[target[t]].config # "none"
        /\ node' = [node EXCEPT ![target[t]].config = "stopped"]
        /\ Goto(t, then)
  /\ UNCHANGED whitelist /\ Quiet

\* Mutant: the timer is cancelled and the entry is not deleted.
DeleteNothing(t, at, then) ==
  /\ pc[t] = at
  /\ Goto(t, then)
  /\ UNCHANGED <<node, whitelist>> /\ Quiet

\* An entry of config_nodes is deleted; its timer, when still running, is not
\* cancelled.
Deleted(s) ==
  [s EXCEPT !.config = "none",
            !.orphans = IF s.config = "running" THEN @ + 1 ELSE @]

DeleteEntry(t, at, then) ==
  /\ pc[t] = at
  /\ \/ node[target[t]].config = "none" /\ KeyError(t)
     \/ /\ node[target[t]].config # "none"
        /\ node' = [node EXCEPT ![target[t]] = Deleted(@)]
        /\ Goto(t, then)
  /\ UNCHANGED whitelist /\ Quiet

Unmark(t, at, then) ==
  /\ pc[t] = at
  /\ \/ ~node[target[t]].configuring /\ KeyError(t)
     \/ /\ node[target[t]].configuring
        /\ node' = [node EXCEPT ![target[t]] = Unmarked(@)]
        /\ Goto(t, then)
  /\ UNCHANGED whitelist /\ Quiet

ClearQueue(t, at) ==
  /\ pc[t] = at
  /\ node' = [node EXCEPT ![target[t]] = CancelTasks(@)]
  /\ UNCHANGED whitelist /\ Quiet

\* Mutant: the end of a configuration leaves the node in configuring_nodes.
EndConfigurationMarked ==
  \/ TestConfig("ev", "end", "end_cancel", "end_queue")
  \/ CancelEntry("ev", "end_cancel", "end_del")
  \/ DeleteEntry("ev", "end_del", "end_queue")
  \/ ClearQueue("ev", "end_queue") /\ Idle("ev")

\* task_handler: an acknowledged task of Final ends the configuration.
EndConfiguration ==
  \/ TestConfig("ev", "end", "end_cancel", "end_queue")
  \/ CancelEntry("ev", "end_cancel", "end_del")
  \/ DeleteEntry("ev", "end_del", "end_check")
  \/ TestConfiguring("ev", "end_check", "end_unmark", "end_queue")
  \/ Unmark("ev", "end_unmark", "end_queue")
  \/ ClearQueue("ev", "end_queue") /\ Idle("ev")

\* config_timeout_handler: remove the node from the whitelist if it is there ...
Expire ==
  /\ pc["ev"] = "expire"
  /\ Goto("ev", IF target["ev"] \in whitelist THEN "check" ELSE "forget")
  /\ UNCHANGED <<node, whitelist>> /\ Quiet

\* ... then delete what config_nodes, configuring_nodes and queue hold of it.
Forget ==
  \/ TestConfig("ev", "forget", "forget_del", "forget_queue")
  \/ DeleteEntry("ev", "forget_del", "forget_check")
  \/ TestConfiguring("ev", "forget_check", "forget_unmark", "forget_queue")
  \/ Unmark("ev", "forget_unmark", "forget_queue")
  \/ ClearQueue("ev", "forget_queue") /\ Idle("ev")  \* or a KeyError, the list gone

-----------------------------------------------------------------------------
(* Whitelist.remove_node, run by thread t on node target[t]. *)

\* remove_node returns: the event thread is inside config_timeout_handler.
Return(t) == IF t = "ev" THEN Goto(t, "forget") ELSE Idle(t)

RemoveCheck(t) ==
  /\ pc[t] = "check"
  /\ IF target[t] \in whitelist THEN Goto(t, "in_queue") ELSE Return(t)
  /\ UNCHANGED <<node, whitelist>> /\ Quiet

\* node_is_in_queue.
RemoveInQueue(t) ==
  LET s == node[target[t]]
  IN /\ pc[t] = "in_queue" /\ ~Locked
     /\ IF s.queue # <<>> \/ s.left \/ s.config # "none" \/ s.configuring
          THEN Goto(t, "clean_queue") ELSE Goto(t, "unlist")
     /\ UNCHANGED <<node, whitelist>> /\ Quiet

\* node_clean_tasks: the queue under the lock, the entries without it.
CleanTasks(t) ==
  \/ ~Locked /\ ClearQueue(t, "clean_queue") /\ Goto(t, "clean_config")
  \/ TestConfig(t, "clean_config", "cancel", "clean_configuring")
  \/ CancelEntry(t, "cancel", "delete")
  \/ DeleteEntry(t, "delete", "clean_configuring")
  \/ TestConfiguring(t, "clean_configuring", "unmark", "unlist")
  \/ Unmark(t, "unmark", "unlist")

\* whitelist.remove(node), a ValueError when the other thread was faster.
Unlist(t) ==
  /\ pc[t] = "unlist"
  /\ IF target[t] \in whitelist THEN Return(t) ELSE Idle(t)
  /\ whitelist' = whitelist \ {target[t]}
  /\ UNCHANGED node /\ Quiet

Remove(t) == RemoveCheck(t) \/ RemoveInQueue(t) \/ CleanTasks(t) \/ Unlist(t)

-----------------------------------------------------------------------------
(* Calls of the application, between two of its own. *)

\* A model adds a task for a node: TaskQueue.add_task.
ApiAddTask(n) ==
  /\ pc["api"] = "idle" /\ ~Locked
  /\ ~listener
  /\ Load(n) < MaxLoad
  /\ Len(node[n].queue) < MaxQueue
  /\ \E k \in ApiTasks :
       node' = [node EXCEPT ![n] = AddTask(@, Low(n), k, sleepTime)]
  /\ UNCHANGED <<sleepTime, whitelist, db, listener, events, pc, target, current>>

ApiCancelTasks(n) ==
  /\ "cancel" \in ApiOps
  /\ pc["api"] = "idle" /\ ~Locked
  /\ node' = [node EXCEPT ![n] = CancelTasks(@)]
  /\ UNCHANGED <<sleepTime, whitelist, db, listener, events, pc, target, current>>

ApiAddWhitelist(n) ==
  /\ "whitelist" \in ApiOps
  /\ pc["api"] = "idle"
  /\ whitelist' = whitelist \union {n}
  /\ UNCHANGED <<node, sleepTime, db, listener, events, pc, target, current>>

ApiRemoveWhitelist(n) ==
  /\ "unlist" \in ApiOps
  /\ pc["api"] = "idle"
  /\ node[n].orphans < MaxExpiries
  /\ pc' = [pc EXCEPT !["api"] = "check"]
  /\ target' = [target EXCEPT !["api"] = n]
  /\ UNCHANGED <<node, sleepTime, whitelist, db, listener, events, current>>

\* Never while task_handler holds the lock: add_task and reschedule_tasks look
\* at the mode again, and a mode that changes under them is not modelled.
ApiSetListener ==
  /\ "listener" \in ApiOps
  /\ pc["api"] = "idle"
  /\ pc["ev"] # "lock" /\ ~Locked
  /\ listener' = ~listener
  /\ UNCHANGED <<node, sleepTime, whitelist, db, events, pc, target, current>>

ApiSetSleepTime ==
  /\ "sleep_time" \in ApiOps
  /\ pc["api"] = "idle"
  /\ sleepTime' \in SleepTimes
  /\ UNCHANGED <<node, whitelist, db, listener, events, pc, target, current>>

\* The node is provisioned again after it was removed (Provisioner.prov_complete).
Provision(n) ==
  /\ "provision" \in ApiOps
  /\ db' = db \union {n}
  /\ UNCHANGED <<node, sleepTime, whitelist, listener, events, pc, target, current>>

-----------------------------------------------------------------------------
Application ==
  \/ ApiSetListener \/ ApiSetSleepTime
  \/ \E n \in Nodes : \/ ApiAddTask(n) \/ ApiCancelTasks(n)
                      \/ ApiAddWhitelist(n) \/ ApiRemoveWhitelist(n)
                      \/ Provision(n)

EventThread ==
  \/ Dispatch \/ Callbacks \/ Mark \/ Renew \/ Restart \/ HeadTask
  \/ EndConfiguration \/ Expire \/ Forget \/ Remove("ev")

Outside == Application \/ \E n \in Nodes : Message(n)

Next ==
  \/ Outside
  \/ EventThread
  \/ Remove("api")
  \/ \E n \in Nodes : TaskTimer(n) \/ ConfigTimer(n)

\* Each thread keeps running and each timer fires at last.  A ConfigTimeout is
\* restarted by every event of its node and would then not fire: the liveness
\* properties below only speak of what follows once the nodes have gone silent.
Fairness ==
  /\ WF_vars(EventThread)
  /\ WF_vars(Remove("api"))
  /\ \A n \in Nodes : WF_vars(TaskTimer(n)) /\ WF_vars(ConfigTimer(n))

Spec == Init /\ [][Next]_vars
FairSpec == Spec /\ Fairness

-----------------------------------------------------------------------------
(* Safety. *)

\* A command at the head of a queue has been executed: Task.handler may call
\* its success(), which cancels a timer, and nothing else would ever execute
\* it.  True although four methods put tasks at the head (add_task,
\* sleep_node, reschedule_tasks, the callback's re-adding of pending tasks),
\* but for what a KeyError of task_handler leaves of a queue, when a removal
\* deletes the entry of its node under it.
EndingQueue(n) == target["ev"] = n /\ pc["ev"] \in Ending

HeadReady ==
  \A n \in Nodes : ReadyHead(node[n].queue) \/ node[n].left \/ EndingQueue(n)

\* A WakeTask is only ever at the head, so a queue never waits for two
\* wake-ups, and a queue puts its node to sleep at most once.
QueueShape == \A n \in Nodes : ShapeOf(node[n].queue)

\* Why a queue loses tasks that are not acknowledged: its node is removed, times
\* out or has its tasks cancelled; it goes to sleep or alive or is reset; it is
\* configured the legacy way; it is always on and a command is out of retries.
PendingIn(q) == {i \in DOMAIN q : q[i].kind \notin {"wake", "sleep"}}

Keeps(q, r, lost) ==
  \E f \in [PendingIn(q) \ lost -> DOMAIN r] :
    /\ \A i \in DOMAIN f : r[f[i]].kind = q[i].kind /\ r[f[i]].period = q[i].period
    /\ \A i, j \in DOMAIN f : i < j => f[i] < f[j]

Cancels(n) ==
  \/ pc["ev"] = "lock" /\ current = "notify" /\ node[n].config # "none"
  \/ /\ pc["ev"] = "head" /\ current = "task_timeout" /\ ~Low(n)
     /\ node[n].queue # <<>> /\ node[n].queue[1].retries = MaxRetries

\* Whatever an event of a node does to its queue (re-adding after the
\* configuration callback, retries, a new wake-up, sleep_node), all the pending
\* tasks but the one it acknowledges stay, in their order.  The legacy
\* configuration cancels them all (task_queue.py:216), and so do the retries of
\* an always-on node.
KeepsPending(n) ==
  LET acked == pc["ev"] = "head" /\ Acked(n, current) # "none"
  IN Keeps(node[n].queue, node'[n].queue, IF acked THEN {1} ELSE {})

PendingKept ==
  [][\A n \in Nodes :
       (/\ pc["ev"] \in {"lock", "mark", "head"} /\ pc'["ev"] # pc["ev"]
        /\ target["ev"] = n /\ ~Cancels(n)) => KeepsPending(n)]_vars

\* configuring_nodes stays within config_nodes, except while a thread that
\* deleted the entry has yet to take the node out of configuring_nodes, and
\* except for a node marked after a removal had deleted its entry: otherwise
\* notify_cb would never configure the node again.
Owned(n) ==
  \E t \in Threads :
    /\ target[t] = n
    /\ pc[t] \in {"clean_configuring", "unmark", "end_check", "end_unmark",
                  "forget_check", "forget_unmark"}

ConfiguringOwned ==
  \A n \in Nodes : node[n].configuring /\ node[n].config = "none" =>
                     Owned(n) \/ node[n].late

\* No more nodes are being configured than MAX_CONFIG_NODES.
SlotBound == Cardinality(ConfigNodes) <= MaxConfigNodes

\* A configuration slot always has something that will free it: its timer
\* runs, or its CONFIGURATION_TIMEOUT is on its way or being handled, or the
\* thread that cancelled the timer is about to delete the entry.  An event that
\* the head task has yet to see does not count: task_handler may raise there,
\* and config_timeout_handler then never gets it.
ExpiryPending(n) ==
  \/ \E i \in DOMAIN events : events[i] = [type |-> "config_timeout", node |-> n]
  \/ /\ pc["ev"] \notin {"idle", "head"}
     /\ target["ev"] = n /\ current = "config_timeout"
  \/ \E t \in Threads : target[t] = n /\ pc[t] \in {"delete", "end_del"}

SlotTimed == \A n \in Nodes : node[n].config = "stopped" => ExpiryPending(n)

-----------------------------------------------------------------------------
(* Liveness, once the application and the nodes have gone silent. *)

Silent == <>[][~Outside]_vars

\* Every configuration slot is freed: MAX_CONFIG_NODES silent nodes do not
\* keep the others from being configured for ever.
SlotsFreed == Silent => <>[](ConfigNodes = {})

=============================================================================
