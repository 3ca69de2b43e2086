------------------------------ MODULE NodeTasks ------------------------------
(***************************************************************************)
(* What TaskQueue (models/task_queue.py) keeps for ONE node, and what each *)
(* of its locked methods does to it.  The operators are functions from     *)
(* such a record to the next one: module TaskQueue holds one record per    *)
(* node and adds the threads, the timers and the event queue.              *)
(*                                                                         *)
(*   queue        self.queue[node]; <<>> stands for "node not in the dict",*)
(*                the two agree when the queue lock is free, `left' apart  *)
(*   stray        running TaskTimeout timers no queued task refers to      *)
(*                any more: the task was dropped, or started another timer *)
(*   config       the ConfigTimeout of self.config_nodes[node]: "none" when*)
(*                the node is not there, "running", or "stopped" when the  *)
(*                timer has fired or has been cancelled                    *)
(*   orphans      running ConfigTimeout timers no entry refers to          *)
(*   configuring  node \in self.configuring_nodes                          *)
(*   late         it was put there after its entry of config_nodes had gone*)
(*   left         a KeyError ended task_handler after pop(0), so that the  *)
(*                dict still holds what pop(0) left, be it the empty list  *)
(*   period       node.sleep_period                                        *)
(*                                                                         *)
(* `low' is node.is_low_power() and `slp' is wake_up.sleep_time.           *)
(***************************************************************************)
EXTENDS Naturals, Sequences, FiniteSets

CONSTANTS MaxRetries,  \* Task.MAX_RETRIES
          SleepTimes,  \* the values wake_up.sleep_time may take
          Legacy       \* get_config_mode() = "legacy"

ASSUME NodeTasksAssumption ==
  /\ MaxRetries \in Nat \ {0}
  /\ SleepTimes \subseteq Nat \ {0}
  /\ SleepTimes # {}
  /\ Legacy \in BOOLEAN

Periods == SleepTimes \union {0}

\* Tasks that end the queue when they succeed, and tasks that retry a command
\* on TASK_TIMEOUT; the third kind is "wake".  "conf" is the TASK_OP_CONF
\* command that carries the sleep period, "rate" another command answered by
\* the same acknowledgement, "delete" DeleteTaskOp, "cmd" every other command.
Final == {"sleep", "alive", "reset"}
Command == {"conf", "rate", "delete", "cmd"}
Kinds == {"wake"} \union Final \union Command

\* timer: the task's own TaskTimeout; retries is only ever compared with
\* MAX_RETRIES, so it stops counting there.
Task == [kind    : Kinds,
         retries : 0..MaxRetries,
         timer   : {"none", "running", "spent"},
         period  : Periods]

NodeState == [queue       : Seq(Task),
              stray       : Nat,
              config      : {"none", "running", "stopped"},
              orphans     : Nat,
              configuring : BOOLEAN,
              late        : BOOLEAN,
              left        : BOOLEAN,
              period      : Periods]

Fresh == [queue |-> <<>>, stray |-> 0, config |-> "none", orphans |-> 0,
          configuring |-> FALSE, late |-> FALSE, left |-> FALSE, period |-> 0]

NewTask(k, slp) ==
  [kind |-> k, retries |-> 0, timer |-> "none",
   period |-> IF k = "conf" THEN slp ELSE 0]

WakeTask == NewTask("wake", 0)

Notifies == {"notify", "notify0", "notify1"}
Acks == {"ack_wait", "ack_sleep", "ack_alive", "node_reset",
         "ack_task", "ack_delete", "ack_cmd"}
EventTypes == Notifies \union Acks \union
              {"wake_reset", "task_timeout", "config_timeout"}

\* The acknowledgement that completes a task, then the events of its
\* success_events and error_events lists.
AckOf(k) ==
  CASE k = "wake"   -> "ack_wait"
    [] k = "sleep"  -> "ack_sleep"
    [] k = "alive"  -> "ack_alive"
    [] k = "reset"  -> "node_reset"
    [] k = "delete" -> "ack_delete"
    [] k = "cmd"    -> "ack_cmd"
    [] OTHER        -> "ack_task"

SuccessEvents(k) ==
  IF k \in Final THEN {AckOf(k), "task_timeout"} ELSE {AckOf(k)}
ErrorEvents(k) == IF k \in Command THEN {"task_timeout"} ELSE Notifies

\* What queues are like: a command at the head has been executed; a WakeTask is
\* at the head only, a SleepTask there is but one.
ReadyHead(q) == q # <<>> /\ q[1].kind \in Command => q[1].timer # "none"

ShapeOf(q) ==
  /\ \A i \in DOMAIN q : q[i].kind = "wake" => i = 1
  /\ \A i, j \in DOMAIN q : q[i].kind = "sleep" /\ q[j].kind = "sleep" => i = j

-----------------------------------------------------------------------------
\* Timers.

Running(q) == Cardinality({i \in DOMAIN q : q[i].timer = "running"})

\* The task after execute(): the timer reference is overwritten.
Started(t) ==
  [t EXCEPT !.timer = "running",
            !.retries = IF t.kind \in Command /\ @ < MaxRetries
                          THEN @ + 1 ELSE @]

\* execute() of the head: a command that still had a timer running loses it.
Execute(s) ==
  LET t == s.queue[1]
  IN IF t.kind = "wake" THEN s
     ELSE [s EXCEPT !.queue[1] = Started(t),
                    !.stray = IF t.timer = "running" THEN @ + 1 ELSE @,
                    !.left = FALSE]

\* SleepTask, AliveTask, ResetTask cancel their timer before executing again.
Repeat(s) == [s EXCEPT !.queue[1] = Started(@)]

-----------------------------------------------------------------------------
\* The methods.

\* cancel_tasks: the tasks go, their timers keep running.
CancelTasks(s) ==
  [s EXCEPT !.queue = <<>>, !.stray = @ + Running(s.queue), !.left = FALSE]

\* Mutant: the first task of an idle node is not executed.
AddTaskUnexecuted(s, low, k, slp) ==
  LET wake == IF s.config # "none" \/ low THEN <<WakeTask>> ELSE <<>>
  IN [s EXCEPT !.queue = IF @ = <<>> THEN Append(wake, NewTask(k, slp))
                                    ELSE Append(@, NewTask(k, slp))]

\* add_task.
AddTask(s, low, k, slp) ==
  LET t == NewTask(k, slp)
      waits == s.config # "none" \/ low
  IN IF s.queue # <<>> \/ s.left THEN [s EXCEPT !.queue = Append(@, t)]
     ELSE IF waits     THEN [s EXCEPT !.queue = <<WakeTask, t>>]
     ELSE Execute([s EXCEPT !.queue = <<t>>])

\* reschedule_tasks, reached only from the error() of a command at the head.
Reschedule(s, low) ==
  IF low THEN [s EXCEPT !.queue = <<WakeTask>> \o @] ELSE CancelTasks(s)

\* set_sleep_time, legacy or not; first_time is "node in config_nodes".
SleepTimeTasks(s, slp) ==
  IF Legacy /\ s.config = "none"
    THEN <<NewTask("delete", slp), NewTask("conf", slp)>>
    ELSE <<NewTask("conf", slp)>>

\* Mutant: sleep_node of a sleeping node does not wait for its next wake-up.
SleepNodeBare(s, low, slp, listed) ==
  [s EXCEPT !.queue = IF ~low THEN <<NewTask("alive", slp)>>
                      ELSE IF s.period = slp THEN <<NewTask("sleep", slp)>>
                      ELSE SleepTimeTasks(s, slp) \o <<NewTask("sleep", slp)>>]

\* sleep_node, for a node with no task; `listed' tells whether the dict still
\* holds its (empty) list, which is when add_task puts no WakeTask first.
SleepNode(s, low, slp, listed) ==
  LET wake == IF listed THEN <<>> ELSE <<WakeTask>>
      tasks == IF ~low THEN <<NewTask("alive", slp)>>
               ELSE IF s.period = slp THEN <<NewTask("sleep", slp)>>
               ELSE wake \o SleepTimeTasks(s, slp) \o <<NewTask("sleep", slp)>>
  IN [s EXCEPT !.queue = tasks]

\* Mutant: MAX_CONFIG_NODES is not looked at.
OpenedAlways(s, room) ==
  IF s.config = "none" THEN [s EXCEPT !.config = "running"] ELSE s

\* A configuration slot, if there is room and the node has none.
Opened(s, room) ==
  IF room /\ s.config = "none" THEN [s EXCEPT !.config = "running"] ELSE s

\* get_tasks drops the Wake and Sleep tasks.  Written with the shape every
\* queue has (QueueShape in module TaskQueue): a WakeTask only at the head, at
\* most one SleepTask.
SleepAt(q) ==
  IF \E i \in DOMAIN q : q[i].kind = "sleep"
    THEN CHOOSE i \in DOMAIN q : q[i].kind = "sleep"
    ELSE Len(q) + 1

\* Mutants: no task is dropped; what comes after the SleepTask is.
GetTasksAll(q) == q

GetTasksAwake(q) ==
  SubSeq(q, IF q # <<>> /\ q[1].kind = "wake" THEN 2 ELSE 1, SleepAt(q) - 1)

GetTasks(q) ==
  LET first == IF q # <<>> /\ q[1].kind = "wake" THEN 2 ELSE 1
  IN SubSeq(q, first, SleepAt(q) - 1) \o SubSeq(q, SleepAt(q) + 1, Len(q))

\* The configuration callback, run on a node of config_nodes whose queue was
\* just cancelled: it adds the commands `cb', after which the tasks `kept' are
\* added again, as they were; `lost' timers are left to the tasks that go.
Configured(s, cb, kept, lost, slp) ==
  LET added == [i \in 1..Len(cb) |-> NewTask(cb[i], slp)] \o kept
  IN [s EXCEPT !.queue = IF added = <<>> THEN <<>> ELSE <<WakeTask>> \o added,
               !.stray = @ + lost,
               !.left = FALSE,
               !.period = 0]

SleepIfIdle(s, low, slp) ==
  IF s.queue = <<>> /\ ~s.left THEN SleepNode(s, low, slp, FALSE) ELSE s

\* The three branches of notify_cb: no "conf" in the event, conf = 0, conf = 1.
NotifyLegacy(s, low, slp, cb) ==
  IF s.config # "none"
    THEN Configured(s, cb, <<>>, Running(s.queue), slp)
    ELSE SleepIfIdle(s, low, slp)

\* conf = 0 configures a node that has a slot, old or new, and is not marked.
Reconfigures(s, room) == Opened(s, room).config # "none" /\ ~s.configuring

NotifyUnconfigured(s, slp, room, cb) ==
  LET o == Opened(s, room)
      lost == IF SleepAt(s.queue) \in DOMAIN s.queue
                 /\ s.queue[SleepAt(s.queue)].timer = "running" THEN 1 ELSE 0
  IN IF Reconfigures(s, room) THEN Configured(o, cb, GetTasks(s.queue), lost, slp)
                              ELSE o

\* What wake_reset_cb and notify_cb do before the head task sees the event.
Prepared(s, low, slp, e, room, cb) ==
  CASE e = "wake_reset" -> Opened(s, room)
    [] e = "notify"     -> NotifyLegacy(s, low, slp, cb)
    [] e = "notify0"    -> NotifyUnconfigured(s, slp, room, cb)
    [] e = "notify1"    -> SleepIfIdle(s, low, slp)
    [] OTHER            -> s

\* notify_cb ends both configuring branches with self.queue[node], a KeyError
\* when nothing was added: the rest of task_handler is skipped.
Raises(s, e, p) == e = "notify" /\ s.config # "none" /\ p.queue = <<>>

\* The node is put in configuring_nodes, and taken out of it.
Marked(s) == [s EXCEPT !.configuring = TRUE, !.late = (s.config = "none")]
Unmarked(s) == [s EXCEPT !.configuring = FALSE, !.late = FALSE]

-----------------------------------------------------------------------------
\* task_handler after the two callbacks.

\* Mutant: a command out of retries does not reschedule the queue.
FailedQuietly(s, low) ==
  LET t == s.queue[1]
  IN IF t.kind = "wake" THEN s
     ELSE IF t.kind \in Final THEN Repeat(s)
     ELSE IF t.retries < MaxRetries THEN Execute(s)
     ELSE s

\* error() of the head task.
Failed(s, low) ==
  LET t == s.queue[1]
  IN IF t.kind = "wake" THEN s
     ELSE IF t.kind \in Final THEN Repeat(s)
     ELSE IF t.retries < MaxRetries THEN Execute(s)
     ELSE Reschedule(s, low)

\* success() of the head task, which cancels the task's own timer, and pop(0).
Popped(s) ==
  LET t == s.queue[1]
  IN [s EXCEPT !.queue = Tail(@),
               !.period = IF t.kind = "conf" THEN t.period ELSE @]

\* ... then the next task, sleep_node, or the end of a queue that has become
\* empty.  A task of Final ends its queue in steps of its own.
Completed(s, low, slp) ==
  LET p == Popped(s)
  IN IF s.queue[1].kind \in Final THEN p
     ELSE IF p.queue # <<>> THEN Execute(p)
     ELSE IF p.config # "none" \/ low
       THEN Execute(SleepNode(p, low, slp, TRUE))
     ELSE [p EXCEPT !.left = FALSE]

\* Whether the head task's success() runs.  A command that was never executed
\* has no timer to cancel: success() raises and nothing is popped.
Succeeds(s, e) ==
  /\ s.queue # <<>>
  /\ e \in SuccessEvents(s.queue[1].kind)
  /\ s.queue[1].kind \in Command => s.queue[1].timer # "none"

Fails(s, e) == s.queue # <<>> /\ e \in ErrorEvents(s.queue[1].kind)

\* The head task sees the event: lines 270 to 273 and 280 to 288.
HeadHandled(s, low, slp, e) ==
  IF Succeeds(s, e) THEN Completed(s, low, slp)
  ELSE IF Fails(s, e) THEN Failed(s, low)
  ELSE s

=============================================================================
