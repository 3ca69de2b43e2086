--------------------------- MODULE NodeTasksProofs ---------------------------
(***************************************************************************)
(* What the methods of NodeTasks preserve, one lemma per method.  A node   *)
(* record is `Good' when it is well typed, its queue has the shape ShapeOf,*)
(* and a command at the head of its queue has been executed unless the     *)
(* queue is what a KeyError left.                                          *)
(***************************************************************************)
EXTENDS NodeTasks, FiniteSetTheorems, SequenceTheorems, TLAPS

Typed(s) == s \in NodeState /\ ShapeOf(s.queue)
Good(s) == Typed(s) /\ (s.left \/ ReadyHead(s.queue))

\* A step leaves the configuration entry of a record alone.
SameSlot(s, x) ==
  x.config = s.config /\ x.configuring = s.configuring /\ x.late = s.late

\* Commands and resets are what add_task is given from outside.
Addable == Command \union {"reset"}

-----------------------------------------------------------------------------
\* The number of timers a queue has running is a number.
LEMMA RunningNat == ASSUME NEW q \in Seq(Task) PROVE Running(q) \in Nat
<1> DEFINE R == {i \in DOMAIN q : q[i].timer = "running"}
<1>1. IsFiniteSet(1..Len(q))
  BY FS_Interval
<1>2. R \subseteq 1..Len(q)
  OBVIOUS
<1>3. IsFiniteSet(R)
  BY <1>1, <1>2, FS_Subset
<1> QED
  BY <1>3, FS_CardinalityType DEF Running

\* A new task is a task, with no timer.
LEMMA NewTaskType ==
  ASSUME NEW k \in Kinds, NEW slp \in Periods
  PROVE  NewTask(k, slp) \in Task /\ NewTask(k, slp).kind = k
  BY NodeTasksAssumption DEF NewTask, Task, Periods

LEMMA WakeTaskType == WakeTask \in Task /\ WakeTask.kind = "wake"
  BY NewTaskType DEF WakeTask, Kinds, Periods

\* Executing a task keeps its kind and leaves its timer running.
LEMMA StartedType ==
  ASSUME NEW t \in Task
  PROVE  /\ Started(t) \in Task
         /\ Started(t).kind = t.kind
         /\ Started(t).timer = "running"
<1> DEFINE r == IF t.kind \in Command /\ t.retries < MaxRetries
                  THEN t.retries + 1 ELSE t.retries
<1>1. r \in 0..MaxRetries
  BY NodeTasksAssumption DEF Task
<1>2. Started(t) = [t EXCEPT !.timer = "running", !.retries = r]
  BY DEF Started
<1> HIDE DEF r
<1> QED
  BY <1>1, <1>2 DEF Task

-----------------------------------------------------------------------------
\* Executing the head, whatever it is, makes a typed record good.
LEMMA ExecuteGood ==
  ASSUME NEW s, Typed(s), s.queue # <<>>
  PROVE  /\ Good(Execute(s)) /\ ReadyHead(Execute(s).queue)
         /\ SameSlot(s, Execute(s))
<1> DEFINE t == s.queue[1]
<1>1. s.queue \in Seq(Task) /\ t \in Task /\ 1 \in DOMAIN s.queue
  BY DEF Typed, NodeState
<1>2. CASE t.kind = "wake"
  BY <1>2 DEF Execute, Good, ReadyHead, Command, SameSlot
<1>3. CASE t.kind # "wake"
  <2> DEFINE q == [s.queue EXCEPT ![1] = Started(t)]
             x == [s EXCEPT !.queue[1] = Started(t),
                            !.stray = IF t.timer = "running" THEN @ + 1 ELSE @,
                            !.left = FALSE]
  <2>1. Execute(s) = x
    BY <1>3 DEF Execute
  <2>2. q \in Seq(Task) /\ Len(q) = Len(s.queue) /\ DOMAIN q = DOMAIN s.queue
    BY <1>1, StartedType, ExceptSeq
  <2>3. \A i \in DOMAIN q : q[i].kind = s.queue[i].kind
    BY <1>1, <2>2, StartedType
  <2> DEFINE m == IF t.timer = "running" THEN s.stray + 1 ELSE s.stray
  <2>3a. m \in Nat
    BY DEF Typed, NodeState
  <2>3b. x = [s EXCEPT !.queue = q, !.stray = m, !.left = FALSE]
    BY DEF Typed, NodeState
  <2> HIDE DEF m, x
  <2>4. x.queue = q /\ x \in NodeState /\ SameSlot(s, x)
    <3> HIDE DEF q
    <3> QED
      BY <2>2, <2>3a, <2>3b DEF Typed, NodeState, SameSlot
  <2>5. ShapeOf(q)
    BY <2>2, <2>3 DEF Typed, ShapeOf
  <2>6. ReadyHead(q)
    BY <1>1, <2>2, StartedType DEF ReadyHead
  <2> QED
    BY <2>1, <2>4, <2>5, <2>6 DEF Good, Typed
<1> QED
  BY <1>2, <1>3

\* Executing a task again keeps a record good.
LEMMA RepeatGood ==
  ASSUME NEW s, Good(s), s.queue # <<>>
  PROVE  Good(Repeat(s)) /\ SameSlot(s, Repeat(s))
<1> DEFINE t == s.queue[1]
           q == [s.queue EXCEPT ![1] = Started(t)]
<1>1. s.queue \in Seq(Task) /\ t \in Task /\ 1 \in DOMAIN s.queue
  BY DEF Good, Typed, NodeState
<1>2. q \in Seq(Task) /\ Len(q) = Len(s.queue) /\ DOMAIN q = DOMAIN s.queue
  BY <1>1, StartedType, ExceptSeq
<1>3. \A i \in DOMAIN q : q[i].kind = s.queue[i].kind
  BY <1>1, <1>2, StartedType
<1>4. Repeat(s).queue = q /\ Repeat(s) \in NodeState
        /\ SameSlot(s, Repeat(s))
  BY <1>2 DEF Repeat, Good, Typed, NodeState, SameSlot
<1>5. ShapeOf(q)
  BY <1>2, <1>3 DEF Good, Typed, ShapeOf
<1>6. ReadyHead(q)
  BY <1>1, <1>2, StartedType DEF ReadyHead
<1> QED
  BY <1>4, <1>5, <1>6 DEF Good, Typed

\* cancel_tasks.
LEMMA CancelTasksGood ==
  ASSUME NEW s \in NodeState
  PROVE  /\ Good(CancelTasks(s))
         /\ CancelTasks(s).queue = <<>> /\ ~CancelTasks(s).left
         /\ SameSlot(s, CancelTasks(s))
<1>1. Running(s.queue) \in Nat
  BY RunningNat DEF NodeState
<1> DEFINE m == s.stray + Running(s.queue)
           q == <<>>
<1>2. m \in Nat /\ q \in Seq(Task)
  BY <1>1 DEF NodeState
<1>3. CancelTasks(s) = [s EXCEPT !.queue = q, !.stray = m, !.left = FALSE]
  BY DEF CancelTasks
<1> HIDE DEF m, q
<1>4. /\ CancelTasks(s) \in NodeState
      /\ CancelTasks(s).queue = q
      /\ CancelTasks(s).left = FALSE
      /\ SameSlot(s, CancelTasks(s))
  BY <1>2, <1>3 DEF NodeState, SameSlot
<1> QED
  BY <1>4 DEF q, Good, Typed, ShapeOf, ReadyHead

-----------------------------------------------------------------------------
\* The shape of the queues the methods build.

\* Tasks among which there is no Wake and no Sleep.
Plain(q) == \A i \in DOMAIN q : q[i].kind \notin {"wake", "sleep"}

\* An element of a concatenation comes from one of its halves.
LEMMA ConcatElement ==
  ASSUME NEW p \in Seq(Task), NEW q \in Seq(Task), NEW i \in DOMAIN (p \o q)
  PROVE  \/ i \in DOMAIN p /\ (p \o q)[i] = p[i]
         \/ i - Len(p) \in DOMAIN q /\ (p \o q)[i] = q[i - Len(p)]
  BY ConcatProperties

LEMMA ConcatPlain ==
  ASSUME NEW p \in Seq(Task), NEW q \in Seq(Task), Plain(p), Plain(q)
  PROVE  p \o q \in Seq(Task) /\ Plain(p \o q)
<1>1. p \o q \in Seq(Task)
  BY ConcatProperties
<1>2. ASSUME NEW i \in DOMAIN (p \o q)
      PROVE  (p \o q)[i].kind \notin {"wake", "sleep"}
  BY ConcatElement DEF Plain
<1> QED
  BY <1>1, <1>2 DEF Plain

\* A WakeTask may be put before a queue that does not start with one.
LEMMA WakeBefore ==
  ASSUME NEW q \in Seq(Task), ShapeOf(q), q # <<>> => q[1].kind # "wake"
  PROVE  LET w == <<WakeTask>> \o q
         IN /\ w \in Seq(Task)
            /\ ShapeOf(w)
            /\ ReadyHead(w)
            /\ w # <<>>
<1> DEFINE w == <<WakeTask>> \o q
<1>1. <<WakeTask>> \in Seq(Task) /\ Len(<<WakeTask>>) = 1
  BY WakeTaskType
<1>2. w \in Seq(Task) /\ Len(w) = 1 + Len(q) /\ w[1] = WakeTask
  BY <1>1, ConcatProperties
<1>3. \A i \in DOMAIN w : i # 1 => i - 1 \in DOMAIN q /\ w[i] = q[i - 1]
  BY <1>1, ConcatProperties
<1>4. \A i \in DOMAIN q : q[i].kind # "wake"
  BY DEF ShapeOf
<1>5. ShapeOf(w)
  <2> HIDE DEF w
  <2>1. \A i \in DOMAIN w : w[i].kind = "wake" => i = 1
    BY <1>3, <1>4
  <2>2. w[1].kind # "sleep"
    BY <1>2, WakeTaskType
  <2>3. ASSUME NEW i \in DOMAIN w, NEW j \in DOMAIN w,
               w[i].kind = "sleep", w[j].kind = "sleep"
        PROVE  i = j
    <3>1. i # 1 /\ j # 1
      BY <2>2, <2>3
    <3>2. i - 1 \in DOMAIN q /\ j - 1 \in DOMAIN q
            /\ q[i - 1].kind = "sleep" /\ q[j - 1].kind = "sleep"
      BY <1>3, <2>3, <3>1
    <3>3. i - 1 = j - 1
      BY <3>2 DEF ShapeOf
    <3>4. i \in Int /\ j \in Int
      BY <1>2
    <3> QED
      BY <3>3, <3>4
  <2> QED
    BY <2>1, <2>3 DEF ShapeOf
<1>6. ReadyHead(w) /\ w # <<>>
  BY <1>2, WakeTaskType DEF ReadyHead, Command
<1> QED
  BY <1>2, <1>5, <1>6

\* A SleepTask may follow plain tasks.
LEMMA SleepAfter ==
  ASSUME NEW q \in Seq(Task), Plain(q), NEW t \in Task, t.kind = "sleep"
  PROVE  LET x == q \o <<t>>
         IN /\ x \in Seq(Task)
            /\ ShapeOf(x)
            /\ x # <<>>
            /\ x[1].kind # "wake"
<1> DEFINE x == q \o <<t>>
<1>1. <<t>> \in Seq(Task) /\ Len(<<t>>) = 1 /\ <<t>>[1] = t
  OBVIOUS
<1>2. x \in Seq(Task) /\ Len(x) = Len(q) + 1 /\ Len(q) \in Nat
  BY <1>1, ConcatProperties, LenProperties
<1>3. \A i \in DOMAIN x : i # Len(x) => i \in DOMAIN q /\ x[i] = q[i]
  BY <1>1, <1>2, ConcatProperties
<1>4. x[Len(x)] = t
  BY <1>1, <1>2, ConcatProperties
<1> HIDE DEF x
<1>5. \A i \in DOMAIN x : x[i].kind # "wake"
  BY <1>3, <1>4 DEF Plain
<1>6. \A i \in DOMAIN x : x[i].kind = "sleep" => i = Len(x)
  BY <1>3 DEF Plain
<1>7. 1 \in DOMAIN x /\ x # <<>>
  BY <1>2
<1> QED
  BY <1>2, <1>5, <1>6, <1>7 DEF ShapeOf, x

\* A task that is neither Wake nor Sleep may be appended anywhere.
LEMMA AppendShape ==
  ASSUME NEW q \in Seq(Task), ShapeOf(q), NEW t \in Task,
         t.kind \notin {"wake", "sleep"}
  PROVE  Append(q, t) \in Seq(Task) /\ ShapeOf(Append(q, t))
<1> DEFINE x == Append(q, t)
<1>1. x \in Seq(Task) /\ Len(x) = Len(q) + 1 /\ x[Len(x)] = t
  BY AppendProperties
<1>2. \A i \in DOMAIN x : i # Len(x) => i \in DOMAIN q /\ x[i] = q[i]
  BY AppendProperties
<1> HIDE DEF x
<1>3. \A i \in DOMAIN x : x[i].kind \in {"wake", "sleep"}
                             => i \in DOMAIN q /\ x[i] = q[i]
  BY <1>1, <1>2
<1> QED
  BY <1>1, <1>3 DEF ShapeOf, x

\* One task that is no Wake makes a queue.
LEMMA OneTask ==
  ASSUME NEW t \in Task
  PROVE  <<t>> \in Seq(Task) /\ ShapeOf(<<t>>) /\ <<t>> # <<>>
  BY DEF ShapeOf

-----------------------------------------------------------------------------
\* The methods, on a record whose type and shape are right.

\* What the two callbacks may do to the configuration entry: make one, with its
\* timer running, if there is room.
SlotStep(s, x, room) ==
  /\ \/ x.config = s.config
     \/ s.config = "none" /\ x.config = "running" /\ room
  /\ x.configuring = s.configuring /\ x.late = s.late

LEMMA SameSlotStep ==
  ASSUME NEW room, NEW s, NEW x, SameSlot(s, x)
  PROVE  SlotStep(s, x, room)
  BY DEF SlotStep, SameSlot

\* A record with another queue.
LEMMA NewQueue ==
  ASSUME NEW s \in NodeState, NEW q \in Seq(Task), ShapeOf(q)
  PROVE  LET x == [s EXCEPT !.queue = q]
         IN Typed(x) /\ x.queue = q /\ x.left = s.left /\ SameSlot(s, x)
  BY DEF Typed, NodeState, SameSlot

\* add_task.
LEMMA AddTaskGood ==
  ASSUME NEW s, Good(s), NEW low \in BOOLEAN, NEW k \in Addable,
         NEW slp \in SleepTimes
  PROVE  Good(AddTask(s, low, k, slp)) /\ SameSlot(s, AddTask(s, low, k, slp))
<1> DEFINE t == NewTask(k, slp)
           waits == s.config # "none" \/ low
<1>1. t \in Task /\ t.kind = k /\ k \notin {"wake", "sleep"}
  BY NewTaskType DEF Addable, Command, Kinds, Final, Periods
<1> HIDE DEF t
<1>2. s \in NodeState /\ s.queue \in Seq(Task) /\ ShapeOf(s.queue)
  BY DEF Good, Typed, NodeState
<1>3. CASE s.queue # <<>> \/ s.left
  <2>1. AddTask(s, low, k, slp) = [s EXCEPT !.queue = Append(s.queue, t)]
    BY <1>3 DEF AddTask, t
  <2>2. Append(s.queue, t) \in Seq(Task) /\ ShapeOf(Append(s.queue, t))
    BY <1>1, <1>2, AppendShape
  <2>3. s.left \/ ReadyHead(Append(s.queue, t))
    <3>1. s.queue # <<>> => Append(s.queue, t)[1] = s.queue[1]
      BY <1>1, <1>2, AppendProperties
    <3> QED
      BY <1>3, <3>1 DEF Good, ReadyHead
  <2> DEFINE x == [s EXCEPT !.queue = Append(s.queue, t)]
  <2>4. Typed(x) /\ x.queue = Append(s.queue, t) /\ x.left = s.left /\ SameSlot(s, x)
    BY <1>2, <2>2, NewQueue
  <2> HIDE DEF x
  <2> QED
    BY <2>1, <2>3, <2>4 DEF Good, x
<1>4. CASE ~(s.queue # <<>> \/ s.left) /\ waits
  <2>1. AddTask(s, low, k, slp) = [s EXCEPT !.queue = <<WakeTask, t>>]
    BY <1>4 DEF AddTask, t
  <2>2. <<WakeTask, t>> \in Seq(Task) /\ ShapeOf(<<WakeTask, t>>)
          /\ ReadyHead(<<WakeTask, t>>)
    BY <1>1, WakeTaskType DEF ShapeOf, ReadyHead, Command
  <2> QED
    BY <1>2, <2>1, <2>2, NewQueue DEF Good
<1>5. CASE ~(s.queue # <<>> \/ s.left) /\ ~waits
  <2> DEFINE x == [s EXCEPT !.queue = <<t>>]
  <2>1. AddTask(s, low, k, slp) = Execute(x)
    BY <1>5 DEF AddTask, t
  <2>2. Typed(x) /\ x.queue = <<t>> /\ x.queue # <<>> /\ SameSlot(s, x)
    BY <1>1, <1>2, OneTask, NewQueue
  <2> HIDE DEF x
  <2> QED
    BY <2>1, <2>2, ExecuteGood DEF SameSlot
<1> QED
  BY <1>3, <1>4, <1>5

\* reschedule_tasks, with a command at the head.
LEMMA RescheduleGood ==
  ASSUME NEW s, Good(s), NEW low \in BOOLEAN, s.queue # <<>>,
         s.queue[1].kind # "wake"
  PROVE  Good(Reschedule(s, low)) /\ SameSlot(s, Reschedule(s, low))
<1>1. s \in NodeState /\ s.queue \in Seq(Task) /\ ShapeOf(s.queue)
  BY DEF Good, Typed, NodeState
<1>2. CASE low
  <2> DEFINE w == <<WakeTask>> \o s.queue
  <2>1. w \in Seq(Task) /\ ShapeOf(w) /\ ReadyHead(w)
    BY <1>1, WakeBefore
  <2>2. Reschedule(s, low) = [s EXCEPT !.queue = w]
    BY <1>2 DEF Reschedule
  <2> HIDE DEF w
  <2> QED
    BY <1>1, <2>1, <2>2, NewQueue DEF Good
<1>3. CASE ~low
  BY <1>1, <1>3, CancelTasksGood DEF Reschedule, SameSlot
<1> QED
  BY <1>2, <1>3

\* sleep_node: the queue is not empty, and its head waits for nothing when the
\* dict had no list for the node.
LEMMA SleepNodeTyped ==
  ASSUME NEW s \in NodeState, NEW low \in BOOLEAN, NEW slp \in SleepTimes,
         NEW listed \in BOOLEAN
  PROVE  LET x == SleepNode(s, low, slp, listed)
         IN /\ Typed(x)
            /\ x.queue # <<>>
            /\ ~listed => ReadyHead(x.queue)
            /\ SameSlot(s, x)
<1> DEFINE slept == NewTask("sleep", slp)
           set == SleepTimeTasks(s, slp)
           wake == IF listed THEN <<>> ELSE <<WakeTask>>
           tasks == IF ~low THEN <<NewTask("alive", slp)>>
                    ELSE IF s.period = slp THEN <<slept>>
                    ELSE wake \o set \o <<slept>>
           x == SleepNode(s, low, slp, listed)
<1>1. x = [s EXCEPT !.queue = tasks]
  BY DEF SleepNode
<1>2. slp \in Periods /\ slept \in Task /\ slept.kind = "sleep"
  BY NewTaskType DEF Kinds, Final, Periods
<1> HIDE DEF slept
<1> SUFFICES /\ tasks \in Seq(Task) /\ ShapeOf(tasks) /\ tasks # <<>>
             /\ ~listed => ReadyHead(tasks)
  <2> HIDE DEF tasks
  <2> QED
    BY <1>1, NewQueue
<1>3. CASE ~low
  <2>1. NewTask("alive", slp) \in Task /\ NewTask("alive", slp).kind = "alive"
    BY <1>2, NewTaskType DEF Kinds, Final
  <2> QED
    BY <1>3, <2>1, OneTask DEF ReadyHead, Command
<1>4. CASE low /\ s.period = slp
  BY <1>2, <1>4, OneTask DEF ReadyHead, Command
<1>5. CASE low /\ s.period # slp
  <2>1. /\ NewTask("delete", slp) \in Task /\ NewTask("delete", slp).kind = "delete"
        /\ NewTask("conf", slp) \in Task /\ NewTask("conf", slp).kind = "conf"
    BY <1>2, NewTaskType DEF Kinds, Command
  <2>2. set \in Seq(Task) /\ Plain(set)
    BY <2>1 DEF SleepTimeTasks, Plain
  <2> HIDE DEF set
  <2> DEFINE end == set \o <<slept>>
  <2>3. end \in Seq(Task) /\ ShapeOf(end) /\ end # <<>> /\ end[1].kind # "wake"
    BY <1>2, <2>2, SleepAfter
  <2>4. CASE listed
    <3>1. tasks = end
      BY <1>2, <1>5, <2>2, <2>4, <2>3, ConcatEmptySeq
    <3> QED
      BY <2>3, <2>4, <3>1
  <2>5. CASE ~listed
    <3>1. tasks = <<WakeTask>> \o end
      BY <1>2, <1>5, <2>2, <2>5, WakeTaskType, ConcatAssociative
    <3> HIDE DEF tasks, end
    <3> QED
      BY <2>3, <3>1, WakeBefore
  <2> QED
    BY <2>4, <2>5
<1> QED
  BY <1>3, <1>4, <1>5

-----------------------------------------------------------------------------
\* The configuration: pending tasks, callback, notifications.

\* What get_tasks returns are plain tasks.
LEMMA GetTasksPlain ==
  ASSUME NEW q \in Seq(Task), ShapeOf(q)
  PROVE  GetTasks(q) \in Seq(Task) /\ Plain(GetTasks(q))
<1> DEFINE at == SleepAt(q)
           first == IF q # <<>> /\ q[1].kind = "wake" THEN 2 ELSE 1
           a == SubSeq(q, first, at - 1)
           b == SubSeq(q, at + 1, Len(q))
<1>1. /\ at \in 1..(Len(q) + 1)
      /\ \A i \in DOMAIN q : q[i].kind = "sleep" => i = at
  <2>1. Len(q) \in Nat /\ DOMAIN q = 1..Len(q)
    OBVIOUS
  <2>2. CASE \E i \in DOMAIN q : q[i].kind = "sleep"
    BY <2>1, <2>2 DEF SleepAt, ShapeOf
  <2>3. CASE ~\E i \in DOMAIN q : q[i].kind = "sleep"
    BY <2>1, <2>3 DEF SleepAt
  <2> QED
    BY <2>2, <2>3
<1>2. Len(q) \in Nat /\ \A i \in 1..Len(q) : q[i] \in Task
  OBVIOUS
<1>3. \A i \in DOMAIN q : i >= first /\ i # at => q[i].kind \notin {"wake", "sleep"}
  BY <1>1 DEF ShapeOf
<1>4. first \in 1..2
  OBVIOUS
<1> HIDE DEF at, first
<1>5. a \in Seq(Task) /\ Plain(a)
  <2>1. \A i \in first..(at - 1) : q[i] \in Task
    BY <1>1, <1>2, <1>4
  <2>2. /\ a \in Seq(Task)
        /\ Len(a) = IF first <= at - 1 THEN at - 1 - first + 1 ELSE 0
        /\ \A i \in 1..(at - 1 - first + 1) : a[i] = q[first + i - 1]
    BY <1>1, <1>4, <2>1, SubSeqProperties
  <2> HIDE DEF a
  <2>3. ASSUME NEW i \in DOMAIN a PROVE a[i].kind \notin {"wake", "sleep"}
    <3>1. i \in 1..(at - 1 - first + 1) /\ i \in Nat
      BY <1>1, <1>4, <2>2
    <3>2. first + i - 1 \in DOMAIN q /\ first + i - 1 >= first
            /\ first + i - 1 # at
      BY <1>1, <1>2, <1>4, <3>1
    <3> QED
      BY <1>3, <2>2, <3>1, <3>2
  <2> QED
    BY <2>2, <2>3 DEF Plain
<1>6. b \in Seq(Task) /\ Plain(b)
  <2>1. \A i \in (at + 1)..Len(q) : q[i] \in Task
    BY <1>1, <1>2
  <2>2. /\ b \in Seq(Task)
        /\ Len(b) = IF at + 1 <= Len(q) THEN Len(q) - (at + 1) + 1 ELSE 0
        /\ \A i \in 1..(Len(q) - (at + 1) + 1) : b[i] = q[at + 1 + i - 1]
    BY <1>1, <1>2, <2>1, SubSeqProperties
  <2> HIDE DEF b
  <2>3. ASSUME NEW i \in DOMAIN b PROVE b[i].kind \notin {"wake", "sleep"}
    <3>1. i \in 1..(Len(q) - (at + 1) + 1) /\ i \in Nat
      BY <1>1, <1>2, <2>2
    <3>2. at + 1 + i - 1 \in DOMAIN q /\ at + 1 + i - 1 >= first
            /\ at + 1 + i - 1 # at
      BY <1>1, <1>2, <1>4, <3>1
    <3> QED
      BY <1>3, <2>2, <3>1, <3>2
  <2> QED
    BY <2>2, <2>3 DEF Plain
<1>7. GetTasks(q) = a \o b
  BY DEF GetTasks, at, first
<1> HIDE DEF a, b
<1> QED
  BY <1>5, <1>6, <1>7, ConcatPlain

LEMMA OpenedGood ==
  ASSUME NEW s, Good(s), NEW room \in BOOLEAN
  PROVE  LET x == Opened(s, room)
         IN /\ Good(x) /\ SlotStep(s, x, room)
            /\ x.queue = s.queue /\ x.configuring = s.configuring
            /\ room \/ x.config = s.config
  BY DEF Opened, Good, Typed, NodeState, SlotStep

\* The callback's tasks and the kept ones.
LEMMA ConfiguredGood ==
  ASSUME NEW s \in NodeState, NEW cb \in Seq(Command), NEW kept \in Seq(Task),
         Plain(kept), NEW lost \in Nat, NEW slp \in SleepTimes
  PROVE  LET x == Configured(s, cb, kept, lost, slp)
         IN Good(x) /\ ReadyHead(x.queue) /\ SameSlot(s, x)
<1> DEFINE new == [i \in 1..Len(cb) |-> NewTask(cb[i], slp)]
           added == new \o kept
           q == IF added = <<>> THEN <<>> ELSE <<WakeTask>> \o added
           m == s.stray + lost
<1>1. \A i \in 1..Len(cb) : /\ NewTask(cb[i], slp) \in Task
                            /\ NewTask(cb[i], slp).kind \notin {"wake", "sleep"}
  <2>1. \A i \in 1..Len(cb) : cb[i] \in Command
    OBVIOUS
  <2> QED
    BY <2>1, NewTaskType DEF Kinds, Command, Periods
<1>2. new \in Seq(Task) /\ Plain(new)
  <2>1. Len(cb) \in Nat
    OBVIOUS
  <2>2. new \in Seq(Task)
    BY <1>1, <2>1, IsASeq
  <2> QED
    BY <1>1, <2>2 DEF Plain
<1> HIDE DEF new
<1>3. added \in Seq(Task) /\ Plain(added)
  BY <1>2, ConcatPlain
<1> HIDE DEF added
<1>4. ShapeOf(added) /\ (added # <<>> => added[1].kind # "wake")
  <2>1. added # <<>> => 1 \in DOMAIN added
    BY <1>3
  <2> QED
    BY <1>3, <2>1 DEF Plain, ShapeOf
<1>5. q \in Seq(Task) /\ ShapeOf(q) /\ ReadyHead(q)
  <2>1. CASE added = <<>>
    BY <1>3, <2>1 DEF ShapeOf, ReadyHead
  <2>2. CASE added # <<>>
    BY <1>3, <1>4, <2>2, WakeBefore
  <2> QED
    BY <2>1, <2>2
<1>6. m \in Nat /\ 0 \in Periods
  BY DEF NodeState, Periods
<1>7. Configured(s, cb, kept, lost, slp)
        = [s EXCEPT !.queue = q, !.stray = m, !.left = FALSE, !.period = 0]
  BY DEF Configured, added, new
<1> HIDE DEF q, m
<1> QED
  BY <1>5, <1>6, <1>7 DEF Good, Typed, NodeState, SameSlot

LEMMA SleepIfIdleGood ==
  ASSUME NEW s, Good(s), NEW low \in BOOLEAN, NEW slp \in SleepTimes
  PROVE  LET x == SleepIfIdle(s, low, slp) IN Good(x) /\ SameSlot(s, x)
<1>1. s \in NodeState /\ FALSE \in BOOLEAN
  BY DEF Good, Typed
<1>2. CASE s.queue = <<>> /\ ~s.left
  BY <1>1, <1>2, SleepNodeTyped DEF SleepIfIdle, Good
<1>3. CASE ~(s.queue = <<>> /\ ~s.left)
  BY <1>3 DEF SleepIfIdle, SameSlot
<1> QED
  BY <1>2, <1>3

LEMMA NotifyLegacyGood ==
  ASSUME NEW s, Good(s), NEW low \in BOOLEAN, NEW slp \in SleepTimes,
         NEW cb \in Seq(Command)
  PROVE  LET x == NotifyLegacy(s, low, slp, cb) IN Good(x) /\ SameSlot(s, x)
<1> DEFINE none == <<>>
<1>1. s \in NodeState /\ Running(s.queue) \in Nat
  BY RunningNat DEF Good, Typed, NodeState
<1>2. none \in Seq(Task) /\ Plain(none)
  BY DEF Plain
<1>3. CASE s.config # "none"
  <2>1. NotifyLegacy(s, low, slp, cb)
          = Configured(s, cb, none, Running(s.queue), slp)
    BY <1>3 DEF NotifyLegacy
  <2> HIDE DEF none
  <2> QED
    BY <1>1, <1>2, <2>1, ConfiguredGood
<1>4. CASE s.config = "none"
  BY <1>4, SleepIfIdleGood DEF NotifyLegacy
<1> QED
  BY <1>3, <1>4

LEMMA NotifyUnconfiguredGood ==
  ASSUME NEW s, Good(s), NEW slp \in SleepTimes, NEW room \in BOOLEAN,
         NEW cb \in Seq(Command)
  PROVE  LET x == NotifyUnconfigured(s, slp, room, cb)
         IN Good(x) /\ SlotStep(s, x, room)
<1> DEFINE o == Opened(s, room)
           kept == GetTasks(s.queue)
           lost == IF SleepAt(s.queue) \in DOMAIN s.queue
                      /\ s.queue[SleepAt(s.queue)].timer = "running"
                     THEN 1 ELSE 0
           c == Configured(o, cb, kept, lost, slp)
<1>1. Good(o) /\ SlotStep(s, o, room) /\ lost \in Nat
  BY OpenedGood
<1>2. kept \in Seq(Task) /\ Plain(kept)
  BY GetTasksPlain DEF Good, Typed, NodeState
<1>3. CASE ~Reconfigures(s, room)
  BY <1>1, <1>3 DEF NotifyUnconfigured
<1>4. CASE Reconfigures(s, room)
  <2>1. NotifyUnconfigured(s, slp, room, cb) = c
    BY <1>4 DEF NotifyUnconfigured
  <2>2. Good(c) /\ SameSlot(o, c)
    <3> HIDE DEF o, kept, lost
    <3> QED
      BY <1>1, <1>2, ConfiguredGood DEF Good, Typed
  <2> HIDE DEF c, o
  <2> QED
    BY <1>1, <2>1, <2>2 DEF SameSlot, SlotStep
<1> QED
  BY <1>3, <1>4

\* What wake_reset_cb and notify_cb do to a record, the mark apart, keeps it good.
THEOREM PreparedGood ==
  ASSUME NEW s, Good(s), NEW low \in BOOLEAN, NEW slp \in SleepTimes, NEW e,
         NEW room \in BOOLEAN, NEW cb \in Seq(Command)
  PROVE  LET x == Prepared(s, low, slp, e, room, cb)
         IN Good(x) /\ SlotStep(s, x, room)
<1>1. CASE e = "wake_reset"
  BY <1>1, OpenedGood DEF Prepared
<1>2. CASE e = "notify"
  BY <1>2, NotifyLegacyGood, SameSlotStep DEF Prepared
<1>3. CASE e = "notify0"
  BY <1>3, NotifyUnconfiguredGood DEF Prepared
<1>4. CASE e = "notify1"
  BY <1>4, SleepIfIdleGood, SameSlotStep DEF Prepared
<1>5. CASE e \notin {"wake_reset", "notify", "notify0", "notify1"}
  BY <1>5 DEF Prepared, SlotStep
<1> QED
  BY <1>1, <1>2, <1>3, <1>4, <1>5

-----------------------------------------------------------------------------
\* The head task.

LEMMA FailedGood ==
  ASSUME NEW s, Good(s), s.queue # <<>>, NEW low \in BOOLEAN
  PROVE  Good(Failed(s, low)) /\ SameSlot(s, Failed(s, low))
<1> DEFINE t == s.queue[1]
<1>1. CASE t.kind = "wake"
  BY <1>1 DEF Failed, SameSlot
<1>2. CASE t.kind \in Final
  BY <1>2, RepeatGood DEF Failed, SameSlot, Final
<1>3. CASE t.kind # "wake" /\ t.kind \notin Final /\ t.retries < MaxRetries
  BY <1>3, ExecuteGood DEF Failed, SameSlot, Good
<1>4. CASE t.kind # "wake" /\ t.kind \notin Final /\ ~(t.retries < MaxRetries)
  BY <1>4, RescheduleGood DEF Failed
<1> QED
  BY <1>1, <1>2, <1>3, <1>4

\* The queue without its head: no WakeTask is left.
LEMMA PoppedTyped ==
  ASSUME NEW s, Typed(s), s.queue # <<>>
  PROVE  /\ Typed(Popped(s)) /\ SameSlot(s, Popped(s))
         /\ Popped(s).queue = Tail(s.queue)
<1> DEFINE q == Tail(s.queue)
           p == IF s.queue[1].kind = "conf" THEN s.queue[1].period ELSE s.period
<1>1. s \in NodeState /\ s.queue \in Seq(Task) /\ ShapeOf(s.queue)
  BY DEF Typed, NodeState
<1>2. q \in Seq(Task) /\ Len(q) = Len(s.queue) - 1
        /\ \A i \in 1..Len(q) : q[i] = s.queue[i + 1]
  BY <1>1, HeadTailProperties
<1>3. p \in Periods
  <2>1. s.queue[1] \in Task
    BY <1>1
  <2> QED
    BY <1>1, <2>1 DEF NodeState, Task
<1>4. Popped(s) = [s EXCEPT !.queue = q, !.period = p]
  BY DEF Popped
<1>5. ShapeOf(q)
  <2>1. \A i \in DOMAIN q : i + 1 \in DOMAIN s.queue /\ q[i] = s.queue[i + 1]
    BY <1>1, <1>2
  <2>2. DOMAIN q \subseteq Nat \ {0}
    BY <1>2
  <2> HIDE DEF q
  <2> QED
    BY <1>1, <2>1, <2>2 DEF ShapeOf
<1> HIDE DEF p
<1>6. Popped(s) \in NodeState /\ Popped(s).queue = q /\ SameSlot(s, Popped(s))
  <2> HIDE DEF q
  <2> QED
    BY <1>1, <1>2, <1>3, <1>4 DEF NodeState, SameSlot
<1> QED
  BY <1>5, <1>6 DEF Typed

LEMMA CompletedGood ==
  ASSUME NEW s, Typed(s), s.queue # <<>>, s.queue[1].kind \notin Final,
         NEW low \in BOOLEAN, NEW slp \in SleepTimes
  PROVE  LET x == Completed(s, low, slp) IN Good(x) /\ SameSlot(s, x)
<1> DEFINE p == Popped(s)
<1>1. Typed(p) /\ SameSlot(s, p) /\ p \in NodeState
  BY PoppedTyped DEF Typed
<1>2. CASE p.queue # <<>>
  <2>1. Completed(s, low, slp) = Execute(p)
    BY <1>2 DEF Completed
  <2> HIDE DEF p
  <2> QED
    BY <1>1, <1>2, <2>1, ExecuteGood DEF SameSlot
<1>3. CASE p.queue = <<>> /\ (p.config # "none" \/ low)
  <2> DEFINE z == SleepNode(p, low, slp, TRUE)
  <2>1. Completed(s, low, slp) = Execute(z)
    BY <1>3 DEF Completed
  <2>2. Typed(z) /\ z.queue # <<>> /\ SameSlot(p, z)
    BY <1>1, SleepNodeTyped
  <2> HIDE DEF z, p
  <2> QED
    BY <1>1, <2>1, <2>2, ExecuteGood DEF SameSlot
<1>4. CASE p.queue = <<>> /\ ~(p.config # "none" \/ low)
  <2>1. Completed(s, low, slp) = [p EXCEPT !.left = FALSE]
    BY <1>4 DEF Completed
  <2> HIDE DEF p
  <2> QED
    BY <1>1, <1>4, <2>1 DEF Good, Typed, NodeState, ReadyHead, SameSlot
<1> QED
  BY <1>2, <1>3, <1>4

\* What the head task does with an event keeps the record good, unless the task
\* ends its queue, which the block then goes on to delete.
THEOREM HeadHandledGood ==
  ASSUME NEW s, Good(s), NEW low \in BOOLEAN, NEW slp \in SleepTimes, NEW e
  PROVE  LET x == HeadHandled(s, low, slp, e)
         IN /\ Typed(x) /\ SameSlot(s, x)
            /\ \/ Good(x)
               \/ Succeeds(s, e) /\ s.queue[1].kind \in Final
<1>1. CASE Succeeds(s, e) /\ s.queue[1].kind \notin Final
  <2>1. Good(Completed(s, low, slp)) /\ SameSlot(s, Completed(s, low, slp))
    BY <1>1, CompletedGood DEF Succeeds, Good
  <2>2. HeadHandled(s, low, slp, e) = Completed(s, low, slp)
    BY <1>1 DEF HeadHandled
  <2> QED
    BY <2>1, <2>2 DEF Good
<1>2. CASE Succeeds(s, e) /\ s.queue[1].kind \in Final
  <2>1. HeadHandled(s, low, slp, e) = Popped(s)
    BY <1>2 DEF HeadHandled, Completed
  <2> QED
    BY <1>2, <2>1, PoppedTyped DEF Succeeds, Good
<1>3. CASE ~Succeeds(s, e) /\ Fails(s, e)
  <2>1. Good(Failed(s, low)) /\ SameSlot(s, Failed(s, low))
    BY <1>3, FailedGood DEF Fails
  <2>2. HeadHandled(s, low, slp, e) = Failed(s, low)
    BY <1>3 DEF HeadHandled
  <2> QED
    BY <2>1, <2>2 DEF Good
<1>4. CASE ~Succeeds(s, e) /\ ~Fails(s, e)
  BY <1>4 DEF HeadHandled, SameSlot, Good
<1> QED
  BY <1>1, <1>2, <1>3, <1>4

=============================================================================
