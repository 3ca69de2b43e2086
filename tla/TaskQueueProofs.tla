--------------------------- MODULE TaskQueueProofs ---------------------------
(***************************************************************************)
(* The invariants of TaskQueue for every number of nodes, whatever they    *)
(* send, whatever the application calls and the callback adds, and for     *)
(* every value of the limits: the bounds on the environment play no part.  *)
(* First what a node's queue looks like, then the configuration slots.     *)
(***************************************************************************)
EXTENDS TaskQueue, NodeTasksProofs

\* Type correctness is inductive only with the shape of the queues: the pending
\* tasks get_tasks keeps are found by that shape.
Sound == TypeOK /\ HeadReady /\ QueueShape

\* A record is good but for the node whose queue the event thread is ending.
Fine(n) == Typed(node[n]) /\ (Good(node[n]) \/ EndingQueue(n))

LEMMA SoundNodes == Sound <=> TypeOK /\ \A n \in Nodes : Fine(n)
  BY DEF Sound, TypeOK, HeadReady, QueueShape, Fine, Good, Typed

\* A change that spoils neither a good record nor a typed one.
Keeping(s, x) == Typed(x) /\ (Good(s) => Good(x))

\* A record whose queue stays, or whose tasks only lose their running timers.
LEMMA TimerGood ==
  ASSUME NEW s, Typed(s), NEW i \in DOMAIN s.queue, s.queue[i].timer = "running"
  PROVE  LET x == [s EXCEPT !.queue[i].timer = "spent"]
         IN Keeping(s, x) /\ SameSlot(s, x)
<1> DEFINE t == [s.queue[i] EXCEPT !.timer = "spent"]
           q == [s.queue EXCEPT ![i] = t]
           x == [s EXCEPT !.queue[i].timer = "spent"]
<1>1. s \in NodeState /\ s.queue \in Seq(Task) /\ s.queue[i] \in Task
  BY DEF Typed, NodeState
<1>2. t \in Task /\ t.kind = s.queue[i].kind /\ t.timer = "spent"
  BY <1>1 DEF Task
<1>3. q \in Seq(Task) /\ DOMAIN q = DOMAIN s.queue /\ Len(q) = Len(s.queue)
  BY <1>1, <1>2, ExceptSeq
<1>4. \A j \in DOMAIN q : q[j].kind = s.queue[j].kind
  BY <1>1, <1>2, <1>3
<1>5. ShapeOf(q)
  BY <1>3, <1>4 DEF Typed, ShapeOf
<1>6. ReadyHead(s.queue) => ReadyHead(q)
  <2>1. CASE i = 1
    BY <1>1, <1>2, <2>1 DEF ReadyHead
  <2>2. CASE i # 1
    BY <1>1, <2>2 DEF ReadyHead
  <2> QED
    BY <2>1, <2>2
<1>7. x = [s EXCEPT !.queue = q]
  BY <1>1 DEF NodeState
<1> HIDE DEF q, t, x
<1>8. Typed(x) /\ x.queue = q /\ x.left = s.left /\ SameSlot(s, x)
  <2> DEFINE y == [s EXCEPT !.queue = q]
  <2>1. Typed(y) /\ y.queue = q /\ y.left = s.left /\ SameSlot(s, y)
    BY <1>1, <1>3, <1>5, NewQueue
  <2> HIDE DEF y
  <2>2. x = y
    BY <1>7 DEF y
  <2> QED
    BY <2>1, <2>2
<1>9. Keeping(s, x)
  BY <1>6, <1>8 DEF Good, Keeping
<1> QED
  BY <1>8, <1>9 DEF x

\* A record that changes in its timers or its configuration entry only.
LEMMA EntryGood ==
  ASSUME NEW s, Typed(s), NEW x \in NodeState, x.queue = s.queue,
         s.left => x.left
  PROVE  Keeping(s, x)
  BY DEF Good, Typed, Keeping

LEMMA DeletedGood ==
  ASSUME NEW s, Typed(s)
  PROVE  /\ Keeping(s, Deleted(s))
         /\ Deleted(s).config = "none"
         /\ Deleted(s).configuring = s.configuring
         /\ Deleted(s).late = s.late
<1> DEFINE k == IF s.config = "running" THEN s.orphans + 1 ELSE s.orphans
<1>1. s \in NodeState /\ k \in Nat
  BY DEF Typed, NodeState
<1>2. Deleted(s) = [s EXCEPT !.config = "none", !.orphans = k]
  BY DEF Deleted
<1> HIDE DEF k
<1>3. /\ Deleted(s) \in NodeState
      /\ Deleted(s).queue = s.queue
      /\ Deleted(s).left = s.left
      /\ Deleted(s).config = "none"
      /\ Deleted(s).configuring = s.configuring
      /\ Deleted(s).late = s.late
  BY <1>1, <1>2 DEF NodeState
<1> QED
  BY <1>3, EntryGood

-----------------------------------------------------------------------------
\* Initially.
LEMMA InitSound == Init => Sound
<1> SUFFICES ASSUME Init PROVE Sound
  OBVIOUS
<1>1. Fresh \in NodeState /\ Fresh.queue = <<>>
  BY DEF Fresh, NodeState, Periods
<1>2. Good(Fresh)
  BY <1>1 DEF Good, Typed, ShapeOf, ReadyHead
<1>3. \A n \in Nodes : Fine(n)
  BY <1>2 DEF Init, Fine, Good
<1>4. TypeOK
  <2>1. node \in [Nodes -> NodeState]
    BY <1>1 DEF Init
  <2>2. /\ pc \in [Threads -> EvPlaces]
        /\ target \in [Threads -> Nodes \union {NoNode}]
        /\ "idle" \notin Expiring
    BY DEF Init, EvPlaces, Expiring, Removing
  <2>3. pc["ev"] = "idle" /\ pc["api"] = "idle"
          /\ \A t \in Threads : pc[t] = "idle"
    BY DEF Init, Threads
  <2>4. /\ events = <<>> /\ listener = FALSE
        /\ sleepTime \in SleepTimes /\ current = "none"
    BY DEF Init
  <2>4a. events \in Seq(Event)
    BY <2>4, EmptySeq
  <2>4b. listener \in BOOLEAN
    BY <2>4
  <2>5. whitelist \subseteq Nodes /\ db \subseteq Nodes
    <3>1. whitelist = {} \/ whitelist = Nodes
      BY DEF Init
    <3> QED
      BY <3>1 DEF Init
  <2> QED
    BY <2>1, <2>2, <2>3, <2>4, <2>4a, <2>4b, <2>5 DEF TypeOK
<1> QED
  BY <1>3, <1>4, SoundNodes

\* The part of TypeOK about the threads.
PlacesOK ==
  /\ pc \in [Threads -> EvPlaces]
  /\ pc["api"] \in {"idle"} \union Removing
  /\ target \in [Threads -> Nodes \union {NoNode}]
  /\ \A t \in Threads : pc[t] # "idle" => target[t] \in Nodes
  /\ current \in EventTypes \union {"none"}
  /\ pc["ev"] # "idle" => current \in EventTypes
  /\ pc["ev"] \in Expiring => current = "config_timeout"

LEMMA GotoPlaces ==
  ASSUME PlacesOK, NEW t \in Threads, pc[t] # "idle",
         NEW p \in EvPlaces, t = "api" => p \in Removing,
         t = "ev" /\ p \in Expiring => pc[t] \in Expiring,
         Goto(t, p)
  PROVE  PlacesOK'
  BY DEF PlacesOK, Goto, Threads

LEMMA IdlePlaces ==
  ASSUME PlacesOK, NEW t \in Threads, Idle(t)
  PROVE  PlacesOK'
<1>1. "idle" \notin Expiring /\ "idle" \in EvPlaces
  BY DEF Expiring, Removing, EvPlaces
<1> QED
  BY <1>1 DEF PlacesOK, Idle, Threads

\* The event thread takes up node n at place p.
LEMMA TakePlaces ==
  ASSUME PlacesOK, NEW n \in Nodes, NEW p \in EvPlaces, NEW c \in EventTypes,
         p \in Expiring => c = "config_timeout",
         pc' = [pc EXCEPT !["ev"] = p],
         target' = [target EXCEPT !["ev"] = n],
         current' = c
  PROVE  PlacesOK'
  BY DEF PlacesOK, Threads

LEMMA ToTimeoutPlaces ==
  ASSUME PlacesOK, NEW n \in Nodes, NEW c \in EventTypes,
         ToConfigTimeoutHandler(n, c)
  PROVE  PlacesOK'
<1>1. CASE c = "config_timeout"
  BY <1>1, TakePlaces DEF ToConfigTimeoutHandler, EvPlaces, Expiring
<1>2. CASE c # "config_timeout"
  BY <1>2, IdlePlaces DEF ToConfigTimeoutHandler, Threads
<1> QED
  BY <1>1, <1>2

\* What is left to show of a step once PlacesOK is.
LEMMA Assemble ==
  ASSUME PlacesOK', \A n \in Nodes : Fine(n)',
         node' \in [Nodes -> NodeState], sleepTime' \in SleepTimes,
         whitelist' \subseteq Nodes, db' \subseteq Nodes,
         listener' \in BOOLEAN, events' \in Seq(Event)
  PROVE  Sound'
  BY DEF Sound, TypeOK, PlacesOK, HeadReady, QueueShape, Fine, Good, Typed

LEMMA Disassemble ==
  ASSUME Sound
  PROVE  /\ PlacesOK /\ \A n \in Nodes : Fine(n) /\ Typed(node[n])
         /\ node \in [Nodes -> NodeState] /\ sleepTime \in SleepTimes
         /\ whitelist \subseteq Nodes /\ db \subseteq Nodes
         /\ listener \in BOOLEAN /\ events \in Seq(Event)
  BY DEF Sound, TypeOK, PlacesOK, HeadReady, QueueShape, Fine, Good, Typed

\* A step that leaves the event thread where it is.
EvStays == pc'["ev"] = pc["ev"] /\ target'["ev"] = target["ev"]

\* No queue is being ended: every record is good.
LEMMA GoodUnlocked ==
  ASSUME Sound, NEW n \in Nodes, ~EndingQueue(n)
  PROVE  Good(node[n])
  BY Disassemble DEF Fine

LEMMA UnlockedEnding == ~Locked => \A n \in Nodes : ~EndingQueue(n)
  BY DEF Locked, Block, EndingQueue

\* A step that leaves the node records alone, and the event thread in or out of
\* the end of a queue.
LEMMA SameNodes ==
  ASSUME Sound, PlacesOK', node' = node, sleepTime' \in SleepTimes,
         whitelist' \subseteq Nodes, db' \subseteq Nodes,
         listener' \in BOOLEAN, events' \in Seq(Event),
         \A n \in Nodes : EndingQueue(n) => EndingQueue(n)'
  PROVE  Sound'
<1>1. \A n \in Nodes : Fine(n)'
  BY Disassemble DEF Fine
<1> QED
  BY <1>1, Assemble, Disassemble

\* ... and a step that changes the record of one node.
LEMMA OneNodeSound ==
  ASSUME Sound, PlacesOK', NEW n \in Nodes, NEW x, Typed(x),
         Good(x) \/ EndingQueue(n)',
         \A m \in Nodes \ {n} : EndingQueue(m) => EndingQueue(m)',
         node' = [node EXCEPT ![n] = x], sleepTime' \in SleepTimes,
         whitelist' \subseteq Nodes, db' \subseteq Nodes,
         listener' \in BOOLEAN, events' \in Seq(Event)
  PROVE  Sound'
<1>1. node' \in [Nodes -> NodeState]
  BY Disassemble DEF Typed
<1>2. node'[n] = x /\ \A m \in Nodes \ {n} : node'[m] = node[m]
  BY Disassemble
<1>3. \A m \in Nodes : Fine(m)'
  BY <1>2, Disassemble DEF Fine
<1> QED
  BY <1>1, <1>3, Assemble

\* ... when the event thread has no part in it.
LEMMA OneNodeKept ==
  ASSUME Sound, PlacesOK', EvStays, NEW n \in Nodes, NEW x, Keeping(node[n], x),
         node' = [node EXCEPT ![n] = x], sleepTime' \in SleepTimes,
         whitelist' \subseteq Nodes, db' \subseteq Nodes,
         listener' \in BOOLEAN, events' \in Seq(Event)
  PROVE  Sound'
<1>1. \A m \in Nodes : EndingQueue(m)' <=> EndingQueue(m)
  BY DEF EvStays, EndingQueue
<1>2. Typed(x) /\ (Good(x) \/ EndingQueue(n)')
  BY <1>1, Disassemble DEF Keeping, Fine
<1> QED
  BY <1>1, <1>2, OneNodeSound

-----------------------------------------------------------------------------
\* The environment.
LEMMA PutType ==
  ASSUME Sound, NEW n \in Nodes, NEW type \in EventTypes, Put(n, type)
  PROVE  events' \in Seq(Event)
<1>1. [type |-> type, node |-> n] \in Event
  BY DEF Event
<1> QED
  BY <1>1, Disassemble, AppendProperties DEF Put

LEMMA MessageSound ==
  ASSUME Sound, NEW n \in Nodes, Message(n)
  PROVE  Sound'
<1>1. events' \in Seq(Event)
  BY PutType, TaskQueueAssumption DEF Message, EventTypes
<1>2. PlacesOK' /\ \A m \in Nodes : EndingQueue(m) => EndingQueue(m)'
  BY Disassemble DEF Message, PlacesOK, EndingQueue
<1> QED
  BY <1>1, <1>2, SameNodes, Disassemble DEF Message

LEMMA TaskTimerSound ==
  ASSUME Sound, NEW n \in Nodes, TaskTimer(n)
  PROVE  Sound'
<1>1. events' \in Seq(Event)
  BY PutType DEF TaskTimer, EventTypes
<1>2. PlacesOK' /\ EvStays /\ Typed(node[n]) /\ node[n] \in NodeState
  BY Disassemble DEF TaskTimer, PlacesOK, EvStays
<1>3. ASSUME NEW i \in DOMAIN node[n].queue,
             node[n].queue[i].timer = "running",
             node' = [node EXCEPT ![n].queue[i].timer = "spent"]
      PROVE  Sound'
  <2> DEFINE x == [node[n] EXCEPT !.queue[i].timer = "spent"]
  <2>1. node' = [node EXCEPT ![n] = x]
    BY <1>3, Disassemble
  <2>2. Keeping(node[n], x)
    BY <1>2, <1>3, TimerGood
  <2> HIDE DEF x
  <2> QED
    BY <1>1, <1>2, <2>1, <2>2, OneNodeKept, Disassemble DEF TaskTimer
<1>4. ASSUME node[n].stray > 0, node' = [node EXCEPT ![n].stray = @ - 1]
      PROVE  Sound'
  <2> DEFINE k == node[n].stray - 1
             x == [node[n] EXCEPT !.stray = k]
  <2>1. k \in Nat
    BY <1>2, <1>4 DEF NodeState
  <2>2. node' = [node EXCEPT ![n] = x]
    BY <1>4, Disassemble
  <2> HIDE DEF k
  <2>3. x \in NodeState /\ x.queue = node[n].queue
          /\ x.left = node[n].left
    BY <1>2, <2>1 DEF NodeState
  <2>4. Keeping(node[n], x)
    BY <1>2, <2>3, EntryGood
  <2> HIDE DEF x
  <2> QED
    BY <1>1, <1>2, <2>2, <2>4, OneNodeKept, Disassemble DEF TaskTimer
<1> QED
  BY <1>3, <1>4 DEF TaskTimer

LEMMA ConfigTimerSound ==
  ASSUME Sound, NEW n \in Nodes, ConfigTimer(n)
  PROVE  Sound'
<1>1. events' \in Seq(Event)
  BY PutType DEF ConfigTimer, EventTypes
<1>2. PlacesOK' /\ EvStays /\ Typed(node[n]) /\ node[n] \in NodeState
  BY Disassemble DEF ConfigTimer, PlacesOK, EvStays
<1>3. ASSUME node' = [node EXCEPT ![n].config = "stopped"]
      PROVE  Sound'
  <2> DEFINE x == [node[n] EXCEPT !.config = "stopped"]
  <2>1. node' = [node EXCEPT ![n] = x]
    BY <1>3, Disassemble
  <2>2. x \in NodeState /\ x.queue = node[n].queue
          /\ x.left = node[n].left
    BY <1>2 DEF NodeState
  <2>3. Keeping(node[n], x)
    BY <1>2, <2>2, EntryGood
  <2> HIDE DEF x
  <2> QED
    BY <1>1, <1>2, <2>1, <2>3, OneNodeKept, Disassemble DEF ConfigTimer
<1>4. ASSUME node[n].orphans > 0, node' = [node EXCEPT ![n].orphans = @ - 1]
      PROVE  Sound'
  <2> DEFINE k == node[n].orphans - 1
             x == [node[n] EXCEPT !.orphans = k]
  <2>1. k \in Nat
    BY <1>2, <1>4 DEF NodeState
  <2>2. node' = [node EXCEPT ![n] = x]
    BY <1>4, Disassemble
  <2> HIDE DEF k
  <2>3. x \in NodeState /\ x.queue = node[n].queue
          /\ x.left = node[n].left
    BY <1>2, <2>1 DEF NodeState
  <2>4. Keeping(node[n], x)
    BY <1>2, <2>3, EntryGood
  <2> HIDE DEF x
  <2> QED
    BY <1>1, <1>2, <2>2, <2>4, OneNodeKept, Disassemble DEF ConfigTimer
<1> QED
  BY <1>3, <1>4 DEF ConfigTimer

-----------------------------------------------------------------------------
\* The event thread and its handlers.
LEMMA DispatchSound ==
  ASSUME Sound, Dispatch
  PROVE  Sound'
<1> DEFINE e == Head(events)
<1>1. events \in Seq(Event) /\ events # <<>>
  BY Disassemble DEF Dispatch
<1>2. e \in Event /\ Tail(events) \in Seq(Event)
  BY <1>1, HeadTailProperties
<1>3. e.node \in Nodes /\ e.type \in EventTypes
  BY <1>2 DEF Event
<1>4. UNCHANGED <<node, sleepTime, whitelist, db, listener>>
        /\ events' = Tail(events)
  BY DEF Dispatch
<1>5. PlacesOK'
  <2>1. CASE ~listener /\ e.node \in whitelist
    BY <1>3, <2>1, TakePlaces, Disassemble DEF Dispatch, EvPlaces, Expiring, Removing
  <2>2. CASE ~(~listener /\ e.node \in whitelist)
    BY <1>3, <2>2, ToTimeoutPlaces, Disassemble DEF Dispatch
  <2> QED
    BY <2>1, <2>2
<1>6. \A n \in Nodes : ~EndingQueue(n)
  BY DEF Dispatch, EndingQueue, Ending
<1> HIDE DEF e
<1> QED
  BY <1>2, <1>4, <1>5, <1>6, SameNodes, Disassemble

\* The event thread's places in the block, before a queue ends.
LEMMA EvTarget ==
  ASSUME Sound, pc["ev"] # "idle"
  PROVE  /\ target["ev"] \in Nodes /\ current \in EventTypes
         /\ Typed(node[target["ev"]]) /\ sleepTime \in SleepTimes
         /\ Low(target["ev"]) \in BOOLEAN /\ Room \in BOOLEAN
  BY Disassemble DEF PlacesOK, Threads, Low, Room

\* The step of the event thread that changes the record of its node.
LEMMA EvSound ==
  ASSUME Sound, pc["ev"] # "idle", PlacesOK', NEW n, n = target["ev"],
         NEW x, Typed(x), Good(x) \/ EndingQueue(n)',
         node' = [node EXCEPT ![n] = x],
         whitelist' \subseteq Nodes, db' \subseteq Nodes,
         UNCHANGED <<sleepTime, listener, events>>
  PROVE  Sound'
<1>1. \A m \in Nodes \ {n} : ~EndingQueue(m)
  BY DEF EndingQueue
<1>2. n \in Nodes
  BY EvTarget
<1> QED
  BY <1>1, <1>2, OneNodeSound, Disassemble

LEMMA CallbacksSound ==
  ASSUME Sound, Callbacks
  PROVE  Sound'
<1> DEFINE n == target["ev"]
<1>1. pc["ev"] = "lock"
  BY DEF Callbacks
<1>2. PICK cb \in CbTasks :
        LET p == Prepared(node[n], Low(n), sleepTime, current, Room, cb)
        IN /\ node' = [node EXCEPT ![n] = p]
           /\ \/ Goto("ev", "mark") \/ Goto("ev", "renew")
              \/ ToConfigTimeoutHandler(n, current)
  BY DEF Callbacks
<1> DEFINE x == Prepared(node[n], Low(n), sleepTime, current, Room, cb)
<1>3. cb \in Seq(Command)
  BY TaskQueueAssumption
<1>4. n \in Nodes /\ Good(node[n])
  BY <1>1, EvTarget, GoodUnlocked DEF EndingQueue, Ending
<1>5. Good(x)
  BY <1>1, <1>3, <1>4, EvTarget, PreparedGood
<1>6. PlacesOK'
  <2>1. "mark" \in EvPlaces \ Expiring /\ "renew" \in EvPlaces \ Expiring
    BY DEF EvPlaces, Block, Expiring, Removing
  <2>2. "ev" \in Threads /\ "ev" # "api"
    BY DEF Threads
  <2> QED
    BY <1>1, <1>2, <2>1, <2>2, GotoPlaces, ToTimeoutPlaces, EvTarget, Disassemble
<1>7. UNCHANGED <<sleepTime, whitelist, db, listener, events>>
  BY DEF Callbacks
<1>8. node' = [node EXCEPT ![n] = x]
  BY <1>2
<1>9. Typed(x)
  BY <1>5 DEF Good
<1> HIDE DEF x, n
<1> QED
  BY <1>1, <1>5, <1>6, <1>7, <1>8, <1>9, EvSound, Disassemble DEF n

\* The event thread goes on in the block.
LEMMA BlockPlaces ==
  ASSUME Sound, pc["ev"] \in Block, NEW p \in Block, Goto("ev", p)
  PROVE  PlacesOK'
<1>1. /\ "ev" \in Threads /\ "ev" # "api" /\ pc["ev"] # "idle"
      /\ p \in EvPlaces /\ p \notin Expiring
  BY DEF Threads, Block, Ending, EvPlaces, Expiring, Removing
<1> QED
  BY <1>1, GotoPlaces, Disassemble

LEMMA MarkSound ==
  ASSUME Sound, Mark
  PROVE  Sound'
<1> DEFINE n == target["ev"]
           k == (node[n].config = "none")
           x == [node[n] EXCEPT !.configuring = TRUE, !.late = k]
<1>1. pc["ev"] = "mark" /\ "mark" \in Block /\ "renew" \in Block
  BY DEF Mark, Block
<1>2. n \in Nodes /\ Good(node[n]) /\ Typed(node[n])
  BY <1>1, EvTarget, GoodUnlocked DEF EndingQueue, Ending
<1>3. x \in NodeState /\ x.queue = node[n].queue /\ x.left = node[n].left
  <2>1. k \in BOOLEAN
    OBVIOUS
  <2> HIDE DEF k
  <2> QED
    BY <1>2, <2>1 DEF Typed, NodeState
<1>4. Good(x) /\ Typed(x)
  BY <1>2, <1>3, EntryGood DEF Keeping
<1>5. PlacesOK'
  BY <1>1, BlockPlaces, IdlePlaces, Disassemble DEF Mark, Threads
<1>6. node' = [node EXCEPT ![n] = x]
  BY DEF Mark, Marked
<1>7. UNCHANGED <<sleepTime, whitelist, db, listener, events>>
  BY DEF Mark
<1> HIDE DEF x, n
<1> QED
  BY <1>1, <1>4, <1>5, <1>6, <1>7, EvSound, Disassemble DEF n

LEMMA RenewSound ==
  ASSUME Sound, Renew
  PROVE  Sound'
<1>1. /\ pc["ev"] = "renew" /\ "renew" \in Block
      /\ \E p \in Block : Goto("ev", p)
  BY DEF Renew, Block
<1>2. PlacesOK'
  BY <1>1, BlockPlaces
<1>3. \A n \in Nodes : ~EndingQueue(n)
  BY <1>1 DEF EndingQueue, Ending
<1> QED
  BY <1>2, <1>3, SameNodes, Disassemble DEF Renew

LEMMA RestartSound ==
  ASSUME Sound, Restart
  PROVE  Sound'
<1> DEFINE n == target["ev"]
           x == [node[n] EXCEPT !.config = "running"]
<1>1. pc["ev"] = "restart" /\ "restart" \in Block /\ "head" \in Block
  BY DEF Restart, Block
<1>2. n \in Nodes /\ Good(node[n]) /\ Typed(node[n])
  BY <1>1, EvTarget, GoodUnlocked DEF EndingQueue, Ending
<1>3. x \in NodeState /\ x.queue = node[n].queue /\ x.left = node[n].left
  BY <1>2 DEF Typed, NodeState
<1>4. Good(x) /\ Typed(x)
  BY <1>2, <1>3, EntryGood DEF Keeping
<1>5. PlacesOK'
  BY <1>1, BlockPlaces, IdlePlaces, Disassemble DEF Restart, Threads
<1>6. \/ node' = node
      \/ node' = [node EXCEPT ![n] = x]
  BY Disassemble DEF Restart
<1>7. UNCHANGED <<sleepTime, whitelist, db, listener, events>>
  BY DEF Restart
<1>8. \A m \in Nodes : ~EndingQueue(m)
  BY <1>1 DEF EndingQueue, Ending
<1> HIDE DEF x, n
<1>9. CASE node' = node
  BY <1>5, <1>7, <1>8, <1>9, SameNodes, Disassemble
<1>10. CASE node' = [node EXCEPT ![n] = x]
  BY <1>1, <1>4, <1>5, <1>7, <1>10, EvSound, Disassemble DEF n
<1> QED
  BY <1>6, <1>9, <1>10

LEMMA HeadTaskSound ==
  ASSUME Sound, HeadTask
  PROVE  Sound'
<1> DEFINE n == target["ev"]
           x == HeadHandled(node[n], Low(n), sleepTime, current)
           ends == Succeeds(node[n], current) /\ node[n].queue[1].kind \in Final
<1>1. pc["ev"] = "head" /\ "head" \in Block /\ "end" \in Block
  BY DEF HeadTask, Block, Ending
<1>2. n \in Nodes /\ Good(node[n])
  BY <1>1, EvTarget, GoodUnlocked DEF EndingQueue, Ending
<1>3. Typed(x) /\ (Good(x) \/ ends)
  BY <1>1, <1>2, EvTarget, HeadHandledGood
<1>4. IF ends THEN Goto("ev", "end")
              ELSE ToConfigTimeoutHandler(n, current) \/ Idle("ev")
  BY DEF HeadTask, Acked, Final
<1>5. PlacesOK'
  BY <1>1, <1>4, BlockPlaces, ToTimeoutPlaces, IdlePlaces, EvTarget, Disassemble
     DEF Threads
<1>6. \A m : m = target["ev"] /\ ends => EndingQueue(m)'
  BY <1>4, Disassemble DEF Goto, EndingQueue, Ending, PlacesOK, Threads
<1>7. db' \subseteq Nodes
  <2>1. db' \in {db \ {n}, db \union {n}, db}
    BY DEF HeadTask
  <2> QED
    BY <1>2, <2>1, Disassemble
<1>8. node' = [node EXCEPT ![n] = x] /\ UNCHANGED <<sleepTime, whitelist, listener, events>>
  BY DEF HeadTask
<1> HIDE DEF x, ends
<1> QED
  BY <1>1, <1>3, <1>5, <1>6, <1>7, <1>8, EvSound, Disassemble

LEMMA ExpireSound ==
  ASSUME Sound, Expire
  PROVE  Sound'
<1>1. /\ pc["ev"] = "expire" /\ "expire" \in Expiring
      /\ \E p \in Expiring \intersect EvPlaces : Goto("ev", p)
  BY DEF Expire, Expiring, Removing, EvPlaces
<1>2. "ev" \in Threads /\ "ev" # "api" /\ pc["ev"] # "idle"
  BY <1>1 DEF Threads
<1>3. PlacesOK'
  BY <1>1, <1>2, GotoPlaces, Disassemble
<1>4. \A n \in Nodes : ~EndingQueue(n)
  BY <1>1 DEF EndingQueue, Ending
<1> QED
  BY <1>3, <1>4, SameNodes, Disassemble DEF Expire, Quiet

-----------------------------------------------------------------------------
\* The entries: places where one is about to be deleted, where a thread that
\* deleted one looks at configuring_nodes, and where it takes the node out.
Deletes == {"delete", "end_del"}
Checks == {"clean_configuring", "end_check", "forget_check"}
Unmarks == {"unmark", "end_unmark", "forget_unmark"}
Owning == Checks \union Unmarks

\* Places of config_timeout_handler and of remove_node where the entry has gone.
Past == (Owning \ Ending) \union {"unlist", "forget_queue"}

Entries(t) ==
  \/ t = "ev" /\ (EndConfiguration \/ Forget)
  \/ CleanTasks(t)

\* Places of the same handler.
Together(at, p) ==
  /\ at \in EvPlaces \ {"idle"} /\ p \in EvPlaces \ {"idle"}
  /\ at \in Ending \union Expiring
  /\ at \in Removing <=> p \in Removing
  /\ at \in Ending <=> p \in Ending
  /\ at \in Expiring <=> p \in Expiring

\* The steps the three handlers are made of.
EntryStep(t, at, p, q) ==
  /\ Together(at, p) /\ Together(at, q)
  /\ t = "api" => at \in Removing
  /\ \/ TestConfig(t, at, p, q) /\ at \notin Owning \union Deletes /\ p \notin Past
     \/ CancelEntry(t, at, p) /\ p \in Deletes /\ at \notin Owning \union Deletes
     \/ DeleteEntry(t, at, p) /\ p \in Checks /\ at \notin Owning
     \/ TestConfiguring(t, at, p, q) /\ at \in Checks /\ p \in Unmarks
     \/ Unmark(t, at, p) /\ at \in Unmarks
     \/ /\ ClearQueue(t, at) /\ at \notin Owning \union Deletes
        /\ \/ Goto(t, p) /\ p \notin Ending \union Past
           \/ Idle(t) /\ t = "ev" /\ at \in Ending \union Past

LEMMA EntriesCases ==
  ASSUME NEW t \in Threads, Entries(t)
  PROVE  \E at, p, q \in EvPlaces : EntryStep(t, at, p, q)
<1> USE DEF EvPlaces, Block, Ending, Expiring, Removing, Together, Owning,
            Checks, Unmarks, Deletes, Past
<1>1. CASE t = "ev" /\ EndConfiguration
  <2>1. TestConfig(t, "end", "end_cancel", "end_queue")
          => EntryStep(t, "end", "end_cancel", "end_queue")
    BY <1>1 DEF EntryStep
  <2>2. CancelEntry(t, "end_cancel", "end_del")
          => EntryStep(t, "end_cancel", "end_del", "end_del")
    BY <1>1 DEF EntryStep
  <2>3. DeleteEntry(t, "end_del", "end_check")
          => EntryStep(t, "end_del", "end_check", "end_check")
    BY <1>1 DEF EntryStep
  <2>4. TestConfiguring(t, "end_check", "end_unmark", "end_queue")
          => EntryStep(t, "end_check", "end_unmark", "end_queue")
    BY <1>1 DEF EntryStep
  <2>5. Unmark(t, "end_unmark", "end_queue")
          => EntryStep(t, "end_unmark", "end_queue", "end_queue")
    BY <1>1 DEF EntryStep
  <2>6. ClearQueue(t, "end_queue") /\ Idle(t)
          => EntryStep(t, "end_queue", "end_queue", "end_queue")
    BY <1>1 DEF EntryStep
  <2> QED
    BY <1>1, <2>1, <2>2, <2>3, <2>4, <2>5, <2>6 DEF EndConfiguration
<1>2. CASE t = "ev" /\ Forget
  <2>1. TestConfig(t, "forget", "forget_del", "forget_queue")
          => EntryStep(t, "forget", "forget_del", "forget_queue")
    BY <1>2 DEF EntryStep
  <2>2. DeleteEntry(t, "forget_del", "forget_check")
          => EntryStep(t, "forget_del", "forget_check", "forget_check")
    BY <1>2 DEF EntryStep
  <2>3. TestConfiguring(t, "forget_check", "forget_unmark", "forget_queue")
          => EntryStep(t, "forget_check", "forget_unmark", "forget_queue")
    BY <1>2 DEF EntryStep
  <2>4. Unmark(t, "forget_unmark", "forget_queue")
          => EntryStep(t, "forget_unmark", "forget_queue", "forget_queue")
    BY <1>2 DEF EntryStep
  <2>5. ClearQueue(t, "forget_queue") /\ Idle(t)
          => EntryStep(t, "forget_queue", "forget_queue", "forget_queue")
    BY <1>2 DEF EntryStep
  <2> QED
    BY <1>2, <2>1, <2>2, <2>3, <2>4, <2>5 DEF Forget
<1>3. CASE CleanTasks(t)
  <2>1. ClearQueue(t, "clean_queue") /\ Goto(t, "clean_config")
          => EntryStep(t, "clean_queue", "clean_config", "clean_config")
    BY DEF EntryStep
  <2>2. TestConfig(t, "clean_config", "cancel", "clean_configuring")
          => EntryStep(t, "clean_config", "cancel", "clean_configuring")
    BY DEF EntryStep
  <2>3. CancelEntry(t, "cancel", "delete")
          => EntryStep(t, "cancel", "delete", "delete")
    BY DEF EntryStep
  <2>4. DeleteEntry(t, "delete", "clean_configuring")
          => EntryStep(t, "delete", "clean_configuring", "clean_configuring")
    BY DEF EntryStep
  <2>5. TestConfiguring(t, "clean_configuring", "unmark", "unlist")
          => EntryStep(t, "clean_configuring", "unmark", "unlist")
    BY DEF EntryStep
  <2>6. Unmark(t, "unmark", "unlist")
          => EntryStep(t, "unmark", "unlist", "unlist")
    BY DEF EntryStep
  <2> QED
    BY <1>3, <2>1, <2>2, <2>3, <2>4, <2>5, <2>6 DEF CleanTasks
<1> QED
  BY <1>1, <1>2, <1>3 DEF Entries

\* Where such a step takes its thread.
LEMMA EntryMoves ==
  ASSUME Sound, NEW t \in Threads, NEW at \in EvPlaces, NEW p \in EvPlaces,
         NEW q \in EvPlaces, EntryStep(t, at, p, q)
  PROVE  /\ pc[t] = at /\ at # "idle" /\ target[t] \in Nodes
         /\ Goto(t, p) \/ Goto(t, q) \/ Idle(t)
         /\ PlacesOK'
         /\ UNCHANGED <<whitelist, sleepTime, db, listener, events>>
         /\ t = "api" => EvStays
         /\ t = "ev" /\ (Goto(t, p) \/ Goto(t, q)) =>
              \A m \in Nodes : EndingQueue(m)' <=> EndingQueue(m)
<1>1. /\ pc[t] = at /\ at # "idle"
      /\ Goto(t, p) \/ Goto(t, q) \/ Idle(t)
      /\ UNCHANGED <<whitelist, sleepTime, db, listener, events>>
  BY DEF EntryStep, TestConfig, CancelEntry, DeleteEntry, TestConfiguring,
         Unmark, ClearQueue, KeyError, Together, Quiet
<1>2. target[t] \in Nodes
  BY <1>1, Disassemble DEF PlacesOK
<1>3. PlacesOK'
  <2>1. \A r \in {p, q} : /\ t = "api" => r \in Removing
                          /\ t = "ev" /\ r \in Expiring => pc[t] \in Expiring
    BY <1>1 DEF EntryStep, Together
  <2>2. \A r \in {p, q} : Goto(t, r) => PlacesOK'
    BY <1>1, <2>1, GotoPlaces, Disassemble
  <2> QED
    BY <1>1, <2>2, IdlePlaces, Disassemble
<1>4. t = "api" => EvStays
  BY <1>1, Disassemble DEF Goto, Idle, EvStays, PlacesOK, Threads
<1>5. t = "ev" /\ (Goto(t, p) \/ Goto(t, q)) =>
        \A m \in Nodes : EndingQueue(m)' <=> EndingQueue(m)
  BY <1>1, Disassemble DEF EntryStep, Together, Goto, EndingQueue, PlacesOK, Threads
<1> QED
  BY <1>1, <1>2, <1>3, <1>4, <1>5

\* What such a step does to the record of its node.
LEMMA EntryRecord ==
  ASSUME Sound, NEW t \in Threads, NEW at \in EvPlaces, NEW p \in EvPlaces,
         NEW q \in EvPlaces, EntryStep(t, at, p, q)
  PROVE  \E x : /\ node' = [node EXCEPT ![target[t]] = x]
                /\ Keeping(node[target[t]], x)
                /\ at \in Ending /\ Idle(t) => Good(x)
<1> DEFINE n == target[t]
           s == node[n]
<1>1. n \in Nodes /\ Typed(s) /\ s \in NodeState /\ pc[t] = at
  BY EntryMoves, Disassemble DEF Typed
<1>2. ASSUME UNCHANGED node, Goto(t, p) \/ Goto(t, q)
      PROVE  /\ node' = [node EXCEPT ![n] = s]
             /\ Keeping(s, s) /\ ~Idle(t)
  <2>1. p # "idle" /\ q # "idle"
    BY DEF EntryStep, Together
  <2> QED
    BY <1>1, <1>2, <2>1, Disassemble DEF Keeping, Goto, Idle, PlacesOK
<1>3. ASSUME KeyError(t)
      PROVE  \E x : /\ node' = [node EXCEPT ![n] = x]
                    /\ Keeping(s, x)
                    /\ at \in Ending => Good(x)
  <2> DEFINE k == s.left \/ pc[t] \in Ending
             x == [s EXCEPT !.left = k]
  <2>1. k \in BOOLEAN
    BY <1>1 DEF NodeState
  <2>2. node' = [node EXCEPT ![n] = x]
    BY <1>1, <1>3, Disassemble DEF KeyError
  <2>3. k => x.left
    BY <1>1 DEF NodeState
  <2>4. (s.left => k) /\ (at \in Ending => k)
    BY <1>1
  <2> HIDE DEF k
  <2>5. x \in NodeState /\ x.queue = s.queue
    BY <1>1, <2>1 DEF NodeState
  <2>6. Keeping(s, x) /\ (at \in Ending => Good(x))
    <3> HIDE DEF x
    <3> QED
      BY <1>1, <2>3, <2>4, <2>5, EntryGood DEF Keeping, Good
  <2> HIDE DEF x
  <2> QED
    BY <2>2, <2>6
<1>4. ASSUME NEW x, node' = [node EXCEPT ![n] = x], Keeping(s, x), Goto(t, p)
      PROVE  /\ node' = [node EXCEPT ![n] = x]
             /\ Keeping(s, x) /\ ~Idle(t)
  <2>1. p # "idle"
    BY DEF EntryStep, Together
  <2> QED
    BY <1>1, <1>4, <2>1, Disassemble DEF Goto, Idle, PlacesOK
<1>5. CASE TestConfig(t, at, p, q) \/ TestConfiguring(t, at, p, q)
  BY <1>2, <1>5 DEF TestConfig, TestConfiguring
<1>6. CASE CancelEntry(t, at, p)
  <2> DEFINE x == [s EXCEPT !.config = "stopped"]
  <2>1. x \in NodeState /\ x.queue = s.queue /\ x.left = s.left
    BY <1>1 DEF NodeState
  <2>2. Keeping(s, x)
    BY <1>1, <2>1, EntryGood
  <2>3. KeyError(t) \/ (node' = [node EXCEPT ![n] = x] /\ Goto(t, p))
    BY <1>1, <1>6, Disassemble DEF CancelEntry
  <2> HIDE DEF x
  <2> QED
    BY <1>3, <1>4, <2>2, <2>3
<1>7. CASE DeleteEntry(t, at, p)
  BY <1>1, <1>3, <1>4, <1>7, DeletedGood DEF DeleteEntry
<1>8. CASE Unmark(t, at, p)
  <2> DEFINE x == [s EXCEPT !.configuring = FALSE, !.late = FALSE]
  <2>1. x \in NodeState /\ x.queue = s.queue /\ x.left = s.left
    BY <1>1 DEF NodeState
  <2>2. Keeping(s, x)
    BY <1>1, <2>1, EntryGood
  <2>3. KeyError(t) \/ (node' = [node EXCEPT ![n] = x] /\ Goto(t, p))
    BY <1>8 DEF Unmark, Unmarked
  <2> HIDE DEF x
  <2> QED
    BY <1>3, <1>4, <2>2, <2>3
<1>9. CASE ClearQueue(t, at)
  <2>1. Good(CancelTasks(s)) /\ Keeping(s, CancelTasks(s))
    BY <1>1, CancelTasksGood DEF Good, Keeping
  <2>2. node' = [node EXCEPT ![n] = CancelTasks(s)]
    BY <1>9 DEF ClearQueue
  <2> QED
    BY <2>1, <2>2
<1> QED
  BY <1>5, <1>6, <1>7, <1>8, <1>9 DEF EntryStep

LEMMA EntriesSound ==
  ASSUME Sound, NEW t \in Threads, Entries(t)
  PROVE  Sound'
<1>1. PICK at \in EvPlaces, p \in EvPlaces, q \in EvPlaces : EntryStep(t, at, p, q)
  BY EntriesCases
<1>2. PICK x : /\ node' = [node EXCEPT ![target[t]] = x]
               /\ Keeping(node[target[t]], x)
               /\ at \in Ending /\ Idle(t) => Good(x)
  BY <1>1, EntryRecord
<1>3. /\ pc[t] = at /\ at # "idle" /\ target[t] \in Nodes /\ PlacesOK'
      /\ UNCHANGED <<whitelist, sleepTime, db, listener, events>>
      /\ Goto(t, p) \/ Goto(t, q) \/ Idle(t)
  BY <1>1, EntryMoves
<1>4. CASE t = "api"
  <2>1. EvStays
    BY <1>1, <1>4, EntryMoves
  <2> QED
    BY <1>2, <1>3, <2>1, OneNodeKept, Disassemble
<1>5. CASE t = "ev"
  <2>1. \A n : n = target["ev"] => Typed(x) /\ (Good(x) \/ EndingQueue(n)')
    <3> SUFFICES ASSUME NEW n, n = target["ev"]
                 PROVE  Typed(x) /\ (Good(x) \/ EndingQueue(n)')
      OBVIOUS
    <3>1. CASE Idle(t)
      <4>1. CASE at \in Ending
        BY <1>2, <3>1, <4>1 DEF Keeping
      <4>2. CASE at \notin Ending
        BY <1>2, <1>3, <1>5, <4>2, GoodUnlocked DEF Keeping, EndingQueue
      <4> QED
        BY <4>1, <4>2
    <3>2. CASE Goto(t, p) \/ Goto(t, q)
      <4>1. EndingQueue(n)' <=> EndingQueue(n)
        BY <1>1, <1>3, <1>5, <3>2, EntryMoves
      <4> QED
        BY <1>2, <1>3, <1>5, <4>1, GoodUnlocked DEF Keeping
    <3> QED
      BY <1>3, <3>1, <3>2
  <2> QED
    BY <1>2, <1>3, <1>5, <2>1, EvSound, Disassemble
<1> QED
  BY <1>4, <1>5 DEF Threads

-----------------------------------------------------------------------------
\* Whitelist.remove_node, without what it does to the entries.
Listing(t) == RemoveCheck(t) \/ RemoveInQueue(t) \/ Unlist(t)

LEMMA ListingMoves ==
  ASSUME Sound, NEW t \in Threads, Listing(t)
  PROVE  /\ pc[t] \in {"check", "in_queue", "unlist"}
         /\ Idle(t) \/ \E p \in EvPlaces \ {"idle"} :
                          Goto(t, p) /\ p \in Expiring \ (Owning \union Deletes)
         /\ PlacesOK'
         /\ \A m \in Nodes : EndingQueue(m) => EndingQueue(m)'
         /\ UNCHANGED <<node, sleepTime, db, listener, events>>
         /\ whitelist' \subseteq Nodes
<1> USE DEF EvPlaces, Block, Ending, Expiring, Removing, Owning, Checks,
            Unmarks, Deletes
<1>1. /\ pc[t] \in {"check", "in_queue", "unlist"}
      /\ \/ Idle(t)
         \/ \E p \in {"in_queue", "clean_queue", "unlist", "forget"} :
              Goto(t, p) /\ (t = "api" => p # "forget")
      /\ UNCHANGED <<node, sleepTime, db, listener, events>>
      /\ whitelist' \subseteq whitelist
  BY DEF Listing, RemoveCheck, RemoveInQueue, Unlist, Return, Quiet
<1>2. Idle(t) \/ \E p \in EvPlaces \ {"idle"} :
                   /\ Goto(t, p) /\ p \in Expiring \ (Owning \union Deletes)
                   /\ t = "api" => p \in Removing
  BY <1>1
<1>3. pc[t] # "idle" /\ pc[t] \in Expiring
  BY <1>1
<1>4. PlacesOK'
  <2>1. CASE Idle(t)
    BY <2>1, IdlePlaces, Disassemble
  <2>2. ASSUME NEW p \in EvPlaces, Goto(t, p), t = "api" => p \in Removing
        PROVE  PlacesOK'
    <3> HIDE DEF EvPlaces, Expiring, Removing
    <3> QED
      BY <1>3, <2>2, GotoPlaces, Disassemble
  <2> QED
    BY <1>2, <2>1, <2>2
<1>5. \A m \in Nodes : EndingQueue(m) => EndingQueue(m)'
  <2>1. CASE t = "ev"
    BY <1>1, <2>1 DEF EndingQueue
  <2>2. CASE t # "ev"
    BY <1>1, <2>2, Disassemble DEF EndingQueue, Goto, Idle, PlacesOK, Threads
  <2> QED
    BY <2>1, <2>2
<1> QED
  BY <1>1, <1>2, <1>4, <1>5, Disassemble

LEMMA RemoveSound ==
  ASSUME Sound, NEW t \in Threads, Remove(t)
  PROVE  Sound'
<1>1. CASE CleanTasks(t)
  BY <1>1, EntriesSound DEF Entries
<1>2. CASE Listing(t)
  BY <1>2, ListingMoves, SameNodes, Disassemble
<1> QED
  BY <1>1, <1>2 DEF Remove, Listing

-----------------------------------------------------------------------------
\* The application.
LEMMA ApiAddTaskSound ==
  ASSUME Sound, NEW n \in Nodes, ApiAddTask(n)
  PROVE  Sound'
<1>1. PICK k \in ApiTasks :
        node' = [node EXCEPT ![n] = AddTask(node[n], Low(n), k, sleepTime)]
  BY DEF ApiAddTask
<1> DEFINE x == AddTask(node[n], Low(n), k, sleepTime)
<1>2. k \in Addable /\ Low(n) \in BOOLEAN /\ sleepTime \in SleepTimes
  BY TaskQueueAssumption, Disassemble DEF Addable, Low
<1>3. Good(node[n])
  BY GoodUnlocked, UnlockedEnding DEF ApiAddTask
<1>4. Keeping(node[n], x)
  BY <1>2, <1>3, AddTaskGood DEF Keeping, Good
<1>5. PlacesOK' /\ EvStays
  BY Disassemble DEF ApiAddTask, PlacesOK, EvStays
<1>6. node' = [node EXCEPT ![n] = x]
  BY <1>1
<1> HIDE DEF x
<1> QED
  BY <1>4, <1>5, <1>6, OneNodeKept, Disassemble DEF ApiAddTask

LEMMA ApiCancelTasksSound ==
  ASSUME Sound, NEW n \in Nodes, ApiCancelTasks(n)
  PROVE  Sound'
<1> DEFINE x == CancelTasks(node[n])
<1>1. Keeping(node[n], x)
  BY CancelTasksGood, Disassemble DEF Good, Typed, Keeping
<1>2. PlacesOK' /\ EvStays /\ node' = [node EXCEPT ![n] = x]
  BY Disassemble DEF ApiCancelTasks, PlacesOK, EvStays
<1> HIDE DEF x
<1> QED
  BY <1>1, <1>2, OneNodeKept, Disassemble DEF ApiCancelTasks

LEMMA ApiOtherSound ==
  ASSUME Sound,
         \/ \E n \in Nodes : \/ ApiAddWhitelist(n) \/ ApiRemoveWhitelist(n)
                             \/ Provision(n)
         \/ ApiSetListener \/ ApiSetSleepTime
  PROVE  Sound'
<1>1. PlacesOK'
  <2>1. CASE \E n \in Nodes : ApiRemoveWhitelist(n)
    <3>1. PICK n \in Nodes :
            /\ pc' = [pc EXCEPT !["api"] = "check"]
            /\ target' = [target EXCEPT !["api"] = n] /\ current' = current
      BY <2>1 DEF ApiRemoveWhitelist
    <3>2. "check" \in EvPlaces /\ "check" \in Removing
      BY DEF EvPlaces, Expiring, Removing
    <3> QED
      BY <3>1, <3>2, Disassemble DEF PlacesOK, Threads
  <2>2. CASE UNCHANGED <<pc, target, current>>
    BY <2>2, Disassemble DEF PlacesOK
  <2> QED
    BY <2>1, <2>2 DEF ApiAddWhitelist, Provision, ApiSetListener,
                      ApiSetSleepTime
<1>2. UNCHANGED <<node, events>> /\ sleepTime' \in SleepTimes
  BY Disassemble DEF ApiAddWhitelist, ApiRemoveWhitelist, Provision,
                     ApiSetListener, ApiSetSleepTime
<1>3. whitelist' \subseteq Nodes /\ db' \subseteq Nodes
  BY Disassemble DEF ApiAddWhitelist, ApiRemoveWhitelist, Provision,
                     ApiSetListener, ApiSetSleepTime
<1>4. listener' \in BOOLEAN
  <2>1. listener' = listener \/ listener' = ~listener
    BY DEF ApiAddWhitelist, ApiRemoveWhitelist, Provision,
           ApiSetListener, ApiSetSleepTime
  <2> QED
    BY <2>1, Disassemble, Zenon
<1>5. \A n \in Nodes : EndingQueue(n) => EndingQueue(n)'
  BY Disassemble DEF ApiAddWhitelist, ApiRemoveWhitelist, Provision,
         ApiSetListener, ApiSetSleepTime, EndingQueue, PlacesOK, Threads
<1> QED
  BY <1>1, <1>2, <1>3, <1>4, <1>5, SameNodes, Disassemble

-----------------------------------------------------------------------------
LEMMA SoundStep == Sound /\ [Next]_vars => Sound'
<1> SUFFICES ASSUME Sound, [Next]_vars PROVE Sound'
  OBVIOUS
<1>1. CASE Outside
  BY <1>1, MessageSound, ApiAddTaskSound, ApiCancelTasksSound, ApiOtherSound
     DEF Outside, Application
<1>2. CASE EventThread
  BY <1>2, DispatchSound, CallbacksSound, MarkSound, RenewSound, RestartSound,
     HeadTaskSound, ExpireSound, EntriesSound, RemoveSound
     DEF EventThread, Threads, Entries
<1>3. CASE Remove("api")
  BY <1>3, RemoveSound DEF Threads
<1>4. CASE \E n \in Nodes : TaskTimer(n) \/ ConfigTimer(n)
  BY <1>4, TaskTimerSound, ConfigTimerSound
<1>5. CASE UNCHANGED vars
  BY <1>5 DEF vars, Sound, TypeOK, HeadReady, QueueShape, EndingQueue
<1> QED
  BY <1>1, <1>2, <1>3, <1>4, <1>5 DEF Next

THEOREM SoundInvariant == Spec => []Sound
<1>1. Init => Sound
  BY InitSound
<1>2. Sound /\ [Next]_vars => Sound'
  BY SoundStep
<1> QED
  BY <1>1, <1>2, PTL DEF Spec

\* The state is always well typed, and config_timeout_handler only works on a
\* CONFIGURATION_TIMEOUT.
THEOREM TypeCorrect == Spec => []TypeOK
<1>1. Sound => TypeOK
  BY DEF Sound
<1> QED
  BY <1>1, SoundInvariant, PTL

\* A command at the head of a queue has always been executed, unless a KeyError
\* of task_handler left the queue: no other command waits for ever for an
\* execute() nobody calls, and success() finds its timer.
THEOREM HeadAlwaysReady == Spec => []HeadReady
<1>1. Sound => HeadReady
  BY DEF Sound
<1> QED
  BY <1>1, SoundInvariant, PTL

\* A queue waits for one wake-up at most and puts its node to sleep once.
THEOREM QueueShapeKept == Spec => []QueueShape
<1>1. Sound => QueueShape
  BY DEF Sound
<1> QED
  BY <1>1, SoundInvariant, PTL

-----------------------------------------------------------------------------
\* What the event thread keeps of a queue.

\* How many of the first i tasks of a queue are pending.
LEMMA PendingCount ==
  ASSUME NEW q \in Seq(Task), ShapeOf(q)
  PROVE  \E first \in 1..2, at \in 1..(Len(q) + 1) :
           /\ GetTasks(q) = SubSeq(q, first, at - 1) \o SubSeq(q, at + 1, Len(q))
           /\ first <= at
           /\ PendingIn(q) = (first..Len(q)) \ {at}
           /\ \A i \in (first - 1)..Len(q) :
                Cardinality(PendingIn(q) \intersect 1..i) = (IF at <= i THEN i - first ELSE i - first + 1)
<1> DEFINE first == IF q # <<>> /\ q[1].kind = "wake" THEN 2 ELSE 1
           at == SleepAt(q)
           L == Len(q)
<1>0. L \in Nat /\ DOMAIN q = 1..L /\ (q # <<>> => L >= 1)
  OBVIOUS
<1>1. /\ at \in 1..(L + 1)
      /\ at \in 1..L => q[at].kind = "sleep"
      /\ \A i \in 1..L : q[i].kind = "sleep" => i = at
  <2>1. CASE \E i \in DOMAIN q : q[i].kind = "sleep"
    BY <1>0, <2>1 DEF SleepAt, ShapeOf
  <2>2. CASE ~\E i \in DOMAIN q : q[i].kind = "sleep"
    BY <1>0, <2>2 DEF SleepAt
  <2> QED
    BY <2>1, <2>2
<1>2. /\ first \in 1..2 /\ first <= L + 1
      /\ first = 2 => q[1].kind = "wake"
      /\ \A i \in 1..L : q[i].kind = "wake" <=> i < first
  BY <1>0 DEF ShapeOf
<1>3. GetTasks(q) = SubSeq(q, first, at - 1) \o SubSeq(q, at + 1, L)
  BY DEF GetTasks
<1> HIDE DEF first, at, L
<1>4. first <= at
  <2>1. at = 1 /\ first = 2 => FALSE
    BY <1>0, <1>1, <1>2
  <2> QED
    BY <1>1, <1>2, <2>1
<1>5. PendingIn(q) = (first..L) \ {at}
  BY <1>0, <1>1, <1>2 DEF PendingIn
<1>6. ASSUME NEW i \in (first - 1)..L
      PROVE  Cardinality(PendingIn(q) \intersect 1..i) = (IF at <= i THEN i - first ELSE i - first + 1)
  <2>1. PendingIn(q) \intersect 1..i = (first..i) \ {at}
    BY <1>0, <1>1, <1>2, <1>5
  <2>2. i \in Int /\ first \in Int /\ i >= first - 1
    BY <1>0, <1>2
  <2>3. IsFiniteSet(first..i) /\ Cardinality(first..i) = i - first + 1
    BY <2>2, FS_Interval
  <2>4. at \in first..i <=> at <= i
    BY <1>1, <1>4, <2>2
  <2>5. Cardinality((first..i) \ {at})
          = (IF at \in first..i THEN Cardinality(first..i) - 1 ELSE Cardinality(first..i))
    BY <2>3, FS_RemoveElement
  <2> DEFINE c == Cardinality(PendingIn(q) \intersect 1..i)
             d == Cardinality(first..i)
  <2>6. d = i - first + 1 /\ c = (IF at <= i THEN d - 1 ELSE d)
    BY <2>1, <2>3, <2>4, <2>5
  <2> HIDE DEF c, d
  <2>7. c = (IF at <= i THEN i - first ELSE i - first + 1)
    BY <2>2, <2>6
  <2> QED
    BY <2>7 DEF c
<1> QED
  BY <1>1, <1>2, <1>3, <1>4, <1>5, <1>6 DEF L

\* get_tasks returns the pending tasks, each at its place among them.
LEMMA GetTasksKeeps ==
  ASSUME NEW q \in Seq(Task), ShapeOf(q)
  PROVE  /\ Len(GetTasks(q)) = Cardinality(PendingIn(q))
         /\ \A i \in PendingIn(q) : GetTasks(q)[Cardinality(PendingIn(q) \intersect 1..i)] = q[i]
<1>1. PICK first \in 1..2, at \in 1..(Len(q) + 1) :
           /\ GetTasks(q) = SubSeq(q, first, at - 1) \o SubSeq(q, at + 1, Len(q))
           /\ first <= at
           /\ PendingIn(q) = (first..Len(q)) \ {at}
           /\ \A i \in (first - 1)..Len(q) :
                Cardinality(PendingIn(q) \intersect 1..i) = (IF at <= i THEN i - first ELSE i - first + 1)
  BY PendingCount
<1> DEFINE L == Len(q)
           a == SubSeq(q, first, at - 1)
           b == SubSeq(q, at + 1, L)
<1>2. L \in Nat /\ \A i \in 1..L : q[i] \in Task
  OBVIOUS
<1>3. /\ a \in Seq(Task) /\ Len(a) = at - first
      /\ \A i \in 1..(at - first) : a[i] = q[first + i - 1]
  <2>1. \A i \in first..(at - 1) : q[i] \in Task
    BY <1>1, <1>2
  <2>2. /\ a \in Seq(Task)
        /\ Len(a) = IF first <= at - 1 THEN at - 1 - first + 1 ELSE 0
        /\ \A i \in 1..(at - 1 - first + 1) : a[i] = q[first + i - 1]
    BY <1>1, <2>1, SubSeqProperties
  <2> QED
    BY <1>1, <2>2
<1>4. /\ b \in Seq(Task) /\ Len(b) = (IF at <= L THEN L - at ELSE 0)
      /\ \A i \in 1..(L - at) : b[i] = q[at + i]
  <2>1. \A i \in (at + 1)..L : q[i] \in Task
    BY <1>1, <1>2
  <2>2. /\ b \in Seq(Task)
        /\ Len(b) = IF at + 1 <= L THEN L - (at + 1) + 1 ELSE 0
        /\ \A i \in 1..(L - (at + 1) + 1) : b[i] = q[at + 1 + i - 1]
    BY <1>1, <1>2, <2>1, SubSeqProperties
  <2>3. at \in Nat /\ L \in Nat
    BY <1>1, <1>2
  <2> HIDE DEF b, L
  <2>4. /\ L - (at + 1) + 1 = L - at
        /\ (at + 1 <= L) <=> (at < L)
        /\ \A i \in 1..(L - at) : at + 1 + i - 1 = at + i
    BY <2>3
  <2>5. Len(b) = IF at <= L THEN L - at ELSE 0
    BY <2>2, <2>3, <2>4
  <2>6. ASSUME NEW i \in 1..(L - at)
        PROVE  b[i] = q[at + i]
    BY <2>2, <2>4
  <2> QED
    BY <2>2, <2>5, <2>6
<1>5. GetTasks(q) = a \o b
  BY <1>1
<1>6. first \in Nat /\ at \in Nat /\ first <= at /\ at <= L + 1
  BY <1>1, <1>2
<1>c. \A i \in (first - 1)..L :
        Cardinality(PendingIn(q) \intersect 1..i) = (IF at <= i THEN i - first ELSE i - first + 1)
  BY <1>1
<1>p. PendingIn(q) = (first..L) \ {at}
  BY <1>1
<1> HIDE DEF a, b, L
<1>7. /\ Len(a \o b) = Len(a) + Len(b)
      /\ \A i \in 1..(Len(a) + Len(b)) : (a \o b)[i] = IF i <= Len(a) THEN a[i] ELSE b[i - Len(a)]
  BY <1>3, <1>4, ConcatProperties
<1>8. Len(GetTasks(q)) = Cardinality(PendingIn(q))
  <2>1. PendingIn(q) \intersect 1..L = PendingIn(q)
    BY <1>2, <1>6, <1>p
  <2>2. Cardinality(PendingIn(q)) = (IF at <= L THEN L - first ELSE L - first + 1)
    BY <1>1, <1>2, <1>6, <1>c, <2>1
  <2> QED
    BY <1>2, <1>3, <1>4, <1>5, <1>6, <1>7, <2>2
<1>9. ASSUME NEW i \in PendingIn(q)
      PROVE  GetTasks(q)[Cardinality(PendingIn(q) \intersect 1..i)] = q[i]
  <2>1. i \in first..L /\ i # at /\ i \in Nat
    BY <1>2, <1>6, <1>p
  <2>2. Cardinality(PendingIn(q) \intersect 1..i) = (IF at <= i THEN i - first ELSE i - first + 1)
    BY <1>2, <1>6, <1>c, <2>1
  <2>3. CASE i < at
    <3>1. i - first + 1 \in 1..(at - first) /\ first + (i - first + 1) - 1 = i
      BY <1>6, <2>1, <2>3
    <3>2. /\ i - first + 1 \in 1..(Len(a) + Len(b))
          /\ i - first + 1 <= Len(a)
      BY <1>2, <1>3, <1>4, <1>6, <2>1, <2>3
    <3>3. (a \o b)[i - first + 1] = a[i - first + 1]
      BY <1>7, <3>2
    <3>4. a[i - first + 1] = q[i]
      BY <1>3, <3>1
    <3>5. Cardinality(PendingIn(q) \intersect 1..i) = i - first + 1
      BY <1>6, <2>1, <2>2, <2>3
    <3> QED
      BY <1>5, <3>3, <3>4, <3>5
  <2>4. CASE i > at
    <3>1. i - at \in 1..(L - at) /\ at + (i - at) = i
      BY <1>2, <1>6, <2>1, <2>4
    <3>2. i - first \in 1..(Len(a) + Len(b)) /\ i - first > Len(a) /\ i - first - Len(a) = i - at
      BY <1>2, <1>3, <1>4, <1>6, <2>1, <2>4
    <3>3. (a \o b)[i - first] = b[i - at]
      BY <1>3, <1>7, <3>2
    <3>4. b[i - at] = q[i]
      BY <1>4, <3>1
    <3>5. Cardinality(PendingIn(q) \intersect 1..i) = i - first
      BY <1>6, <2>1, <2>2, <2>4
    <3> QED
      BY <1>5, <3>3, <3>4, <3>5
  <2> QED
    BY <1>6, <2>1, <2>3, <2>4
<1> QED
  BY <1>8, <1>9

\* Each task i that is kept is the g[i]-th one afterwards.
LEMMA KeepsAt ==
  ASSUME NEW q, NEW r, NEW lost, NEW g \in [PendingIn(q) \ lost -> DOMAIN r],
         \A i \in PendingIn(q) \ lost :
           r[g[i]].kind = q[i].kind /\ r[g[i]].period = q[i].period,
         \A i, j \in PendingIn(q) \ lost : i < j => g[i] < g[j]
  PROVE  Keeps(q, r, lost)
  BY DEF Keeps

LEMMA KeepsShifted ==
  ASSUME NEW q \in Seq(Task), NEW r, NEW lost, NEW d \in Int,
         \A i \in PendingIn(q) \ lost :
           /\ i + d \in DOMAIN r
           /\ r[i + d].kind = q[i].kind /\ r[i + d].period = q[i].period
  PROVE  Keeps(q, r, lost)
<1> DEFINE g == [i \in PendingIn(q) \ lost |-> i + d]
<1>1. \A i \in PendingIn(q) \ lost : g[i] = i + d /\ i \in Int
  BY DEF PendingIn
<1>2. g \in [PendingIn(q) \ lost -> DOMAIN r]
  OBVIOUS
<1> HIDE DEF g
<1>3. \A i, j \in PendingIn(q) \ lost : i < j => g[i] < g[j]
  BY <1>1
<1>4. \A i \in PendingIn(q) \ lost :
        r[g[i]].kind = q[i].kind /\ r[g[i]].period = q[i].period
  BY <1>1
<1> QED
  BY <1>2, <1>3, <1>4, KeepsAt

\* The tasks of a queue keep their kinds and periods.
SameTasks(q, r) ==
  \A i \in DOMAIN q : i \in DOMAIN r /\ r[i].kind = q[i].kind /\ r[i].period = q[i].period

LEMMA KeepsSame ==
  ASSUME NEW q \in Seq(Task), NEW r, SameTasks(q, r), NEW lost
  PROVE  Keeps(q, r, lost)
<1>1. \A i \in PendingIn(q) : i \in Int /\ i + 0 = i /\ i \in DOMAIN q
  BY DEF PendingIn
<1> QED
  BY <1>1, KeepsShifted DEF SameTasks

LEMMA KeepsNone ==
  ASSUME NEW q \in Seq(Task), NEW r, NEW lost, PendingIn(q) \ lost = {}
  PROVE  Keeps(q, r, lost)
<1>1. 0 \in Int
  OBVIOUS
<1> QED
  BY <1>1, KeepsShifted

LEMMA StartedSame ==
  ASSUME NEW t \in Task
  PROVE  Started(t).kind = t.kind /\ Started(t).period = t.period
  BY DEF Started, Task

LEMMA ExecuteSame ==
  ASSUME NEW s \in NodeState, s.queue # <<>>
  PROVE  SameTasks(s.queue, Execute(s).queue) /\ SameTasks(s.queue, Repeat(s).queue)
<1> DEFINE q == s.queue
           t == q[1]
           r == [q EXCEPT ![1] = Started(t)]
<1>1. q \in Seq(Task) /\ 1 \in DOMAIN q /\ t \in Task
  BY DEF NodeState
<1>2. Started(t).kind = t.kind /\ Started(t).period = t.period
  BY <1>1, StartedSame
<1>3. SameTasks(q, r) /\ SameTasks(q, q)
  BY <1>1, <1>2 DEF SameTasks
<1>4. Repeat(s).queue = r
  BY DEF Repeat, NodeState
<1>5. Execute(s).queue = q \/ Execute(s).queue = r
  BY DEF Execute, NodeState
<1> QED
  BY <1>3, <1>4, <1>5

\* A reconfiguration keeps all the pending tasks, in their order: get_tasks finds
\* them by the shape that every queue has.
LEMMA ConfiguredKeeps ==
  ASSUME NEW s \in NodeState, NEW q \in Seq(Task), ShapeOf(q),
         NEW cb \in Seq(Command), NEW lost, NEW slp \in SleepTimes
  PROVE  Keeps(q, Configured(s, cb, GetTasks(q), lost, slp).queue, {})
<1> DEFINE new == [i \in 1..Len(cb) |-> NewTask(cb[i], slp)]
           kept == GetTasks(q)
           added == new \o kept
           rank(i) == Cardinality(PendingIn(q) \intersect 1..i)
           C == Len(cb)
<1>1. Len(kept) = Cardinality(PendingIn(q)) /\ \A i \in PendingIn(q) : kept[rank(i)] = q[i]
  BY GetTasksKeeps
<1>2. kept \in Seq(Task)
  BY GetTasksPlain
<1>3. C \in Nat /\ new \in Seq(Task) /\ Len(new) = C
  <2>1. \A i \in 1..C : NewTask(cb[i], slp) \in Task
    BY NewTaskType DEF Kinds, Command, Periods
  <2> QED
    BY <2>1, IsASeq
<1>4. Configured(s, cb, kept, lost, slp).queue
        = IF added = <<>> THEN <<>> ELSE <<WakeTask>> \o added
  BY DEF Configured, NodeState
<1>5. PICK first \in 1..2, at \in 1..(Len(q) + 1) :
           /\ first <= at
           /\ PendingIn(q) = (first..Len(q)) \ {at}
           /\ \A i \in (first - 1)..Len(q) :
                rank(i) = (IF at <= i THEN i - first ELSE i - first + 1)
  BY PendingCount
<1>6. \A i \in PendingIn(q) : rank(i) \in 1..Len(kept)
  <2>1. IsFiniteSet(PendingIn(q)) /\ Len(kept) \in Nat
    <3>1. first \in Int /\ Len(q) \in Int
      OBVIOUS
    <3>2. IsFiniteSet(first..Len(q))
      BY <3>1, FS_Interval
    <3>3. PendingIn(q) \subseteq first..Len(q)
      BY <1>5
    <3> QED
      BY <1>2, <3>2, <3>3, FS_Subset
  <2>2. ASSUME NEW i \in PendingIn(q)
        PROVE  rank(i) \in 1..Len(kept)
    <3> DEFINE S == PendingIn(q) \intersect 1..i
    <3>1. S \subseteq PendingIn(q) /\ i \in 1..Len(q) /\ i \in S
      BY DEF PendingIn
    <3>2. IsFiniteSet(S) /\ Cardinality(S) <= Cardinality(PendingIn(q))
      BY <2>1, <3>1, FS_Subset
    <3>3. Cardinality(S) \in Nat /\ (Cardinality(S) = 0 <=> S = {})
      BY <3>2, FS_CardinalityType, FS_EmptySet
    <3> HIDE DEF S
    <3>4. Cardinality(S) # 0
      BY <3>1, <3>3
    <3> QED
      BY <1>1, <2>1, <3>2, <3>3, <3>4 DEF S
  <2> QED
    BY <2>2
<1>7. \A i, j \in PendingIn(q) : i < j => rank(i) < rank(j)
  <2>1. \A i \in PendingIn(q) : /\ i \in Nat /\ i # at
                                /\ rank(i) = (IF at <= i THEN i - first ELSE i - first + 1)
    BY <1>5
  <2>2. at \in Nat /\ first \in Nat
    BY <1>5
  <2> HIDE DEF rank
  <2> QED
    BY <2>1, <2>2
<1> DEFINE r == <<WakeTask>> \o added
           g == [i \in PendingIn(q) |-> C + rank(i) + 1]
<1> HIDE DEF new, kept, rank, C
<1>8. added \in Seq(Task) /\ Len(added) = C + Len(kept)
        /\ \A i \in 1..Len(kept) : added[C + i] = kept[i]
  <2>1. /\ added \in Seq(Task) /\ Len(added) = C + Len(kept)
        /\ \A i \in 1..(C + Len(kept)) :
             added[i] = IF i <= C THEN new[i] ELSE kept[i - C]
    BY <1>2, <1>3, ConcatProperties
  <2>2. \A i \in 1..Len(kept) : /\ C + i \in 1..(C + Len(kept))
                                 /\ ~(C + i <= C) /\ (C + i) - C = i
    BY <1>2, <1>3
  <2> HIDE DEF added
  <2> QED
    BY <2>1, <2>2
<1>9. CASE added = <<>>
  <2>1. Len(kept) = 0
    BY <1>2, <1>3, <1>8, <1>9
  <2>2. PendingIn(q) = {}
    BY <1>6, <2>1
  <2> QED
    BY <1>4, <2>2, KeepsNone DEF kept
<1>10. CASE added # <<>>
  <2> HIDE DEF added
  <2>1. r \in Seq(Task) /\ Len(r) = Len(added) + 1 /\ DOMAIN r = 1..Len(r)
          /\ \A i \in 1..Len(added) : r[i + 1] = added[i]
    BY <1>8, WakeTaskType
  <2>2. ASSUME NEW i \in PendingIn(q)
        PROVE  g[i] \in DOMAIN r /\ r[g[i]] = q[i] /\ g[i] = C + rank(i) + 1
    <3>1. rank(i) \in 1..Len(kept) /\ Len(kept) \in Nat
      BY <1>2, <1>6
    <3>2. C + rank(i) \in 1..Len(added)
      BY <1>3, <1>8, <3>1
    <3>3. r[C + rank(i) + 1] = added[C + rank(i)] /\ added[C + rank(i)] = kept[rank(i)]
      BY <1>8, <2>1, <3>1, <3>2
    <3>4. C + rank(i) + 1 \in DOMAIN r
      BY <1>8, <2>1, <3>2
    <3> QED
      BY <1>1, <3>3, <3>4
  <2>3. g \in [PendingIn(q) -> DOMAIN r]
    BY <2>2
  <2>4. \A i, j \in PendingIn(q) : i < j => g[i] < g[j]
    <3>1. \A i \in PendingIn(q) : rank(i) \in Nat
      BY <1>2, <1>6
    <3> QED
      BY <1>3, <1>7, <2>2, <3>1
  <2> HIDE DEF g, r
  <2>5. PendingIn(q) \ {} = PendingIn(q)
    OBVIOUS
  <2>6. Keeps(q, r, {})
    BY <2>2, <2>3, <2>4, <2>5, KeepsAt
  <2> QED
    BY <1>4, <1>10, <2>6 DEF r, kept
<1> QED
  BY <1>9, <1>10

\* The record of a node after a step that changes it.
LEMMA OneNodeRecord ==
  ASSUME Sound, NEW n \in Nodes, NEW x, node' = [node EXCEPT ![n] = x]
  PROVE  node'[n] = x
  BY Disassemble

\* The head task, whatever becomes of it, costs no other task.
LEMMA CompletedKeeps ==
  ASSUME NEW s, Typed(s), s.queue # <<>>, NEW low \in BOOLEAN, NEW slp \in SleepTimes
  PROVE  Keeps(s.queue, Completed(s, low, slp).queue, {1})
<1> DEFINE q == s.queue
           p == Popped(s)
           x == Completed(s, low, slp)
<1>1. s \in NodeState /\ q \in Seq(Task)
  BY DEF Typed, NodeState
<1>2. p \in NodeState /\ p.queue = Tail(q)
  BY PoppedTyped DEF Typed
<1>3. /\ Tail(q) \in Seq(Task) /\ DOMAIN Tail(q) = 1..(Len(q) - 1)
      /\ \A i \in 1..(Len(q) - 1) : Tail(q)[i] = q[i + 1]
      /\ DOMAIN q = 1..Len(q) /\ Len(q) \in Nat
  BY <1>1
<1>4. CASE q[1].kind \in Final \/ p.queue # <<>>
  <2>1. SameTasks(Tail(q), x.queue)
    <3>1. CASE x = p
      BY <1>2, <3>1 DEF SameTasks
    <3>2. CASE x = Execute(p) /\ p.queue # <<>>
      <4> HIDE DEF x, p
      <4> QED
        BY <1>2, <3>2, ExecuteSame
    <3> QED
      BY <1>4, <3>1, <3>2 DEF Completed
  <2> HIDE DEF x
  <2>2. \A i \in PendingIn(q) \ {1} : i \in 2..Len(q) /\ i - 1 \in 1..(Len(q) - 1)
                                       /\ (i - 1) + 1 = i
    BY <1>3 DEF PendingIn
  <2>3. \A i \in PendingIn(q) \ {1} :
          /\ i - 1 \in DOMAIN x.queue
          /\ x.queue[i - 1].kind = q[i].kind /\ x.queue[i - 1].period = q[i].period
    BY <1>3, <2>1, <2>2 DEF SameTasks
  <2>4. \A i \in PendingIn(q) \ {1} : i + (0 - 1) = i - 1
    BY <2>2
  <2> HIDE DEF q
  <2>5. 0 - 1 \in Int
    OBVIOUS
  <2>6. Keeps(q, x.queue, {1})
    BY <1>1, <2>3, <2>4, <2>5, KeepsShifted
  <2> QED
    BY <2>6 DEF q, x
<1>5. CASE p.queue = <<>>
  <2>1. Len(q) <= 1
    <3>1. Tail(q) = <<>> /\ DOMAIN Tail(q) = 1..(Len(q) - 1)
      BY <1>2, <1>3, <1>5
    <3> HIDE DEF q
    <3>2. 1..(Len(q) - 1) = {}
      BY <3>1
    <3>3. Len(q) \in Nat
      BY <1>3
    <3> HIDE DEF q
    <3> QED
      BY <3>2, <3>3
  <2>2. PendingIn(q) \subseteq 1..1
    BY <1>3, <2>1 DEF PendingIn
  <2>3. PendingIn(q) \ {1} = {}
    BY <2>2
  <2> HIDE DEF q, x, p
  <2>4. Keeps(q, x.queue, {1})
    BY <1>1, <2>3, KeepsNone
  <2> QED
    BY <2>4 DEF q, x
<1> QED
  BY <1>4, <1>5

LEMMA FailedKeeps ==
  ASSUME NEW s, Typed(s), s.queue # <<>>, NEW low \in BOOLEAN,
         \/ low \/ s.queue[1].kind \notin Command \/ s.queue[1].retries # MaxRetries
  PROVE  Keeps(s.queue, Failed(s, low).queue, {})
<1> DEFINE q == s.queue
           t == q[1]
<1>1. s \in NodeState /\ q \in Seq(Task) /\ t \in Task
  BY DEF Typed, NodeState
<1>2. t.retries \in 0..MaxRetries /\ t.kind \in Kinds /\ MaxRetries \in Nat
  BY <1>1, NodeTasksAssumption DEF Task
<1>3. CASE Failed(s, low) \in {s, Repeat(s), Execute(s)}
  <2>1. SameTasks(q, q)
    BY DEF SameTasks
  <2>2. SameTasks(q, Failed(s, low).queue)
    BY <1>1, <1>3, <2>1, ExecuteSame
  <2> QED
    BY <1>1, <2>2, KeepsSame
<1>4. CASE Failed(s, low) = Reschedule(s, low) /\ low
  <2> DEFINE r == <<WakeTask>> \o q
  <2>1. Failed(s, low).queue = r
    BY <1>1, <1>4 DEF Reschedule, NodeState
  <2> HIDE DEF q
  <2>2. DOMAIN q = 1..Len(q) /\ Len(q) \in Nat /\ DOMAIN r = 1..(Len(q) + 1)
    BY <1>1, WakeTaskType
  <2>3. \A i \in 1..Len(q) : r[i + 1] = q[i]
    BY <1>1, WakeTaskType
  <2> HIDE DEF r
  <2>4. \A i \in PendingIn(q) \ {} : /\ i + 1 \in DOMAIN r
                                     /\ r[i + 1].kind = q[i].kind
                                     /\ r[i + 1].period = q[i].period
    BY <2>2, <2>3 DEF PendingIn
  <2>5. 1 \in Int
    OBVIOUS
  <2>6. Keeps(q, r, {})
    BY <1>1, <2>4, <2>5, KeepsShifted
  <2> QED
    BY <2>1, <2>6 DEF q
<1>5. \/ Failed(s, low) \in {s, Repeat(s), Execute(s)}
      \/ Failed(s, low) = Reschedule(s, low) /\ low
  BY <1>2 DEF Failed, Kinds
<1> QED
  BY <1>3, <1>4, <1>5

LEMMA PreparedKeeps ==
  ASSUME NEW s, Good(s), NEW low \in BOOLEAN, NEW slp \in SleepTimes, NEW e,
         NEW room \in BOOLEAN, NEW cb \in Seq(Command),
         e = "notify" => s.config = "none"
  PROVE  Keeps(s.queue, Prepared(s, low, slp, e, room, cb).queue, {})
<1> DEFINE q == s.queue
<1>1. s \in NodeState /\ q \in Seq(Task) /\ ShapeOf(q)
  BY DEF Good, Typed, NodeState
<1>2. Keeps(q, q, {})
  BY <1>1, KeepsSame DEF SameTasks
<1>3. Opened(s, room) \in NodeState /\ Opened(s, room).queue = q
  BY OpenedGood DEF Good, Typed
<1>4. Keeps(q, SleepIfIdle(s, low, slp).queue, {})
  <2>1. CASE q = <<>>
    <3>1. PendingIn(q) \ {} = {}
      BY <2>1 DEF PendingIn
    <3> QED
      BY <1>1, <3>1, KeepsNone
  <2>2. CASE q # <<>>
    BY <1>2, <2>2 DEF SleepIfIdle
  <2> QED
    BY <2>1, <2>2
<1>5. Keeps(q, NotifyUnconfigured(s, slp, room, cb).queue, {})
  <2>1. CASE Reconfigures(s, room)
    BY <1>1, <1>3, <2>1, ConfiguredKeeps DEF NotifyUnconfigured
  <2>2. CASE ~Reconfigures(s, room)
    BY <1>2, <1>3, <2>2 DEF NotifyUnconfigured
  <2> QED
    BY <2>1, <2>2
<1> QED
  BY <1>2, <1>3, <1>4, <1>5 DEF Prepared, NotifyLegacy

LEMMA PendingStep == Sound /\ [Next]_vars =>
  \A n \in Nodes :
    (/\ pc["ev"] \in {"lock", "mark", "head"} /\ pc'["ev"] # pc["ev"]
     /\ target["ev"] = n /\ ~Cancels(n)) => KeepsPending(n)
<1> SUFFICES ASSUME Sound, [Next]_vars, NEW n \in Nodes,
                    pc["ev"] \in {"lock", "mark", "head"}, pc'["ev"] # pc["ev"],
                    target["ev"] = n, ~Cancels(n)
             PROVE  KeepsPending(n)
  OBVIOUS
<1> DEFINE s == node[n]
           x == node'[n]
           q == s.queue
<1>1. /\ Good(s) /\ Typed(s) /\ Low(n) \in BOOLEAN /\ sleepTime \in SleepTimes
      /\ Room \in BOOLEAN /\ s \in NodeState
  BY EvTarget, GoodUnlocked DEF EndingQueue, Ending, Typed
<1>2. q \in Seq(Task) /\ Keeps(q, q, {})
  <2>1. q \in Seq(Task) /\ SameTasks(q, q)
    BY <1>1 DEF NodeState, SameTasks
  <2> QED
    BY <2>1, KeepsSame
<1>3. Callbacks \/ Mark \/ HeadTask
  <2>1. Outside \/ (\E m \in Nodes : TaskTimer(m) \/ ConfigTimer(m))
          \/ Remove("api") \/ UNCHANGED vars => pc'["ev"] = pc["ev"]
    <3>1. Remove("api") => pc'["ev"] = pc["ev"]
      BY Disassemble
         DEF Remove, RemoveCheck, RemoveInQueue, CleanTasks, TestConfig,
             CancelEntry, DeleteEntry, TestConfiguring, Unmark, ClearQueue,
             KeyError, Unlist, Return, Goto, Idle, PlacesOK, Threads
    <3> QED
      BY <3>1, Disassemble
         DEF Outside, Application, Message, ApiSetListener, ApiSetSleepTime,
             ApiAddTask, ApiCancelTasks, ApiAddWhitelist, ApiRemoveWhitelist,
             Provision, TaskTimer, ConfigTimer, PlacesOK, Threads, vars
  <2>2. pc["ev"] \notin {"idle", "renew", "restart", "expire"} \union Ending \union Expiring
    BY DEF Ending, Expiring, Removing
  <2>3. ~Dispatch /\ ~Renew /\ ~Restart /\ ~Expire
    BY <2>2 DEF Dispatch, Renew, Restart, Expire
  <2>4. ~EndConfiguration /\ ~Forget
    BY <2>2 DEF EndConfiguration, Forget, TestConfig, CancelEntry, DeleteEntry,
                TestConfiguring, Unmark, ClearQueue, Ending, Expiring
  <2>5. ~Remove("ev")
    BY <2>2 DEF Remove, RemoveCheck, RemoveInQueue, CleanTasks, TestConfig,
             CancelEntry, DeleteEntry, TestConfiguring, Unmark, ClearQueue,
             Unlist, Expiring, Removing
  <2> QED
    BY <2>1, <2>3, <2>4, <2>5 DEF Next, EventThread
<1>4. CASE Callbacks
  <2>1. PICK cb \in CbTasks :
          node' = [node EXCEPT ![n] =
                     Prepared(s, Low(n), sleepTime, current, Room, cb)]
    BY <1>4 DEF Callbacks
  <2>2. x = Prepared(s, Low(n), sleepTime, current, Room, cb)
    BY <2>1, OneNodeRecord
  <2>3. cb \in Seq(Command) /\ (current = "notify" => s.config = "none")
          /\ pc["ev"] # "head"
    BY <1>4, TaskQueueAssumption DEF Callbacks, Cancels
  <2>4. Keeps(q, x.queue, {})
    BY <1>1, <2>2, <2>3, PreparedKeeps
  <2> QED
    BY <2>3, <2>4 DEF KeepsPending
<1>5. CASE Mark
  <2>1. node' = [node EXCEPT ![n] = Marked(s)] /\ pc["ev"] # "head"
    BY <1>5 DEF Mark
  <2>2. x = Marked(s)
    BY <2>1, OneNodeRecord
  <2>3. x.queue = q
    BY <1>1, <2>2 DEF Marked, NodeState
  <2> QED
    BY <1>2, <2>1, <2>3 DEF KeepsPending
<1>6. CASE HeadTask
  <2>1. /\ node' = [node EXCEPT ![n] = HeadHandled(s, Low(n), sleepTime, current)]
        /\ pc["ev"] = "head"
    BY <1>6 DEF HeadTask
  <2>2. x = HeadHandled(s, Low(n), sleepTime, current)
    BY <2>1, OneNodeRecord
  <2>3. CASE Succeeds(s, current)
    <3>1. Acked(n, current) # "none" /\ q # <<>>
      <4>1. q[1] \in Task /\ q # <<>>
        BY <1>2, <2>3 DEF Succeeds
      <4> QED
        BY <2>3, <4>1 DEF Acked, Task, Kinds, Final, Command
    <3>2. Keeps(q, x.queue, {1})
      BY <1>1, <2>2, <2>3, <3>1, CompletedKeeps DEF HeadHandled
    <3> QED
      BY <2>1, <3>1, <3>2 DEF KeepsPending
  <2>4. CASE ~Succeeds(s, current)
    <3>1. Acked(n, current) = "none"
      BY <2>4 DEF Acked
    <3>2. CASE Fails(s, current)
      <4>1. q # <<>> /\ (q[1].kind \in Command => current = "task_timeout")
        BY <3>2 DEF Fails, ErrorEvents
      <4>2. \/ Low(n) \/ q[1].kind \notin Command \/ q[1].retries # MaxRetries
        BY <2>1, <4>1 DEF Cancels
      <4>3. Keeps(q, Failed(s, Low(n)).queue, {})
        BY <1>1, <4>1, <4>2, FailedKeeps
      <4> QED
        BY <2>1, <2>2, <2>4, <3>1, <3>2, <4>3 DEF KeepsPending, HeadHandled
    <3>3. CASE ~Fails(s, current)
      BY <1>2, <2>1, <2>2, <2>4, <3>1, <3>3 DEF KeepsPending, HeadHandled
    <3> QED
      BY <3>2, <3>3
  <2> QED
    BY <2>3, <2>4
<1> QED
  BY <1>3, <1>4, <1>5, <1>6

\* Whatever an event does to the queue of its node, the pending tasks but the
\* one it acknowledges stay, in their order, apart from the two cases that
\* cancel them all.
THEOREM PendingAlwaysKept == Spec => PendingKept
<1>1. Sound /\ [Next]_vars =>
        \A n \in Nodes :
          (/\ pc["ev"] \in {"lock", "mark", "head"} /\ pc'["ev"] # pc["ev"]
           /\ target["ev"] = n /\ ~Cancels(n)) => KeepsPending(n)
  BY PendingStep
<1> QED
  BY <1>1, SoundInvariant, PTL DEF Spec, PendingKept

-----------------------------------------------------------------------------
\* What the steps do to the configuration entries.

Same(m) == SameSlot(node[m], node'[m])
OthersSame(n) == \A m \in Nodes \ {n} : Same(m)

LEMMA OneNodeSlots ==
  ASSUME Sound, NEW n \in Nodes, NEW x, node' = [node EXCEPT ![n] = x]
  PROVE  OthersSame(n) /\ node'[n] = x
  BY Disassemble DEF OthersSame, Same, SameSlot

LEMMA OneNodeSame ==
  ASSUME Sound, NEW n \in Nodes, NEW x, node' = [node EXCEPT ![n] = x],
         SameSlot(node[n], x)
  PROVE  \A m \in Nodes : Same(m)
  BY OneNodeSlots DEF OthersSame, Same

LEMMA OutsideSlots ==
  ASSUME Sound, Outside
  PROVE  \A m \in Nodes : Same(m)
<1>1. ASSUME NEW n \in Nodes, ApiAddTask(n)
      PROVE  \A m \in Nodes : Same(m)
  <2>1. PICK k \in ApiTasks :
          node' = [node EXCEPT ![n] = AddTask(node[n], Low(n), k, sleepTime)]
    BY <1>1 DEF ApiAddTask
  <2>2. k \in Addable /\ Low(n) \in BOOLEAN /\ sleepTime \in SleepTimes
    BY TaskQueueAssumption, Disassemble DEF Addable, Low
  <2>3. Good(node[n])
    BY <1>1, GoodUnlocked, UnlockedEnding DEF ApiAddTask
  <2> QED
    BY <2>1, <2>2, <2>3, AddTaskGood, OneNodeSame
<1>2. ASSUME NEW n \in Nodes, ApiCancelTasks(n)
      PROVE  \A m \in Nodes : Same(m)
  <2>1. Typed(node[n])
    BY Disassemble
  <2> QED
    BY <1>2, <2>1, CancelTasksGood, OneNodeSame DEF ApiCancelTasks, Typed
<1>3. CASE UNCHANGED node
  BY <1>3 DEF Same, SameSlot
<1> QED
  BY <1>1, <1>2, <1>3
     DEF Outside, Application, Message, ApiSetListener, ApiSetSleepTime,
         ApiAddWhitelist, ApiRemoveWhitelist, Provision

LEMMA TaskTimerSlots ==
  ASSUME Sound, NEW n \in Nodes, TaskTimer(n)
  PROVE  \A m \in Nodes : Same(m)
<1>1. Typed(node[n]) /\ node[n] \in NodeState
  BY Disassemble
<1>2. ASSUME NEW i \in DOMAIN node[n].queue,
             node[n].queue[i].timer = "running",
             node' = [node EXCEPT ![n].queue[i].timer = "spent"]
      PROVE  \A m \in Nodes : Same(m)
  <2> DEFINE x == [node[n] EXCEPT !.queue[i].timer = "spent"]
  <2>1. node' = [node EXCEPT ![n] = x]
    BY <1>2, Disassemble
  <2>2. SameSlot(node[n], x)
    BY <1>1, <1>2, TimerGood
  <2> HIDE DEF x
  <2> QED
    BY <2>1, <2>2, OneNodeSame
<1>3. ASSUME node' = [node EXCEPT ![n].stray = @ - 1]
      PROVE  \A m \in Nodes : Same(m)
  <2> DEFINE x == [node[n] EXCEPT !.stray = @ - 1]
  <2>1. node' = [node EXCEPT ![n] = x]
    BY <1>3, Disassemble
  <2>2. SameSlot(node[n], x)
    BY <1>1 DEF SameSlot, NodeState
  <2> HIDE DEF x
  <2> QED
    BY <2>1, <2>2, OneNodeSame
<1> QED
  BY <1>2, <1>3 DEF TaskTimer

LEMMA ConfigTimerSlots ==
  ASSUME Sound, NEW n \in Nodes, ConfigTimer(n)
  PROVE  /\ OthersSame(n)
         /\ \/ Same(n)
            \/ node[n].config = "running" /\ node'[n].config = "stopped"
<1>1. node[n] \in NodeState
  BY Disassemble
<1>2. CASE node[n].config = "running" /\ node' = [node EXCEPT ![n].config = "stopped"]
  BY <1>1, <1>2, Disassemble DEF OthersSame, Same, SameSlot, NodeState
<1>3. CASE node' = [node EXCEPT ![n].orphans = @ - 1]
  BY <1>1, <1>3, Disassemble DEF OthersSame, Same, SameSlot, NodeState
<1> QED
  BY <1>2, <1>3 DEF ConfigTimer

LEMMA CallbacksSlots ==
  ASSUME Sound, Callbacks
  PROVE  /\ OthersSame(target["ev"])
         /\ SlotStep(node[target["ev"]], node'[target["ev"]], Room)
<1> DEFINE n == target["ev"]
<1>1. pc["ev"] = "lock"
  BY DEF Callbacks
<1>2. PICK cb \in CbTasks :
        node' = [node EXCEPT ![n] =
                   Prepared(node[n], Low(n), sleepTime, current, Room, cb)]
  BY DEF Callbacks
<1> DEFINE x == Prepared(node[n], Low(n), sleepTime, current, Room, cb)
<1>3. cb \in Seq(Command)
  BY TaskQueueAssumption
<1>4. n \in Nodes /\ Good(node[n])
  BY <1>1, EvTarget, GoodUnlocked DEF EndingQueue, Ending
<1>5. SlotStep(node[n], x, Room)
  BY <1>1, <1>3, <1>4, EvTarget, PreparedGood
<1>6. node' = [node EXCEPT ![n] = x]
  BY <1>2
<1> HIDE DEF x
<1> QED
  BY <1>4, <1>5, <1>6, OneNodeSlots

LEMMA HeadTaskSlots ==
  ASSUME Sound, HeadTask
  PROVE  \A m \in Nodes : Same(m)
<1> DEFINE n == target["ev"]
           x == HeadHandled(node[n], Low(n), sleepTime, current)
<1>1. pc["ev"] = "head"
  BY DEF HeadTask
<1>2. n \in Nodes /\ Good(node[n])
  BY <1>1, EvTarget, GoodUnlocked DEF EndingQueue, Ending
<1>3. SameSlot(node[n], x)
  BY <1>1, <1>2, EvTarget, HeadHandledGood
<1>4. node' = [node EXCEPT ![n] = x]
  BY DEF HeadTask
<1> HIDE DEF x
<1> QED
  BY <1>2, <1>3, <1>4, OneNodeSame

LEMMA MarkSlots ==
  ASSUME Sound, Mark
  PROVE  LET n == target["ev"]
         IN /\ OthersSame(n)
            /\ node'[n].config = node[n].config
            /\ node[n].config = "none" => node'[n].late
<1> DEFINE n == target["ev"]
           k == (node[n].config = "none")
           x == [node[n] EXCEPT !.configuring = TRUE, !.late = k]
<1>1. n \in Nodes /\ node[n] \in NodeState
  BY EvTarget, Disassemble DEF Mark
<1>2. node' = [node EXCEPT ![n] = x]
  BY DEF Mark, Marked
<1>3. x.config = node[n].config /\ x.late = k
  <2> HIDE DEF k
  <2> QED
    BY <1>1 DEF NodeState
<1> HIDE DEF x
<1> QED
  BY <1>1, <1>2, <1>3, OneNodeSlots

LEMMA RestartSlots ==
  ASSUME Sound, Restart
  PROVE  LET n == target["ev"]
         IN /\ OthersSame(n)
            /\ \/ Same(n)
               \/ node[n].config # "none" /\ node'[n].config = "running"
<1> DEFINE n == target["ev"]
<1>1. n \in Nodes /\ node[n] \in NodeState
  BY EvTarget, Disassemble DEF Restart
<1>2. CASE UNCHANGED node
  BY <1>2 DEF OthersSame, Same, SameSlot
<1>3. CASE node[n].config # "none" /\ node' = [node EXCEPT ![n].config = "running"]
  BY <1>1, <1>3, Disassemble DEF OthersSame, Same, SameSlot, NodeState
<1> QED
  BY <1>2, <1>3 DEF Restart

\* What the steps of the handlers do to the entry of their node.
LEMMA EntrySlots ==
  ASSUME Sound, NEW t \in Threads, NEW at \in EvPlaces, NEW p \in EvPlaces,
         NEW q \in EvPlaces, EntryStep(t, at, p, q),
         NEW n, n = target[t]
  PROVE  /\ OthersSame(n)
         /\ \/ /\ Same(n) /\ at \notin Owning \union Deletes
               /\ \/ Idle(t) /\ t = "ev" /\ at \in Ending \union Past
                  \/ \E r \in EvPlaces \ {"idle"} :
                       /\ Goto(t, r)
                       /\ r \in Past => node[n].config = "none"
            \/ Same(n) /\ Idle(t) /\ node[n].config = "none" /\ at \notin Owning
            \/ /\ Goto(t, p) /\ p \in Deletes /\ at \notin Owning \union Deletes
               /\ node[n].config # "none" /\ node'[n].config = "stopped"
            \/ /\ Goto(t, p) /\ p \in Checks /\ at \notin Owning
               /\ node'[n].config = "none"
            \/ Same(n) /\ Goto(t, p) /\ at \in Checks /\ p \in Unmarks
            \/ /\ Same(n) /\ at \in Owning /\ ~node[n].configuring
               /\ Idle(t) \/ Goto(t, p) \/ Goto(t, q)
            \/ /\ Goto(t, p) /\ at \in Unmarks
               /\ node'[n].config = node[n].config /\ ~node'[n].configuring
<1>1. n \in Nodes /\ node[n] \in NodeState /\ pc[t] = at
  BY EntryMoves, Disassemble
<1>2. p # "idle" /\ q # "idle"
  BY DEF EntryStep, Together
<1>3. UNCHANGED node => OthersSame(n) /\ Same(n)
  BY <1>1 DEF OthersSame, Same, SameSlot
<1>4. KeyError(t) => OthersSame(n) /\ Same(n) /\ Idle(t)
  BY <1>1, Disassemble DEF KeyError, OthersSame, Same, SameSlot, NodeState
<1>5. CASE TestConfig(t, at, p, q) /\ at \notin Owning \union Deletes /\ p \notin Past
  <2>1. UNCHANGED node /\ Goto(t, IF node[n].config # "none" THEN p ELSE q)
    BY <1>5 DEF TestConfig
  <2> QED
    BY <1>2, <1>3, <1>5, <2>1
<1>6. CASE CancelEntry(t, at, p) /\ p \in Deletes /\ at \notin Owning \union Deletes
  <2>1. CASE KeyError(t) /\ node[n].config = "none"
    BY <1>4, <1>6, <2>1
  <2>2. CASE /\ node[n].config # "none" /\ Goto(t, p)
             /\ node' = [node EXCEPT ![n].config = "stopped"]
    BY <1>1, <1>6, <2>2, Disassemble DEF OthersSame, Same, SameSlot, NodeState
  <2> QED
    BY <1>6, <2>1, <2>2 DEF CancelEntry
<1>7. CASE DeleteEntry(t, at, p) /\ p \in Checks /\ at \notin Owning
  <2>1. CASE KeyError(t) /\ node[n].config = "none"
    BY <1>4, <1>7, <2>1
  <2>2. CASE Goto(t, p) /\ node' = [node EXCEPT ![n] = Deleted(node[n])]
    <3>1. OthersSame(n) /\ node'[n] = Deleted(node[n])
      BY <1>1, <2>2, OneNodeSlots
    <3>2. node'[n].config = "none"
      BY <1>1, <3>1, DeletedGood, Disassemble
    <3> QED
      BY <1>7, <2>2, <3>1, <3>2
  <2> QED
    BY <1>7, <2>1, <2>2 DEF DeleteEntry
<1>8. CASE TestConfiguring(t, at, p, q) /\ at \in Checks /\ p \in Unmarks
  <2>1. UNCHANGED node /\ Goto(t, IF node[n].configuring THEN p ELSE q)
    BY <1>8 DEF TestConfiguring
  <2> QED
    BY <1>2, <1>3, <1>8, <2>1 DEF Owning
<1>9. CASE Unmark(t, at, p) /\ at \in Unmarks
  <2>1. CASE KeyError(t) /\ ~node[n].configuring
    BY <1>4, <1>9, <2>1 DEF Owning
  <2>2. CASE Goto(t, p) /\ node' = [node EXCEPT ![n] = Unmarked(node[n])]
    <3>1. OthersSame(n) /\ node'[n] = Unmarked(node[n])
      BY <1>1, <2>2, OneNodeSlots
    <3>2. node'[n].config = node[n].config /\ ~node'[n].configuring
      BY <1>1, <3>1 DEF Unmarked, NodeState
    <3> QED
      BY <1>9, <2>2, <3>1, <3>2
  <2> QED
    BY <1>9, <2>1, <2>2 DEF Unmark
<1>10. CASE /\ ClearQueue(t, at) /\ at \notin Owning \union Deletes
            /\ \/ Goto(t, p) /\ p \notin Ending \union Past
               \/ Idle(t) /\ t = "ev" /\ at \in Ending \union Past
  <2>1. node' = [node EXCEPT ![n] = CancelTasks(node[n])]
    BY <1>10 DEF ClearQueue
  <2>2. \A m \in Nodes : Same(m)
    BY <1>1, <2>1, CancelTasksGood, OneNodeSame
  <2>3. OthersSame(n) /\ Same(n)
    BY <1>1, <2>2 DEF OthersSame
  <2> QED
    BY <1>2, <1>10, <2>3
<1> QED
  BY <1>5, <1>6, <1>7, <1>8, <1>9, <1>10 DEF EntryStep

\* Past the entry of its node, the event thread finds none when it goes on.
LEMMA ListingPast ==
  ASSUME Sound, Listing("ev")
  PROVE  \/ Idle("ev") /\ pc["ev"] \in Past
         \/ \E p \in EvPlaces \ {"idle"} :
              /\ Goto("ev", p) /\ p \in Expiring
              /\ p \in Past => node[target["ev"]].config = "none"
<1> USE DEF EvPlaces, Block, Ending, Expiring, Removing, Owning, Checks,
            Unmarks, Past
<1>1. CASE RemoveCheck("ev")
  BY <1>1 DEF RemoveCheck, Return
<1>2. CASE RemoveInQueue("ev")
  BY <1>2 DEF RemoveInQueue
<1>3. CASE Unlist("ev")
  BY <1>3 DEF Unlist, Return
<1> QED
  BY <1>1, <1>2, <1>3 DEF Listing

\* Thread t moves and the other one stays where it is.
LEMMA OtherThread ==
  ASSUME Sound, NEW t \in Threads
  PROVE  /\ Idle(t) =>
              /\ \A u \in Threads \ {t} : pc'[u] = pc[u] /\ target'[u] = target[u]
              /\ t = "api" => current' = current
         /\ \A p \in EvPlaces : Goto(t, p) =>
              /\ pc'[t] = p /\ target' = target /\ current' = current
              /\ \A u \in Threads \ {t} : pc'[u] = pc[u]
  BY Disassemble DEF Idle, Goto, PlacesOK, Threads

\* Where the event thread goes in task_handler and before it.
EvBlock == Dispatch \/ Callbacks \/ Mark \/ Renew \/ Restart \/ HeadTask \/ Expire

LEMMA EvBlockMoves ==
  ASSUME Sound, EvBlock
  PROVE  /\ pc["ev"] \in {"idle", "lock", "mark", "renew", "restart", "head", "expire"}
         /\ pc'["ev"] \in {"idle", "lock", "mark", "renew", "restart", "head",
                           "end", "expire", "check", "forget"}
         /\ pc'["ev"] = "mark" => current' # "config_timeout"
         /\ pc'["ev"] = "end" => current' # "config_timeout"
         /\ pc["ev"] # "idle" => UNCHANGED events
         /\ pc["ev"] \notin {"idle", "mark", "head"} /\ current = "config_timeout" =>
              \/ /\ pc'["ev"] # "idle" /\ target'["ev"] = target["ev"]
                 /\ current' = "config_timeout"
              \/ UNCHANGED node /\ node[target["ev"]].config = "none"
         /\ pc'["ev"] = "head" =>
              /\ node'[target["ev"]].config # "stopped"
              /\ target'["ev"] = target["ev"]
         /\ pc'["api"] = pc["api"] /\ target'["api"] = target["api"]
<1> USE Disassemble DEF PlacesOK, Threads, Goto, Idle, ToConfigTimeoutHandler
<1>1. CASE Dispatch
  BY <1>1 DEF Dispatch
<1>2. CASE Callbacks
  <2>1. /\ pc["ev"] = "lock" /\ UNCHANGED events
        /\ \/ current = "notify0" /\ Goto("ev", "mark")
           \/ ToConfigTimeoutHandler(target["ev"], current)
           \/ Goto("ev", "renew")
    BY <1>2 DEF Callbacks
  <2> QED
    BY <2>1
<1>3. CASE Mark
  BY <1>3 DEF Mark
<1>4. CASE Renew
  BY <1>4 DEF Renew
<1>5. CASE Restart
  <2>1. CASE node[target["ev"]].config = "none"
    BY <1>5, <2>1 DEF Restart
  <2>2. CASE /\ Goto("ev", "head")
             /\ node' = [node EXCEPT ![target["ev"]].config = "running"]
    <3>1. target["ev"] \in Nodes /\ node \in [Nodes -> NodeState]
      BY <1>5, EvTarget DEF Restart
    <3>2. node'[target["ev"]].config # "stopped"
      BY <2>2, <3>1 DEF NodeState
    <3> QED
      BY <1>5, <2>2, <3>2 DEF Restart
  <2> QED
    BY <1>5, <2>1, <2>2 DEF Restart
<1>6. CASE HeadTask
  <2>1. /\ pc["ev"] = "head" /\ UNCHANGED events
        /\ IF Acked(target["ev"], current) \in Final
             THEN Goto("ev", "end")
             ELSE ToConfigTimeoutHandler(target["ev"], current) \/ Idle("ev")
    BY <1>6 DEF HeadTask
  <2>2. Acked(target["ev"], current) \in Final => current # "config_timeout"
    <3>1. "none" \notin Final
      BY DEF Final
    <3>2. \A k \in Final : "config_timeout" \notin SuccessEvents(k)
      BY DEF Final, SuccessEvents, AckOf
    <3> QED
      BY <3>1, <3>2 DEF Acked, Succeeds
  <2> QED
    BY <2>1, <2>2
<1>7. CASE Expire
  BY <1>7 DEF Expire, Quiet
<1> QED
  BY <1>1, <1>2, <1>3, <1>4, <1>5, <1>6, <1>7 DEF EvBlock

\* The steps, sorted by what they do to the entries.
LEMMA StepCases ==
  ASSUME [Next]_vars
  PROVE  \/ Outside \/ EvBlock
         \/ \E n \in Nodes : TaskTimer(n)
         \/ \E n \in Nodes : ConfigTimer(n)
         \/ \E t \in Threads : Entries(t) \/ Listing(t)
         \/ UNCHANGED vars
<1>1. \A t \in Threads : Remove(t) => Entries(t) \/ Listing(t)
  BY DEF Remove, Entries, Listing
<1>2. EndConfiguration \/ Forget => Entries("ev")
  BY DEF Entries
<1> QED
  BY <1>1, <1>2 DEF Next, EventThread, EvBlock, Threads

-----------------------------------------------------------------------------
\* The number of slots.

\* The entries a step leaves were there before, but for one that the callbacks
\* make, having seen that there is room.
LEMMA NewSlot ==
  ASSUME Sound, [Next]_vars
  PROVE  \/ ConfigNodes' \subseteq ConfigNodes
         \/ Room /\ \E n : ConfigNodes' \subseteq ConfigNodes \union {n}
<1>1. CASE \A m \in Nodes : Same(m)
  BY <1>1 DEF Same, SameSlot, ConfigNodes
<1>2. CASE UNCHANGED node
  BY <1>2 DEF ConfigNodes
<1>3. CASE Callbacks
  BY <1>3, CallbacksSlots DEF ConfigNodes, SlotStep, OthersSame, Same, SameSlot
<1>4. CASE EvBlock
  BY <1>1, <1>2, <1>3, <1>4, MarkSlots, RestartSlots, HeadTaskSlots
     DEF EvBlock, Dispatch, Renew, Expire, ConfigNodes, OthersSame, Same, SameSlot
<1>5. CASE \E n \in Nodes : ConfigTimer(n)
  BY <1>5, ConfigTimerSlots DEF ConfigNodes, OthersSame, Same, SameSlot
<1>6. ASSUME NEW t \in Threads, Entries(t)
      PROVE  ConfigNodes' \subseteq ConfigNodes
  <2>1. PICK at \in EvPlaces, p \in EvPlaces, q \in EvPlaces :
          EntryStep(t, at, p, q)
    BY <1>6, EntriesCases
  <2> DEFINE n == target[t]
  <2>2. OthersSame(n) /\ (node'[n].config # "none" => node[n].config # "none")
    BY <2>1, EntrySlots DEF Same, SameSlot
  <2> HIDE DEF n
  <2> QED
    BY <2>2 DEF ConfigNodes, OthersSame, Same, SameSlot
<1>7. \A t \in Threads : Listing(t) => UNCHANGED node
  BY ListingMoves
<1> QED
  BY <1>1, <1>2, <1>4, <1>5, <1>6, <1>7, StepCases, OutsideSlots, TaskTimerSlots
     DEF vars

LEMMA SlotBoundStep == Sound /\ SlotBound /\ [Next]_vars => SlotBound'
<1> SUFFICES ASSUME Sound, SlotBound, [Next]_vars PROVE SlotBound'
  OBVIOUS
<1>1. IsFiniteSet(ConfigNodes) /\ Cardinality(ConfigNodes) \in Nat
  <2>1. ConfigNodes \subseteq Nodes
    BY DEF ConfigNodes
  <2> QED
    BY <2>1, TaskQueueAssumption, FS_Subset, FS_CardinalityType
<1>2. MaxConfigNodes \in Nat
  BY TaskQueueAssumption
<1>3. CASE ConfigNodes' \subseteq ConfigNodes
  <2>1. IsFiniteSet(ConfigNodes') /\ Cardinality(ConfigNodes') \in Nat
          /\ Cardinality(ConfigNodes') <= Cardinality(ConfigNodes)
    BY <1>1, <1>3, FS_Subset, FS_CardinalityType
  <2> QED
    BY <1>1, <1>2, <2>1 DEF SlotBound
<1>4. ASSUME Room, NEW n, ConfigNodes' \subseteq ConfigNodes \union {n}
      PROVE  SlotBound'
  <2> DEFINE S == ConfigNodes \union {n}
  <2>1. IsFiniteSet(S) /\ Cardinality(S) \in Nat
          /\ Cardinality(S) <= Cardinality(ConfigNodes) + 1
    <3>1. /\ IsFiniteSet(S)
          /\ Cardinality(S) = IF n \in ConfigNodes THEN Cardinality(ConfigNodes)
                                                  ELSE Cardinality(ConfigNodes) + 1
      BY <1>1, FS_AddElement
    <3> QED
      BY <1>1, <3>1
  <2>2. IsFiniteSet(ConfigNodes') /\ Cardinality(ConfigNodes') \in Nat
          /\ Cardinality(ConfigNodes') <= Cardinality(S)
    BY <1>4, <2>1, FS_Subset, FS_CardinalityType
  <2>3. Cardinality(ConfigNodes) < MaxConfigNodes
    BY <1>4 DEF Room
  <2> HIDE DEF S
  <2> QED
    BY <1>1, <1>2, <2>1, <2>2, <2>3 DEF SlotBound
<1> QED
  BY <1>3, <1>4, NewSlot

\* Never more than MAX_CONFIG_NODES nodes hold a configuration slot, although
\* two handlers take slots and two threads delete them without the lock.
THEOREM SlotsBounded == Spec => []SlotBound
<1>1. Init => SlotBound
  <2> SUFFICES ASSUME Init PROVE SlotBound
    OBVIOUS
  <2>1. ConfigNodes = {}
    BY DEF ConfigNodes, Init, Fresh
  <2>2. Cardinality({}) = 0
    BY FS_EmptySet
  <2>3. MaxConfigNodes \in Nat
    BY TaskQueueAssumption
  <2> QED
    BY <2>1, <2>2, <2>3 DEF SlotBound
<1>2. Sound /\ SlotBound /\ [Next]_vars => SlotBound'
  BY SlotBoundStep
<1> QED
  BY <1>1, <1>2, SoundInvariant, PTL DEF Spec

-----------------------------------------------------------------------------
\* configuring_nodes.  The node m was marked while it had an entry, which has
\* gone ...
Unowned(m) ==
  node[m].configuring /\ node[m].config = "none" /\ ~node[m].late

\* ... and a thread is about to take it out.
Leaving(m) == \E t \in Threads : target[t] = m /\ pc[t] \in Owning

LEMMA OwnedAs == ConfiguringOwned <=> \A m \in Nodes : Unowned(m) => Leaving(m)
  BY DEF ConfiguringOwned, Owned, Unowned, Leaving, Owning, Checks, Unmarks

\* A step on which no thread leaves the places that own the node.
LEMMA LeavingKept ==
  ASSUME Sound, NEW m \in Nodes, Unowned(m) => Leaving(m),
         Unowned(m)' => Unowned(m),
         \A t \in Threads : pc[t] \in Owning =>
           \/ pc'[t] = pc[t] /\ target'[t] = target[t]
           \/ target[t] # m
  PROVE  Unowned(m)' => Leaving(m)'
  BY DEF Leaving

LEMMA OwnedBlock ==
  ASSUME Sound, ConfiguringOwned, EvBlock, NEW m \in Nodes
  PROVE  Unowned(m)' => Leaving(m)'
<1>1. \A t \in Threads : pc[t] \in Owning =>
        pc'[t] = pc[t] /\ target'[t] = target[t]
  BY EvBlockMoves DEF Threads, Owning, Checks, Unmarks
<1>2. Unowned(m)' => Unowned(m)
  <2>1. CASE Callbacks
    BY <2>1, CallbacksSlots DEF SlotStep, OthersSame, Same, SameSlot, Unowned
  <2>2. CASE Mark
    BY <2>2, MarkSlots DEF OthersSame, Same, SameSlot, Unowned
  <2>3. CASE Restart
    BY <2>3, RestartSlots DEF OthersSame, Same, SameSlot, Unowned
  <2>4. CASE HeadTask
    BY <2>4, HeadTaskSlots DEF Same, SameSlot, Unowned
  <2>5. CASE UNCHANGED node
    BY <2>5 DEF Unowned
  <2> QED
    BY <2>1, <2>2, <2>3, <2>4, <2>5 DEF EvBlock, Dispatch, Renew, Expire
<1> QED
  BY <1>1, <1>2, OwnedAs, LeavingKept

LEMMA OwnedEntries ==
  ASSUME Sound, ConfiguringOwned, NEW t \in Threads, Entries(t), NEW m \in Nodes
  PROVE  Unowned(m)' => Leaving(m)'
<1>1. PICK at \in EvPlaces, p \in EvPlaces, q \in EvPlaces :
        EntryStep(t, at, p, q)
  BY EntriesCases
<1>2. pc[t] = at /\ (Idle(t) \/ Goto(t, p) \/ Goto(t, q))
  BY <1>1, EntryMoves
<1>3. \A u \in Threads \ {t} : pc'[u] = pc[u] /\ target'[u] = target[u]
  BY <1>2, OtherThread
<1>4. \A r \in EvPlaces : Goto(t, r) => pc'[t] = r /\ target'[t] = target[t]
  BY OtherThread
<1>5. Unowned(m) => Leaving(m)
  BY OwnedAs
<1>6. CASE m # target[t]
  <2>1. Same(m)
    BY <1>1, <1>6, EntrySlots DEF OthersSame
  <2>2. Unowned(m)' => Unowned(m)
    BY <2>1 DEF Same, SameSlot, Unowned
  <2> QED
    BY <1>3, <1>5, <1>6, <2>2 DEF Leaving
<1>7. CASE m = target[t]
  <2>1. (Unowned(m)' => Unowned(m)) /\ at \notin Owning
          => (Unowned(m)' => Leaving(m)')
    BY <1>2, <1>3, <1>5 DEF Leaving
  <2>2. Same(m) => (Unowned(m)' => Unowned(m))
    BY DEF Same, SameSlot, Unowned
  <2>3. \A r \in Owning : Goto(t, r) /\ r \in EvPlaces => Leaving(m)'
    BY <1>4, <1>7 DEF Leaving
  <2>4. Same(m) /\ ~node[m].configuring => ~Unowned(m)'
    BY DEF Same, SameSlot, Unowned
  <2>5. node'[m].config = "stopped" \/ ~node'[m].configuring => ~Unowned(m)'
    BY DEF Unowned
  <2>6. p \in Checks \union Unmarks /\ Goto(t, p) => Leaving(m)'
    BY <2>3 DEF Owning
  <2> QED
    BY <1>1, <1>7, <2>1, <2>2, <2>4, <2>5, <2>6, EntrySlots
<1> QED
  BY <1>6, <1>7

LEMMA ConfiguringOwnedStep ==
  Sound /\ ConfiguringOwned /\ [Next]_vars => ConfiguringOwned'
<1> SUFFICES ASSUME Sound, ConfiguringOwned, [Next]_vars, NEW m \in Nodes
             PROVE  Unowned(m)' => Leaving(m)'
  BY OwnedAs DEF ConfiguringOwned, Owned, Unowned, Leaving, Owning, Checks, Unmarks
<1>1. Unowned(m) => Leaving(m)
  BY OwnedAs
<1> DEFINE Stay == \A t \in Threads : pc[t] \in Owning =>
                     pc'[t] = pc[t] /\ target'[t] = target[t]
<1>2. Stay /\ (Unowned(m)' => Unowned(m)) => (Unowned(m)' => Leaving(m)')
  BY <1>1, LeavingKept
<1>3. Same(m) => (Unowned(m)' => Unowned(m))
  BY DEF Same, SameSlot, Unowned
<1>4. CASE Outside
  <2>1. Stay
    BY <1>4, Disassemble
       DEF Outside, Application, Message, ApiSetListener, ApiSetSleepTime,
           ApiAddTask, ApiCancelTasks, ApiAddWhitelist, ApiRemoveWhitelist,
           Provision, PlacesOK, Threads, Owning, Checks, Unmarks
  <2> HIDE DEF Stay
  <2> QED
    BY <1>2, <1>3, <1>4, <2>1, OutsideSlots
<1>5. CASE \E n \in Nodes : TaskTimer(n)
  <2>1. Stay
    BY <1>5 DEF TaskTimer
  <2> HIDE DEF Stay
  <2> QED
    BY <1>2, <1>3, <1>5, <2>1, TaskTimerSlots
<1>6. CASE \E n \in Nodes : ConfigTimer(n)
  <2>1. Stay
    BY <1>6 DEF ConfigTimer
  <2> HIDE DEF Stay
  <2>2. Unowned(m)' => Unowned(m)
    BY <1>3, <1>6, ConfigTimerSlots DEF OthersSame, Unowned
  <2> QED
    BY <1>2, <2>1, <2>2
<1>7. ASSUME NEW t \in Threads, Listing(t)
      PROVE  Unowned(m)' => Leaving(m)'
  <2>1. /\ UNCHANGED node /\ pc[t] \notin Owning
        /\ Idle(t) \/ \E p \in EvPlaces : Goto(t, p)
    BY <1>7, ListingMoves DEF Owning, Checks, Unmarks
  <2>2. Stay
    BY <2>1, OtherThread
  <2> HIDE DEF Stay
  <2> QED
    BY <1>2, <2>1, <2>2 DEF Unowned
<1>8. CASE UNCHANGED vars
  BY <1>1, <1>8 DEF vars, Unowned, Leaving
<1> QED
  BY <1>4, <1>5, <1>6, <1>7, <1>8, OwnedBlock, OwnedEntries, StepCases

\* A node in configuring_nodes has its entry in config_nodes, or a thread is
\* about to take it out, or it was put there after a removal had deleted its
\* entry: whatever the unlocked tests, deletions and removals of the two threads
\* interleave, there is no other way to leave a node behind as "being
\* configured", which would bar it from configuration.
THEOREM ConfiguringAlwaysOwned == Spec => []ConfiguringOwned
<1>1. Init => ConfiguringOwned
  BY DEF Init, Fresh, ConfiguringOwned
<1>2. Sound /\ ConfiguringOwned /\ [Next]_vars => ConfiguringOwned'
  BY ConfiguringOwnedStep
<1> QED
  BY <1>1, <1>2, SoundInvariant, PTL DEF Spec

-----------------------------------------------------------------------------
\* What keeps every slot timed: the event thread drops an event of a node in
\* the block only if it is no CONFIGURATION_TIMEOUT, and once it is past the
\* entry of the node there is none, for no one else makes entries.
EvExpires ==
  /\ pc["ev"] \in Ending \union {"mark"} => current # "config_timeout"
  /\ pc["ev"] \in Past => node[target["ev"]].config = "none"

\* The thread is not the event thread.
LEMMA ApiStays ==
  ASSUME Sound, Idle("api") \/ \E p \in EvPlaces : Goto("api", p)
  PROVE  EvStays /\ current' = current
  BY OtherThread DEF EvStays, Threads

LEMMA GonePast ==
  ASSUME Sound, EvExpires, EvStays, current' = current,
         pc["ev"] # "idle" => \/ node'[target["ev"]].config = "none"
                              \/ node[target["ev"]].config # "none"
  PROVE  EvExpires'
<1>1. pc["ev"] \in Past => pc["ev"] # "idle"
  BY DEF Past, Owning, Checks, Unmarks
<1> QED
  BY <1>1 DEF EvExpires, EvStays

LEMMA EvExpiresStep == Sound /\ EvExpires /\ [Next]_vars => EvExpires'
<1> SUFFICES ASSUME Sound, EvExpires, [Next]_vars PROVE EvExpires'
  OBVIOUS
<1> DEFINE ev == target["ev"]
           Gone == pc["ev"] # "idle" => \/ node'[ev].config = "none"
                                        \/ node[ev].config # "none"
<1>1. pc["ev"] # "idle" => ev \in Nodes
  BY EvTarget
<1>2. (\A m \in Nodes : Same(m)) => Gone
  BY <1>1 DEF Same, SameSlot
<1> HIDE DEF Gone
<1>3. EvStays /\ current' = current /\ Gone => EvExpires'
  BY GonePast DEF Gone
<1>4. CASE Outside
  <2>1. EvStays /\ current' = current
    BY <1>4, Disassemble
       DEF Outside, Application, Message, ApiSetListener, ApiSetSleepTime,
           ApiAddTask, ApiCancelTasks, ApiAddWhitelist, ApiRemoveWhitelist,
           Provision, PlacesOK, Threads, EvStays
  <2> QED
    BY <1>2, <1>3, <1>4, <2>1, OutsideSlots
<1>5. CASE \E n \in Nodes : TaskTimer(n)
  <2>1. EvStays /\ current' = current
    BY <1>5 DEF TaskTimer, EvStays
  <2> QED
    BY <1>2, <1>3, <1>5, <2>1, TaskTimerSlots
<1>6. CASE \E n \in Nodes : ConfigTimer(n)
  <2>1. EvStays /\ current' = current
    BY <1>6 DEF ConfigTimer, EvStays
  <2>2. Gone
    BY <1>1, <1>2, <1>6, ConfigTimerSlots DEF OthersSame, Same, SameSlot, Gone
  <2> QED
    BY <1>3, <2>1, <2>2
<1>7. CASE EvBlock
  <2>1. pc'["ev"] \notin Past
    BY <1>7, EvBlockMoves DEF Past, Owning, Checks, Unmarks
  <2>2. pc'["ev"] \in Ending => pc'["ev"] = "end"
    BY <1>7, EvBlockMoves DEF Ending
  <2> QED
    BY <1>7, <2>1, <2>2, EvBlockMoves DEF EvExpires
<1>8. CASE Listing("ev")
  <2>1. UNCHANGED node /\ pc["ev"] \in {"check", "in_queue", "unlist"}
          /\ (Idle("ev") \/ \E p \in EvPlaces \ {"idle"} :
                 Goto("ev", p) /\ p \in Expiring)
    BY <1>8, ListingMoves DEF Threads
  <2>2. CASE Idle("ev")
    <3>1. pc'["ev"] = "idle"
      BY <2>2, Disassemble DEF Idle, PlacesOK, Threads
    <3> QED
      BY <3>1 DEF EvExpires, Ending, Past, Owning, Checks, Unmarks
  <2>3. ASSUME NEW p \in Expiring, Goto("ev", p), p \in EvPlaces,
               p \in Past => node[ev].config = "none"
        PROVE  EvExpires'
    <3>1. pc'["ev"] = p /\ target' = target /\ current' = current
      BY <2>3, OtherThread DEF Threads
    <3>2. p \notin Ending \union {"mark"}
      BY <2>3 DEF Expiring, Removing, Ending
    <3> QED
      BY <2>1, <2>3, <3>1, <3>2 DEF EvExpires
  <2> QED
    <3>1. \A p1, p2 : Goto("ev", p1) /\ Goto("ev", p2) => p1 = p2
      BY Disassemble DEF Goto, PlacesOK, Threads
    <3> QED
      BY <1>8, <2>1, <2>2, <2>3, <3>1, ListingPast
<1>9. CASE Listing("api")
  <2>1. UNCHANGED node /\ EvStays /\ current' = current
    BY <1>9, ListingMoves, ApiStays DEF Threads
  <2> QED
    BY <1>3, <2>1 DEF Gone
<1>10. ASSUME NEW t \in Threads, Entries(t)
       PROVE  EvExpires'
  <2>1. PICK at \in EvPlaces, p \in EvPlaces, q \in EvPlaces :
          EntryStep(t, at, p, q)
    BY <1>10, EntriesCases
  <2>2. /\ pc[t] = at /\ (Idle(t) \/ Goto(t, p) \/ Goto(t, q))
        /\ target[t] \in Nodes
    BY <2>1, EntryMoves
  <2>3. CASE t = "api"
    <3>1. EvStays /\ current' = current
      BY <2>2, <2>3, ApiStays
    <3>2. Gone
      BY <1>1, <2>1, EntrySlots DEF OthersSame, Same, SameSlot, Gone
    <3> QED
      BY <1>3, <3>1, <3>2
  <2>4. CASE t = "ev"
    <3>1. CASE Idle(t)
      <4>1. pc'["ev"] = "idle"
        BY <2>4, <3>1, Disassemble DEF Idle, PlacesOK, Threads
      <4> QED
        BY <4>1 DEF EvExpires, Ending, Past, Owning, Checks, Unmarks
    <3>2. ASSUME NEW r \in {p, q}, Goto(t, r)
          PROVE  EvExpires'
      <4>1. pc'["ev"] = r /\ target' = target /\ current' = current
        BY <2>4, <3>2, OtherThread
      <4>2. /\ at \in Ending <=> r \in Ending
            /\ r # "mark" /\ r # "idle"
        <5>1. at \in Ending \union Expiring => at # "mark"
          BY DEF Ending, Expiring, Removing
        <5>2. "mark" \notin Ending \union Expiring
          BY DEF Ending, Expiring, Removing
        <5> QED
          BY <2>1, <3>2, <5>1, <5>2 DEF EntryStep, Together
      <4>3. ASSUME r \in Past
            PROVE  node'[ev].config = "none"
        <5>1. at \in Owning => node[ev].config = "none"
          BY <2>2, <2>4, <4>2, <4>3
             DEF EvExpires, Past, Ending, Owning, Checks, Unmarks
        <5>2. r \notin Deletes
          BY <4>3 DEF Past, Deletes, Owning, Checks, Unmarks
        <5>3. \A r1 : Goto(t, r1) => r1 = r
          BY <2>4, <4>1, Disassemble DEF Goto, PlacesOK, Threads
        <5>4. ~Idle(t)
          BY <2>4, <4>1, <4>2, Disassemble DEF Idle, PlacesOK, Threads
        <5> QED
          BY <2>1, <2>4, <4>3, <5>1, <5>2, <5>3, <5>4, EntrySlots
             DEF Same, SameSlot, Owning
      <4> QED
        BY <2>2, <2>4, <4>1, <4>2, <4>3 DEF EvExpires
    <3> QED
      BY <2>2, <3>1, <3>2
  <2> QED
    BY <2>3, <2>4 DEF Threads
<1>11. CASE UNCHANGED vars
  BY <1>11 DEF vars, EvExpires
<1> QED
  BY <1>4, <1>5, <1>6, <1>7, <1>8, <1>9, <1>10, <1>11, StepCases DEF Threads

\* The CONFIGURATION_TIMEOUT of n is in the event queue.
Queued(n) ==
  \E i \in DOMAIN events : events[i] = [type |-> "config_timeout", node |-> n]

LEMMA PutQueued ==
  ASSUME Sound, NEW n \in Nodes, NEW type \in EventTypes, Put(n, type)
  PROVE  /\ \A m \in Nodes : Queued(m) => Queued(m)'
         /\ type = "config_timeout" => Queued(n)'
<1> DEFINE e == [type |-> type, node |-> n]
<1>1. e \in Event /\ events \in Seq(Event) /\ events' = Append(events, e)
  BY Disassemble DEF Event, Put
<1> HIDE DEF e
<1>2. /\ Len(events) \in Nat /\ Len(events') = Len(events) + 1
      /\ \A i \in 1..Len(events) : events'[i] = events[i]
      /\ events'[Len(events) + 1] = e
      /\ DOMAIN events = 1..Len(events) /\ DOMAIN events' = 1..Len(events')
  BY <1>1
<1>3. \A i \in DOMAIN events : i \in DOMAIN events' /\ events'[i] = events[i]
  BY <1>2
<1>4. Len(events) + 1 \in DOMAIN events'
  BY <1>2
<1> QED
  BY <1>2, <1>3, <1>4 DEF Queued, e

LEMMA TailQueued ==
  ASSUME Sound, events # <<>>, events' = Tail(events), NEW m \in Nodes, Queued(m),
         Head(events) # [type |-> "config_timeout", node |-> m]
  PROVE  Queued(m)'
<1>1. events \in Seq(Event) /\ Len(events) \in Nat
        /\ DOMAIN events = 1..Len(events)
  BY Disassemble
<1>2. PICK i \in 1..Len(events) :
             events[i] = [type |-> "config_timeout", node |-> m]
  BY <1>1 DEF Queued
<1>3. i # 1
  BY <1>1, <1>2
<1>4. i - 1 \in DOMAIN events' /\ events'[i - 1] = events[i]
  BY <1>1, <1>2, <1>3
<1> QED
  BY <1>2, <1>4 DEF Queued

\* The event thread is handling it, or a thread is about to delete the entry
\* whose timer it has cancelled.
Handling(n) ==
  pc["ev"] \notin {"idle", "head"} /\ target["ev"] = n /\ current = "config_timeout"
Deleting(n) == \E t \in Threads : target[t] = n /\ pc[t] \in Deletes
AtHand(n) == Queued(n) \/ Handling(n) \/ Deleting(n)

LEMMA TimedAs ==
  SlotTimed <=> \A n \in Nodes : node[n].config = "stopped" => AtHand(n)
  BY DEF SlotTimed, ExpiryPending, AtHand, Queued, Handling, Deleting, Deletes

LEMMA TimedDispatch ==
  ASSUME Sound, Dispatch, NEW m \in Nodes, AtHand(m)
  PROVE  AtHand(m)'
<1>1. /\ pc["ev"] = "idle" /\ events # <<>> /\ events' = Tail(events)
      /\ pc'["api"] = pc["api"] /\ target'["api"] = target["api"]
  BY EvBlockMoves DEF Dispatch, EvBlock
<1>2. CASE Deleting(m)
  BY <1>1, <1>2 DEF Deleting, Deletes, Threads, AtHand
<1>3. CASE Queued(m) /\ Head(events) # [type |-> "config_timeout", node |-> m]
  BY <1>1, <1>3, TailQueued DEF AtHand
<1>4. CASE Head(events) = [type |-> "config_timeout", node |-> m]
  <2>1. Head(events).type = "config_timeout" /\ Head(events).node = m
    BY <1>4
  <2>2. pc'["ev"] # "idle" /\ target'["ev"] = m /\ current' = "config_timeout"
    BY <2>1, Disassemble DEF Dispatch, ToConfigTimeoutHandler, PlacesOK, Threads
  <2>3. pc'["ev"] # "head"
    BY Disassemble DEF Dispatch, ToConfigTimeoutHandler, Idle, PlacesOK, Threads
  <2> QED
    BY <2>2, <2>3 DEF Handling, AtHand
<1> QED
  BY <1>1, <1>2, <1>3, <1>4 DEF AtHand, Handling

LEMMA TimedBlock ==
  ASSUME Sound, EvExpires, SlotTimed, EvBlock, NEW m \in Nodes,
         node'[m].config = "stopped"
  PROVE  AtHand(m)'
<1>1. node[m].config = "stopped"
  <2>1. CASE Callbacks
    BY <2>1, CallbacksSlots DEF SlotStep, OthersSame, Same, SameSlot
  <2>2. CASE Mark
    BY <2>2, MarkSlots DEF OthersSame, Same, SameSlot
  <2>3. CASE Restart
    BY <2>3, RestartSlots DEF OthersSame, Same, SameSlot
  <2>4. CASE HeadTask
    BY <2>4, HeadTaskSlots DEF Same, SameSlot
  <2>5. CASE UNCHANGED node
    BY <2>5
  <2> QED
    BY <2>1, <2>2, <2>3, <2>4, <2>5 DEF EvBlock, Dispatch, Renew, Expire
<1>2. AtHand(m)
  BY <1>1, TimedAs
<1>3. CASE pc["ev"] = "idle"
  <2>1. Dispatch
    BY <1>3 DEF EvBlock, Callbacks, Mark, Renew, Restart, HeadTask, Expire
  <2> QED
    BY <1>2, <2>1, TimedDispatch
<1>4. CASE pc["ev"] # "idle"
  <2>1. UNCHANGED events /\ pc'["api"] = pc["api"] /\ target'["api"] = target["api"]
    BY <1>4, EvBlockMoves
  <2>2. Queued(m) => Queued(m)'
    BY <2>1 DEF Queued
  <2>3. Handling(m) => Handling(m)'
    BY <1>1, <1>4, EvBlockMoves DEF Handling, EvExpires
  <2>4. Deleting(m) => Deleting(m)'
    BY <2>1, EvBlockMoves DEF Deleting, Deletes, Threads
  <2> QED
    BY <1>2, <2>2, <2>3, <2>4 DEF AtHand
<1> QED
  BY <1>3, <1>4

LEMMA TimedEntries ==
  ASSUME Sound, EvExpires, SlotTimed, NEW t \in Threads, Entries(t),
         NEW m \in Nodes, node'[m].config = "stopped"
  PROVE  AtHand(m)'
<1>1. PICK at \in EvPlaces, p \in EvPlaces, q \in EvPlaces :
        EntryStep(t, at, p, q)
  BY EntriesCases
<1>2. /\ pc[t] = at /\ (Idle(t) \/ Goto(t, p) \/ Goto(t, q)) /\ UNCHANGED events
      /\ at # "idle" /\ p # "idle" /\ q # "idle"
  BY <1>1, EntryMoves DEF EntryStep, Together
<1>3. \A u \in Threads \ {t} : pc'[u] = pc[u] /\ target'[u] = target[u]
  BY <1>2, OtherThread
<1>4. \A r \in EvPlaces : Goto(t, r) =>
        pc'[t] = r /\ target'[t] = target[t] /\ current' = current
  BY OtherThread
<1>5. Queued(m) => Queued(m)'
  BY <1>2 DEF Queued
<1>6. node[m].config = "stopped" => AtHand(m)
  BY TimedAs
<1>7. t = "api" => EvStays /\ current' = current
  BY <1>2, ApiStays
<1>8. CASE m # target[t]
  <2>1. Same(m)
    BY <1>1, <1>8, EntrySlots DEF OthersSame
  <2>2. AtHand(m)
    BY <1>6, <2>1 DEF Same, SameSlot
  <2>3. Deleting(m) => Deleting(m)'
    BY <1>3, <1>8 DEF Deleting
  <2>4. Handling(m) => Handling(m)'
    BY <1>7, <1>8 DEF Handling, EvStays, Threads
  <2> QED
    BY <1>5, <2>2, <2>3, <2>4 DEF AtHand
<1>9. CASE m = target[t]
  <2>1. at \in Past \union Ending => \/ node[m].config = "none" /\ t = "ev"
                                     \/ ~Handling(m) \/ t = "api"
    BY <1>2, <1>9 DEF EvExpires, Handling, Threads
  <2>2. (Goto(t, p) \/ Goto(t, q)) /\ Handling(m) => Handling(m)'
    <3>1. "head" \notin Ending \union Expiring
      BY DEF Ending, Expiring, Removing
    <3>2. p # "head" /\ q # "head"
      BY <1>1, <3>1 DEF EntryStep, Together
    <3> QED
      BY <1>2, <1>4, <1>7, <1>9, <3>2 DEF Handling, EvStays, Threads
  <2>3. t = "api" /\ Handling(m) => Handling(m)'
    BY <1>7 DEF Handling, EvStays
  <2>4. at \notin Deletes /\ Deleting(m) => Deleting(m)'
    BY <1>2, <1>3, <1>9 DEF Deleting
  <2>5. p \in Deletes /\ Goto(t, p) => Deleting(m)'
    BY <1>4, <1>9 DEF Deleting
  <2>6. Same(m) => node[m].config = "stopped"
    BY DEF Same, SameSlot
  <2>7. at \in Owning => at \in Past \union Ending /\ at \notin Deletes
    BY DEF Past, Owning, Checks, Unmarks, Deletes
  <2>8. ASSUME node[m].config = "stopped", at \notin Deletes,
               Goto(t, p) \/ Goto(t, q) \/ t = "api" \/ at \in Past \union Ending
        PROVE  AtHand(m)'
    BY <1>5, <1>6, <2>1, <2>2, <2>3, <2>4, <2>8 DEF AtHand
  <2>9. \/ p \in Deletes /\ Goto(t, p)
        \/ /\ node[m].config = "stopped" /\ at \notin Deletes
           /\ Goto(t, p) \/ Goto(t, q) \/ at \in Past \union Ending
    <3>1. \A r \in EvPlaces \ {"idle"} : Goto(t, r) => ~Idle(t)
      BY Disassemble DEF Goto, Idle, PlacesOK
    <3>2. \A r \in EvPlaces \ {"idle"} : Goto(t, r) => Goto(t, p) \/ Goto(t, q)
      BY <1>2, <3>1
    <3>3. Same(m) => node[m].config # "none"
      BY <2>6
    <3> QED
      BY <1>1, <1>2, <1>9, <2>6, <2>7, <3>2, <3>3, EntrySlots DEF Owning
  <2> QED
    BY <2>5, <2>8, <2>9 DEF AtHand
<1> QED
  BY <1>8, <1>9

LEMMA SlotTimedStep ==
  Sound /\ EvExpires /\ SlotTimed /\ [Next]_vars => SlotTimed'
<1> SUFFICES ASSUME Sound, EvExpires, SlotTimed, [Next]_vars, NEW m \in Nodes,
                    node'[m].config = "stopped"
             PROVE  AtHand(m)'
  BY TimedAs
     DEF SlotTimed, ExpiryPending, AtHand, Queued, Handling, Deleting, Deletes
<1>1. node[m].config = "stopped" => AtHand(m)
  BY TimedAs
<1>2. ASSUME Same(m), Queued(m) => Queued(m)', EvStays, current' = current,
             pc["api"] = "delete" =>
               pc'["api"] = pc["api"] /\ target'["api"] = target["api"]
      PROVE  AtHand(m)'
  <2>1. pc["api"] # "end_del"
    BY Disassemble DEF PlacesOK, Removing
  <2> QED
    BY <1>1, <1>2, <2>1
       DEF AtHand, Handling, Deleting, Deletes, Threads, EvStays, Same, SameSlot
<1>3. CASE \E n \in Nodes : Message(n)
  <2>1. PICK n \in Nodes, type \in EventTypes : Put(n, type)
    BY <1>3, TaskQueueAssumption DEF Message, EventTypes
  <2>2. Queued(m) => Queued(m)'
    BY <2>1, PutQueued
  <2>3. UNCHANGED <<node, pc, target, current>>
    BY <1>3 DEF Message
  <2> QED
    BY <1>2, <2>2, <2>3 DEF Same, SameSlot, EvStays
<1>4. CASE Application
  <2>1. UNCHANGED events /\ Same(m)
    BY <1>4, OutsideSlots DEF Outside, Application, ApiSetListener,
         ApiSetSleepTime, ApiAddTask, ApiCancelTasks, ApiAddWhitelist,
         ApiRemoveWhitelist, Provision
  <2>2. /\ EvStays /\ current' = current
        /\ pc["api"] = "delete" =>
             pc'["api"] = pc["api"] /\ target'["api"] = target["api"]
    BY <1>4, Disassemble
       DEF Application, ApiSetListener, ApiSetSleepTime, ApiAddTask,
           ApiCancelTasks, ApiAddWhitelist, ApiRemoveWhitelist, Provision,
           PlacesOK, Threads, EvStays
  <2> QED
    BY <1>2, <2>1, <2>2 DEF Queued
<1>5. ASSUME NEW n \in Nodes, TaskTimer(n)
      PROVE  AtHand(m)'
  <2>1. Queued(m) => Queued(m)'
    BY <1>5, PutQueued DEF TaskTimer, EventTypes
  <2> QED
    BY <1>2, <1>5, <2>1, TaskTimerSlots DEF TaskTimer, EvStays
<1>6. ASSUME NEW n \in Nodes, ConfigTimer(n)
      PROVE  AtHand(m)'
  <2>1. (Queued(m) => Queued(m)') /\ Queued(n)'
    BY <1>6, PutQueued DEF ConfigTimer, EventTypes
  <2>2. UNCHANGED <<pc, target, current>>
    BY <1>6 DEF ConfigTimer
  <2>3. m # n => Same(m)
    BY <1>6, ConfigTimerSlots DEF OthersSame
  <2> QED
    BY <1>2, <2>1, <2>2, <2>3 DEF AtHand, EvStays
<1>7. ASSUME NEW t \in Threads, Listing(t)
      PROVE  AtHand(m)'
  <2>1. /\ UNCHANGED <<node, events>>
        /\ pc[t] \in {"check", "in_queue", "unlist"}
        /\ Idle(t) \/ \E p \in EvPlaces \ {"idle"} : Goto(t, p)
    BY <1>7, ListingMoves
  <2>2. node[m].config = "stopped" /\ Same(m) /\ (Queued(m) => Queued(m)')
    BY <2>1 DEF Queued, Same, SameSlot
  <2>3. \A u \in Threads \ {t} : pc'[u] = pc[u] /\ target'[u] = target[u]
    BY <2>1, OtherThread
  <2>4. CASE t = "api"
    <3>1. EvStays /\ current' = current
      BY <2>1, <2>4, ApiStays
    <3> QED
      BY <1>2, <2>1, <2>2, <2>4, <3>1
  <2>5. CASE t = "ev"
    <3>1. Deleting(m) => Deleting(m)'
      BY <2>1, <2>3, <2>5 DEF Deleting, Deletes
    <3>2. Handling(m) => Handling(m)'
      <4>1. CASE Idle("ev") /\ pc["ev"] \in Past
        BY <2>2, <4>1 DEF Handling, EvExpires
      <4>2. CASE \E p \in EvPlaces \ {"idle"} : Goto("ev", p) /\ p \in Expiring
        <5>1. "head" \notin Expiring
          BY DEF Expiring, Removing
        <5> QED
          BY <4>2, <5>1, OtherThread DEF Handling, Threads
      <4> QED
        BY <1>7, <2>5, <4>1, <4>2, ListingPast
    <3> QED
      BY <1>1, <2>2, <3>1, <3>2 DEF AtHand
  <2> QED
    BY <2>4, <2>5 DEF Threads
<1>8. CASE UNCHANGED vars
  BY <1>2, <1>8 DEF vars, Same, SameSlot, Queued, EvStays
<1> QED
  BY <1>3, <1>4, <1>5, <1>6, <1>7, <1>8, TimedBlock, TimedEntries, StepCases
     DEF Outside

\* A slot always has something that ends it: no interleaving of the timer, the
\* event thread and the application leaves an entry with a dead timer, which
\* would hold one of the MAX_CONFIG_NODES slots for ever.
THEOREM SlotsTimed == Spec => []SlotTimed
<1>1. Init => EvExpires /\ SlotTimed
  BY DEF Init, Fresh, EvExpires, Past, Owning, Checks, Unmarks, Ending,
         SlotTimed, Threads
<1>2. Sound /\ (EvExpires /\ SlotTimed) /\ [Next]_vars
        => (EvExpires /\ SlotTimed)'
  BY EvExpiresStep, SlotTimedStep
<1> QED
  BY <1>1, <1>2, SoundInvariant, PTL DEF Spec

=============================================================================
