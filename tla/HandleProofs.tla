----------------------------- MODULE HandleProofs -----------------------------
(***************************************************************************)
(* What the transmission manager relies on while the device has started    *)
(* once at most and nothing was submitted before it was configured: the    *)
(* response a thread takes is that to its own command, the cached handles  *)
(* are rows of the device's tables, and a packet goes where its message    *)
(* does.                                                                   *)
(***************************************************************************)
EXTENDS TransmissionProofs
-----------------------------------------------------------------------------
(* Commands and their answers. *)

\* Not what reset and stop send, whose responses no one waits for.
Live(op) == op \notin {"reset", "unsubscribe"}

\* Where a command is, or its answer: on its way to the device, on its way back,
\* in the hands of the event thread, in the slot.
Order(c) == \E i \in DOMAIN toDevice : toDevice[i] = c /\ Live(c.op)
Coming(e) == \E i \in DOMAIN events : events[i] = e /\ e.type = "rsp" /\ Live(e.op)
Handled(e) == e = current /\ pc["ev"] # "idle"
Sees(t) == pc[t] = "take" \/ (pc[t] = "wait" /\ slot.complete)
InSlot == \E t \in Senders : Sees(t)

Answer(e) == Coming(e) \/ Handled(e) \/ (e = slot.response /\ InSlot)

OneOrder ==
  \A i, j \in DOMAIN toDevice : Live(toDevice[i].op) /\ Live(toDevice[j].op) => i = j
OneComing ==
  \A i, j \in DOMAIN events :
    /\ events[i].type = "rsp" /\ Live(events[i].op)
    /\ events[j].type = "rsp" /\ Live(events[j].op)
    => i = j

\* The device restarts before it is configured; it is configured once, and
\* nothing is sent before.
Once ==
  /\ heard <=> restarts > 0
  /\ ~heard => pc["cfg"] = "none"
  /\ devStarted => pc["cfg"] = "done"
  /\ Live(slot.opcode)
  /\ quiet => restarts <= 1
  /\ quiet /\ pc["cfg"] # "done" =>
       high = <<>> /\ low = <<>> /\ pc["tx"] \in {"get", "low", "ended"}

\* One command at a time, in one place at a time, and the thread that sent it waits.
Exchange ==
  quiet =>
    /\ \A c \in Commands : Order(c) =>
         /\ \E t \in Senders : pc[t] = "wait" /\ c = cmd[t]
         /\ \A e \in Events : ~Coming(e)
         /\ pc["ev"] = "idle" /\ ~InSlot
    /\ OneOrder
    /\ \A e \in Events : Coming(e) =>
         /\ \E t \in Senders : pc[t] = "wait" /\ e.op = cmd[t].op
         /\ pc["ev"] = "idle" /\ ~InSlot
    /\ OneComing
    /\ pc["ev"] # "idle" =>
         /\ \E t \in Senders : pc[t] = "wait" /\ current.op = cmd[t].op
         /\ ~InSlot
    /\ pc["ev"] = "complete" => slot.response = current
    /\ \A t \in Senders :
         /\ Sees(t) => slot.response.op = cmd[t].op
         /\ pc[t] \in {"expect", "put"} => ~slot.complete
         /\ pc[t] \in {"put", "wait"} => slot.opcode = cmd[t].op

LEMMA LiveOps ==
  /\ \A op \in TxOps : Live(op)
  /\ \A i \in 1..7 : Live(ConfigOps[i])
  /\ Live("none") /\ ~Live("reset") /\ ~Live("unsubscribe")
BY OpsAre DEF Live, TxOps

LEMMA QuietOnly == [Next]_vars /\ quiet' => quiet
BY DEF Next, vars, Submit, TxThread, CfgThread, SendCommand, EvThread, ApiThread, Device,
   TakeHigh, TryLow, TakeLow, EndRun, Acquire, TakeTx, ClearComplete, ExpectOpcode,
   PutCommand, SeeComplete, TakeCfg, HandleEvent, StoreResponse, SetComplete, Start, Reset,
   Started, StopDevice, StopEvents, StopUart, StopTx, DeviceCommand, DeviceReset, PowerCycle,
   Transmitted, Restart

-----------------------------------------------------------------------------
(* What is in the queues after a step. *)

LEMMA ComingAppended ==
  ASSUME Shape, NEW e \in Events, events' = Append(events, e)
  PROVE  /\ \A f \in Events :
              Coming(f)' <=> Coming(f) \/ (f = e /\ e.type = "rsp" /\ Live(e.op))
         /\ OneComing /\ (e.type = "rsp" /\ Live(e.op) => \A f \in Events : ~Coming(f))
              => OneComing'
<1>1. /\ \A i \in DOMAIN events' :
           \/ i \in DOMAIN events /\ events'[i] = events[i]
           \/ i = Len(events) + 1 /\ events'[i] = e
      /\ \A i \in DOMAIN events : i \in DOMAIN events' /\ events'[i] = events[i]
      /\ Len(events) + 1 \in DOMAIN events' /\ events'[Len(events) + 1] = e
  BY AfterAppend DEF Shape
<1>2. ASSUME NEW f \in Events
      PROVE  Coming(f)' <=> Coming(f) \/ (f = e /\ e.type = "rsp" /\ Live(e.op))
  BY <1>1 DEF Coming
<1>3. ASSUME OneComing, e.type = "rsp" /\ Live(e.op) => \A f \in Events : ~Coming(f)
      PROVE  OneComing'
  <2>1. e.type = "rsp" /\ Live(e.op) =>
          \A i \in DOMAIN events : ~(events[i].type = "rsp" /\ Live(events[i].op))
    BY <1>3, ElementsTyped DEF Coming
  <2> QED BY <1>1, <1>3, <2>1 DEF OneComing
<1> QED BY <1>2, <1>3

LEMMA ComingTaken ==
  ASSUME Shape, events # <<>>, events' = Tail(events)
  PROVE  LET e == events[1] IN
         /\ \A f \in Events :
              /\ Coming(f)' => Coming(f)
              /\ e.type = "rsp" /\ Live(e.op) /\ f = e => Coming(f)
         /\ OneComing =>
              /\ OneComing'
              /\ e.type = "rsp" /\ Live(e.op) => \A f \in Events : ~Coming(f)'
<1> DEFINE e == events[1]
<1>1. /\ \A i \in DOMAIN events' :
           i \in Nat /\ i + 1 \in DOMAIN events /\ events'[i] = events[i + 1]
      /\ 1 \in DOMAIN events
  BY AfterTail DEF Shape
<1>2. ASSUME NEW f \in Events
      PROVE  /\ Coming(f)' => Coming(f)
             /\ e.type = "rsp" /\ Live(e.op) /\ f = e => Coming(f)
  BY <1>1 DEF Coming
<1>3. ASSUME OneComing PROVE OneComing'
  <2> SUFFICES ASSUME NEW i \in DOMAIN events', NEW j \in DOMAIN events',
                      events'[i].type = "rsp", Live(events'[i].op),
                      events'[j].type = "rsp", Live(events'[j].op)
               PROVE  i = j
    BY DEF OneComing
  <2>1. i + 1 = j + 1
    BY <1>1, <1>3 DEF OneComing
  <2> QED BY <1>1, <2>1
<1>4. ASSUME OneComing, e.type = "rsp", Live(e.op), NEW f \in Events, Coming(f)'
      PROVE  FALSE
  <2>1. PICK i \in DOMAIN events' : events'[i].type = "rsp" /\ Live(events'[i].op)
    BY <1>4 DEF Coming
  <2>2. i + 1 = 1 /\ i \in Nat
    BY <1>1, <1>4, <2>1 DEF OneComing
  <2>3. i \in 1..Len(events')
    BY <2>1, <1>1 DEF Shape
  <2> QED BY <2>2, <2>3
<1> QED BY <1>2, <1>3, <1>4

LEMMA OrderAppended ==
  ASSUME Shape, NEW c \in Commands, toDevice' = Append(toDevice, c)
  PROVE  /\ \A d \in Commands : Order(d)' <=> Order(d) \/ (d = c /\ Live(c.op))
         /\ OneOrder /\ (Live(c.op) => \A d \in Commands : ~Order(d)) => OneOrder'
<1>1. /\ \A i \in DOMAIN toDevice' :
           \/ i \in DOMAIN toDevice /\ toDevice'[i] = toDevice[i]
           \/ i = Len(toDevice) + 1 /\ toDevice'[i] = c
      /\ \A i \in DOMAIN toDevice : i \in DOMAIN toDevice' /\ toDevice'[i] = toDevice[i]
      /\ Len(toDevice) + 1 \in DOMAIN toDevice' /\ toDevice'[Len(toDevice) + 1] = c
  BY AfterAppend DEF Shape
<1>2. ASSUME NEW d \in Commands
      PROVE  Order(d)' <=> Order(d) \/ (d = c /\ Live(c.op))
  BY <1>1 DEF Order
<1>3. ASSUME OneOrder, Live(c.op) => \A d \in Commands : ~Order(d)
      PROVE  OneOrder'
  <2>1. Live(c.op) => \A i \in DOMAIN toDevice : ~Live(toDevice[i].op)
    BY <1>3, ElementsTyped DEF Order
  <2> QED BY <1>1, <1>3, <2>1 DEF OneOrder
<1> QED BY <1>2, <1>3

LEMMA OrderTaken ==
  ASSUME Shape, toDevice # <<>>, toDevice' = Tail(toDevice)
  PROVE  LET c == toDevice[1] IN
         /\ \A d \in Commands : /\ Order(d)' => Order(d)
                                /\ d = c /\ Live(c.op) => Order(d)
         /\ OneOrder => /\ OneOrder'
                        /\ Live(c.op) => \A d \in Commands : ~Order(d)'
<1> DEFINE c == toDevice[1]
<1>1. /\ \A i \in DOMAIN toDevice' :
           i \in Nat /\ i + 1 \in DOMAIN toDevice /\ toDevice'[i] = toDevice[i + 1]
      /\ 1 \in DOMAIN toDevice
  BY AfterTail DEF Shape
<1>2. ASSUME NEW d \in Commands
      PROVE  (Order(d)' => Order(d)) /\ (d = c /\ Live(c.op) => Order(d))
  BY <1>1 DEF Order
<1>3. ASSUME OneOrder PROVE OneOrder'
  <2> SUFFICES ASSUME NEW i \in DOMAIN toDevice', NEW j \in DOMAIN toDevice',
                      Live(toDevice'[i].op), Live(toDevice'[j].op)
               PROVE  i = j
    BY DEF OneOrder
  <2>1. i + 1 = j + 1
    BY <1>1, <1>3 DEF OneOrder
  <2> QED BY <1>1, <2>1
<1>4. ASSUME OneOrder, Live(c.op), NEW d \in Commands, Order(d)'
      PROVE  FALSE
  <2>1. PICK i \in DOMAIN toDevice' : Live(toDevice'[i].op)
    BY <1>4 DEF Order
  <2>2. i + 1 = 1 /\ i \in Nat
    BY <1>1, <1>4, <2>1 DEF OneOrder
  <2>3. i \in 1..Len(toDevice')
    BY <2>1, <1>1 DEF Shape
  <2> QED BY <2>2, <2>3
<1> QED BY <1>2, <1>3, <1>4

LEMMA OrderCut ==
  ASSUME Shape, NEW k \in 0..Len(toDevice), toDevice' = SubSeq(toDevice, k + 1, Len(toDevice))
  PROVE  (\A d \in Commands : Order(d)' => Order(d)) /\ (OneOrder => OneOrder')
<1>1. \A i \in DOMAIN toDevice' :
        i \in Nat /\ i + k \in DOMAIN toDevice /\ toDevice'[i] = toDevice[i + k]
  BY AfterCut DEF Shape
<1>2. \A d \in Commands : Order(d)' => Order(d)
  BY <1>1 DEF Order
<1>3. ASSUME OneOrder PROVE OneOrder'
  <2> SUFFICES ASSUME NEW i \in DOMAIN toDevice', NEW j \in DOMAIN toDevice',
                      Live(toDevice'[i].op), Live(toDevice'[j].op)
               PROVE  i = j
    BY DEF OneOrder
  <2>1. i + k = j + k
    BY <1>1, <1>3 DEF OneOrder
  <2> QED BY <1>1, <2>1
<1> QED BY <1>2, <1>3

LEMMA OrderPosted ==
  ASSUME Shape, (Start \/ Reset \/ StopDevice) \/ UNCHANGED toDevice
  PROVE  (\A d \in Commands : Order(d)' <=> Order(d)) /\ (OneOrder => OneOrder')
<1>1. CASE UNCHANGED toDevice
  BY <1>1 DEF Order, OneOrder
<1>2. CASE Start \/ Reset \/ StopDevice
  <2>1. /\ \A i \in DOMAIN toDevice : i \in DOMAIN toDevice' /\ toDevice'[i] = toDevice[i]
        /\ \A i \in DOMAIN toDevice' :
             \/ i \in DOMAIN toDevice /\ toDevice'[i] = toDevice[i]
             \/ ~Live(toDevice'[i].op)
    BY <1>2, PostEffect DEF Live
  <2>2. \A d \in Commands : Order(d)' <=> Order(d)
    BY <2>1 DEF Order
  <2>3. OneOrder => OneOrder'
    BY <2>1 DEF OneOrder
  <2> QED BY <2>2, <2>3
<1> QED BY <1>1, <1>2

-----------------------------------------------------------------------------
(* The device is configured once. *)

LEMMA OnceInit == Init => Once
BY LiveOps DEF Init, Once, Senders

LEMMA OnceTx ==
  ASSUME Typed, Once, TxThread
  PROVE  Once'
<1>1. /\ UNCHANGED <<heard, restarts, devStarted, quiet>>
      /\ pc'["cfg"] = pc["cfg"]
      /\ slot'.opcode \in {slot.opcode, cmd["tx"].op}
      /\ slot'.opcode = slot.opcode \/ pc["tx"] = "expect"
  <2>1. CASE Acquire \/ TakeTx
    <3>1. \E c, place : Die("tx") \/ Issue("tx", c) \/ Goto("tx", place)
      BY <2>1, AcquireTyped, TakeTxTyped
    <3> QED BY <2>1, <3>1 DEF Acquire, TakeTx, Die, Issue, Goto, Typed, Shape, Threads, Senders,
            device
  <2>2. CASE ~(Acquire \/ TakeTx)
    BY <2>2 DEF TxThread, SendCommand, TakeHigh, TryLow, TakeLow, EndRun, ClearComplete,
       ExpectOpcode, PutCommand, SeeComplete, Goto, Typed, Shape, Threads, Senders, device
  <2> QED BY <2>1, <2>2
<1>2. Live(slot'.opcode)
  BY <1>1, LiveOps DEF Once, Typed, Places, Sending
<1>3. ASSUME quiet, pc["cfg"] # "done"
      PROVE  high' = <<>> /\ low' = <<>> /\ pc'["tx"] \in {"get", "low", "ended"}
  <2>1. high = <<>> /\ low = <<>> /\ pc["tx"] \in {"get", "low", "ended"}
    BY <1>3 DEF Once
  <2>2. TryLow \/ TakeLow \/ EndRun
    BY <2>1 DEF TxThread, SendCommand, TakeHigh, Acquire, TakeTx, ClearComplete, ExpectOpcode,
       PutCommand, SeeComplete
  <2> QED BY <2>1, <2>2 DEF TryLow, TakeLow, EndRun, Goto, Typed, Shape, Threads, Senders, queues
<1> QED BY <1>1, <1>2, <1>3 DEF Once

LEMMA OnceCfg ==
  ASSUME Typed, Once, CfgThread
  PROVE  Once'
<1>1. UNCHANGED <<heard, restarts, quiet, high, low>> /\ pc["cfg"] \in Sending
  BY DEF CfgThread, SendCommand, TakeCfg, ClearComplete, ExpectOpcode, PutCommand, SeeComplete,
     device, queues, Sending
<1>2. heard
  BY <1>1 DEF Once, Sending
<1>3. pc'["tx"] = pc["tx"]
  BY DEF CfgThread, SendCommand, TakeCfg, ClearComplete, ExpectOpcode, PutCommand, SeeComplete,
     Die, Issue, Goto, Typed, Shape, Threads, Senders
<1>4. devStarted' => pc'["cfg"] = "done"
  <2>1. ~devStarted
    BY <1>1 DEF Once, Sending
  <2>2. devStarted' = devStarted \/ (TakeCfg /\ Goto("cfg", "done"))
    BY DEF CfgThread, SendCommand, TakeCfg, ClearComplete, ExpectOpcode, PutCommand, SeeComplete
  <2> QED BY <2>1, <2>2 DEF Goto, Typed, Shape, Threads, Senders
<1>5. Live(slot'.opcode)
  <2>1. slot'.opcode = slot.opcode \/ slot'.opcode = cmd["cfg"].op
    BY DEF CfgThread, SendCommand, TakeCfg, ClearComplete, ExpectOpcode, PutCommand, SeeComplete,
       Typed, Shape
  <2>2. Live(cmd["cfg"].op)
    BY <1>1, LiveOps DEF Typed, Places
  <2> QED BY <2>1, <2>2 DEF Once
<1>6. pc["cfg"] # "done"
  BY <1>1 DEF Sending
<1> QED BY <1>1, <1>2, <1>3, <1>4, <1>5, <1>6 DEF Once

LEMMA OnceRest ==
  ASSUME Typed, Deaf, Once,
         \/ \E m \in Messages : Submit(m)
         \/ EvThread \/ ApiThread \/ Device \/ PowerCycle \/ UNCHANGED vars
  PROVE  Once'
<1>1. CASE \E m \in Messages : Submit(m)
  <2>1. UNCHANGED <<heard, restarts, devStarted, pc, slot>>
        /\ quiet' = (quiet /\ devStarted)
    BY <1>1 DEF Submit, device
  <2> QED BY <2>1 DEF Once
<1>2. CASE HandleEvent
  <2>1. heard
    BY <1>2 DEF HandleEvent, Deaf
  <2>2. \/ pc'["cfg"] = pc["cfg"]
        \/ pc["cfg"] = "none" /\ pc'["cfg"] = "clear"
    BY <1>2 DEF HandleEvent, Issue, Goto, Typed, Shape, Threads, Senders
  <2>3. pc'["tx"] = pc["tx"]
    BY <1>2, HandleEventEffect
  <2> QED BY <1>2, <2>1, <2>2, <2>3 DEF HandleEvent, Once, device, queues
<1>3. CASE StoreResponse \/ SetComplete
  <2>1. pc'["tx"] = pc["tx"] /\ pc'["cfg"] = pc["cfg"] /\ slot'.opcode = slot.opcode
    BY <1>3 DEF StoreResponse, SetComplete, Goto, Typed, Shape, Threads, Senders
  <2> QED BY <1>3, <2>1 DEF StoreResponse, SetComplete, Once, device, queues
<1>4. CASE ApiThread
  <2>1. pc'["tx"] = pc["tx"] /\ pc'["cfg"] = pc["cfg"] /\ (devStarted' => devStarted)
    BY <1>4 DEF ApiThread, Start, Reset, Started, StopDevice, StopEvents, StopUart, StopTx, Goto,
       Typed, Shape, Threads, Senders
  <2> QED BY <1>4, <2>1 DEF ApiThread, Start, Reset, Started, StopDevice, StopEvents, StopUart,
            StopTx, Once, device, queues
<1>5. CASE DeviceReset \/ PowerCycle
  <2>1. restarts \in Nat
    BY DEF Typed, Shape
  <2>2. /\ UNCHANGED <<high, low, pc, slot, devStarted>>
        /\ heard' /\ restarts' = restarts + 1 /\ quiet' = (quiet /\ restarts = 0)
    BY <1>5, RestartOf DEF Restart, queues
  <2>3. restarts' > 0 /\ (restarts = 0 => restarts' <= 1)
    BY <2>1, <2>2
  <2>4. quiet' => quiet /\ restarts' <= 1
    BY <2>2, <2>3
  <2> QED BY <2>2, <2>3, <2>4 DEF Once
<1>6. CASE DeviceCommand \/ Transmitted
  BY <1>6 DEF DeviceCommand, Transmitted, Once, queues
<1>7. CASE UNCHANGED vars
  BY <1>7 DEF vars, Once, device, queues
<1> QED BY <1>1, <1>2, <1>3, <1>4, <1>5, <1>6, <1>7 DEF EvThread, Device

LEMMA OnceNext == Typed /\ Deaf /\ Once /\ [Next]_vars => Once'
BY OnceTx, OnceCfg, OnceRest DEF Next

-----------------------------------------------------------------------------
(* One command at a time. *)

LEMMA OneActive ==
  ASSUME Typed, Once, quiet, NEW t \in Senders, pc[t] \in Sending
  PROVE  \A s \in Senders : s # t => pc[s] \notin Sending
BY DEF Once, Senders, Sending

LEMMA ExchangeInit == Init => Exchange
<1> SUFFICES ASSUME Init PROVE Exchange
  OBVIOUS
<1>1. pc["ev"] = "idle" /\ \A t \in Senders : pc[t] \in {"get", "none"}
  BY DEF Init, Senders
<1>2. DOMAIN toDevice = {} /\ DOMAIN events = {}
  BY DEF Init
<1> QED BY <1>1, <1>2 DEF Exchange, Order, Coming, OneOrder, OneComing, Sees

\* A step that makes no answer.
Fewer == quiet' => \A e \in Events : Answer(e)' => Answer(e)

\* Steps that move no command and no answer.
LEMMA ExchangeStill ==
  ASSUME Exchange, quiet' => quiet,
         \A c \in Commands : Order(c)' => Order(c),
         \A e \in Events : Coming(e)' => Coming(e),
         quiet /\ OneOrder => OneOrder', quiet /\ OneComing => OneComing',
         pc'["ev"] = pc["ev"], UNCHANGED <<current, slot>>,
         \A t \in Senders : pc[t] = "wait" => pc'[t] = "wait" /\ cmd'[t] = cmd[t],
         \A t \in Senders : pc'[t] \in {"expect", "put", "wait", "take"} =>
                              pc'[t] = pc[t] /\ cmd'[t] = cmd[t]
  PROVE  Exchange' /\ Fewer
<1> SUFFICES ASSUME quiet' PROVE Exchange' /\ Fewer
  BY DEF Exchange, Fewer
<1>1. \A t \in Senders : Sees(t)' => Sees(t)
  BY DEF Sees
<1>2. InSlot' => InSlot
  BY <1>1 DEF InSlot
<1>3. ASSUME NEW c \in Commands, Order(c)'
      PROVE  /\ \E t \in Senders : pc'[t] = "wait" /\ c = cmd'[t]
             /\ \A e \in Events : ~Coming(e)'
             /\ pc'["ev"] = "idle" /\ ~InSlot'
  BY <1>2, <1>3 DEF Exchange
<1>4. ASSUME NEW e \in Events, Coming(e)'
      PROVE  /\ \E t \in Senders : pc'[t] = "wait" /\ e.op = cmd'[t].op
             /\ pc'["ev"] = "idle" /\ ~InSlot'
  BY <1>2, <1>4 DEF Exchange
<1>5. pc'["ev"] # "idle" =>
        /\ \E t \in Senders : pc'[t] = "wait" /\ current'.op = cmd'[t].op
        /\ ~InSlot'
  BY <1>2 DEF Exchange
<1>6. OneOrder' /\ OneComing' /\ (pc'["ev"] = "complete" => slot'.response = current')
  BY DEF Exchange
<1>7. ASSUME NEW t \in Senders
      PROVE  /\ Sees(t)' => slot'.response.op = cmd'[t].op
             /\ pc'[t] \in {"expect", "put"} => ~slot'.complete
             /\ pc'[t] \in {"put", "wait"} => slot'.opcode = cmd'[t].op
  BY <1>1 DEF Exchange, Sees
<1>8. Fewer
  BY <1>2 DEF Fewer, Answer, Handled
<1> QED BY <1>8, <1>3, <1>4, <1>5, <1>6, <1>7 DEF Exchange

LEMMA QueuesStill ==
  ASSUME UNCHANGED <<toDevice, events>>
  PROVE  /\ \A c \in Commands : Order(c)' <=> Order(c)
         /\ \A e \in Events : Coming(e)' <=> Coming(e)
         /\ OneOrder => OneOrder'
         /\ OneComing => OneComing'
BY DEF Order, Coming, OneOrder, OneComing

\* Submission, and steps of the transmission thread on its own.
LEMMA ExchangeTx ==
  ASSUME Typed, Exchange,
         \/ \E m \in Messages : Submit(m)
         \/ TakeHigh \/ TryLow \/ TakeLow \/ EndRun \/ Acquire \/ TakeTx
  PROVE  Exchange' /\ Fewer
<1>1. UNCHANGED <<toDevice, events, current, slot>>
  BY DEF Submit, TakeHigh, TryLow, TakeLow, EndRun, Acquire, TakeTx
<1>a. quiet' => quiet
  BY DEF Submit, TakeHigh, TryLow, TakeLow, EndRun, Acquire, TakeTx
<1>2. CASE \E m \in Messages : Submit(m)
  BY <1>1, <1>a, <1>2, ExchangeStill, QueuesStill DEF Submit
<1>3. CASE TakeHigh \/ TryLow \/ TakeLow \/ EndRun
  <2>1. /\ pc["tx"] # "wait" /\ pc'["tx"] \in {"permit", "low", "get", "ended"}
        /\ pc'["cfg"] = pc["cfg"] /\ pc'["ev"] = pc["ev"] /\ UNCHANGED cmd
    BY <1>3 DEF TakeHigh, TryLow, TakeLow, EndRun, Goto, Typed, Shape, Threads, Senders
  <2> QED BY <1>1, <1>a, <2>1, ExchangeStill, QueuesStill DEF Senders
<1>4. CASE Acquire \/ TakeTx
  <2>1. pc["tx"] # "wait"
    BY <1>4 DEF Acquire, TakeTx
  <2>2. \/ Die("tx") \/ (Goto("tx", "get") /\ UNCHANGED cmd)
        \/ \E c \in Commands : Issue("tx", c)
    BY <1>4, AcquireTyped, TakeTxTyped
  <2>3. /\ pc'["tx"] \in {"dead", "get", "clear"}
        /\ pc'["cfg"] = pc["cfg"] /\ pc'["ev"] = pc["ev"] /\ cmd'["cfg"] = cmd["cfg"]
    BY <2>2 DEF Die, Issue, Goto, Typed, Shape, Threads, Senders
  <2> QED BY <1>1, <1>a, <2>1, <2>3, ExchangeStill, QueuesStill DEF Senders
<1> QED BY <1>2, <1>3, <1>4

LEMMA ExchangeTakeCfg ==
  ASSUME Typed, Exchange, TakeCfg
  PROVE  Exchange' /\ Fewer
<1>1. UNCHANGED <<toDevice, events, current, slot, quiet>> /\ pc["cfg"] = "take"
  BY DEF TakeCfg
<1>2. \E c : Die("cfg") \/ Issue("cfg", c) \/ (Goto("cfg", "done") /\ UNCHANGED cmd)
  BY DEF TakeCfg
<1>3. /\ pc'["cfg"] \in {"dead", "done", "clear"}
      /\ pc'["tx"] = pc["tx"] /\ pc'["ev"] = pc["ev"] /\ cmd'["tx"] = cmd["tx"]
  BY <1>2 DEF Die, Issue, Goto, Typed, Shape, Threads, Senders
<1> QED BY <1>1, <1>3, ExchangeStill, QueuesStill DEF Senders

\* What a step of send_cmd_wait_rsp leaves alone.
LEMMA SendFrame ==
  ASSUME Typed, NEW t \in Senders, SendCommand(t)
  PROVE  /\ UNCHANGED <<queues, permits, pending, tx, cmd, caches, devStarted, events, current,
                        device, remote, quiet>>
         /\ pc[t] \in Sending /\ pc'["ev"] = pc["ev"] /\ pc'["api"] = pc["api"]
         /\ \A s \in Senders : s # t => pc'[s] = pc[s]
         /\ ClearComplete(t) => /\ pc[t] = "clear" /\ pc'[t] = "expect" /\ UNCHANGED toDevice
                                /\ slot' = [slot EXCEPT !.complete = FALSE]
         /\ ExpectOpcode(t) => /\ pc[t] = "expect" /\ pc'[t] = "put" /\ UNCHANGED toDevice
                               /\ slot' = [slot EXCEPT !.opcode = cmd[t].op]
         /\ PutCommand(t) => /\ pc[t] = "put" /\ pc'[t] = "wait" /\ slot' = slot
                             /\ toDevice' = Append(toDevice, cmd[t])
         /\ SeeComplete(t) => /\ pc[t] = "wait" /\ pc'[t] = "take" /\ slot.complete
                              /\ UNCHANGED <<slot, toDevice>>
<1>1. \E place : Goto(t, place)
  BY DEF SendCommand, ClearComplete, ExpectOpcode, PutCommand, SeeComplete
<1>2. /\ pc'["ev"] = pc["ev"] /\ pc'["api"] = pc["api"]
      /\ \A s \in Senders : s # t => pc'[s] = pc[s]
  BY <1>1 DEF Goto, Typed, Shape, Threads, Senders
<1>3. \A place : Goto(t, place) => pc'[t] = place
  BY DEF Goto, Typed, Shape, Threads
<1> QED BY <1>2, <1>3 DEF SendCommand, ClearComplete, ExpectOpcode, PutCommand, SeeComplete,
          txState, Sending

\* In each case, no other command or answer is anywhere.
LEMMA NoneOther ==
  ASSUME Typed, Once, Exchange, quiet, NEW t \in Senders,
         pc[t] \in {"clear", "expect", "put"}
  PROVE  /\ \A c \in Commands : ~Order(c)
         /\ \A e \in Events : ~Coming(e)
         /\ pc["ev"] = "idle" /\ ~InSlot
<1>1. \A s \in Senders : pc[s] \notin {"wait", "take"}
  BY OneActive DEF Sending
<1>2. ~InSlot
  BY <1>1 DEF InSlot, Sees
<1> QED BY <1>1, <1>2 DEF Exchange

LEMMA ExchangeSend ==
  ASSUME Typed, Once, Exchange, NEW t \in Senders, SendCommand(t)
  PROVE  Exchange' /\ Fewer
<1> SUFFICES ASSUME quiet' PROVE Exchange' /\ Fewer
  BY DEF Exchange, Fewer
<1>1. /\ UNCHANGED <<cmd, events, current, quiet>>
      /\ pc[t] \in Sending /\ pc'["ev"] = pc["ev"]
      /\ \A s \in Senders : s # t => pc'[s] = pc[s]
  BY SendFrame
<1>2. \A s \in Senders : s # t => pc[s] \notin Sending /\ pc'[s] \notin Sending
  BY <1>1, OneActive
<1>3. (\A e \in Events : Coming(e)' <=> Coming(e)) /\ OneComing' /\ OneOrder
  BY <1>1 DEF Coming, OneComing, Exchange
<1>4. slot \in [opcode : Ops, complete : BOOLEAN, response : Events]
  BY DEF Typed, Shape
<1>a. (\A s \in Senders : Sees(s)' => Sees(s)) /\ slot'.response = slot.response
        /\ current' = current => Fewer
  BY <1>1, <1>3 DEF Fewer, Answer, Handled, InSlot
<1>5. CASE ClearComplete(t)
  <2>1. /\ pc[t] = "clear" /\ pc'[t] = "expect" /\ UNCHANGED toDevice /\ ~slot'.complete
        /\ slot'.response = slot.response
    BY <1>4, <1>5, SendFrame
  <2>2. \A s \in Senders : ~Sees(s)' /\ pc'[s] \notin {"put", "wait", "take"}
    BY <1>2, <2>1 DEF Sees, Sending
  <2> QED BY <1>1, <1>2, <1>3, <2>1, <2>2, <1>a, NoneOther, QueuesStill DEF Exchange, Sending
<1>6. CASE ExpectOpcode(t)
  <2>1. /\ pc[t] = "expect" /\ pc'[t] = "put" /\ UNCHANGED toDevice
        /\ slot'.complete = slot.complete /\ slot'.opcode = cmd[t].op
        /\ slot'.response = slot.response
    BY <1>4, <1>6, SendFrame
  <2>2. \A s \in Senders : ~Sees(s)' /\ (pc'[s] \in {"expect", "put", "wait", "take"} => s = t)
    BY <1>2, <2>1 DEF Sees, Sending
  <2>3. ~slot.complete
    BY <1>1, <2>1 DEF Exchange
  <2> QED BY <1>1, <1>3, <2>1, <2>2, <2>3, <1>a, NoneOther, QueuesStill DEF Exchange
<1>7. CASE PutCommand(t)
  <2>1. /\ pc[t] = "put" /\ pc'[t] = "wait" /\ slot' = slot
        /\ toDevice' = Append(toDevice, cmd[t]) /\ cmd[t] \in Commands
    BY <1>7, SendFrame DEF Typed, Shape
  <2>2. ~slot.complete /\ slot.opcode = cmd[t].op
    BY <1>1, <2>1 DEF Exchange
  <2>3. \A s \in Senders : ~Sees(s)' /\ (pc'[s] \in {"expect", "put", "wait", "take"} => s = t)
    BY <1>2, <2>1, <2>2 DEF Sees, Sending
  <2>4. /\ \A c \in Commands : ~Order(c)
        /\ \A e \in Events : ~Coming(e)
        /\ pc["ev"] = "idle"
    BY <1>1, <2>1, NoneOther
  <2>5. (\A d \in Commands : Order(d)' => d = cmd[t]) /\ OneOrder'
    BY <1>3, <2>1, <2>4, OrderAppended DEF Typed
  <2>6. ~InSlot'
    BY <2>3 DEF InSlot
  <2> QED BY <1>1, <1>3, <2>1, <2>2, <2>3, <2>4, <2>5, <2>6, <1>a DEF Exchange
<1>8. CASE SeeComplete(t)
  <2>1. /\ pc[t] = "wait" /\ pc'[t] = "take" /\ slot.complete /\ UNCHANGED <<slot, toDevice>>
    BY <1>8, SendFrame
  <2>2. Sees(t) /\ InSlot
    BY <2>1 DEF Sees, InSlot
  <2>3. /\ \A c \in Commands : ~Order(c)
        /\ \A e \in Events : ~Coming(e)
        /\ pc["ev"] = "idle" /\ slot.response.op = cmd[t].op
    BY <1>1, <2>2 DEF Exchange
  <2>4. \A s \in Senders : s # t => ~Sees(s)' /\ pc'[s] \notin {"expect", "put", "wait", "take"}
    BY <1>2 DEF Sees, Sending
  <2>5. Fewer
    BY <1>1, <1>3, <2>1, <2>2 DEF Fewer, Answer, Handled
  <2> QED BY <1>1, <1>3, <2>1, <2>3, <2>4, <2>5, QueuesStill DEF Exchange
<1> QED BY <1>5, <1>6, <1>7, <1>8 DEF SendCommand

LEMMA ExchangeHandle ==
  ASSUME Typed, Deaf, Once, Exchange, HandleEvent
  PROVE  Exchange' /\ Fewer
<1> DEFINE e == events[1]
<1>1. /\ events # <<>> /\ events' = Tail(events) /\ e \in Events
      /\ UNCHANGED <<toDevice, slot, quiet>>
      /\ pc["ev"] = "idle" /\ e = Head(events)
  <2>1. events \in Seq(Events)
    BY DEF Typed, Shape
  <2> QED BY <2>1, HandleEventEffect DEF HandleEvent
<1>2. /\ \A f \in Events : Coming(f)' => Coming(f)
      /\ e.type = "rsp" /\ Live(e.op) => Coming(e)
      /\ OneComing => OneComing' /\ (e.type = "rsp" /\ Live(e.op) => \A f \in Events : ~Coming(f)')
  BY <1>1, ComingTaken DEF Typed
<1>3. (\A c \in Commands : Order(c)' <=> Order(c)) /\ (OneOrder => OneOrder')
  BY <1>1 DEF Order, OneOrder
<1>4. \/ /\ e.type = "rsp" /\ e.op = slot.opcode
         /\ Goto("ev", "answer") /\ current' = e /\ UNCHANGED cmd
      \/ pc["cfg"] = "none" /\ Issue("cfg", Configure(1)) /\ UNCHANGED current
      \/ UNCHANGED <<pc, cmd, current>>
  BY <1>1 DEF HandleEvent
<1> HIDE DEF e
<1>5. CASE /\ e.type = "rsp" /\ e.op = slot.opcode
           /\ Goto("ev", "answer") /\ current' = e /\ UNCHANGED cmd
  <2> SUFFICES ASSUME quiet PROVE Exchange' /\ Fewer
    BY <1>1 DEF Exchange, Fewer
  <2>1. Coming(e) /\ \A f \in Events : ~Coming(f)'
    BY <1>2, <1>5 DEF Once, Exchange
  <2>2. PICK t \in Senders : pc[t] = "wait" /\ e.op = cmd[t].op
    BY <1>1, <2>1 DEF Exchange
  <2>3. pc'["ev"] = "answer" /\ \A s \in Senders : pc'[s] = pc[s]
    BY <1>5 DEF Goto, Typed, Shape, Threads, Senders
  <2>4. \A s \in Senders : Sees(s)' <=> Sees(s)
    BY <1>1, <2>3 DEF Sees
  <2>5. ~InSlot /\ \A c \in Commands : ~Order(c)
    BY <1>1, <2>1 DEF Exchange
  <2>6. ~InSlot'
    BY <2>4, <2>5 DEF InSlot
  <2>7. Fewer
    BY <1>5, <2>1, <2>6 DEF Fewer, Answer, Handled
  <2> QED BY <1>1, <1>2, <1>3, <1>5, <2>1, <2>2, <2>3, <2>4, <2>5, <2>6, <2>7 DEF Exchange
<1>6. CASE pc["cfg"] = "none" /\ Issue("cfg", Configure(1)) /\ UNCHANGED current
  <2>1. /\ pc'["cfg"] = "clear" /\ pc'["tx"] = pc["tx"] /\ pc'["ev"] = pc["ev"]
        /\ cmd'["tx"] = cmd["tx"]
    BY <1>6 DEF Issue, Goto, Typed, Shape, Threads, Senders
  <2> QED BY <1>1, <1>2, <1>3, <1>6, <2>1, ExchangeStill DEF Senders
<1>7. CASE UNCHANGED <<pc, cmd, current>>
  BY <1>1, <1>2, <1>3, <1>7, ExchangeStill
<1> QED BY <1>4, <1>5, <1>6, <1>7

LEMMA ExchangeComplete ==
  ASSUME Typed, Once, Exchange, StoreResponse \/ SetComplete
  PROVE  Exchange' /\ Fewer
<1> SUFFICES ASSUME quiet' PROVE Exchange' /\ Fewer
  BY DEF Exchange, Fewer
<1>1. /\ UNCHANGED <<toDevice, events, cmd, quiet>> /\ pc["ev"] # "idle"
      /\ \A s \in Senders : pc'[s] = pc[s]
  BY DEF StoreResponse, SetComplete, Goto, Typed, Shape, Threads, Senders
<1>2. PICK t \in Senders : pc[t] = "wait" /\ current.op = cmd[t].op
  BY <1>1 DEF Exchange
<1>3. /\ \A c \in Commands : ~Order(c)
      /\ \A e \in Events : ~Coming(e)
      /\ ~InSlot
  BY <1>1 DEF Exchange
<1>4. /\ \A c \in Commands : ~Order(c)'
      /\ \A e \in Events : ~Coming(e)'
      /\ OneOrder' /\ OneComing'
  BY <1>1, <1>3, QueuesStill DEF Exchange
<1>5. \A s \in Senders : s # t => pc[s] \notin Sending
  BY <1>1, <1>2, OneActive DEF Sending
<1>6. slot.opcode = cmd[t].op
  BY <1>1, <1>2 DEF Exchange
<1>7. slot \in [opcode : Ops, complete : BOOLEAN, response : Events]
  BY DEF Typed, Shape
<1>8. CASE StoreResponse
  <2>1. /\ pc'["ev"] = "complete" /\ current' = current
        /\ slot'.response = current /\ slot'.complete = slot.complete /\ slot'.opcode = slot.opcode
    BY <1>7, <1>8 DEF StoreResponse, Goto, Typed, Shape, Threads
  <2>2. \A s \in Senders : ~Sees(s)'
    BY <1>1, <1>3, <2>1 DEF Sees, InSlot
  <2>3. ~InSlot'
    BY <2>2 DEF InSlot
  <2>4. Fewer
    BY <1>1, <1>4, <2>1, <2>3 DEF Fewer, Answer, Handled
  <2> QED BY <1>1, <1>2, <1>4, <2>1, <2>2, <2>3, <2>4 DEF Exchange
<1>9. CASE SetComplete
  <2>1. /\ pc'["ev"] = "idle" /\ slot.response = current
        /\ slot'.response = slot.response /\ slot'.opcode = slot.opcode
    BY <1>1, <1>7, <1>9 DEF SetComplete, Goto, Typed, Shape, Threads, Exchange
  <2>2. \A s \in Senders : s # t => ~Sees(s)' /\ pc'[s] \notin Sending
    BY <1>1, <1>5 DEF Sees, Sending
  <2>3. Fewer
    BY <1>1, <1>4, <2>1 DEF Fewer, Answer, Handled
  <2> QED BY <1>1, <1>2, <1>4, <1>6, <2>1, <2>2, <2>3 DEF Exchange, Sending
<1> QED BY <1>8, <1>9

LEMMA ExchangeApi ==
  ASSUME Typed, Exchange, ApiThread \/ UNCHANGED vars
  PROVE  Exchange' /\ Fewer
<1>1. UNCHANGED <<events, current, slot, cmd, quiet>>
  BY DEF ApiThread, Start, Reset, Started, StopDevice, StopEvents, StopUart, StopTx, vars
<1>2. pc'["ev"] = pc["ev"] /\ \A s \in Senders : pc'[s] = pc[s]
  BY DEF ApiThread, Start, Reset, Started, StopDevice, StopEvents, StopUart, StopTx, vars, Goto,
     Typed, Shape, Threads, Senders
<1>3. (Start \/ Reset \/ StopDevice) \/ UNCHANGED toDevice
  BY DEF ApiThread, Started, StopEvents, StopUart, StopTx, vars
<1>4. (\A c \in Commands : Order(c)' <=> Order(c)) /\ (OneOrder => OneOrder')
  BY <1>3, OrderPosted DEF Typed
<1>5. (\A e \in Events : Coming(e)' <=> Coming(e)) /\ (OneComing => OneComing')
  BY <1>1 DEF Coming, OneComing
<1> QED BY <1>1, <1>2, <1>4, <1>5, ExchangeStill

LEMMA ExchangeCommand ==
  ASSUME Typed, Exchange, DeviceCommand,
         NEW c \in Commands, c = toDevice[1],
         NEW e \in Events, e.type = "rsp", e.op = c.op, Emit(e)
  PROVE  /\ Exchange'
         /\ quiet' => \A f \in Events : Answer(f)' => Answer(f) \/ (Live(c.op) /\ f = e)
<1> SUFFICES ASSUME quiet'
             PROVE  /\ Exchange'
                    /\ \A f \in Events : Answer(f)' => Answer(f) \/ (Live(c.op) /\ f = e)
  BY DEF Exchange
<1>1. /\ toDevice # <<>> /\ toDevice' = Tail(toDevice)
      /\ UNCHANGED <<pc, cmd, slot, current, quiet>>
  BY DEF DeviceCommand
<1>2. /\ \A d \in Commands : Order(d)' => Order(d)
      /\ Live(c.op) => Order(c)
      /\ OneOrder' /\ (Live(c.op) => \A d \in Commands : ~Order(d)')
  BY <1>1, OrderTaken DEF Typed, Exchange
<1>3. \A s \in Senders : Sees(s)' <=> Sees(s)
  BY <1>1 DEF Sees
<1>4. InSlot' <=> InSlot
  BY <1>3 DEF InSlot
<1>5. CASE ~heard
  <2>1. (\A f \in Events : Coming(f)' <=> Coming(f)) /\ (OneComing => OneComing')
    BY <1>5 DEF Coming, OneComing, Emit
  <2> QED BY <1>1, <1>2, <2>1, ExchangeStill DEF Fewer
<1>6. CASE heard
  <2>1. /\ \A f \in Events : Coming(f)' <=> Coming(f) \/ (f = e /\ Live(c.op))
        /\ OneComing /\ (Live(c.op) => \A f \in Events : ~Coming(f)) => OneComing'
    BY <1>6, ComingAppended DEF Typed, Emit
  <2>2. CASE ~Live(c.op)
    BY <1>1, <1>2, <2>1, <2>2, ExchangeStill DEF Fewer
  <2>3. CASE Live(c.op)
    <3>1. /\ \E t \in Senders : pc[t] = "wait" /\ c = cmd[t]
          /\ \A f \in Events : ~Coming(f)
          /\ pc["ev"] = "idle" /\ ~InSlot
      BY <1>1, <1>2, <2>3 DEF Exchange
    <3>2. OneComing'
      BY <1>1, <2>1, <3>1 DEF Exchange
    <3>3. \A f \in Events : Coming(f)' => f = e
      BY <2>1, <3>1
    <3>4. \A f \in Events : Answer(f)' => f = e
      BY <1>1, <1>4, <3>1, <3>3 DEF Answer, Handled
    <3> QED BY <1>1, <1>2, <1>3, <1>4, <2>3, <3>1, <3>2, <3>3, <3>4 DEF Exchange
  <2> QED BY <2>2, <2>3
<1> QED BY <1>5, <1>6

\* What the device does with a command, and what it answers.
KeyHeld(h, what) == h \in KeyHandles /\ dev.keys[h] = what
AddrHeld(h, what) == h \in AddrHandles /\ dev.addrs[h] = what
Makes(c, e) ==
  \/ /\ c.op \in {"devkey_add", "appkey_add"} /\ dev'.addrs = dev.addrs /\ air' = air
     /\ \/ /\ HasHandle(e) /\ KeyHeld(e.handle, "free")
           /\ dev'.keys = [dev.keys EXCEPT ![e.handle] =
                             IF c.op = "devkey_add" THEN c.what ELSE "app"]
        \/ ~HasHandle(e) /\ FreeRows(dev.keys) = {} /\ dev'.keys = dev.keys
  \/ /\ c.op \in {"addr_add", "subscribe"} /\ dev'.keys = dev.keys /\ air' = air
     /\ \/ /\ HasHandle(e) /\ AddrHeld(e.handle, "free")
           /\ dev'.addrs = [dev.addrs EXCEPT ![e.handle] =
                              IF c.op = "addr_add" THEN c.what ELSE "group"]
        \/ ~HasHandle(e) /\ FreeRows(dev.addrs) = {} /\ dev'.addrs = dev.addrs
  \/ /\ c.op = "devkey_del" /\ dev'.addrs = dev.addrs /\ air' = air
     /\ dev'.keys = Freed(dev.keys, c.handle, Keys)
  \/ /\ c.op = "addr_del" /\ dev'.keys = dev.keys /\ air' = air
     /\ dev'.addrs = Freed(dev.addrs, c.handle, Addrs)
  \/ /\ c.op = "state_clear" /\ air' = air
     /\ dev'.keys = Empty.keys /\ dev'.addrs = Empty.addrs
  \/ /\ c.op \in {"unicast", "net_state", "unsubscribe", "subnet"} /\ air' = air
     /\ dev'.keys = dev.keys /\ dev'.addrs = dev.addrs
  \/ /\ c.op = "send" /\ dev'.keys = dev.keys /\ dev'.addrs = dev.addrs
     /\ air' \in {air, Append(air, [msg |-> c.msg, key |-> dev.keys[c.handle],
                                    addr |-> dev.addrs[c.addr]])}

LEMMA RspRight ==
  ASSUME NEW c \in Commands, NEW ok \in BOOLEAN, NEW h \in Handles
  PROVE  /\ Rsp(c, ok, h) \in Events /\ Rsp(c, ok, h).type = "rsp"
         /\ Rsp(c, ok, h).op = c.op /\ Rsp(c, ok, h).handle = h
BY EventTyped DEF Rsp

LEMMA DeviceMakes ==
  ASSUME Typed, DeviceCommand
  PROVE  /\ toDevice[1] \in Commands
         /\ \E e \in Events : /\ e.type = "rsp" /\ e.op = toDevice[1].op
                              /\ Emit(e) /\ Makes(toDevice[1], e)
<1> DEFINE c == toDevice[1]
           Answers1 == \E e \in Events : /\ e.type = "rsp" /\ e.op = c.op
                                         /\ Emit(e) /\ Makes(c, e)
<1>1. c \in Commands /\ c = Head(toDevice)
  BY DeviceEffect DEF Typed, Shape
<1> SUFFICES Answers1
  BY <1>1
<1>2. (Manage(c) /\ UNCHANGED air) \/ Transmit(c)
  BY <1>1 DEF DeviceCommand
<1> HIDE DEF c
<1>3. /\ dev \in Tables /\ NoHandle \in Handles /\ 0 \in Handles
      /\ KeyHandles \subseteq Handles /\ AddrHandles \subseteq Handles
      /\ \A h \in KeyHandles \union AddrHandles : h # NoHandle
  BY TransmissionAssumption DEF Typed, Shape, Handles
<1>4. ASSUME NEW what, AddKey(c, what), c.op \in {"devkey_add", "appkey_add"},
             what = IF c.op = "devkey_add" THEN c.what ELSE "app", UNCHANGED air
      PROVE  Answers1
  <2>1. CASE \E h \in FirstFree(dev.keys) :
               /\ dev' = [dev EXCEPT !.keys[h] = what]
               /\ Emit(Rsp(c, TRUE, h))
    <3>1. PICK h \in FirstFree(dev.keys) : /\ dev' = [dev EXCEPT !.keys[h] = what]
                                           /\ Emit(Rsp(c, TRUE, h))
      BY <2>1
    <3>2. KeyHeld(h, "free") /\ h \in Handles /\ h # NoHandle
      BY <1>3 DEF FirstFree, FreeRows, KeyHeld, Tables, KeyTable
    <3>3. dev'.addrs = dev.addrs /\ dev'.keys = [dev.keys EXCEPT ![h] = what]
      BY <1>3, <3>1 DEF Tables
    <3> DEFINE e == Rsp(c, TRUE, h)
    <3>4. e.handle = h
      BY <1>1, <3>2, RspRight
    <3> HIDE DEF e
    <3>5. Makes(c, e)
      BY <1>4, <3>2, <3>3, <3>4 DEF Makes, HasHandle
    <3> USE DEF e
    <3> QED BY <1>1, <3>1, <3>2, <3>5, RspRight
  <2>2. CASE /\ FreeRows(dev.keys) = {}
             /\ Emit(Rsp(c, FALSE, NoHandle)) /\ UNCHANGED dev
    <3>1. Makes(c, Rsp(c, FALSE, NoHandle))
      BY <1>1, <1>3, <1>4, <2>2, RspRight DEF Makes, HasHandle
    <3> QED BY <1>1, <1>3, <2>2, <3>1, RspRight
  <2> QED BY <1>4, <2>1, <2>2 DEF AddKey
<1>5. ASSUME NEW what, AddAddr(c, what), c.op \in {"addr_add", "subscribe"},
             what = IF c.op = "addr_add" THEN c.what ELSE "group", UNCHANGED air
      PROVE  Answers1
  <2>1. CASE \E h \in FirstFree(dev.addrs) :
               /\ dev' = [dev EXCEPT !.addrs[h] = what]
               /\ Emit(Rsp(c, TRUE, h))
    <3>1. PICK h \in FirstFree(dev.addrs) : /\ dev' = [dev EXCEPT !.addrs[h] = what]
                                            /\ Emit(Rsp(c, TRUE, h))
      BY <2>1
    <3>2. AddrHeld(h, "free") /\ h \in Handles /\ h # NoHandle
      BY <1>3 DEF FirstFree, FreeRows, AddrHeld, Tables, AddrTable
    <3>3. dev'.keys = dev.keys /\ dev'.addrs = [dev.addrs EXCEPT ![h] = what]
      BY <1>3, <3>1 DEF Tables
    <3> DEFINE e == Rsp(c, TRUE, h)
    <3>4. e.handle = h
      BY <1>1, <3>2, RspRight
    <3> HIDE DEF e
    <3>5. Makes(c, e)
      BY <1>5, <3>2, <3>3, <3>4 DEF Makes, HasHandle
    <3> USE DEF e
    <3> QED BY <1>1, <3>1, <3>2, <3>5, RspRight
  <2>2. CASE /\ FreeRows(dev.addrs) = {}
             /\ Emit(Rsp(c, FALSE, NoHandle)) /\ UNCHANGED dev
    <3>1. Makes(c, Rsp(c, FALSE, NoHandle))
      BY <1>1, <1>3, <1>5, <2>2, RspRight DEF Makes, HasHandle
    <3> QED BY <1>1, <1>3, <2>2, <3>1, RspRight
  <2> QED BY <1>5, <2>1, <2>2 DEF AddAddr
<1>6. ASSUME NEW ok \in BOOLEAN, NEW h \in {0, NoHandle}, Emit(Rsp(c, ok, h)),
             Makes(c, Rsp(c, ok, h))
      PROVE  Answers1
  BY <1>1, <1>3, <1>6, RspRight
<1>7. CASE Manage(c) /\ UNCHANGED air
  <2>1. CASE c.op = "state_clear" /\ dev' = [Empty EXCEPT !.sending = dev.sending]
             /\ Emit(Rsp(c, TRUE, NoHandle))
    <3>1. dev'.keys = Empty.keys /\ dev'.addrs = Empty.addrs
      BY <2>1 DEF Empty
    <3> QED BY <1>6, <1>7, <2>1, <3>1 DEF Makes
  <2>2. CASE c.op \in {"unicast", "net_state", "unsubscribe", "subnet"} /\ UNCHANGED dev
             /\ (Emit(Rsp(c, TRUE, NoHandle)) \/ Emit(Rsp(c, TRUE, 0)))
    BY <1>6, <1>7, <2>2 DEF Makes
  <2>3. CASE c.op = "devkey_del" /\ dev' = [dev EXCEPT !.keys = Freed(@, c.handle, Keys)]
             /\ Emit(Rsp(c, TRUE, NoHandle))
    <3>1. dev'.addrs = dev.addrs /\ dev'.keys = Freed(dev.keys, c.handle, Keys)
      BY <1>3, <2>3 DEF Tables
    <3> QED BY <1>6, <1>7, <2>3, <3>1 DEF Makes
  <2>4. CASE c.op = "addr_del" /\ dev' = [dev EXCEPT !.addrs = Freed(@, c.handle, Addrs)]
             /\ Emit(Rsp(c, TRUE, NoHandle))
    <3>1. dev'.keys = dev.keys /\ dev'.addrs = Freed(dev.addrs, c.handle, Addrs)
      BY <1>3, <2>4 DEF Tables
    <3> QED BY <1>6, <1>7, <2>4, <3>1 DEF Makes
  <2>5. CASE \/ c.op = "appkey_add" /\ AddKey(c, "app")
             \/ c.op = "devkey_add" /\ AddKey(c, c.what)
    BY <1>4, <1>7, <2>5
  <2>6. CASE \/ c.op = "subscribe" /\ AddAddr(c, "group")
             \/ c.op = "addr_add" /\ AddAddr(c, c.what)
    BY <1>5, <1>7, <2>6
  <2> HIDE DEF Answers1
  <2> QED BY <1>7, <2>1, <2>2, <2>3, <2>4, <2>5, <2>6 DEF Manage
<1>8. CASE Transmit(c)
  <2>1. c.op = "send" /\ \E ok \in BOOLEAN : Emit(Rsp(c, ok, NoHandle))
    BY <1>8 DEF Transmit
  <2>2. dev'.keys = dev.keys /\ dev'.addrs = dev.addrs
    BY <1>3, <1>8 DEF Transmit, Tables
  <2>3. air' \in {air, Append(air, [msg |-> c.msg, key |-> dev.keys[c.handle],
                                    addr |-> dev.addrs[c.addr]])}
    BY <1>8 DEF Transmit
  <2>4. \A e : Makes(c, e)
    BY <2>1, <2>2, <2>3 DEF Makes
  <2> QED BY <1>6, <2>1, <2>4
<1> QED BY <1>1, <1>2, <1>7, <1>8

LEMMA ExchangeDevice ==
  ASSUME Typed, Exchange, DeviceReset \/ PowerCycle \/ Transmitted
  PROVE  Exchange' /\ Fewer
<1>1. CASE DeviceReset \/ PowerCycle
  <2>1. PICK lost \in 0..Len(toDevice) : Restart(lost)
    BY <1>1, RestartOf
  <2>2. UNCHANGED <<pc, cmd, slot, current>>
    BY <1>1, RestartOf
  <2>3. (\A c \in Commands : Order(c)' => Order(c)) /\ (OneOrder => OneOrder')
    BY <2>1, OrderCut DEF Restart, Typed
  <2>4. Ev("dev_reset", NoMsg) \in Events /\ Ev("dev_reset", NoMsg).type = "dev_reset"
    BY EventTyped DEF Ev
  <2>5. (\A e \in Events : Coming(e)' <=> Coming(e)) /\ (OneComing => OneComing')
    BY <2>1, <2>4, ComingAppended DEF Restart, Typed
  <2>6. quiet' => quiet
    BY <2>1 DEF Restart
  <2> QED BY <2>2, <2>3, <2>5, <2>6, ExchangeStill
<1>2. CASE Transmitted
  <2>1. PICK m \in dev.sending : Emit(Ev("tx_complete", m))
    BY <1>2 DEF Transmitted
  <2>2. UNCHANGED <<pc, cmd, slot, current, quiet, toDevice>> /\ m \in Messages
    BY <1>2, <2>1 DEF Transmitted, Typed, Shape, Tables
  <2>3. Ev("tx_complete", m) \in Events /\ Ev("tx_complete", m).type = "tx_complete"
    BY <2>2, EventTyped DEF Ev
  <2>4. (\A e \in Events : Coming(e)' <=> Coming(e)) /\ (OneComing => OneComing')
    <3>1. CASE heard
      BY <2>1, <2>3, <3>1, ComingAppended DEF Emit, Typed
    <3>2. CASE ~heard
      BY <2>1, <3>2 DEF Emit, Coming, OneComing
    <3> QED BY <3>1, <3>2
  <2>5. (\A c \in Commands : Order(c)' <=> Order(c)) /\ (OneOrder => OneOrder')
    BY <2>2 DEF Order, OneOrder
  <2> QED BY <2>2, <2>4, <2>5, ExchangeStill
<1> QED BY <1>1, <1>2

LEMMA ExchangeNext ==
  ASSUME Typed, Deaf, Once, Exchange, [Next]_vars
  PROVE  Exchange' /\ (~DeviceCommand => Fewer)
<1>1. CASE (\E m \in Messages : Submit(m)) \/ TxThread
  BY <1>1, ExchangeTx, ExchangeSend DEF TxThread, Senders
<1>2. CASE CfgThread
  BY <1>2, ExchangeTakeCfg, ExchangeSend DEF CfgThread, Senders
<1>3. CASE EvThread
  BY <1>3, ExchangeHandle, ExchangeComplete DEF EvThread
<1>4. CASE ApiThread \/ UNCHANGED vars
  BY <1>4, ExchangeApi
<1>5. CASE DeviceCommand
  BY <1>5, DeviceMakes, ExchangeCommand
<1>6. CASE DeviceReset \/ Transmitted \/ PowerCycle
  BY <1>6, ExchangeDevice
<1> QED BY <1>1, <1>2, <1>3, <1>4, <1>5, <1>6 DEF Next, Device

-----------------------------------------------------------------------------
(* The tables of the device and their copies. *)

\* The key a message is sent under.
KeyFor(m) == IF Dst[m] \in Keys THEN Dst[m] ELSE "app"

AppRight ==
  /\ pc["cfg"] # "done" => devkeys = <<>> /\ addresses = <<>>
  /\ appkey # NoHandle => KeyHeld(appkey, "app")
  /\ pc["cfg"] = "done" => appkey # NoHandle
  /\ pc["cfg"] \in Sending => (cmd["cfg"].step <= 5 <=> appkey = NoHandle)
  /\ pc["cfg"] = "none" => appkey = NoHandle
KeysRight ==
  /\ \A i \in DOMAIN devkeys : /\ KeyHeld(devkeys[i].handle, devkeys[i].key)
                               /\ devkeysAddr[i] = AddrOf[devkeys[i].key]
  /\ \A i, j \in DOMAIN devkeysAddr : devkeysAddr[i] = devkeysAddr[j] => i = j
AddrsRight ==
  /\ \A i \in DOMAIN addresses : AddrHeld(addresses[i].handle, addresses[i].addr)
  /\ \A i, j \in DOMAIN addresses : addresses[i].addr = addresses[j].addr => i = j

\* The command of the transmission thread for message m, with a key in hand.
HandRight(c, m, key) ==
  /\ c.op \in {"devkey_del", "devkey_add"} =>
       \A i \in DOMAIN devkeysAddr : devkeysAddr[i] # AddrOf[Dst[m]]
  /\ c.op = "devkey_del" => \A i \in DOMAIN devkeys : devkeys[i].handle # c.handle
  /\ c.op = "devkey_add" => c.what = Dst[m]
  /\ c.op \in {"addr_del", "addr_add", "send"} /\ Dst[m] \in Keys => KeyHeld(key, Dst[m])
  /\ c.op \in {"addr_del", "addr_add"} => \A i \in DOMAIN addresses : addresses[i].addr # Addr(m)
  /\ c.op = "addr_del" => \A i \in DOMAIN addresses : addresses[i].handle # c.handle
  /\ c.op = "addr_add" => c.what = Addr(m)
  /\ c.op = "send" => KeyHeld(c.handle, KeyFor(m)) /\ AddrHeld(c.addr, Addr(m))

\* A handle on its way to a thread.
HandleRight(e) ==
  /\ e.op = "devkey_add" => KeyHeld(e.handle, Dst[tx.msg])
  /\ e.op = "addr_add" => AddrHeld(e.handle, Addr(tx.msg))
  /\ e.op = "appkey_add" => KeyHeld(e.handle, "app")

AirRight ==
  \A i \in DOMAIN air : air[i].addr = Addr(air[i].msg) /\ air[i].key = KeyFor(air[i].msg)

Right ==
  quiet =>
    /\ AppRight /\ KeysRight /\ AddrsRight /\ AirRight
    /\ pc["tx"] \in Sending => HandRight(cmd["tx"], tx.msg, tx.key)
    /\ \A e \in Events : Answer(e) /\ HasHandle(e) => HandleRight(e)

\* An answer has its thread, and there is no command besides.
AnswerHas(e) ==
  /\ \E t \in Senders : pc[t] \in {"wait", "take"} /\ e.op = cmd[t].op
  /\ \A c \in Commands : ~Order(c)

AnswersOwned == quiet => \A e \in Events : Answer(e) => AnswerHas(e)

LEMMA AnswerOf == Exchange => AnswersOwned
<1> SUFFICES ASSUME Exchange, quiet, NEW e \in Events, Answer(e) PROVE AnswerHas(e)
  BY DEF AnswersOwned
<1>1. CASE Coming(e)
  BY <1>1 DEF Exchange, AnswerHas
<1>2. CASE Handled(e)
  BY <1>2 DEF Exchange, Handled, AnswerHas
<1>3. CASE e = slot.response /\ InSlot
  BY <1>3 DEF Exchange, InSlot, Sees, AnswerHas
<1> QED BY <1>1, <1>2, <1>3 DEF Answer

LEMMA AnswerOfNext == Exchange' => AnswersOwned'
BY AnswerOf, PTL

\* The operations of the two threads.
OpsOf(t) ==
  pc[t] \in Sending =>
    /\ cmd[t].op \in {"devkey_add", "devkey_del", "addr_add", "addr_del", "send"} => t = "tx"
    /\ cmd[t].op \in {"state_clear", "appkey_add", "subscribe"} => t = "cfg"
    /\ cmd["cfg"].op = "state_clear" /\ t = "cfg" => cmd["cfg"].step = 1
    /\ cmd["cfg"].op = "appkey_add" /\ t = "cfg" => cmd["cfg"].step = 5
    /\ Live(cmd[t].op)

OpsRight == \A t \in Senders : OpsOf(t)

LEMMA WhoSends == Typed => OpsRight
<1> SUFFICES ASSUME Typed, NEW t \in Senders, pc[t] \in Sending PROVE OpsOf(t)
  BY DEF OpsOf, OpsRight
<1>1. CASE t = "tx"
  BY <1>1, LiveOps DEF Typed, Places, TxOps, OpsOf
<1>2. CASE t = "cfg"
  <2>1. cmd["cfg"].step \in 1..7 /\ cmd["cfg"].op = ConfigOps[cmd["cfg"].step]
    BY <1>2 DEF Typed, Places
  <2>2. /\ ConfigOps[1] = "state_clear" /\ ConfigOps[2] = "unicast"
        /\ ConfigOps[3] = "net_state" /\ ConfigOps[4] = "subnet" /\ ConfigOps[5] = "appkey_add"
        /\ ConfigOps[6] = "subscribe" /\ ConfigOps[7] = "subscribe"
    BY DEF ConfigOps
  <2>3. cmd["cfg"].step \in {1, 2, 3, 4, 5, 6, 7}
    BY <2>1
  <2> QED BY <1>2, <2>1, <2>2, <2>3, LiveOps DEF OpsOf
<1> QED BY <1>1, <1>2 DEF Senders

LEMMA WhoSendsNext == Typed' => OpsRight'
BY WhoSends, PTL

LEMMA RightInit == Init => Right
<1> SUFFICES ASSUME Init PROVE Right
  OBVIOUS
<1>1. pc["tx"] = "get" /\ pc["cfg"] = "none" /\ pc["ev"] = "idle" /\ DOMAIN events = {}
  BY DEF Init, Senders
<1>2. \A e \in Events : ~Answer(e)
  BY <1>1 DEF Answer, Coming, Handled, InSlot, Sees, Senders
<1>3. AppRight /\ KeysRight /\ AddrsRight /\ AirRight
  BY <1>1 DEF Init, AppRight, KeysRight, AddrsRight, AirRight, Sending
<1> QED BY <1>1, <1>2, <1>3 DEF Right, Sending

\* Steps that change neither the tables nor their copies.
LEMMA HandlesStill ==
  ASSUME Typed', Exchange', Right, quiet' => quiet, Fewer,
         UNCHANGED <<caches, air>>, dev'.keys = dev.keys, dev'.addrs = dev.addrs,
         pc'["tx"] \in Sending => pc["tx"] \in Sending /\ cmd'["tx"] = cmd["tx"] /\ UNCHANGED tx,
         \/ pc'["cfg"] = pc["cfg"] /\ cmd'["cfg"] = cmd["cfg"]
         \/ pc["cfg"] \in Sending /\ pc'["cfg"] \in Sending /\ cmd'["cfg"] = cmd["cfg"]
         \/ pc["cfg"] = "none" /\ pc'["cfg"] = "clear" /\ cmd'["cfg"].step = 1
  PROVE  Right'
<1> SUFFICES ASSUME quiet' PROVE Right'
  BY DEF Right
<1>0. \A h, what : (KeyHeld(h, what)' <=> KeyHeld(h, what)) /\ (AddrHeld(h, what)' <=> AddrHeld(h, what))
  BY DEF KeyHeld, AddrHeld
<1>1. UNCHANGED <<devkeys, devkeysAddr, addresses, appkey>>
  BY DEF caches
<1>2. AppRight /\ KeysRight /\ AddrsRight /\ AirRight
  BY DEF Right
<1>3. AppRight'
  BY <1>0, <1>1, <1>2 DEF AppRight, Sending
<1>4. KeysRight' /\ AddrsRight' /\ AirRight'
  BY <1>0, <1>1, <1>2 DEF KeysRight, AddrsRight, AirRight
<1>5. pc'["tx"] \in Sending => HandRight(cmd["tx"], tx.msg, tx.key)'
  BY <1>0, <1>1 DEF Right, HandRight
<1>6. ASSUME NEW e \in Events, Answer(e)', HasHandle(e)
      PROVE  HandleRight(e)'
  <2>1. HandleRight(e)
    BY <1>6 DEF Fewer, Right
  <2>2. PICK t \in Senders : pc'[t] \in {"wait", "take"} /\ e.op = cmd'[t].op
    BY <1>6, AnswerOfNext DEF AnswersOwned, AnswerHas
  <2>3. e.op \in {"devkey_add", "addr_add"} => t = "tx"
    BY <2>2, WhoSendsNext DEF OpsRight, OpsOf, Sending
  <2>4. e.op \in {"devkey_add", "addr_add"} => UNCHANGED tx
    BY <2>2, <2>3 DEF Sending
  <2> QED BY <1>0, <2>1, <2>4 DEF HandleRight
<1> QED BY <1>3, <1>4, <1>5, <1>6 DEF Right, HasHandle

\* Steps that only move messages, commands and answers.
LEMMA RightOthers ==
  ASSUME Typed, Typed', Deaf, Once, Exchange, Right,
         \/ \E m \in Messages : Submit(m)
         \/ TakeHigh \/ TryLow \/ TakeLow \/ EndRun
         \/ \E t \in Senders : SendCommand(t)
         \/ EvThread \/ ApiThread \/ Transmitted \/ UNCHANGED vars
  PROVE  Right'
<1>1. CASE \/ \E m \in Messages : Submit(m)
           \/ TakeHigh \/ TryLow \/ TakeLow \/ EndRun
  <2>1. UNCHANGED <<caches, air, dev>>
    BY <1>1 DEF Submit, TakeHigh, TryLow, TakeLow, EndRun, device
  <2>2. (UNCHANGED <<pc, cmd, tx>>) \/ (pc'["tx"] \in {"permit", "low", "get", "ended"}
          /\ pc'["cfg"] = pc["cfg"] /\ UNCHANGED cmd)
    BY <1>1 DEF Submit, TakeHigh, TryLow, TakeLow, EndRun, Goto, Typed, Shape, Threads, Senders,
       txState
  <2>3. Exchange' /\ Fewer
    BY <1>1, ExchangeTx
  <2>4. quiet' => quiet
    BY <1>1 DEF Submit, TakeHigh, TryLow, TakeLow, EndRun
  <2> QED BY <2>1, <2>2, <2>3, <2>4, HandlesStill DEF Sending
<1>2. ASSUME NEW t \in Senders, SendCommand(t)
      PROVE  Right'
  <2>1. /\ UNCHANGED <<cmd, tx, caches, device, quiet>>
        /\ pc[t] \in Sending /\ \A s \in Senders : s # t => pc'[s] = pc[s]
        /\ pc'[t] \in Sending
    BY <1>2, SendFrame DEF SendCommand, Sending
  <2>2. UNCHANGED <<caches, air, dev>>
    BY <2>1 DEF device
  <2>3. Exchange' /\ Fewer
    BY <1>2, ExchangeSend
  <2> QED BY <2>1, <2>2, <2>3, HandlesStill DEF Senders
<1>3. CASE HandleEvent
  <2>1. UNCHANGED <<caches, air, dev, tx, quiet>>
    BY <1>3 DEF HandleEvent, device
  <2>2. \/ Goto("ev", "answer") /\ UNCHANGED cmd
        \/ pc["cfg"] = "none" /\ Issue("cfg", Configure(1))
        \/ UNCHANGED <<pc, cmd>>
    BY <1>3 DEF HandleEvent
  <2>3. Configure(1).step = 1
    BY ConfigureTyped
  <2>4. /\ pc'["tx"] = pc["tx"] /\ cmd'["tx"] = cmd["tx"]
        /\ \/ pc'["cfg"] = pc["cfg"] /\ cmd'["cfg"] = cmd["cfg"]
           \/ pc["cfg"] = "none" /\ pc'["cfg"] = "clear" /\ cmd'["cfg"].step = 1
    BY <2>2, <2>3 DEF Goto, Issue, Typed, Shape, Threads, Senders
  <2>5. Exchange' /\ Fewer
    BY <1>3, ExchangeHandle
  <2> QED BY <2>1, <2>4, <2>5, HandlesStill
<1>4. CASE StoreResponse \/ SetComplete \/ ApiThread \/ Transmitted \/ UNCHANGED vars
  <2>1. UNCHANGED <<caches, tx, cmd, quiet>>
    BY <1>4 DEF StoreResponse, SetComplete, ApiThread, Start, Reset, Started, StopDevice,
       StopEvents, StopUart, StopTx, Transmitted, vars, txState
  <2>2. pc'["tx"] = pc["tx"] /\ pc'["cfg"] = pc["cfg"]
    BY <1>4 DEF StoreResponse, SetComplete, ApiThread, Start, Reset, Started, StopDevice,
       StopEvents, StopUart, StopTx, Transmitted, vars, Goto, Typed, Shape, Threads, Senders
  <2>3. air' = air /\ dev'.keys = dev.keys /\ dev'.addrs = dev.addrs
    <3>1. CASE Transmitted
      BY <3>1 DEF Transmitted, Typed, Shape, Tables
    <3>2. CASE ~Transmitted
      BY <1>4, <3>2 DEF StoreResponse, SetComplete, ApiThread, Start, Reset, Started, StopDevice,
         StopEvents, StopUart, StopTx, vars, device
    <3> QED BY <3>1, <3>2
  <2>4. Exchange' /\ Fewer
    BY <1>4, ExchangeComplete, ExchangeApi, ExchangeDevice
  <2> QED BY <2>1, <2>2, <2>3, <2>4, HandlesStill
<1> QED BY <1>1, <1>2, <1>3, <1>4 DEF EvThread

\* The lookup of an address handle.
LEMMA FindRight ==
  ASSUME Typed, AddrsRight, NEW m \in Messages, NEW key, KeyHeld(key, KeyFor(m)),
         FindAddress(m, key), UNCHANGED dev, tx'.msg = m, Dst[m] \in Keys => tx'.key = key
  PROVE  AddrsRight' /\ HandRight(cmd["tx"], tx.msg, tx.key)' /\ pc'["tx"] = "clear"
<1> DEFINE cached == {i \in DOMAIN addresses : addresses[i].addr = Addr(m)}
<1>1. /\ addresses \in Seq(AddrEntry) /\ Shape /\ key \in Handles /\ key # NoHandle
      /\ Addr(m) \in Addrs
      /\ Dst[m] \in Keys => KeyFor(m) = Dst[m] /\ tx'.key = key
      /\ \A i \in DOMAIN addresses : addresses[i].handle \in Handles
  BY TransmissionAssumption, AddrTyped, ElementsTyped DEF Typed, Shape, KeyHeld, Handles, KeyFor
<1>2. \A h, what : (KeyHeld(h, what)' <=> KeyHeld(h, what)) /\ (AddrHeld(h, what)' <=> AddrHeld(h, what))
  BY DEF KeyHeld, AddrHeld
<1>3. CASE \E i \in cached : SendPacket(m, key, addresses[i].handle) /\ UNCHANGED addresses
  <2>1. PICK i \in cached : SendPacket(m, key, addresses[i].handle)
    BY <1>3
  <2>2. Issue("tx", PacketSend(key, addresses[i].handle, m))
    BY <1>1, <2>1 DEF SendPacket
  <2>3. /\ pc'["tx"] = "clear" /\ cmd'["tx"].op = "send" /\ cmd'["tx"].handle = key
        /\ cmd'["tx"].addr = addresses[i].handle
    BY <1>1, <2>2, SendTyped, IssueTyped DEF Senders
  <2>4. AddrHeld(addresses[i].handle, Addr(m))
    BY DEF AddrsRight
  <2>5. AddrsRight'
    BY <1>2, <1>3 DEF AddrsRight
  <2> QED BY <1>1, <1>2, <2>3, <2>4, <2>5 DEF HandRight
<1>4. CASE /\ cached = {} /\ Len(addresses) >= MaxAddresses
           /\ Issue("tx", Delete("addr_del", addresses[1].handle))
           /\ addresses' = Tail(addresses)
  <2>1. Len(addresses) >= 1 /\ addresses # <<>> /\ 1 \in DOMAIN addresses
    BY <1>1, <1>4, TransmissionAssumption
  <2>2. /\ pc'["tx"] = "clear" /\ cmd'["tx"].op = "addr_del"
        /\ cmd'["tx"].handle = addresses[1].handle
    BY <1>1, <1>4, <2>1, CmdTyped, IssueTyped DEF Senders
  <2>3. \A i \in DOMAIN addresses' :
          i \in 1..Len(addresses') /\ i + 1 \in DOMAIN addresses /\ addresses'[i] = addresses[i + 1]
    BY <1>1, <1>4, <2>1, AfterTail
  <2>4. \A i \in DOMAIN addresses' : i + 1 # 1
    BY <2>3
  <2>5. AddrsRight'
    <3>1. ASSUME NEW i \in DOMAIN addresses' PROVE AddrHeld(addresses[i].handle, addresses[i].addr)'
      BY <1>2, <2>3 DEF AddrsRight
    <3>2. ASSUME NEW i \in DOMAIN addresses', NEW j \in DOMAIN addresses',
                 addresses'[i].addr = addresses'[j].addr
          PROVE  i = j
      <4>1. i + 1 = j + 1
        BY <2>3, <3>2 DEF AddrsRight
      <4> QED BY <2>3, <4>1
    <3> QED BY <3>1, <3>2 DEF AddrsRight
  <2>6. \A i \in DOMAIN addresses' : addresses'[i].handle # addresses[1].handle
    BY <2>1, <2>3, <2>4 DEF AddrsRight, AddrHeld
  <2>7. \A i \in DOMAIN addresses' : addresses'[i].addr # Addr(m)
    BY <1>4, <2>3
  <2> QED BY <1>1, <1>2, <2>2, <2>5, <2>6, <2>7 DEF HandRight
<1>5. CASE /\ cached = {} /\ Len(addresses) < MaxAddresses
           /\ Issue("tx", Add("addr_add", Addr(m)))
           /\ UNCHANGED addresses
  <2>a. /\ Add("addr_add", Addr(m)) \in Commands
        /\ Add("addr_add", Addr(m)).op = "addr_add" /\ Add("addr_add", Addr(m)).what = Addr(m)
    BY <1>1, AddTyped
  <2>1. /\ pc'["tx"] = "clear" /\ cmd'["tx"].op = "addr_add" /\ cmd'["tx"].what = Addr(m)
    BY <1>1, <1>5, <2>a, IssueTyped DEF Senders
  <2>2. AddrsRight'
    BY <1>2, <1>5 DEF AddrsRight
  <2> QED BY <1>1, <1>2, <1>5, <2>1, <2>2 DEF HandRight
<1> QED BY <1>3, <1>4, <1>5 DEF FindAddress

\* Where what is left was before one was removed.
Was(k, i) == IF k < i THEN k ELSE k + 1

LEMMA AfterRemove ==
  ASSUME NEW S, NEW s \in Seq(S), NEW i \in DOMAIN s
  PROVE  /\ \A k \in DOMAIN RemoveAt(s, i) :
              /\ Was(k, i) \in DOMAIN s /\ Was(k, i) # i
              /\ RemoveAt(s, i)[k] = s[Was(k, i)]
         /\ \A k, j \in DOMAIN RemoveAt(s, i) : Was(k, i) = Was(j, i) => k = j
         /\ Len(RemoveAt(s, i)) = Len(s) - 1
<1>1. /\ RemoveAt(s, i) \in Seq(S)
      /\ Len(RemoveAt(s, i)) = Len(s) - 1
      /\ \A k \in 1..(i - 1) : RemoveAt(s, i)[k] = s[k]
      /\ \A k \in i..(Len(s) - 1) : RemoveAt(s, i)[k] = s[k + 1]
  BY RemoveAtTyped
<1>2. DOMAIN RemoveAt(s, i) = 1..(Len(s) - 1) /\ Len(s) \in Nat /\ i \in 1..Len(s)
  BY <1>1
<1>3. ASSUME NEW k \in 1..(Len(s) - 1)
      PROVE  /\ Was(k, i) \in 1..Len(s) /\ Was(k, i) # i
             /\ RemoveAt(s, i)[k] = s[Was(k, i)]
  <2>1. CASE k < i
    BY <1>1, <1>2, <2>1 DEF Was
  <2>2. CASE ~(k < i)
    <3>1. k \in i..(Len(s) - 1)
      BY <1>2, <2>2
    <3> QED BY <1>1, <1>2, <2>2, <3>1 DEF Was
  <2> QED BY <2>1, <2>2
<1>4. ASSUME NEW k \in 1..(Len(s) - 1), NEW j \in 1..(Len(s) - 1), Was(k, i) = Was(j, i)
      PROVE  k = j
  BY <1>2, <1>4 DEF Was
<1> QED BY <1>1, <1>2, <1>3, <1>4

LEMMA DropRight ==
  ASSUME Typed, KeysRight, NEW i \in DOMAIN devkeys, DropDevkey(i), UNCHANGED dev,
         NEW a, \A j \in DOMAIN devkeysAddr : devkeysAddr[j] = a => j = i
  PROVE  /\ KeysRight'
         /\ \A j \in DOMAIN devkeysAddr' : devkeysAddr'[j] # a
         /\ \A j \in DOMAIN devkeys' : devkeys'[j].handle # devkeys[i].handle
         /\ pc'["tx"] = "clear" /\ cmd'["tx"].op = "devkey_del"
         /\ cmd'["tx"].handle = devkeys[i].handle
<1>1. /\ devkeys \in Seq(KeyEntry) /\ devkeysAddr \in Seq(Addrs)
      /\ Len(devkeys) = Len(devkeysAddr) /\ Shape /\ devkeys[i].handle \in Handles
  BY ElementsTyped DEF Typed, Shape, Places
<1>2. /\ i \in DOMAIN devkeysAddr
      /\ devkeys' = RemoveAt(devkeys, i) /\ devkeysAddr' = RemoveAt(devkeysAddr, i)
  BY <1>1 DEF DropDevkey
<1>3. \A h, what : KeyHeld(h, what)' <=> KeyHeld(h, what)
  BY DEF KeyHeld
<1>4. \A k \in DOMAIN devkeys' :
        Was(k, i) \in DOMAIN devkeys /\ Was(k, i) # i /\ devkeys'[k] = devkeys[Was(k, i)]
  BY <1>1, <1>2, AfterRemove
<1>5. /\ \A k \in DOMAIN devkeysAddr' :
           /\ Was(k, i) \in DOMAIN devkeysAddr /\ Was(k, i) # i
           /\ devkeysAddr'[k] = devkeysAddr[Was(k, i)]
      /\ \A k, j \in DOMAIN devkeysAddr' : Was(k, i) = Was(j, i) => k = j
  BY <1>1, <1>2, AfterRemove
<1>6. DOMAIN devkeys' = DOMAIN devkeysAddr'
  <2>1. /\ RemoveAt(devkeys, i) \in Seq(KeyEntry) /\ RemoveAt(devkeysAddr, i) \in Seq(Addrs)
        /\ Len(RemoveAt(devkeys, i)) = Len(RemoveAt(devkeysAddr, i))
    BY <1>1, <1>2, RemoveAtTyped
  <2> QED BY <1>2, <2>1
<1>7. KeysRight'
  <2>1. ASSUME NEW k \in DOMAIN devkeys'
        PROVE  /\ KeyHeld(devkeys[k].handle, devkeys[k].key)'
               /\ devkeysAddr'[k] = AddrOf[devkeys'[k].key]
    BY <1>3, <1>4, <1>5, <1>6 DEF KeysRight
  <2>2. ASSUME NEW k \in DOMAIN devkeysAddr', NEW j \in DOMAIN devkeysAddr',
               devkeysAddr'[k] = devkeysAddr'[j]
        PROVE  k = j
    BY <1>5, <2>2 DEF KeysRight
  <2> QED BY <2>1, <2>2 DEF KeysRight
<1>8. \A j \in DOMAIN devkeys' : devkeys'[j].handle # devkeys[i].handle
  <2> SUFFICES ASSUME NEW j \in DOMAIN devkeys', devkeys'[j].handle = devkeys[i].handle
               PROVE  FALSE
    OBVIOUS
  <2>1. devkeys[Was(j, i)].key = devkeys[i].key
    BY <1>4 DEF KeysRight, KeyHeld
  <2>2. devkeysAddr[Was(j, i)] = devkeysAddr[i]
    BY <1>4, <2>1 DEF KeysRight
  <2> QED BY <1>2, <1>4, <1>5, <1>6, <2>2 DEF KeysRight
<1>9. \A j \in DOMAIN devkeysAddr' : devkeysAddr'[j] # a
  BY <1>5
<1>10. /\ pc'["tx"] = "clear" /\ cmd'["tx"].op = "devkey_del"
       /\ cmd'["tx"].handle = devkeys[i].handle
  BY <1>1, CmdTyped, IssueTyped DEF DropDevkey, Senders
<1> QED BY <1>7, <1>8, <1>9, <1>10

-----------------------------------------------------------------------------
(* The transmission thread between two commands. *)

\* It holds the handles it needs, and waits for no answer.
LEMMA RightAgain ==
  ASSUME Typed', Exchange', Right, Fewer, quiet, UNCHANGED <<dev, air>>,
         AppRight', KeysRight', AddrsRight',
         pc'["tx"] \in Sending => pc'["tx"] = "clear" /\ HandRight(cmd["tx"], tx.msg, tx.key)'
  PROVE  Right'
<1> SUFFICES ASSUME quiet' PROVE Right'
  BY DEF Right
<1>1. \A h, what : KeyHeld(h, what)' <=> KeyHeld(h, what)
  BY DEF KeyHeld
<1>2. AirRight'
  BY DEF Right, AirRight
<1>3. ASSUME NEW e \in Events, Answer(e)', HasHandle(e)
      PROVE  HandleRight(e)'
  <2>1. HandleRight(e)
    BY <1>3 DEF Fewer, Right
  <2>2. PICK t \in Senders : pc'[t] \in {"wait", "take"} /\ e.op = cmd'[t].op
    BY <1>3, AnswerOfNext DEF AnswersOwned, AnswerHas
  <2>3. t # "tx"
    BY <2>2 DEF Sending
  <2>4. e.op \notin {"devkey_add", "addr_add"}
    BY <2>2, <2>3, WhoSendsNext DEF OpsRight, OpsOf, Sending
  <2> QED BY <1>1, <2>1, <2>4 DEF HandleRight
<1> QED BY <1>2, <1>3 DEF Right, HasHandle

LEMMA RightAcquire ==
  ASSUME Typed, Typed', Once, Exchange, Right, Acquire
  PROVE  Right'
<1> DEFINE m == tx.msg
<1> SUFFICES ASSUME quiet' PROVE Right'
  BY DEF Right
<1>1. /\ Exchange' /\ Fewer
      /\ quiet /\ pc["tx"] = "permit" /\ UNCHANGED <<dev, air, appkey>>
      /\ AppRight /\ KeysRight /\ AddrsRight
  BY ExchangeTx DEF Acquire, device, Right
<1>2. pc["cfg"] = "done" /\ appkey # NoHandle /\ KeyHeld(appkey, "app")
  BY <1>1 DEF Once, AppRight
<1>3. /\ Shape /\ m \in Messages /\ m # NoMsg
      /\ devkeys \in Seq(KeyEntry) /\ devkeysAddr \in Seq(Addrs) /\ Len(devkeys) = Len(devkeysAddr)
      /\ Dst[m] \in Keys \/ Dst[m] \in Addrs
  BY <1>1, AddrTyped, TransmissionAssumption DEF Typed, Shape, Places
<1>4. \A h, what : KeyHeld(h, what)' <=> KeyHeld(h, what)
  BY <1>1 DEF KeyHeld
<1>5. \A h, what : AddrHeld(h, what)' <=> AddrHeld(h, what)
  BY <1>1 DEF AddrHeld
<1>6. pc'["cfg"] = "done" /\ AppRight'
  <2>1. pc'["cfg"] = pc["cfg"]
    <3>1. \E c, place : Die("tx") \/ Issue("tx", c) \/ Goto("tx", place)
      BY AcquireTyped
    <3> QED BY <1>3, <3>1 DEF Die, Issue, Goto, Shape, Threads, Senders
  <2> QED BY <1>1, <1>2, <1>4, <2>1 DEF AppRight, Sending
<1> DEFINE Ready == /\ KeysRight' /\ AddrsRight' /\ pc'["tx"] = "clear"
                    /\ HandRight(cmd["tx"], tx.msg, tx.key)'
<1>7. CASE Dst[m] \notin Keys
  <2>1. FindAddress(m, appkey) /\ UNCHANGED <<devkeys, devkeysAddr, tx>>
    BY <1>7 DEF Acquire
  <2>2. KeyFor(m) = "app"
    BY <1>7 DEF KeyFor
  <2>3. tx'.msg = m /\ (Dst[m] \in Keys => tx'.key = appkey)
    BY <1>7, <2>1
  <2>4. KeysRight'
    BY <1>1, <1>4, <2>1 DEF KeysRight
  <2> QED BY <1>1, <1>2, <1>3, <1>6, <2>1, <2>2, <2>3, <2>4, FindRight, RightAgain
<1>8. CASE Dst[m] \in Keys
  <2> SUFFICES Ready
    BY <1>1, <1>6, RightAgain
  <2>0. FindDevkey(m) /\ AddrOf[Dst[m]] \in Addrs
    BY <1>8, TransmissionAssumption DEF Acquire
  <2>1. CASE \E i \in CachedKey(m) :
               /\ tx' = [tx EXCEPT !.key = devkeys[i].handle]
               /\ FindAddress(m, devkeys[i].handle)
               /\ UNCHANGED <<devkeys, devkeysAddr>>
    <3>1. PICK i \in DOMAIN devkeys :
            /\ devkeys[i].key = Dst[m]
            /\ tx' = [tx EXCEPT !.key = devkeys[i].handle]
            /\ FindAddress(m, devkeys[i].handle)
      BY <2>1 DEF CachedKey
    <3>2. KeyHeld(devkeys[i].handle, KeyFor(m))
      BY <1>1, <1>8, <3>1 DEF KeysRight, KeyFor
    <3>3. tx'.msg = m /\ tx'.key = devkeys[i].handle
      BY <1>3, <3>1 DEF Shape
    <3>4. KeysRight'
      BY <1>1, <1>4, <2>1 DEF KeysRight
    <3> QED BY <1>1, <1>3, <3>1, <3>2, <3>3, <3>4, FindRight
  <2>2. CASE \E i \in AddrIndex(AddrOf[Dst[m]]) : DropDevkey(i) /\ UNCHANGED <<tx, addresses>>
    <3>1. PICK i \in DOMAIN devkeysAddr : devkeysAddr[i] = AddrOf[Dst[m]] /\ DropDevkey(i)
      BY <2>2 DEF AddrIndex
    <3>2. i \in DOMAIN devkeys
      BY <1>3, <3>1
    <3>3. \A j \in DOMAIN devkeysAddr : devkeysAddr[j] = AddrOf[Dst[m]] => j = i
      BY <1>1, <3>1 DEF KeysRight
    <3>4. /\ KeysRight'
          /\ \A j \in DOMAIN devkeysAddr' : devkeysAddr'[j] # AddrOf[Dst[m]]
          /\ \A j \in DOMAIN devkeys' : devkeys'[j].handle # devkeys[i].handle
          /\ pc'["tx"] = "clear" /\ cmd'["tx"].op = "devkey_del"
          /\ cmd'["tx"].handle = devkeys[i].handle
      BY <1>1, <3>1, <3>2, <3>3, DropRight
    <3>5. AddrsRight'
      BY <1>1, <1>5, <2>2 DEF AddrsRight
    <3> QED BY <2>2, <3>4, <3>5 DEF HandRight
  <2>3. CASE /\ AddrIndex(AddrOf[Dst[m]]) = {} /\ Len(devkeys) >= MaxDevkeys
             /\ DropDevkey(1) /\ UNCHANGED <<tx, addresses>>
    <3>1. 1 \in DOMAIN devkeys
      BY <1>3, <2>3, TransmissionAssumption
    <3>2. \A j \in DOMAIN devkeysAddr : devkeysAddr[j] = AddrOf[Dst[m]] => j = 1
      BY <2>3 DEF AddrIndex
    <3>3. /\ KeysRight'
          /\ \A j \in DOMAIN devkeysAddr' : devkeysAddr'[j] # AddrOf[Dst[m]]
          /\ \A j \in DOMAIN devkeys' : devkeys'[j].handle # devkeys[1].handle
          /\ pc'["tx"] = "clear" /\ cmd'["tx"].op = "devkey_del"
          /\ cmd'["tx"].handle = devkeys[1].handle
      BY <1>1, <2>3, <3>1, <3>2, DropRight
    <3>4. AddrsRight'
      BY <1>1, <1>5, <2>3 DEF AddrsRight
    <3> QED BY <2>3, <3>3, <3>4 DEF HandRight
  <2>4. CASE /\ AddrIndex(AddrOf[Dst[m]]) = {} /\ Issue("tx", Add("devkey_add", Dst[m]))
             /\ UNCHANGED <<devkeys, devkeysAddr, tx, addresses>>
    <3>1. /\ Add("devkey_add", Dst[m]) \in Commands
          /\ Add("devkey_add", Dst[m]).op = "devkey_add"
          /\ Add("devkey_add", Dst[m]).what = Dst[m]
      BY <1>8, AddTyped
    <3>2. pc'["tx"] = "clear" /\ cmd'["tx"] = Add("devkey_add", Dst[m])
      BY <1>3, <2>4, <3>1, IssueTyped DEF Senders
    <3>3. KeysRight' /\ AddrsRight'
      BY <1>1, <1>4, <1>5, <2>4 DEF KeysRight, AddrsRight
    <3>4. \A j \in DOMAIN devkeysAddr : devkeysAddr[j] # AddrOf[Dst[m]]
      BY <2>4 DEF AddrIndex
    <3> QED BY <2>4, <3>1, <3>2, <3>3, <3>4 DEF HandRight
  <2> QED BY <2>0, <2>1, <2>2, <2>3, <2>4 DEF FindDevkey
<1> QED BY <1>7, <1>8

LEMMA RightTakeTx ==
  ASSUME Typed, Typed', Once, Exchange, Right, TakeTx
  PROVE  Right'
<1> DEFINE m == tx.msg
           e == slot.response
           h == e.handle
<1> SUFFICES ASSUME quiet' PROVE Right'
  BY DEF Right
<1>1. /\ Exchange' /\ Fewer
      /\ quiet /\ pc["tx"] = "take" /\ UNCHANGED <<dev, air, appkey>>
      /\ AppRight /\ KeysRight /\ AddrsRight /\ HandRight(cmd["tx"], m, tx.key)
  BY ExchangeTx DEF TakeTx, device, Right, Sending
<1>2. pc["cfg"] = "done" /\ appkey # NoHandle /\ KeyHeld(appkey, "app")
  BY <1>1 DEF Once, AppRight
<1>3. /\ Shape /\ m \in Messages /\ m # NoMsg /\ Addr(m) \in Addrs /\ NoHandle \notin Nat
      /\ devkeys \in Seq(KeyEntry) /\ devkeysAddr \in Seq(Addrs) /\ Len(devkeys) = Len(devkeysAddr)
      /\ addresses \in Seq(AddrEntry) /\ h \in Handles
      /\ cmd["tx"].op \in {"devkey_del", "devkey_add"} => Dst[m] \in Keys
  BY <1>1, AddrTyped, TransmissionAssumption DEF Typed, Shape, Places, Sending, Events, Event
<1>4. \A x, what : KeyHeld(x, what)' <=> KeyHeld(x, what)
  BY <1>1 DEF KeyHeld
<1>5. \A x, what : AddrHeld(x, what)' <=> AddrHeld(x, what)
  BY <1>1 DEF AddrHeld
<1>6. AppRight'
  <2>1. pc'["cfg"] = pc["cfg"]
    <3>1. \E c, place : Die("tx") \/ Issue("tx", c) \/ Goto("tx", place)
      BY TakeTxTyped
    <3> QED BY <1>3, <3>1 DEF Die, Issue, Goto, Shape, Threads, Senders
  <2> QED BY <1>1, <1>2, <1>4, <2>1 DEF AppRight, Sending
<1>7. e.op = cmd["tx"].op /\ (HasHandle(e) => HandleRight(e))
  <2>1. InSlot /\ Sees("tx")
    BY <1>1 DEF InSlot, Sees, Senders
  <2>2. e \in Events /\ Answer(e)
    BY <1>3, <2>1 DEF Answer, Shape
  <2> QED BY <1>1, <2>1, <2>2 DEF Exchange, Right, Senders
<1> DEFINE Ready == /\ KeysRight' /\ AddrsRight'
                    /\ pc'["tx"] \in Sending =>
                         pc'["tx"] = "clear" /\ HandRight(cmd["tx"], tx.msg, tx.key)'
<1> SUFFICES Ready
  BY <1>1, <1>6, RightAgain
<1>8. ASSUME UNCHANGED <<devkeys, devkeysAddr>> PROVE KeysRight'
  BY <1>1, <1>4, <1>8 DEF KeysRight
<1>9. ASSUME UNCHANGED addresses PROVE AddrsRight'
  BY <1>1, <1>5, <1>9 DEF AddrsRight
<1>10. CASE cmd["tx"].op = "devkey_del"
  <2>1. /\ Issue("tx", Add("devkey_add", Dst[m]))
        /\ UNCHANGED <<devkeys, devkeysAddr, addresses, tx>>
    BY <1>10 DEF TakeTx
  <2>2. /\ Add("devkey_add", Dst[m]) \in Commands
        /\ Add("devkey_add", Dst[m]).op = "devkey_add"
        /\ Add("devkey_add", Dst[m]).what = Dst[m]
    BY <1>3, <1>10, AddTyped
  <2>3. pc'["tx"] = "clear" /\ cmd'["tx"] = Add("devkey_add", Dst[m])
    BY <1>3, <2>1, <2>2, IssueTyped DEF Senders
  <2>4. HandRight(cmd["tx"], tx.msg, tx.key)'
    BY <1>1, <1>10, <2>1, <2>2, <2>3 DEF HandRight
  <2> QED BY <1>8, <1>9, <2>1, <2>3, <2>4
<1>11. CASE cmd["tx"].op = "devkey_add" /\ HasHandle(e)
  <2>1. /\ devkeys' = Append(devkeys, [key |-> Dst[m], handle |-> h])
        /\ devkeysAddr' = Append(devkeysAddr, Addr(m))
        /\ tx' = [tx EXCEPT !.key = h]
        /\ FindAddress(m, h)
    BY <1>11 DEF TakeTx
  <2>2. Dst[m] \in Keys /\ Addr(m) = AddrOf[Dst[m]] /\ KeyFor(m) = Dst[m]
    BY <1>3, <1>11 DEF Addr, KeyFor
  <2>3. KeyHeld(h, Dst[m])
    BY <1>7, <1>11 DEF HandleRight
  <2>4. \A j \in DOMAIN devkeysAddr : devkeysAddr[j] # Addr(m)
    BY <1>1, <1>11, <2>2 DEF HandRight
  <2>5. [key |-> Dst[m], handle |-> h] \in KeyEntry
    BY <1>3, <2>2 DEF KeyEntry
  <2>6. \A i \in DOMAIN devkeys' :
          \/ i \in DOMAIN devkeys /\ devkeys'[i] = devkeys[i]
          \/ i = Len(devkeys) + 1 /\ devkeys'[i] = [key |-> Dst[m], handle |-> h]
    BY <1>3, <2>1, <2>5, AfterAppend
  <2>7. /\ \A i \in DOMAIN devkeysAddr' :
             \/ i \in DOMAIN devkeysAddr /\ devkeysAddr'[i] = devkeysAddr[i]
             \/ i = Len(devkeysAddr) + 1 /\ devkeysAddr'[i] = Addr(m)
        /\ Len(devkeys) + 1 \in DOMAIN devkeysAddr'
        /\ \A i \in DOMAIN devkeysAddr : i # Len(devkeys) + 1
        /\ \A i \in DOMAIN devkeys : i \in DOMAIN devkeysAddr'
    BY <1>3, <2>1, AfterAppend
  <2>8. KeysRight'
    <3>1. ASSUME NEW i \in DOMAIN devkeys'
          PROVE  /\ KeyHeld(devkeys[i].handle, devkeys[i].key)'
                 /\ devkeysAddr'[i] = AddrOf[devkeys'[i].key]
      <4>1. CASE i \in DOMAIN devkeys /\ devkeys'[i] = devkeys[i]
        <5>1. i \in DOMAIN devkeysAddr /\ i # Len(devkeys) + 1
          BY <1>3, <4>1
        <5>2. devkeysAddr'[i] = devkeysAddr[i]
          BY <1>3, <4>1, <5>1, <2>7
        <5> QED BY <1>1, <1>4, <4>1, <5>2 DEF KeysRight
      <4>2. CASE i = Len(devkeys) + 1 /\ devkeys'[i] = [key |-> Dst[m], handle |-> h]
        <5>1. devkeysAddr'[i] = Addr(m)
          BY <2>7, <4>2
        <5>2. devkeys'[i].key = Dst[m] /\ devkeys'[i].handle = h
          BY <4>2
        <5> QED BY <1>4, <2>2, <2>3, <5>1, <5>2
      <4> QED BY <2>6, <4>1, <4>2
    <3>2. ASSUME NEW i \in DOMAIN devkeysAddr', NEW j \in DOMAIN devkeysAddr',
                 devkeysAddr'[i] = devkeysAddr'[j]
          PROVE  i = j
      BY <1>1, <2>4, <2>7, <3>2 DEF KeysRight
    <3> QED BY <3>1, <3>2 DEF KeysRight
  <2>9. tx'.msg = m /\ tx'.key = h
    BY <1>3, <2>1 DEF Shape
  <2> QED BY <1>1, <1>3, <2>1, <2>2, <2>3, <2>8, <2>9, FindRight
<1>12. CASE cmd["tx"].op = "addr_del"
  <2>1. /\ Issue("tx", Add("addr_add", Addr(m)))
        /\ UNCHANGED <<devkeys, devkeysAddr, addresses, tx>>
    BY <1>12 DEF TakeTx
  <2>2. /\ Add("addr_add", Addr(m)) \in Commands
        /\ Add("addr_add", Addr(m)).op = "addr_add"
        /\ Add("addr_add", Addr(m)).what = Addr(m)
    BY <1>3, AddTyped
  <2>3. pc'["tx"] = "clear" /\ cmd'["tx"] = Add("addr_add", Addr(m))
    BY <1>3, <2>1, <2>2, IssueTyped DEF Senders
  <2>4. HandRight(cmd["tx"], tx.msg, tx.key)'
    BY <1>1, <1>4, <1>12, <2>1, <2>2, <2>3 DEF HandRight
  <2> QED BY <1>8, <1>9, <2>1, <2>3, <2>4
<1>13. CASE cmd["tx"].op = "addr_add" /\ HasHandle(e)
  <2> DEFINE key == IF Dst[m] \in Keys THEN tx.key ELSE appkey
  <2>1. /\ addresses' = Append(addresses, [addr |-> Addr(m), handle |-> h])
        /\ SendPacket(m, key, h)
        /\ UNCHANGED <<devkeys, devkeysAddr, tx>>
    BY <1>13 DEF TakeTx
  <2>2. KeyHeld(key, KeyFor(m)) /\ AddrHeld(h, Addr(m))
    BY <1>1, <1>2, <1>7, <1>13 DEF HandRight, HandleRight, KeyFor
  <2>3. key \in Handles /\ key # NoHandle
    BY <2>2, TransmissionAssumption DEF KeyHeld, Handles
  <2>4. /\ PacketSend(key, h, m) \in Commands
        /\ PacketSend(key, h, m).op = "send"
        /\ PacketSend(key, h, m).handle = key
        /\ PacketSend(key, h, m).addr = h
    BY <1>3, <2>3, SendTyped
  <2>5. pc'["tx"] = "clear" /\ cmd'["tx"] = PacketSend(key, h, m)
    BY <1>3, <2>1, <2>3, <2>4, IssueTyped DEF SendPacket, Senders
  <2>6. Dst[m] \in Keys => KeyHeld(tx.key, Dst[m])
    BY <2>2 DEF KeyFor
  <2>7. HandRight(cmd["tx"], tx.msg, tx.key)'
    BY <1>4, <1>5, <2>1, <2>2, <2>4, <2>5, <2>6 DEF HandRight
  <2>8. [addr |-> Addr(m), handle |-> h] \in AddrEntry
    BY <1>3 DEF AddrEntry
  <2>9. \A i \in DOMAIN addresses' :
          \/ i \in DOMAIN addresses /\ addresses'[i] = addresses[i]
          \/ i = Len(addresses) + 1 /\ addresses'[i] = [addr |-> Addr(m), handle |-> h]
    BY <1>3, <2>1, <2>8, AfterAppend
  <2>10. \A i \in DOMAIN addresses : addresses[i].addr # Addr(m)
    BY <1>1, <1>13 DEF HandRight
  <2>11. AddrsRight'
    <3>1. ASSUME NEW i \in DOMAIN addresses' PROVE AddrHeld(addresses[i].handle, addresses[i].addr)'
      BY <1>1, <1>5, <2>2, <2>9 DEF AddrsRight
    <3>2. ASSUME NEW i \in DOMAIN addresses', NEW j \in DOMAIN addresses',
                 addresses'[i].addr = addresses'[j].addr
          PROVE  i = j
      BY <1>1, <2>9, <2>10, <3>2 DEF AddrsRight
    <3> QED BY <3>1, <3>2 DEF AddrsRight
  <2> QED BY <1>8, <2>1, <2>5, <2>7, <2>11
<1>14. CASE cmd["tx"].op \in {"devkey_add", "addr_add"} /\ ~HasHandle(e)
  <2>1. Die("tx") /\ UNCHANGED <<devkeys, devkeysAddr, addresses>>
    BY <1>14 DEF TakeTx
  <2>2. pc'["tx"] = "dead"
    BY <1>3, <2>1, DieTyped DEF Senders
  <2> QED BY <1>8, <1>9, <2>1, <2>2 DEF Sending
<1>15. CASE cmd["tx"].op = "send"
  <2>1. Goto("tx", "get") /\ UNCHANGED <<devkeys, devkeysAddr, addresses>>
    BY <1>15 DEF TakeTx
  <2>2. pc'["tx"] = "get"
    BY <1>3, <2>1 DEF Goto, Shape, Threads, Senders
  <2> QED BY <1>8, <1>9, <2>1, <2>2 DEF Sending
<1>16. cmd["tx"].op \in TxOps
  BY <1>1 DEF Typed, Places, Sending
<1> QED BY <1>10, <1>11, <1>12, <1>13, <1>14, <1>15, <1>16 DEF TxOps

-----------------------------------------------------------------------------
(* The configuration of the device. *)

LEMMA RightTakeCfg ==
  ASSUME Typed, Typed', Once, Exchange, Right, TakeCfg
  PROVE  Right'
<1> DEFINE i == cmd["cfg"].step
           e == slot.response
<1> SUFFICES ASSUME quiet' PROVE Right'
  BY DEF Right
<1>1. /\ Exchange' /\ Fewer
      /\ quiet /\ pc["cfg"] = "take" /\ pc["cfg"] \in Sending /\ pc["cfg"] # "done"
      /\ UNCHANGED <<dev, air, tx, devkeys, devkeysAddr, addresses>>
      /\ AppRight /\ KeysRight /\ AddrsRight /\ AirRight
  BY ExchangeTakeCfg DEF TakeCfg, device, txState, Right, Sending
<1>2. \A x, what : KeyHeld(x, what)' <=> KeyHeld(x, what)
  BY <1>1 DEF KeyHeld
<1>3. \A x, what : AddrHeld(x, what)' <=> AddrHeld(x, what)
  BY <1>1 DEF AddrHeld
<1>4. /\ i \in 1..7 /\ cmd["cfg"].op = ConfigOps[i] /\ Shape /\ NoHandle \notin Nat
      /\ KeyHandles \subseteq Nat /\ devkeys = <<>> /\ addresses = <<>>
      /\ (i <= 5 <=> appkey = NoHandle)
  BY <1>1, TransmissionAssumption DEF Typed, Places, AppRight
<1>5. /\ pc["tx"] \in {"get", "low", "ended"} /\ pc'["tx"] = pc["tx"]
      /\ \E c : Die("cfg") \/ Issue("cfg", c) \/ (Goto("cfg", "done") /\ UNCHANGED cmd)
  BY <1>1, <1>4 DEF Once, TakeCfg, Die, Issue, Goto, Shape, Threads, Senders
<1>6. pc'["cfg"] \in {"dead", "done", "clear"}
  BY <1>4, <1>5 DEF Die, Issue, Goto, Shape, Threads, Senders
<1>7. e.op = ConfigOps[i] /\ (HasHandle(e) => HandleRight(e))
  <2>1. InSlot /\ Sees("cfg")
    BY <1>1 DEF InSlot, Sees, Senders
  <2>2. e \in Events /\ Answer(e)
    BY <1>4, <2>1 DEF Answer, Shape
  <2> QED BY <1>1, <1>4, <2>1, <2>2 DEF Exchange, Right, Senders
<1>8. \A f \in Events : ~Answer(f)'
  <2> SUFFICES ASSUME NEW f \in Events, Answer(f)' PROVE FALSE
    OBVIOUS
  <2>1. PICK t \in Senders : pc'[t] \in {"wait", "take"}
    BY <1>1, AnswerOfNext DEF AnswersOwned, AnswerHas
  <2> QED BY <1>5, <1>6, <2>1 DEF Senders
<1>9. KeysRight' /\ AddrsRight' /\ AirRight'
  BY <1>1, <1>2, <1>3 DEF KeysRight, AddrsRight, AirRight
<1> SUFFICES AppRight'
  BY <1>5, <1>8, <1>9 DEF Right, Sending
<1>10. CASE Die("cfg") /\ UNCHANGED appkey
  <2>1. pc'["cfg"] = "dead"
    BY <1>4, <1>10, DieTyped DEF Senders
  <2> QED BY <1>1, <1>2, <1>10, <2>1 DEF AppRight, Sending
<1>11. CASE /\ i < 4 \/ HasHandle(e)
            /\ IF ConfigOps[i] = "appkey_add" THEN appkey' = e.handle ELSE UNCHANGED appkey
            /\ IF i < Len(ConfigOps) THEN Issue("cfg", Configure(i + 1))
                                     ELSE Goto("cfg", "done") /\ UNCHANGED cmd
  <2>1. /\ ConfigOps[5] = "appkey_add" /\ ConfigOps[1] = "state_clear"
        /\ ConfigOps[2] = "unicast" /\ ConfigOps[3] = "net_state" /\ ConfigOps[4] = "subnet"
        /\ ConfigOps[6] = "subscribe" /\ ConfigOps[7] = "subscribe" /\ Len(ConfigOps) = 7
    BY DEF ConfigOps
  <2>2. i \in {1, 2, 3, 4, 5, 6, 7}
    BY <1>4
  <2>3. ConfigOps[i] = "appkey_add" <=> i = 5
    BY <2>1, <2>2
  <2>4. appkey' # NoHandle => KeyHeld(appkey, "app")'
    <3>1. CASE i = 5
      BY <1>2, <1>7, <1>11, <2>3, <3>1 DEF HandleRight
    <3>2. CASE i # 5
      BY <1>1, <1>2, <1>11, <2>3, <3>2 DEF AppRight
    <3> QED BY <3>1, <3>2
  <2>5. appkey' = NoHandle <=> i < 5
    <3>1. CASE i = 5
      BY <1>11, <2>3, <3>1 DEF HasHandle
    <3>2. CASE i # 5
      <4>1. i <= 5 <=> i < 5
        BY <1>4, <3>2
      <4> QED BY <1>4, <1>11, <2>3, <3>2, <4>1
    <3> QED BY <3>1, <3>2
  <2>6. CASE i < 7
    <3>1. Configure(i + 1) \in Commands /\ Configure(i + 1).step = i + 1
      BY <1>4, <2>6, ConfigureTyped
    <3>2. pc'["cfg"] = "clear" /\ cmd'["cfg"].step = i + 1
      BY <1>4, <1>11, <2>1, <2>6, <3>1, IssueTyped DEF Senders
    <3>3. i + 1 <= 5 <=> i < 5
      BY <1>4
    <3> QED BY <1>1, <1>4, <2>4, <2>5, <3>2, <3>3 DEF AppRight
  <2>7. CASE ~(i < 7)
    <3>1. pc'["cfg"] = "done"
      BY <1>4, <1>11, <2>1, <2>7 DEF Goto, Shape, Threads, Senders
    <3>2. ~(i < 5)
      BY <1>4, <2>7
    <3> QED BY <2>4, <2>5, <3>1, <3>2 DEF AppRight, Sending
  <2> QED BY <2>6, <2>7
<1> QED BY <1>10, <1>11 DEF TakeCfg

-----------------------------------------------------------------------------
(* The device. *)

\* A response for the configuration: the caches are empty.
LEMMA RightForCfg ==
  ASSUME Typed, Typed', Once, Exchange', Right, quiet, UNCHANGED <<pc, cmd, tx, caches, quiet>>,
         pc["cfg"] = "wait",
         NEW e \in Events, e.op = cmd["cfg"].op, Makes(cmd["cfg"], e),
         \A f \in Events : Answer(f)' => f = e
  PROVE  Right'
<1> DEFINE c == cmd["cfg"]
<1>1. /\ AppRight /\ KeysRight /\ AddrsRight /\ AirRight
      /\ UNCHANGED <<devkeys, devkeysAddr, addresses, appkey>>
      /\ pc["cfg"] \in Sending /\ pc["cfg"] # "done"
  BY DEF Right, caches, Sending
<1>2. /\ devkeys = <<>> /\ addresses = <<>> /\ pc["tx"] \in {"get", "low", "ended"}
      /\ c.step <= 5 <=> appkey = NoHandle
      /\ Shape
  BY <1>1 DEF AppRight, Once, Typed
<1>3. /\ c.op \in {"state_clear", "unicast", "net_state", "subnet", "appkey_add", "subscribe"}
      /\ c.op \in {"state_clear", "appkey_add"} => c.step <= 5
  BY <1>1, OpsAre, WhoSends DEF Typed, Places, OpsRight, OpsOf, Senders
<1>4. air' = air /\ AirRight'
  BY <1>1, <1>3 DEF Makes, AirRight
<1>5. KeysRight' /\ AddrsRight'
  BY <1>1, <1>2 DEF KeysRight, AddrsRight
<1>6. appkey # NoHandle => dev'.keys = dev.keys
  BY <1>2, <1>3 DEF Makes
<1>7. appkey # NoHandle => KeyHeld(appkey, "app")'
  BY <1>1, <1>6 DEF AppRight, KeyHeld
<1>8. AppRight'
  BY <1>1, <1>2, <1>7 DEF AppRight
<1>9. HasHandle(e) => HandleRight(e)'
  <2>1. c.op = "appkey_add" /\ HasHandle(e) => KeyHeld(e.handle, "app")'
    BY <1>2 DEF Makes, KeyHeld, Shape, Tables, KeyTable
  <2> QED BY <1>3, <2>1 DEF HandleRight
<1> QED BY <1>2, <1>4, <1>5, <1>8, <1>9 DEF Right, Sending, HasHandle

\* A response for the transmission thread.
LEMMA RightForTx ==
  ASSUME Typed, Typed', Once, Exchange', Right, quiet, UNCHANGED <<pc, cmd, tx, caches, quiet>>,
         pc["tx"] = "wait",
         NEW e \in Events, e.op = cmd["tx"].op, Makes(cmd["tx"], e),
         \A f \in Events : Answer(f)' => f = e
  PROVE  Right'
<1> DEFINE c == cmd["tx"]
           m == tx.msg
<1>1. /\ AppRight /\ KeysRight /\ AddrsRight /\ AirRight /\ HandRight(c, m, tx.key)
      /\ UNCHANGED <<devkeys, devkeysAddr, addresses, appkey>>
      /\ pc["tx"] \in Sending
  BY DEF Right, caches, Sending
<1>2. /\ Shape /\ m \in Messages /\ c.op \in TxOps /\ (c.op = "send" => c.msg = m)
      /\ c.op = "devkey_add" => Dst[m] \in Keys
      /\ dev.keys \in KeyTable /\ dev.addrs \in AddrTable
      /\ KeyFor(m) \in Keys \union {"app"} /\ Addr(m) \in Addrs
  BY <1>1, AddrTyped DEF Typed, Places, Sending, Shape, Tables, KeyFor
<1>3. /\ "free" \notin Keys \union Addrs \union {"app"} /\ "app" \notin Keys
      /\ AirRight \/ c.op = "send"
  BY <1>1, TransmissionAssumption
<1>4. pc["cfg"] = "done" /\ appkey # NoHandle /\ KeyHeld(appkey, "app")
  BY <1>1 DEF Once, AppRight
<1>5. /\ \A i \in DOMAIN devkeys : devkeys[i].key \in Keys /\ KeyHeld(devkeys[i].handle, devkeys[i].key)
      /\ \A i \in DOMAIN addresses :
           addresses[i].addr \in Addrs /\ AddrHeld(addresses[i].handle, addresses[i].addr)
  BY <1>1, <1>2, ElementsTyped DEF KeysRight, AddrsRight
<1> DEFINE Rest == /\ KeyHeld(appkey, "app")'
                   /\ \A i \in DOMAIN devkeys : KeyHeld(devkeys[i].handle, devkeys[i].key)'
                   /\ \A i \in DOMAIN addresses : AddrHeld(addresses[i].handle, addresses[i].addr)'
                   /\ c.op = "send" => KeyHeld(c.handle, KeyFor(m))' /\ AddrHeld(c.addr, Addr(m))'
                   /\ c.op \in {"addr_del", "addr_add", "send"} /\ Dst[m] \in Keys =>
                        KeyHeld(tx.key, Dst[m])'
                   /\ HasHandle(e) => HandleRight(e)'
                   /\ AirRight'
<1>13. ASSUME Rest
       PROVE  Right'
  <2>1. AppRight'
    BY <1>1, <1>4, <1>13 DEF AppRight, Sending
  <2>2. KeysRight' /\ AddrsRight'
    BY <1>1, <1>13 DEF KeysRight, AddrsRight
  <2>3. HandRight(cmd["tx"], tx.msg, tx.key)'
    BY <1>1, <1>13 DEF HandRight
  <2> QED BY <1>13, <2>1, <2>2, <2>3 DEF Right, HasHandle
<1> SUFFICES Rest
  BY <1>13
<1>6. ASSUME dev'.keys = dev.keys
      PROVE  \A h, what : KeyHeld(h, what)' <=> KeyHeld(h, what)
  BY <1>6 DEF KeyHeld
<1>7. ASSUME dev'.addrs = dev.addrs
      PROVE  \A h, what : AddrHeld(h, what)' <=> AddrHeld(h, what)
  BY <1>7 DEF AddrHeld
<1>8. CASE c.op = "devkey_add"
  <2>1. dev'.addrs = dev.addrs /\ AirRight'
    BY <1>1, <1>8 DEF Makes, AirRight
  <2>2. \A h, what : what # "free" /\ KeyHeld(h, what) => KeyHeld(h, what)'
    BY <1>2, <1>8 DEF Makes, KeyHeld, KeyTable
  <2>3. HasHandle(e) => KeyHeld(e.handle, Dst[m])'
    BY <1>1, <1>2, <1>8 DEF Makes, KeyHeld, KeyTable, HandRight
  <2>4. HasHandle(e) => HandleRight(e)'
    BY <1>8, <2>3 DEF HandleRight
  <2>5. KeyHeld(appkey, "app")'
    BY <1>1, <1>3, <1>4, <2>2
  <2>6. \A i \in DOMAIN devkeys : KeyHeld(devkeys[i].handle, devkeys[i].key)'
    BY <1>1, <1>3, <1>5, <2>2
  <2>7. \A i \in DOMAIN addresses : AddrHeld(addresses[i].handle, addresses[i].addr)'
    BY <1>1, <1>5, <1>7, <2>1
  <2>8. Rest
    BY <1>8, <2>1, <2>4, <2>5, <2>6, <2>7
  <2> QED BY <2>8
<1>9. CASE c.op = "devkey_del"
  <2>1. dev'.addrs = dev.addrs /\ AirRight' /\ dev'.keys = Freed(dev.keys, c.handle, Keys)
    BY <1>1, <1>9 DEF Makes, AirRight
  <2>2. \A h, what : h # c.handle \/ what \notin Keys =>
                       (KeyHeld(h, what) => KeyHeld(h, what)')
    BY <1>2, <2>1 DEF KeyHeld, KeyTable, Freed
  <2>3. \A i \in DOMAIN devkeys : KeyHeld(devkeys[i].handle, devkeys[i].key)'
    BY <1>1, <1>5, <1>9, <2>2 DEF HandRight
  <2>4. KeyHeld(appkey, "app")'
    BY <1>1, <1>3, <1>4, <2>2
  <2>5. \A i \in DOMAIN addresses : AddrHeld(addresses[i].handle, addresses[i].addr)'
    BY <1>1, <1>5, <1>7, <2>1
  <2>6. HandleRight(e)'
    BY <1>9 DEF HandleRight
  <2> QED BY <1>9, <2>1, <2>3, <2>4, <2>5, <2>6
<1>10. CASE c.op = "addr_add"
  <2>1. dev'.keys = dev.keys /\ AirRight'
    BY <1>1, <1>10 DEF Makes, AirRight
  <2>2. \A h, what : what # "free" /\ AddrHeld(h, what) => AddrHeld(h, what)'
    BY <1>2, <1>10 DEF Makes, AddrHeld, AddrTable
  <2>3. HasHandle(e) => AddrHeld(e.handle, Addr(m))'
    BY <1>1, <1>2, <1>10 DEF Makes, AddrHeld, AddrTable, HandRight
  <2>4. HasHandle(e) => HandleRight(e)'
    BY <1>10, <2>3 DEF HandleRight, Addr
  <2>5. \A i \in DOMAIN addresses : AddrHeld(addresses[i].handle, addresses[i].addr)'
    BY <1>1, <1>3, <1>5, <2>2
  <2>6. /\ KeyHeld(appkey, "app")'
        /\ \A i \in DOMAIN devkeys : KeyHeld(devkeys[i].handle, devkeys[i].key)'
        /\ Dst[m] \in Keys => KeyHeld(tx.key, Dst[m])'
    BY <1>1, <1>4, <1>5, <1>6, <1>10, <2>1 DEF HandRight
  <2> QED BY <1>10, <2>1, <2>4, <2>5, <2>6
<1>11. CASE c.op = "addr_del"
  <2>1. dev'.keys = dev.keys /\ AirRight' /\ dev'.addrs = Freed(dev.addrs, c.handle, Addrs)
    BY <1>1, <1>11 DEF Makes, AirRight
  <2>2. \A h, what : h # c.handle => (AddrHeld(h, what) => AddrHeld(h, what)')
    BY <1>2, <2>1 DEF AddrHeld, AddrTable, Freed
  <2>3. \A i \in DOMAIN addresses : AddrHeld(addresses[i].handle, addresses[i].addr)'
    BY <1>1, <1>5, <1>11, <2>2 DEF HandRight
  <2>4. HandleRight(e)'
    BY <1>11 DEF HandleRight
  <2>5. /\ KeyHeld(appkey, "app")'
        /\ \A i \in DOMAIN devkeys : KeyHeld(devkeys[i].handle, devkeys[i].key)'
        /\ Dst[m] \in Keys => KeyHeld(tx.key, Dst[m])'
    BY <1>1, <1>4, <1>5, <1>6, <1>11, <2>1 DEF HandRight
  <2> QED BY <1>11, <2>1, <2>3, <2>4, <2>5
<1>12. CASE c.op = "send"
  <2> DEFINE p == [msg |-> c.msg, key |-> dev.keys[c.handle], addr |-> dev.addrs[c.addr]]
  <2>1. dev'.keys = dev.keys /\ dev'.addrs = dev.addrs /\ air' \in {air, Append(air, p)}
    BY <1>12 DEF Makes
  <2>2. /\ KeyHeld(c.handle, KeyFor(m)) /\ AddrHeld(c.addr, Addr(m))
        /\ Dst[m] \in Keys => KeyHeld(tx.key, Dst[m])
    BY <1>1, <1>12 DEF HandRight
  <2>3. /\ p.msg = m /\ p.key = KeyFor(m) /\ p.addr = Addr(m)
        /\ p \in Packets
    BY <1>2, <1>12, <2>2 DEF KeyHeld, AddrHeld, Packets
  <2>4. AirRight'
    <3> HIDE DEF p
    <3>1. CASE air' = air
      BY <1>1, <3>1 DEF AirRight
    <3>2. CASE air' = Append(air, p)
      <4>1. air \in Seq(Packets)
        BY <1>2 DEF Shape
      <4>2. \A i \in DOMAIN air' : (i \in DOMAIN air /\ air'[i] = air[i]) \/ air'[i] = p
        BY <2>3, <3>2, <4>1, AfterAppend
      <4> QED BY <1>1, <2>3, <4>2 DEF AirRight
    <3> QED BY <2>1, <3>1, <3>2
  <2>5. HandleRight(e)'
    BY <1>12 DEF HandleRight
  <2>6. \A i \in DOMAIN addresses : AddrHeld(addresses[i].handle, addresses[i].addr)'
    BY <1>1, <1>5, <1>7, <2>1
  <2>7. /\ KeyHeld(appkey, "app")'
        /\ \A i \in DOMAIN devkeys : KeyHeld(devkeys[i].handle, devkeys[i].key)'
        /\ Dst[m] \in Keys => KeyHeld(tx.key, Dst[m])'
        /\ KeyHeld(c.handle, KeyFor(m))' /\ AddrHeld(c.addr, Addr(m))'
    BY <1>1, <1>4, <1>5, <1>6, <1>7, <2>1, <2>2
  <2> QED BY <2>4, <2>5, <2>6, <2>7
<1> QED BY <1>2, <1>8, <1>9, <1>10, <1>11, <1>12 DEF TxOps

LEMMA RightCommand ==
  ASSUME Typed, Typed', Once, Exchange, Right, DeviceCommand
  PROVE  Right'
<1> DEFINE c == toDevice[1]
<1> SUFFICES ASSUME quiet' PROVE Right'
  BY DEF Right
<1>1. PICK e \in Events : e.type = "rsp" /\ e.op = c.op /\ Emit(e) /\ Makes(c, e)
  BY DeviceMakes
<1>2. c \in Commands /\ toDevice # <<>> /\ toDevice \in Seq(Commands)
  BY DeviceMakes DEF DeviceCommand, Typed, Shape
<1>3. quiet /\ UNCHANGED <<pc, cmd, tx, caches, quiet>>
  BY DEF DeviceCommand, txState
<1>4. Exchange' /\ \A f \in Events : Answer(f)' => Answer(f) \/ (Live(c.op) /\ f = e)
  BY <1>1, <1>2, ExchangeCommand
<1>5. CASE ~Live(c.op)
  <2>1. c.op \in {"reset", "unsubscribe"}
    BY <1>5 DEF Live
  <2>2. air' = air /\ dev'.keys = dev.keys /\ dev'.addrs = dev.addrs
    BY <1>1, <2>1 DEF Makes
  <2>3. Fewer
    BY <1>4, <1>5 DEF Fewer
  <2> QED BY <1>3, <1>4, <2>2, <2>3, HandlesStill
<1>6. CASE Live(c.op)
  <2>1. Order(c)
    <3>1. 1 \in DOMAIN toDevice
      BY <1>2
    <3> QED BY <1>6, <3>1 DEF Order
  <2>2. PICK t \in Senders : pc[t] = "wait" /\ c = cmd[t]
    BY <1>2, <1>3, <2>1 DEF Exchange
  <2>3. \A f \in Events : ~Answer(f)
    BY <1>2, <1>3, <2>1, AnswerOf DEF AnswersOwned, AnswerHas
  <2>4. \A f \in Events : Answer(f)' => f = e
    BY <1>4, <2>3
  <2>5. CASE t = "cfg"
    BY <1>1, <1>3, <1>4, <2>2, <2>4, <2>5, RightForCfg
  <2>6. CASE t = "tx"
    BY <1>1, <1>3, <1>4, <2>2, <2>4, <2>6, RightForTx
  <2> QED BY <2>5, <2>6 DEF Senders
<1> QED BY <1>5, <1>6

\* A restart in the quiet is the first: nothing is cached yet.
LEMMA RightRestart ==
  ASSUME Typed, Typed', Once, Exchange, Right, DeviceReset \/ PowerCycle
  PROVE  Right'
<1> SUFFICES ASSUME quiet' PROVE Right'
  BY DEF Right
<1>1. /\ UNCHANGED <<pc, caches, tx, cmd, air>>
      /\ quiet' = (quiet /\ restarts = 0)
  BY RestartOf DEF Restart, DeviceReset, PowerCycle, txState
<1>2. quiet /\ ~heard
  <2>1. quiet /\ restarts = 0
    BY <1>1
  <2>2. ~(restarts > 0)
    BY <2>1
  <2> QED BY <2>1, <2>2 DEF Once
<1>3. pc["cfg"] = "none" /\ pc["tx"] \in {"get", "low", "ended"}
  BY <1>2 DEF Once
<1>4. devkeys = <<>> /\ addresses = <<>> /\ appkey = NoHandle /\ KeysRight /\ AirRight
  BY <1>2, <1>3 DEF Right, AppRight
<1>5. AppRight'
  BY <1>1, <1>3, <1>4 DEF AppRight, caches, Sending
<1>6. KeysRight' /\ AddrsRight' /\ AirRight'
  BY <1>1, <1>4 DEF KeysRight, AddrsRight, AirRight, caches
<1>7. \A f \in Events : ~Answer(f)'
  <2> SUFFICES ASSUME NEW f \in Events, Answer(f)' PROVE FALSE
    OBVIOUS
  <2>1. PICK t \in Senders : pc'[t] \in {"wait", "take"}
    BY ExchangeDevice, AnswerOfNext DEF AnswersOwned, AnswerHas
  <2> QED BY <1>1, <1>3, <2>1 DEF Senders
<1> QED BY <1>1, <1>3, <1>5, <1>6, <1>7 DEF Right, Sending

LEMMA RightNext ==
  Typed /\ Typed' /\ Deaf /\ Once /\ Exchange /\ Right /\ [Next]_vars => Right'
<1> SUFFICES ASSUME Typed, Typed', Deaf, Once, Exchange, Right, [Next]_vars PROVE Right'
  OBVIOUS
<1>1. CASE \/ \E m \in Messages : Submit(m)
           \/ TakeHigh \/ TryLow \/ TakeLow \/ EndRun
           \/ \E t \in Senders : SendCommand(t)
           \/ EvThread \/ ApiThread \/ Transmitted \/ UNCHANGED vars
  BY <1>1, RightOthers
<1>2. CASE Acquire \/ TakeTx
  BY <1>2, RightAcquire, RightTakeTx
<1>3. CASE TakeCfg
  BY <1>3, RightTakeCfg
<1>4. CASE DeviceCommand
  BY <1>4, RightCommand
<1>5. CASE DeviceReset \/ PowerCycle
  BY <1>5, RightRestart
<1> QED BY <1>1, <1>2, <1>3, <1>4, <1>5 DEF Next, TxThread, CfgThread, Device, Senders

-----------------------------------------------------------------------------
(* What follows. *)

QuietInv == IInv /\ Once /\ Exchange /\ Right

LEMMA QuietAlways == Spec => []QuietInv
<1>1. Init => QuietInv
  BY InitHolds, OnceInit, ExchangeInit, RightInit DEF QuietInv
<1>2. QuietInv /\ [Next]_vars => QuietInv'
  <2> SUFFICES ASSUME QuietInv, [Next]_vars PROVE QuietInv'
    OBVIOUS
  <2>1. IInv /\ Typed /\ Deaf /\ Once /\ Exchange /\ Right
    BY DEF QuietInv, IInv
  <2>2. IInv' /\ Typed'
    BY <2>1, NextHolds DEF IInv
  <2>3. Once' /\ Exchange'
    BY <2>1, OnceNext, ExchangeNext
  <2> QED BY <2>1, <2>2, <2>3, RightNext DEF QuietInv
<1> QED BY <1>1, <1>2, PTL DEF Spec

\* The response a thread takes in send_cmd_wait_rsp is that to the command it
\* sent, although the threads share one slot and nothing locks it, whatever the
\* order in which commands, responses and events come, while the device has
\* started once at most and no message was submitted before it was configured.
THEOREM AnswersMatch == Spec => []QuietAnswers
<1>1. QuietInv => QuietAnswers
  <2> SUFFICES ASSUME QuietInv, quiet, NEW t \in Senders, pc[t] = "take"
               PROVE  slot.response.op = cmd[t].op
    BY DEF QuietAnswers
  <2> QED BY DEF QuietInv, Exchange, Sees
<1> QED BY <1>1, QuietAlways, PTL

\* HandleManager agrees with the device under the same condition: each cached
\* handle is the device's row for its key or address, devkeys_addr holds the
\* address of each key in devkeys, in the same order, and none twice, for any
\* sizes of the tables and of the caches.
THEOREM HandlesMatch == Spec => []CachedHandles
<1>1. QuietInv => CachedHandles
  <2> SUFFICES ASSUME QuietInv, quiet
               PROVE  /\ \A i \in DOMAIN devkeys : dev.keys[devkeys[i].handle] = devkeys[i].key
                      /\ \A i \in DOMAIN addresses :
                           dev.addrs[addresses[i].handle] = addresses[i].addr
                      /\ devkeysAddr = [i \in DOMAIN devkeys |-> AddrOf[devkeys[i].key]]
                      /\ IsInjective(devkeysAddr)
    BY DEF CachedHandles
  <2>1. /\ KeysRight /\ AddrsRight
        /\ devkeys \in Seq(KeyEntry) /\ devkeysAddr \in Seq(Addrs)
        /\ Len(devkeys) = Len(devkeysAddr)
    BY DEF QuietInv, IInv, Typed, Shape, Places, Right
  <2>2. /\ \A i \in DOMAIN devkeys : dev.keys[devkeys[i].handle] = devkeys[i].key
        /\ \A i \in DOMAIN addresses : dev.addrs[addresses[i].handle] = addresses[i].addr
    BY <2>1 DEF KeysRight, AddrsRight, KeyHeld, AddrHeld
  <2>3. devkeysAddr = [i \in DOMAIN devkeys |-> AddrOf[devkeys[i].key]]
    <3>1. DOMAIN devkeysAddr = DOMAIN devkeys
      BY <2>1
    <3>2. devkeysAddr = [i \in DOMAIN devkeysAddr |-> devkeysAddr[i]]
      BY <2>1
    <3>3. \A i \in DOMAIN devkeys : devkeysAddr[i] = AddrOf[devkeys[i].key]
      BY <2>1 DEF KeysRight
    <3> QED BY <3>1, <3>2, <3>3
  <2>4. IsInjective(devkeysAddr)
    BY <2>1 DEF KeysRight, IsInjective
  <2> QED BY <2>2, <2>3, <2>4
<1> QED BY <1>1, QuietAlways, PTL

\* The device transmits a message to its destination and encrypts it with the
\* key of the destination's node, or with the application key when it goes to
\* an address, under the same condition and whatever was evicted from the caches
\* and given to another node while earlier messages were sent.
THEOREM SentRight == Spec => []RightDestination
<1>1. QuietInv => RightDestination
  <2> SUFFICES ASSUME QuietInv, quiet PROVE AirRight
    BY DEF RightDestination, AirRight, KeyFor
  <2> QED BY DEF QuietInv, Right
<1> QED BY <1>1, QuietAlways, PTL
====
