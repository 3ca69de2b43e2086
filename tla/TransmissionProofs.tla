-------------------------- MODULE TransmissionProofs --------------------------
(***************************************************************************)
(* The transmission manager for any messages, any tables of the device and *)
(* any number of permits: the types, and the permits.                      *)
(*                                                                         *)
(* The permits are right because a message is in one place at a time and   *)
(* never goes back (Forward), and is there once (Single): submitted, in    *)
(* the hands of the transmission thread, on its way to the device,         *)
(* answered, waiting to be reported transmitted.  A permit is taken where  *)
(* a message enters the third of these and given back where it leaves the  *)
(* last, or the fourth when the packet is refused.  That the device is     *)
(* heard by the time it is given a packet, so that none goes unanswered,   *)
(* is Deaf.                                                                *)
(*                                                                         *)
(* The same invariants show that the transmission manager implements       *)
(* MessageService: a step takes messages out of those that wait, adds one  *)
(* behind them, or leaves them and their order alone.                      *)
(***************************************************************************)
EXTENDS Transmission, SequenceTheorems, FiniteSetTheorems, TLAPS
-----------------------------------------------------------------------------
(* The inductive invariants. *)

\* What a command and an event carry.
Commands ==
  {c \in Command : /\ c.op = "send" => c.msg \in Messages
                   /\ c.op = "devkey_add" => c.what \in Keys
                   /\ c.op = "addr_add" => c.what \in Addrs}
Events ==
  {e \in Event : \/ e.type = "rsp" /\ e.op = "send"
                 \/ e.type = "tx_complete"
                 => e.msg \in Messages}
Packets == [msg : Messages, key : Keys \union {"free", "app"},
            addr : Addrs \union {"free", "group"}]
Threads == Senders \union {"ev", "api"}
Stations == {"get", "low", "permit", "ended", "dead", "none", "done", "idle", "answer",
             "complete", "new", "starting", "up"} \union Sending \union Stopping
KeyEntry == [key : Keys, handle : Handles]
AddrEntry == [addr : Addrs, handle : Handles]
KeyTable == [KeyHandles -> Keys \union {"free", "app"}]
AddrTable == [AddrHandles -> Addrs \union {"free", "group"}]
Tables == [keys : KeyTable, addrs : AddrTable, sending : SUBSET Messages]

\* What the variables hold beyond TypeOK, but for the bound of permits.
Shape ==
  /\ fresh \subseteq Messages /\ pending \subseteq Messages
  /\ high \in Seq(Messages) /\ low \in Seq(Messages)
  /\ permits \in Nat
  /\ pc \in [Threads -> Stations]
  /\ cmd \in [Senders -> Commands]
  /\ tx \in [msg : Messages \union {NoMsg}, key : Handles]
  /\ slot \in [opcode : Ops, complete : BOOLEAN, response : Events]
  /\ devkeys \in Seq(KeyEntry)
  /\ devkeysAddr \in Seq(Addrs)
  /\ addresses \in Seq(AddrEntry)
  /\ appkey \in Handles
  /\ devStarted \in BOOLEAN /\ heard \in BOOLEAN
  /\ remote \in BOOLEAN /\ quiet \in BOOLEAN
  /\ current \in Events
  /\ toDevice \in Seq(Commands) /\ events \in Seq(Events)
  /\ dev \in Tables
  /\ restarts \in Nat
  /\ air \in Seq(Packets)

\* Where the threads are, and what they have in hand there.
Places ==
  /\ pc["tx"] \in {"get", "low", "permit", "ended", "dead"} \union Sending
  /\ pc["cfg"] \in {"none", "done", "dead"} \union Sending
  /\ pc["ev"] \in {"idle", "answer", "complete"}
  /\ pc["api"] \in {"new", "starting", "up"} \union Stopping
  /\ pc["tx"] \in {"permit"} \union Sending => tx.msg \in Messages
  /\ pc["tx"] \in Sending => cmd["tx"].op \in TxOps
  /\ pc["tx"] \in Sending /\ cmd["tx"].op = "send" => cmd["tx"].msg = tx.msg
  /\ pc["tx"] \in Sending /\ cmd["tx"].op \in {"devkey_del", "devkey_add"} =>
       Dst[tx.msg] \in Keys
  /\ pc["cfg"] \in Sending =>
       cmd["cfg"].step \in 1..7 /\ cmd["cfg"].op = ConfigOps[cmd["cfg"].step]
  /\ cmd["cfg"].op # "send"
  /\ Len(devkeys) = Len(devkeysAddr)

Typed == Shape /\ Places

\* Nothing the device says is heard before it has started once, and no packet is
\* sent without the handles it gives.
Deaf ==
  ~heard =>
    /\ events = <<>> /\ current.handle = NoHandle
    /\ slot.response.handle = NoHandle
    /\ tx.key = NoHandle /\ appkey = NoHandle
    /\ devkeys = <<>>
    /\ pc["tx"] \in Sending => cmd["tx"].op # "send"
    /\ \A i \in DOMAIN toDevice : toDevice[i].op # "send"

\* Where a message is.
Queued(m) ==
  \/ m \in fresh
  \/ \E i \in DOMAIN high : high[i] = m
  \/ \E i \in DOMAIN low : low[i] = m
Answers(e, m) == e.type = "rsp" /\ e.op = "send" /\ e.msg = m
Answered(m) == \E i \in DOMAIN events : Answers(events[i], m)
Refused(m) == \E i \in DOMAIN events : Answers(events[i], m) /\ ~events[i].ok
Reported(m) ==
  \E i \in DOMAIN events : events[i].type = "tx_complete" /\ events[i].msg = m
Past(m) == Answered(m) \/ Reported(m) \/ m \in pending \/ m \in dev.sending

\* A message is in one place at a time, and never goes back.
Forward ==
  \A m \in Messages :
    /\ Queued(m) => ~Held(m) /\ ~OnWay(m) /\ ~Past(m)
    /\ Held(m) => ~OnWay(m) /\ ~Past(m)
    /\ OnWay(m) => ~Past(m)
    /\ Answered(m) => m \notin pending
    /\ Refused(m) \/ Reported(m) => m \notin dev.sending
    /\ m \in dev.sending => Answered(m) \/ m \in pending

\* It is there once.
QueuedOnce ==
  /\ \A i \in DOMAIN high : high[i] \notin fresh
  /\ \A i \in DOMAIN low : low[i] \notin fresh
  /\ \A i \in DOMAIN high, j \in DOMAIN low : high[i] # low[j]
  /\ \A i, j \in DOMAIN high : high[i] = high[j] => i = j
  /\ \A i, j \in DOMAIN low : low[i] = low[j] => i = j
SentOnce ==
  \A m \in Messages : \A i, j \in DOMAIN toDevice :
    Carries(toDevice[i], m) /\ Carries(toDevice[j], m) => i = j
AnsweredOnce ==
  \A m \in Messages : \A i, j \in DOMAIN events :
    Answers(events[i], m) /\ Answers(events[j], m) => i = j

\* The permits and the messages that have one.
Permits ==
  /\ permits <= MaxInFlight
  /\ Running => permits + Cardinality(Claimed) <= MaxInFlight

-----------------------------------------------------------------------------
(* Sequences. *)

LEMMA RemoveAtTyped ==
  ASSUME NEW S, NEW s \in Seq(S), NEW i \in DOMAIN s
  PROVE  /\ RemoveAt(s, i) \in Seq(S)
         /\ Len(RemoveAt(s, i)) = Len(s) - 1
         /\ \A k \in 1..(i - 1) : RemoveAt(s, i)[k] = s[k]
         /\ \A k \in i..(Len(s) - 1) : RemoveAt(s, i)[k] = s[k + 1]
<1> DEFINE front == SubSeq(s, 1, i - 1)
           back == SubSeq(s, i + 1, Len(s))
<1>1. i \in 1..Len(s) /\ Len(s) \in Nat
  OBVIOUS
<1>2. /\ front \in Seq(S) /\ Len(front) = i - 1
      /\ \A k \in 1..(i - 1) : front[k] = s[k]
  BY <1>1, SubSeqProperties
<1>3. /\ back \in Seq(S) /\ Len(back) = Len(s) - i
      /\ \A k \in 1..(Len(s) - i) : back[k] = s[i + k]
  BY <1>1, SubSeqProperties
<1> HIDE DEF front, back
<1>4. /\ front \o back \in Seq(S)
      /\ Len(front \o back) = Len(front) + Len(back)
      /\ \A k \in 1..(Len(front) + Len(back)) :
           (front \o back)[k] = IF k <= Len(front) THEN front[k] ELSE back[k - Len(front)]
  BY <1>2, <1>3, ConcatProperties
<1>5. RemoveAt(s, i) = front \o back
  BY DEF RemoveAt, front, back
<1>6. Len(front) + Len(back) = Len(s) - 1
  BY <1>1, <1>2, <1>3
<1>7. ASSUME NEW k \in 1..(i - 1)
      PROVE  RemoveAt(s, i)[k] = s[k]
  BY <1>1, <1>2, <1>4, <1>5, <1>6
<1>8. ASSUME NEW k \in i..(Len(s) - 1)
      PROVE  RemoveAt(s, i)[k] = s[k + 1]
  <2>1. k \in 1..(Len(front) + Len(back)) /\ ~(k <= Len(front))
    BY <1>1, <1>2, <1>6
  <2>2. RemoveAt(s, i)[k] = back[k - Len(front)]
    BY <2>1, <1>4, <1>5
  <2>3. k - Len(front) = k - i + 1 /\ k - i + 1 \in 1..(Len(s) - i)
    BY <1>1, <1>2
  <2>4. back[k - i + 1] = s[i + (k - i + 1)]
    BY <1>3, <2>3
  <2>5. i + (k - i + 1) = k + 1
    BY <1>1
  <2> QED BY <2>2, <2>3, <2>4, <2>5
<1> QED BY <1>4, <1>5, <1>6, <1>7, <1>8

LEMMA OpsAre ==
  /\ Len(ConfigOps) = 7
  /\ \A i \in 1..7 : ConfigOps[i] \in {"state_clear", "unicast", "net_state",
       "subnet", "appkey_add", "subscribe"}
  /\ {"state_clear", "unicast", "net_state", "subnet", "appkey_add", "subscribe",
      "reset", "unsubscribe", "none"} \union TxOps \subseteq Ops
<1>1. /\ Len(ConfigOps) = 7
      /\ DOMAIN ConfigOps = 1..7
      /\ \A i \in 1..7 : ConfigOps[i] \in {"state_clear", "unicast", "net_state",
           "subnet", "appkey_add", "subscribe"}
  BY DEF ConfigOps
<1>2. /\ ConfigOps[1] = "state_clear" /\ ConfigOps[2] = "unicast"
      /\ ConfigOps[3] = "net_state" /\ ConfigOps[4] = "subnet"
      /\ ConfigOps[5] = "appkey_add" /\ ConfigOps[6] = "subscribe"
  BY DEF ConfigOps
<1>3. \A i \in 1..7 : ConfigOps[i] \in Ops
  BY <1>1 DEF Ops
<1>4. {"state_clear", "unicast", "net_state", "subnet", "appkey_add", "subscribe"}
        \subseteq Ops
  BY <1>2, <1>3
<1>5. {"reset", "unsubscribe", "none"} \union TxOps \subseteq Ops
  BY DEF Ops
<1>6. {"state_clear", "unicast", "net_state", "subnet", "appkey_add", "subscribe",
      "reset", "unsubscribe", "none"} \union TxOps \subseteq Ops
  BY <1>4, <1>5
<1> QED BY <1>1, <1>6

LEMMA CmdTyped ==
  ASSUME NEW op \in {"none", "reset", "unsubscribe", "devkey_del", "addr_del"}
  PROVE  /\ Cmd(op) \in Commands /\ Cmd(op).op = op
         /\ \A h \in Handles : /\ Delete(op, h) \in Commands
                               /\ Delete(op, h).op = op
                               /\ Delete(op, h).handle = h
BY OpsAre DEF Cmd, Delete, Commands, Command, Handles, TxOps

LEMMA AddTyped ==
  ASSUME NEW op \in {"devkey_add", "addr_add"}, NEW what,
         op = "devkey_add" => what \in Keys, op = "addr_add" => what \in Addrs
  PROVE  Add(op, what) \in Commands /\ Add(op, what).op = op /\ Add(op, what).what = what
BY OpsAre DEF Cmd, Add, Commands, Command, Handles, TxOps

LEMMA ConfigureTyped ==
  ASSUME NEW i \in 1..7
  PROVE  /\ Configure(i) \in Commands /\ Configure(i).op = ConfigOps[i]
         /\ Configure(i).step = i
BY OpsAre DEF Cmd, Configure, Commands, Command, Handles

LEMMA SendTyped ==
  ASSUME NEW key \in Handles, NEW addr \in Handles, NEW m \in Messages
  PROVE  /\ PacketSend(key, addr, m) \in Commands
         /\ PacketSend(key, addr, m).op = "send"
         /\ PacketSend(key, addr, m).handle = key
         /\ PacketSend(key, addr, m).addr = addr
         /\ PacketSend(key, addr, m).msg = m
BY OpsAre DEF PacketSend, Commands, Command, TxOps

LEMMA EventTyped ==
  /\ Ev("none", NoMsg) \in Events /\ Ev("dev_reset", NoMsg) \in Events
  /\ \A m \in Messages : Ev("tx_complete", m) \in Events
  /\ \A c \in Commands, ok \in BOOLEAN, h \in Handles : Rsp(c, ok, h) \in Events
BY OpsAre DEF Ev, Rsp, Events, Event, Commands, Command, Handles

-----------------------------------------------------------------------------
(* Types. *)

LEMMA AddrTyped ==
  ASSUME NEW m \in Messages
  PROVE  Addr(m) \in Addrs /\ Dst[m] \in Keys \union Addrs
BY TransmissionAssumption DEF Addr

LEMMA ElementsTyped ==
  ASSUME Shape
  PROVE  /\ \A i \in DOMAIN devkeys : devkeys[i].key \in Keys /\ devkeys[i].handle \in Handles
         /\ \A i \in DOMAIN addresses :
              addresses[i].addr \in Addrs /\ addresses[i].handle \in Handles
         /\ \A i \in DOMAIN devkeysAddr : devkeysAddr[i] \in Addrs
         /\ \A i \in DOMAIN toDevice : toDevice[i] \in Commands
         /\ \A i \in DOMAIN events : events[i] \in Events
         /\ \A i \in DOMAIN high : high[i] \in Messages
         /\ \A i \in DOMAIN low : low[i] \in Messages
<1>1. \A i \in DOMAIN devkeys : devkeys[i] \in KeyEntry
  BY DEF Shape
<1>2. \A i \in DOMAIN addresses : addresses[i] \in AddrEntry
  BY DEF Shape
<1>3. /\ \A i \in DOMAIN devkeysAddr : devkeysAddr[i] \in Addrs
      /\ \A i \in DOMAIN toDevice : toDevice[i] \in Commands
      /\ \A i \in DOMAIN events : events[i] \in Events
      /\ \A i \in DOMAIN high : high[i] \in Messages
      /\ \A i \in DOMAIN low : low[i] \in Messages
  BY DEF Shape
<1> QED BY <1>1, <1>2, <1>3 DEF KeyEntry, AddrEntry

LEMMA InitTyped == Init => Typed
<1> SUFFICES ASSUME Init PROVE Typed
  OBVIOUS
<1>1. cmd \in [Senders -> Commands] /\ cmd["cfg"].op # "send"
  BY CmdTyped DEF Init, Senders
<1>2. slot \in [opcode : Ops, complete : BOOLEAN, response : Events]
  <2>1. slot.response \in Events /\ "none" \in Ops
    BY EventTyped, OpsAre DEF Init
  <2> QED BY <2>1 DEF Init
<1>3. current \in Events
  BY EventTyped DEF Init
<1>6. dev \in Tables
  BY DEF Init, Empty, Tables, KeyTable, AddrTable
<1>4. Places
  BY <1>1 DEF Init, Places, Senders, Sending
<1>5. pc \in [Threads -> Stations]
  BY DEF Init, Threads, Senders, Stations
<1>7. /\ fresh \subseteq Messages /\ pending \subseteq Messages
      /\ high \in Seq(Messages) /\ low \in Seq(Messages)
      /\ permits \in Nat
      /\ tx \in [msg : Messages \union {NoMsg}, key : Handles]
  BY TransmissionAssumption DEF Init, Handles
<1>8. /\ devkeys \in Seq(KeyEntry)
      /\ devkeysAddr \in Seq(Addrs)
      /\ addresses \in Seq(AddrEntry)
      /\ appkey \in Handles
      /\ toDevice \in Seq(Commands) /\ events \in Seq(Events)
      /\ air \in Seq(Packets)
  BY DEF Init, Handles
<1>9. /\ devStarted \in BOOLEAN /\ heard \in BOOLEAN
      /\ remote \in BOOLEAN /\ quiet \in BOOLEAN
      /\ restarts \in Nat
  BY DEF Init
<1> QED
  BY <1>1, <1>2, <1>3, <1>4, <1>5, <1>6, <1>7, <1>8, <1>9 DEF Typed, Shape

\* The next command of a sender.
LEMMA IssueTyped ==
  ASSUME Shape, NEW t \in Senders, NEW c \in Commands, Issue(t, c)
  PROVE  /\ cmd' \in [Senders -> Commands] /\ cmd'[t] = c
         /\ \A s \in Senders : s # t => cmd'[s] = cmd[s]
         /\ pc'[t] = "clear"
         /\ \A s \in Threads : s # t => pc'[s] = pc[s]
         /\ pc' \in [Threads -> Stations]
BY DEF Issue, Goto, Shape, Threads, Senders, Sending, Stations

LEMMA DieTyped ==
  ASSUME Shape, NEW t \in Senders, Die(t)
  PROVE  /\ cmd' \in [Senders -> Commands] /\ cmd'[t] = Cmd("none")
         /\ \A s \in Senders : s # t => cmd'[s] = cmd[s]
         /\ pc'[t] = "dead"
         /\ \A s \in Threads : s # t => pc'[s] = pc[s]
         /\ pc' \in [Threads -> Stations]
BY CmdTyped DEF Die, Goto, Shape, Threads, Senders, Sending, Stations

LEMMA GotoTyped ==
  ASSUME Shape, NEW t \in Threads,
         NEW place \in Stations,
         Goto(t, place)
  PROVE  /\ pc'[t] = place
         /\ \A s \in Threads : s # t => pc'[s] = pc[s]
         /\ pc' \in [Threads -> Stations]
BY DEF Goto, Shape

\* What the lookup of an address handle ends in: a command, or the end of the thread.
LEMMA FindAddressTyped ==
  ASSUME Shape, NEW m \in Messages, NEW key \in Handles, FindAddress(m, key)
  PROVE  /\ addresses' \in Seq(AddrEntry)
         /\ \/ Die("tx")
            \/ \E c \in Commands :
                 /\ Issue("tx", c) /\ c.op \in {"addr_del", "addr_add", "send"}
                 /\ c.op = "send" => c.msg = m /\ key # NoHandle
<1> DEFINE cached == {i \in DOMAIN addresses : addresses[i].addr = Addr(m)}
<1>0. addresses \in Seq(AddrEntry)
  BY DEF Shape
<1>1. CASE \E i \in cached : SendPacket(m, key, addresses[i].handle)
           /\ UNCHANGED addresses
  <2> PICK i \in cached : SendPacket(m, key, addresses[i].handle)
    BY <1>1
  <2>0. UNCHANGED addresses
    BY <1>1
  <2>1. addresses[i].handle \in Handles
    BY ElementsTyped
  <2>2. CASE key = NoHandle
    BY <2>2, <2>0, <1>0 DEF SendPacket
  <2>3. CASE key # NoHandle
    <3>1. Issue("tx", PacketSend(key, addresses[i].handle, m))
      BY <2>3 DEF SendPacket
    <3> QED BY <3>1, <2>0, <2>1, <2>3, <1>0, SendTyped
  <2> QED BY <2>2, <2>3
<1>2. CASE /\ cached = {} /\ Len(addresses) >= MaxAddresses
           /\ Issue("tx", Delete("addr_del", addresses[1].handle))
           /\ addresses' = Tail(addresses)
  <2>1. Len(addresses) >= 1 /\ addresses # <<>>
    BY <1>2, <1>0, TransmissionAssumption
  <2>2. addresses[1].handle \in Handles
    BY <2>1, <1>0, ElementsTyped
  <2>3. Tail(addresses) \in Seq(AddrEntry)
    BY <2>1, <1>0
  <2> QED BY <2>2, <2>3, <1>2, CmdTyped
<1>3. CASE /\ cached = {} /\ Len(addresses) < MaxAddresses
           /\ Issue("tx", Add("addr_add", Addr(m)))
           /\ UNCHANGED addresses
  BY <1>3, <1>0, AddrTyped, AddTyped
<1> QED
  BY <1>1, <1>2, <1>3 DEF FindAddress

-----------------------------------------------------------------------------
(* Each step keeps the types. *)

LEMMA TypedTryLow ==
  ASSUME Typed, TryLow
  PROVE  Typed'
<1>1. /\ pc'["tx"] = "low"
      /\ \A s \in Threads : s # "tx" => pc'[s] = pc[s]
      /\ pc' \in [Threads -> Stations]
  BY GotoTyped DEF Typed, TryLow, Threads, Senders, Stations, Stopping, Sending
<1>2. Shape'
  BY <1>1 DEF Typed, Shape, TryLow, vars, queues, txState, caches, device
<1>3. Places'
  BY <1>1 DEF Typed, Places, TryLow, vars, queues, txState, caches, device, Threads, Senders, Sending, Stopping
<1> QED BY <1>2, <1>3 DEF Typed

LEMMA TypedEndRun ==
  ASSUME Typed, EndRun
  PROVE  Typed'
<1>1. /\ pc'["tx"] = "ended"
      /\ \A s \in Threads : s # "tx" => pc'[s] = pc[s]
      /\ pc' \in [Threads -> Stations]
  BY GotoTyped DEF Typed, EndRun, Threads, Senders, Stations, Stopping, Sending
<1>2. Shape'
  BY <1>1 DEF Typed, Shape, EndRun, vars, queues, txState, caches, device
<1>3. Places'
  BY <1>1 DEF Typed, Places, EndRun, vars, queues, txState, caches, device, Threads, Senders, Sending, Stopping
<1> QED BY <1>2, <1>3 DEF Typed

LEMMA TypedSeeComplete ==
  ASSUME Typed, NEW t \in Senders, SeeComplete(t)
  PROVE  Typed'
<1>1. /\ pc'[t] = "take"
      /\ \A s \in Threads : s # t => pc'[s] = pc[s]
      /\ pc' \in [Threads -> Stations]
  BY GotoTyped DEF Typed, SeeComplete, Threads, Senders, Stations, Stopping, Sending
<1>2. Shape'
  BY <1>1 DEF Typed, Shape, SeeComplete, vars, queues, txState, caches, device
<1>3. Places'
  BY <1>1 DEF Typed, Places, SeeComplete, vars, queues, txState, caches, device, Threads, Senders, Sending, Stopping
<1> QED BY <1>2, <1>3 DEF Typed

LEMMA TypedStarted ==
  ASSUME Typed, Started
  PROVE  Typed'
<1>1. /\ pc'["api"] = "up"
      /\ \A s \in Threads : s # "api" => pc'[s] = pc[s]
      /\ pc' \in [Threads -> Stations]
  BY GotoTyped DEF Typed, Started, Threads, Senders, Stations, Stopping, Sending
<1>2. Shape'
  BY <1>1 DEF Typed, Shape, Started, vars, queues, txState, caches, device
<1>3. Places'
  BY <1>1 DEF Typed, Places, Started, vars, queues, txState, caches, device, Threads, Senders, Sending, Stopping
<1> QED BY <1>2, <1>3 DEF Typed

LEMMA TypedStopEvents ==
  ASSUME Typed, StopEvents
  PROVE  Typed'
<1>1. /\ pc'["api"] = "stop_uart"
      /\ \A s \in Threads : s # "api" => pc'[s] = pc[s]
      /\ pc' \in [Threads -> Stations]
  BY GotoTyped DEF Typed, StopEvents, Threads, Senders, Stations, Stopping, Sending
<1>2. Shape'
  BY <1>1 DEF Typed, Shape, StopEvents, vars, queues, txState, caches, device
<1>3. Places'
  BY <1>1 DEF Typed, Places, StopEvents, vars, queues, txState, caches, device, Threads, Senders, Sending, Stopping
<1> QED BY <1>2, <1>3 DEF Typed

LEMMA TypedStopUart ==
  ASSUME Typed, StopUart
  PROVE  Typed'
<1>1. /\ pc'["api"] = "stop_tx"
      /\ \A s \in Threads : s # "api" => pc'[s] = pc[s]
      /\ pc' \in [Threads -> Stations]
  BY GotoTyped DEF Typed, StopUart, Threads, Senders, Stations, Stopping, Sending
<1>2. Shape'
  BY <1>1 DEF Typed, Shape, StopUart, vars, queues, txState, caches, device
<1>3. Places'
  BY <1>1 DEF Typed, Places, StopUart, vars, queues, txState, caches, device, Threads, Senders, Sending, Stopping
<1> QED BY <1>2, <1>3 DEF Typed

LEMMA TypedStopTx ==
  ASSUME Typed, StopTx
  PROVE  Typed'
<1>1. /\ pc'["api"] = "stopped"
      /\ \A s \in Threads : s # "api" => pc'[s] = pc[s]
      /\ pc' \in [Threads -> Stations]
  BY GotoTyped DEF Typed, StopTx, Threads, Senders, Stations, Stopping, Sending
<1>2. Shape'
  BY <1>1 DEF Typed, Shape, StopTx, vars, queues, txState, caches, device
<1>3. Places'
  BY <1>1 DEF Typed, Places, StopTx, vars, queues, txState, caches, device, Threads, Senders, Sending, Stopping
<1> QED BY <1>2, <1>3 DEF Typed

LEMMA TypedSubmit ==
  ASSUME Typed, NEW m \in Messages, Submit(m)
  PROVE  Typed'
<1>1. fresh' \subseteq Messages /\ quiet' \in BOOLEAN
  BY DEF Typed, Shape, Submit
<1>0. high \in Seq(Messages) /\ low \in Seq(Messages)
  BY DEF Typed, Shape
<1>2. high' \in Seq(Messages) /\ low' \in Seq(Messages)
  <2>1. high' = high \/ high' = Append(high, m)
    BY DEF Submit
  <2>2. low' = low \/ low' = Append(low, m)
    BY DEF Submit
  <2>3. Append(high, m) \in Seq(Messages) /\ Append(low, m) \in Seq(Messages)
    BY <1>0
  <2> QED BY <1>0, <2>1, <2>2, <2>3
<1>3. Shape'
  BY <1>1, <1>2 DEF Typed, Shape, Submit, txState, caches, device
<1>4. Places'
  BY DEF Typed, Places, Submit, txState, caches, device
<1> QED BY <1>3, <1>4 DEF Typed

LEMMA TypedTakeHigh ==
  ASSUME Typed, TakeHigh
  PROVE  Typed'
<1>1. /\ pc'["tx"] = "permit"
      /\ \A s \in Threads : s # "tx" => pc'[s] = pc[s]
      /\ pc' \in [Threads -> Stations]
  BY GotoTyped DEF Typed, TakeHigh, Threads, Senders, Stations
<1>2. Head(high) \in Messages /\ high' \in Seq(Messages)
  BY DEF Typed, Shape, TakeHigh
<1>3. tx' \in [msg : Messages \union {NoMsg}, key : Handles] /\ tx'.msg \in Messages
  <2> DEFINE m == Head(high)
  <2>1. m \in Messages
    BY <1>2
  <2>2. tx' = [tx EXCEPT !.msg = m]
    BY <1>2 DEF TakeHigh
  <2>3. tx \in [msg : Messages \union {NoMsg}, key : Handles]
    BY DEF Typed, Shape
  <2> HIDE DEF m
  <2> QED BY <2>1, <2>2, <2>3
<1>4. Shape'
  BY <1>1, <1>2, <1>3 DEF Typed, Shape, TakeHigh, caches, device
<1>5. Places'
  BY <1>1, <1>3 DEF Typed, Places, TakeHigh, caches, device, Threads, Senders, Sending
<1> QED BY <1>4, <1>5 DEF Typed

LEMMA TypedTakeLow ==
  ASSUME Typed, TakeLow
  PROVE  Typed'
<1>1. CASE low = <<>>
  <2>1. /\ pc'["tx"] = "get"
        /\ \A s \in Threads : s # "tx" => pc'[s] = pc[s]
        /\ pc' \in [Threads -> Stations]
    BY <1>1, GotoTyped DEF Typed, TakeLow, Threads, Senders, Stations
  <2>2. UNCHANGED <<low, tx>>
    BY <1>1 DEF TakeLow
  <2>3. Shape'
    BY <2>1, <2>2 DEF Typed, Shape, TakeLow, caches, device
  <2>4. Places'
    BY <2>1, <2>2 DEF Typed, Places, TakeLow, caches, device, Threads, Senders, Sending
  <2> QED BY <2>3, <2>4 DEF Typed
<1>2. CASE low # <<>>
  <2>1. /\ pc'["tx"] = "permit"
        /\ \A s \in Threads : s # "tx" => pc'[s] = pc[s]
        /\ pc' \in [Threads -> Stations]
    BY <1>2, GotoTyped DEF Typed, TakeLow, Threads, Senders, Stations
  <2>0. low \in Seq(Messages)
    BY DEF Typed, Shape
  <2>2. Head(low) \in Messages /\ low' \in Seq(Messages)
    BY <1>2, <2>0 DEF TakeLow
  <2>3. tx' \in [msg : Messages \union {NoMsg}, key : Handles] /\ tx'.msg \in Messages
    <3> DEFINE m == Head(low)
    <3>1. m \in Messages
      BY <1>2, <2>2
    <3>2. tx' = [tx EXCEPT !.msg = m]
      BY <1>2, <2>2 DEF TakeLow
    <3>3. tx \in [msg : Messages \union {NoMsg}, key : Handles]
      BY DEF Typed, Shape
    <3> HIDE DEF m
    <3> QED BY <3>1, <3>2, <3>3
  <2>4. Shape'
    BY <2>1, <2>2, <2>3 DEF Typed, Shape, TakeLow, caches, device
  <2>5. Places'
    BY <2>1, <2>3 DEF Typed, Places, TakeLow, caches, device, Threads, Senders, Sending
  <2> QED BY <2>4, <2>5 DEF Typed
<1> QED BY <1>1, <1>2

LEMMA TypedClearComplete ==
  ASSUME Typed, NEW t \in Senders, ClearComplete(t)
  PROVE  Typed'
<1>1. /\ pc'[t] = "expect"
      /\ \A s \in Threads : s # t => pc'[s] = pc[s]
      /\ pc' \in [Threads -> Stations]
  BY GotoTyped DEF Typed, ClearComplete, Threads, Senders, Stations, Sending
<1>2. slot' \in [opcode : Ops, complete : BOOLEAN, response : Events]
  BY DEF Typed, Shape, ClearComplete
<1>3. Shape'
  BY <1>1, <1>2 DEF Typed, Shape, ClearComplete, queues, txState, caches, device
<1>4. Places'
  BY <1>1 DEF Typed, Places, ClearComplete, txState, caches, Threads, Senders, Sending
<1> QED BY <1>3, <1>4 DEF Typed

LEMMA TypedExpectOpcode ==
  ASSUME Typed, NEW t \in Senders, ExpectOpcode(t)
  PROVE  Typed'
<1>1. /\ pc'[t] = "put"
      /\ \A s \in Threads : s # t => pc'[s] = pc[s]
      /\ pc' \in [Threads -> Stations]
  BY GotoTyped DEF Typed, ExpectOpcode, Threads, Senders, Stations, Sending
<1>2. cmd[t].op \in Ops
  BY DEF Typed, Shape, Commands, Command
<1>3. slot' \in [opcode : Ops, complete : BOOLEAN, response : Events]
  BY <1>2 DEF Typed, Shape, ExpectOpcode
<1>4. Shape'
  BY <1>1, <1>3 DEF Typed, Shape, ExpectOpcode, queues, txState, caches, device
<1>5. Places'
  BY <1>1 DEF Typed, Places, ExpectOpcode, txState, caches, Threads, Senders, Sending
<1> QED BY <1>4, <1>5 DEF Typed

LEMMA TypedPutCommand ==
  ASSUME Typed, NEW t \in Senders, PutCommand(t)
  PROVE  Typed'
<1>1. /\ pc'[t] = "wait"
      /\ \A s \in Threads : s # t => pc'[s] = pc[s]
      /\ pc' \in [Threads -> Stations]
  BY GotoTyped DEF Typed, PutCommand, Threads, Senders, Stations, Sending
<1>2. toDevice' \in Seq(Commands)
  BY DEF Typed, Shape, PutCommand
<1>3. Shape'
  BY <1>1, <1>2 DEF Typed, Shape, PutCommand, queues, txState, caches, device
<1>4. Places'
  BY <1>1 DEF Typed, Places, PutCommand, txState, caches, Threads, Senders, Sending
<1> QED BY <1>3, <1>4 DEF Typed

LEMMA TypedStoreResponse ==
  ASSUME Typed, StoreResponse
  PROVE  Typed'
<1>1. /\ pc'["ev"] = "complete"
      /\ \A s \in Threads : s # "ev" => pc'[s] = pc[s]
      /\ pc' \in [Threads -> Stations]
  BY GotoTyped DEF Typed, StoreResponse, Threads, Stations
<1>2. slot' \in [opcode : Ops, complete : BOOLEAN, response : Events]
  BY DEF Typed, Shape, StoreResponse
<1>3. Shape'
  BY <1>1, <1>2 DEF Typed, Shape, StoreResponse, queues, txState, caches, device
<1>4. Places'
  BY <1>1 DEF Typed, Places, StoreResponse, txState, caches, Threads, Senders
<1> QED BY <1>3, <1>4 DEF Typed

LEMMA TypedSetComplete ==
  ASSUME Typed, SetComplete
  PROVE  Typed'
<1>1. /\ pc'["ev"] = "idle"
      /\ \A s \in Threads : s # "ev" => pc'[s] = pc[s]
      /\ pc' \in [Threads -> Stations]
  BY GotoTyped DEF Typed, SetComplete, Threads, Stations
<1>2. slot' \in [opcode : Ops, complete : BOOLEAN, response : Events]
  BY DEF Typed, Shape, SetComplete
<1>3. Shape'
  BY <1>1, <1>2, EventTyped DEF Typed, Shape, SetComplete, queues, txState, caches, device
<1>4. Places'
  BY <1>1 DEF Typed, Places, SetComplete, txState, caches, Threads, Senders
<1> QED BY <1>3, <1>4 DEF Typed

LEMMA PostTyped ==
  ASSUME Shape
  PROVE  /\ Post(<<Cmd("reset")>>) => toDevice' \in Seq(Commands)
         /\ Post(<<Cmd("unsubscribe"), Cmd("unsubscribe"), Cmd("reset")>>) =>
              toDevice' \in Seq(Commands)
<1> DEFINE one == <<Cmd("reset")>>
           three == <<Cmd("unsubscribe"), Cmd("unsubscribe"), Cmd("reset")>>
<1>1. one \in Seq(Commands) /\ three \in Seq(Commands)
  BY CmdTyped
<1>2. toDevice \in Seq(Commands)
  BY DEF Shape
<1>3. Post(one) => toDevice' = toDevice \o one
  BY DEF Post
<1>4. Post(three) => toDevice' = toDevice \o three
  BY DEF Post
<1> HIDE DEF one, three
<1>5. toDevice \o one \in Seq(Commands) /\ toDevice \o three \in Seq(Commands)
  BY <1>1, <1>2
<1>6. /\ Post(one) => toDevice' \in Seq(Commands)
      /\ Post(three) => toDevice' \in Seq(Commands)
  BY <1>3, <1>4, <1>5
<1> QED BY <1>6 DEF one, three

LEMMA TypedStart ==
  ASSUME Typed, Start
  PROVE  Typed'
<1>0. PICK place \in {"up", "starting"} : Goto("api", place)
  BY DEF Start
<1>1. /\ pc'["api"] = place
      /\ \A s \in Threads : s # "api" => pc'[s] = pc[s]
      /\ pc' \in [Threads -> Stations]
  BY <1>0, GotoTyped DEF Typed, Threads, Stations
<1>2. toDevice' \in Seq(Commands)
  BY PostTyped DEF Typed, Shape, Start
<1>3. Shape'
  BY <1>1, <1>2 DEF Typed, Shape, Start, queues, txState, caches, device
<1>4. Places'
  BY <1>1 DEF Typed, Places, Start, txState, caches, Threads, Senders
<1> QED BY <1>3, <1>4 DEF Typed

LEMMA TypedReset ==
  ASSUME Typed, Reset
  PROVE  Typed'
<1>1. /\ pc'["api"] = "starting"
      /\ \A s \in Threads : s # "api" => pc'[s] = pc[s]
      /\ pc' \in [Threads -> Stations]
  BY GotoTyped DEF Typed, Reset, Threads, Stations
<1>2. toDevice' \in Seq(Commands)
  BY PostTyped DEF Typed, Shape, Reset
<1>3. Shape'
  BY <1>1, <1>2 DEF Typed, Shape, Reset, queues, txState, caches, device
<1>4. Places'
  BY <1>1 DEF Typed, Places, Reset, txState, caches, Threads, Senders
<1> QED BY <1>3, <1>4 DEF Typed

LEMMA TypedStopDevice ==
  ASSUME Typed, StopDevice
  PROVE  Typed'
<1>1. /\ pc'["api"] \in {"up", "stop_events"}
      /\ \A s \in Threads : s # "api" => pc'[s] = pc[s]
      /\ pc' \in [Threads -> Stations]
  <2>1. CASE pc["cfg"] \in Sending
    BY <2>1 DEF Typed, Shape, StopDevice
  <2>2. CASE pc["cfg"] \notin Sending
    BY <2>2, GotoTyped DEF Typed, StopDevice, Threads, Stations, Stopping
  <2> QED BY <2>1, <2>2
<1>2. toDevice' \in Seq(Commands)
  BY PostTyped DEF Typed, Shape, StopDevice
<1>3. Shape'
  BY <1>1, <1>2 DEF Typed, Shape, StopDevice, queues, txState, caches, device
<1>4. Places'
  BY <1>1 DEF Typed, Places, StopDevice, txState, caches, Threads, Senders, Stopping
<1> QED BY <1>3, <1>4 DEF Typed

\* Acquire and TakeTx: the commands that may follow.
LEMMA DropDevkeyTyped ==
  ASSUME Typed, NEW i \in DOMAIN devkeys, DropDevkey(i)
  PROVE  /\ devkeys' \in Seq(KeyEntry) /\ devkeysAddr' \in Seq(Addrs)
         /\ Len(devkeys') = Len(devkeysAddr')
         /\ \E c \in Commands : Issue("tx", c) /\ c.op = "devkey_del"
<1>1. /\ devkeys \in Seq(KeyEntry) /\ devkeysAddr \in Seq(Addrs)
      /\ Len(devkeys) = Len(devkeysAddr)
  BY DEF Typed, Shape, Places
<1>2. /\ RemoveAt(devkeys, i) \in Seq(KeyEntry)
      /\ Len(RemoveAt(devkeys, i)) = Len(devkeys) - 1
  BY <1>1, RemoveAtTyped
<1>3. /\ RemoveAt(devkeysAddr, i) \in Seq(Addrs)
      /\ Len(RemoveAt(devkeysAddr, i)) = Len(devkeys) - 1
  BY <1>1, RemoveAtTyped
<1>4. devkeys[i].handle \in Handles
  BY ElementsTyped DEF Typed
<1> QED BY <1>2, <1>3, <1>4, CmdTyped DEF DropDevkey

LEMMA AcquireTyped ==
  ASSUME Typed, Acquire
  PROVE  /\ permits' \in Nat
         /\ devkeys' \in Seq(KeyEntry) /\ devkeysAddr' \in Seq(Addrs)
         /\ Len(devkeys') = Len(devkeysAddr')
         /\ addresses' \in Seq(AddrEntry)
         /\ tx' \in [msg : Messages \union {NoMsg}, key : Handles] /\ tx'.msg = tx.msg
         /\ tx.msg \in Messages
         /\ \/ Die("tx")
            \/ \E c \in Commands :
                 /\ Issue("tx", c) /\ c.op \in TxOps
                 /\ c.op = "send" => c.msg = tx.msg
                 /\ c.op \in {"devkey_del", "devkey_add"} => Dst[tx.msg] \in Keys
<1> DEFINE m == tx.msg
<1>1. /\ m \in Messages /\ Shape
      /\ devkeys \in Seq(KeyEntry) /\ devkeysAddr \in Seq(Addrs)
      /\ Len(devkeys) = Len(devkeysAddr)
      /\ addresses \in Seq(AddrEntry)
      /\ tx \in [msg : Messages \union {NoMsg}, key : Handles]
      /\ appkey \in Handles /\ permits \in Nat
  BY DEF Acquire, Typed, Shape, Places
<1>2. permits' \in Nat
  BY <1>1 DEF Acquire, TakePermit
<1>3. CASE Dst[m] \notin Keys
  <2>1. FindAddress(m, appkey) /\ UNCHANGED <<devkeys, devkeysAddr, tx>>
    BY <1>3 DEF Acquire
  <2>2. /\ addresses' \in Seq(AddrEntry)
        /\ \/ Die("tx")
           \/ \E c \in Commands :
                /\ Issue("tx", c) /\ c.op \in {"addr_del", "addr_add", "send"}
                /\ c.op = "send" => c.msg = m /\ appkey # NoHandle
    BY <1>1, <2>1, FindAddressTyped
  <2> QED BY <1>1, <1>2, <2>1, <2>2 DEF TxOps
<1>4. CASE Dst[m] \in Keys
  <2>0. FindDevkey(m)
    BY <1>4 DEF Acquire
  <2>1. CASE /\ \E i \in CachedKey(m) :
                  /\ tx' = [tx EXCEPT !.key = devkeys[i].handle]
                  /\ FindAddress(m, devkeys[i].handle)
             /\ UNCHANGED <<devkeys, devkeysAddr>>
    <3>1. PICK i \in CachedKey(m) : /\ tx' = [tx EXCEPT !.key = devkeys[i].handle]
                                    /\ FindAddress(m, devkeys[i].handle)
      BY <2>1
    <3>2. devkeys[i].handle \in Handles
      BY <1>1, ElementsTyped DEF CachedKey
    <3>3. /\ addresses' \in Seq(AddrEntry)
          /\ \/ Die("tx")
             \/ \E c \in Commands :
                  /\ Issue("tx", c) /\ c.op \in {"addr_del", "addr_add", "send"}
                  /\ c.op = "send" => c.msg = m /\ devkeys[i].handle # NoHandle
      BY <1>1, <3>1, <3>2, FindAddressTyped
    <3>4. tx' \in [msg : Messages \union {NoMsg}, key : Handles] /\ tx'.msg = m
      BY <1>1, <3>1, <3>2
    <3> QED BY <1>1, <1>2, <2>1, <3>3, <3>4 DEF TxOps
  <2>2. CASE /\ CachedKey(m) = {}
             /\ \/ \E i \in AddrIndex(AddrOf[Dst[m]]) : DropDevkey(i)
                \/ /\ AddrIndex(AddrOf[Dst[m]]) = {} /\ Len(devkeys) >= MaxDevkeys
                   /\ DropDevkey(1)
                \/ /\ Issue("tx", Add("devkey_add", Dst[m]))
                   /\ UNCHANGED <<devkeys, devkeysAddr>>
             /\ UNCHANGED <<tx, addresses>>
    <3>1. CASE \E i \in AddrIndex(AddrOf[Dst[m]]) : DropDevkey(i)
      <4>1. PICK i \in DOMAIN devkeys : DropDevkey(i)
        BY <1>1, <3>1 DEF AddrIndex
      <4> QED BY <1>1, <1>2, <1>4, <2>2, <4>1, DropDevkeyTyped DEF TxOps
    <3>2. CASE Len(devkeys) >= MaxDevkeys /\ DropDevkey(1)
      <4>1. 1 \in DOMAIN devkeys
        BY <1>1, <3>2, TransmissionAssumption
      <4> QED BY <1>1, <1>2, <1>4, <2>2, <3>2, <4>1, DropDevkeyTyped DEF TxOps
    <3>3. CASE /\ Issue("tx", Add("devkey_add", Dst[m]))
               /\ UNCHANGED <<devkeys, devkeysAddr>>
      BY <1>1, <1>2, <1>4, <2>2, <3>3, AddTyped DEF TxOps
    <3> QED BY <2>2, <3>1, <3>2, <3>3
  <2> QED BY <2>0, <2>1, <2>2 DEF FindDevkey
<1> QED BY <1>3, <1>4

LEMMA TypedAcquire ==
  ASSUME Typed, Acquire
  PROVE  Typed'
<1>1. /\ cmd' \in [Senders -> Commands] /\ cmd'["cfg"] = cmd["cfg"]
      /\ pc'["tx"] \in {"clear", "dead"}
      /\ \A s \in Threads : s # "tx" => pc'[s] = pc[s]
      /\ pc' \in [Threads -> Stations]
      /\ pc'["tx"] = "clear" => cmd'["tx"].op \in TxOps
      /\ pc'["tx"] = "clear" /\ cmd'["tx"].op = "send" => cmd'["tx"].msg = tx.msg
      /\ pc'["tx"] = "clear" /\ cmd'["tx"].op \in {"devkey_del", "devkey_add"} =>
           Dst[tx.msg] \in Keys
  <2>1. CASE Die("tx")
    BY <2>1, DieTyped DEF Typed, Senders
  <2>2. ASSUME NEW c \in Commands, Issue("tx", c), c.op \in TxOps,
               c.op = "send" => c.msg = tx.msg,
               c.op \in {"devkey_del", "devkey_add"} => Dst[tx.msg] \in Keys
        PROVE  <1>1!:
    BY <2>2, IssueTyped DEF Typed, Senders
  <2> QED BY <2>1, <2>2, AcquireTyped
<1>2. Shape'
  BY <1>1, AcquireTyped DEF Typed, Shape, Acquire, queues, device
<1>3. Places'
  BY <1>1, AcquireTyped DEF Typed, Places, Acquire, queues, device, Threads, Senders, Sending
<1> QED BY <1>2, <1>3 DEF Typed

LEMMA TakeTxTyped ==
  ASSUME Typed, TakeTx
  PROVE  /\ devkeys' \in Seq(KeyEntry) /\ devkeysAddr' \in Seq(Addrs)
         /\ Len(devkeys') = Len(devkeysAddr')
         /\ addresses' \in Seq(AddrEntry)
         /\ tx' \in [msg : Messages \union {NoMsg}, key : Handles]
         /\ \/ Die("tx")
            \/ Goto("tx", "get") /\ UNCHANGED cmd /\ cmd["tx"].op = "send" /\ tx'.msg = NoMsg
            \/ \E c \in Commands :
                 /\ Issue("tx", c) /\ c.op \in TxOps
                 /\ c.op = "send" => c.msg = tx.msg
                 /\ c.op \in {"devkey_del", "devkey_add"} => Dst[tx.msg] \in Keys
                 /\ cmd["tx"].op # "send" /\ tx'.msg = tx.msg
<1> DEFINE m == tx.msg
           h == slot.response.handle
<1>1. /\ m \in Messages /\ h \in Handles /\ Shape
      /\ devkeys \in Seq(KeyEntry) /\ devkeysAddr \in Seq(Addrs)
      /\ Len(devkeys) = Len(devkeysAddr)
      /\ addresses \in Seq(AddrEntry)
      /\ tx \in [msg : Messages \union {NoMsg}, key : Handles]
      /\ appkey \in Handles
  <2>1. slot.response \in Events
    BY DEF Typed, Shape
  <2>2. slot.response.handle \in Handles
    BY <2>1 DEF Events, Event
  <2> QED BY <2>2 DEF TakeTx, Typed, Shape, Places, Sending
<1>a. Addr(m) \in Addrs /\ Dst[m] \in Keys \union Addrs
  BY <1>1, AddrTyped
<1>2. CASE /\ cmd["tx"].op \in {"devkey_add", "addr_add"} /\ ~HasHandle(slot.response)
           /\ Die("tx")
           /\ UNCHANGED <<devkeys, devkeysAddr, addresses, tx>>
  BY <1>1, <1>2
<1>3. CASE /\ cmd["tx"].op = "send"
           /\ Goto("tx", "get")
           /\ tx' = [tx EXCEPT !.msg = NoMsg]
           /\ UNCHANGED <<devkeys, devkeysAddr, addresses, cmd>>
  BY <1>1, <1>3
<1>4. CASE /\ cmd["tx"].op = "devkey_del"
           /\ Issue("tx", Add("devkey_add", Dst[m]))
           /\ UNCHANGED <<devkeys, devkeysAddr, addresses, tx>>
  <2>1. Dst[m] \in Keys
    BY <1>4 DEF TakeTx, Typed, Places, Sending
  <2>2. Add("devkey_add", Dst[m]) \in Commands /\ Add("devkey_add", Dst[m]).op = "devkey_add"
    BY <2>1, AddTyped
  <2> QED BY <1>1, <1>4, <2>1, <2>2 DEF TxOps
<1>5. CASE /\ cmd["tx"].op = "addr_del"
           /\ Issue("tx", Add("addr_add", Addr(m)))
           /\ UNCHANGED <<devkeys, devkeysAddr, addresses, tx>>
  <2>2. Add("addr_add", Addr(m)) \in Commands /\ Add("addr_add", Addr(m)).op = "addr_add"
    BY <1>a, AddTyped
  <2> QED BY <1>1, <1>5, <2>2 DEF TxOps
<1>6. CASE /\ cmd["tx"].op = "devkey_add" /\ HasHandle(slot.response)
           /\ devkeys' = Append(devkeys, [key |-> Dst[m], handle |-> h])
           /\ devkeysAddr' = Append(devkeysAddr, Addr(m))
           /\ tx' = [tx EXCEPT !.key = h]
           /\ FindAddress(m, h)
  <2>0. Dst[m] \in Keys
    BY <1>6 DEF TakeTx, Typed, Places, Sending
  <2>1. [key |-> Dst[m], handle |-> h] \in KeyEntry
    BY <1>1, <2>0 DEF KeyEntry
  <2>2. /\ devkeys' \in Seq(KeyEntry) /\ devkeysAddr' \in Seq(Addrs)
        /\ Len(devkeys') = Len(devkeysAddr')
    BY <1>1, <1>a, <1>6, <2>1
  <2>3. /\ addresses' \in Seq(AddrEntry)
        /\ \/ Die("tx")
           \/ \E c \in Commands :
                /\ Issue("tx", c) /\ c.op \in {"addr_del", "addr_add", "send"}
                /\ c.op = "send" => c.msg = m /\ h # NoHandle
    BY <1>1, <1>6, FindAddressTyped
  <2>4. tx' \in [msg : Messages \union {NoMsg}, key : Handles] /\ tx'.msg = m
    BY <1>1, <1>6
  <2> QED BY <2>2, <2>3, <2>4, <1>6 DEF TxOps
<1>7. CASE /\ cmd["tx"].op = "addr_add" /\ HasHandle(slot.response)
           /\ addresses' = Append(addresses, [addr |-> Addr(m), handle |-> h])
           /\ SendPacket(m, IF Dst[m] \in Keys THEN tx.key ELSE appkey, h)
           /\ UNCHANGED <<devkeys, devkeysAddr, tx>>
  <2> DEFINE key == IF Dst[m] \in Keys THEN tx.key ELSE appkey
  <2>1. [addr |-> Addr(m), handle |-> h] \in AddrEntry
    BY <1>1, <1>a DEF AddrEntry
  <2>2. addresses' \in Seq(AddrEntry)
    BY <1>1, <1>7, <2>1
  <2>3. key \in Handles
    BY <1>1
  <2>4. SendPacket(m, key, h)
    BY <1>7
  <2> HIDE DEF key
  <2>5. \/ Die("tx")
        \/ \E c \in Commands : Issue("tx", c) /\ c.op = "send" /\ c.msg = m
    BY <1>1, <2>3, <2>4, SendTyped DEF SendPacket
  <2> QED BY <1>1, <1>7, <2>2, <2>5 DEF TxOps
<1> QED
  BY <1>2, <1>3, <1>4, <1>5, <1>6, <1>7 DEF TakeTx

LEMMA TypedTakeTx ==
  ASSUME Typed, TakeTx
  PROVE  Typed'
<1>1. /\ cmd' \in [Senders -> Commands] /\ cmd'["cfg"] = cmd["cfg"]
      /\ pc'["tx"] \in {"clear", "dead", "get"}
      /\ \A s \in Threads : s # "tx" => pc'[s] = pc[s]
      /\ pc' \in [Threads -> Stations]
      /\ pc'["tx"] = "clear" => cmd'["tx"].op \in TxOps /\ tx'.msg = tx.msg
      /\ pc'["tx"] = "clear" /\ cmd'["tx"].op = "send" => cmd'["tx"].msg = tx.msg
      /\ pc'["tx"] = "clear" /\ cmd'["tx"].op \in {"devkey_del", "devkey_add"} =>
           Dst[tx.msg] \in Keys
  <2>1. CASE Die("tx")
    BY <2>1, DieTyped DEF Typed, Senders
  <2>2. ASSUME NEW c \in Commands, Issue("tx", c), c.op \in TxOps,
               c.op = "send" => c.msg = tx.msg,
               c.op \in {"devkey_del", "devkey_add"} => Dst[tx.msg] \in Keys,
               tx'.msg = tx.msg
        PROVE  <1>1!:
    BY <2>2, IssueTyped DEF Typed, Senders
  <2>3. CASE Goto("tx", "get") /\ UNCHANGED cmd
    BY <2>3, GotoTyped DEF Typed, Shape, Senders, Threads, Stations
  <2> QED BY <2>1, <2>2, <2>3, TakeTxTyped
<1>2. Shape'
  BY <1>1, TakeTxTyped DEF Typed, Shape, TakeTx, queues, device
<1>3. tx.msg \in Messages
  BY DEF TakeTx, Typed, Places, Sending
<1>4. Places'
  BY <1>1, <1>3, TakeTxTyped DEF Typed, Places, TakeTx, queues, device, Threads, Senders, Sending
<1> QED BY <1>2, <1>4 DEF Typed

LEMMA TypedTakeCfg ==
  ASSUME Typed, TakeCfg
  PROVE  Typed'
<1> DEFINE i == cmd["cfg"].step
           e == slot.response
<1>1. i \in 1..7 /\ e.handle \in Handles /\ Shape /\ Len(ConfigOps) = 7
  <2>1. slot.response \in Events
    BY DEF Typed, Shape
  <2> QED BY <2>1, OpsAre DEF TakeCfg, Typed, Places, Sending, Events, Event
<1>2. appkey' \in Handles /\ devStarted' \in BOOLEAN
  BY <1>1 DEF TakeCfg, Shape
<1>3. \/ Die("cfg")
      \/ i + 1 \in 1..7 /\ Issue("cfg", Configure(i + 1))
      \/ Goto("cfg", "done") /\ UNCHANGED cmd
  <2> HIDE DEF i
  <2>1. i < 7 => i + 1 \in 1..7
    BY <1>1
  <2> USE DEF i
  <2> QED BY <1>1, <2>1 DEF TakeCfg
<1>4. /\ cmd' \in [Senders -> Commands] /\ cmd'["tx"] = cmd["tx"]
      /\ pc'["cfg"] \in {"clear", "dead", "done"}
      /\ \A s \in Threads : s # "cfg" => pc'[s] = pc[s]
      /\ pc' \in [Threads -> Stations]
      /\ pc'["cfg"] = "clear" =>
           cmd'["cfg"].step \in 1..7 /\ cmd'["cfg"].op = ConfigOps[cmd'["cfg"].step]
      /\ cmd'["cfg"].op # "send"
  <2>1. CASE Die("cfg")
    BY <1>1, <2>1, DieTyped, CmdTyped DEF Senders
  <2>2. CASE i + 1 \in 1..7 /\ Issue("cfg", Configure(i + 1))
    <3>1. /\ Configure(i + 1) \in Commands /\ Configure(i + 1).op = ConfigOps[i + 1]
          /\ Configure(i + 1).step = i + 1
      BY <2>2, ConfigureTyped
    <3>2. ConfigOps[i + 1] # "send"
      BY <2>2, OpsAre
    <3> HIDE DEF i
    <3> QED BY <1>1, <2>2, <3>1, <3>2, IssueTyped DEF Senders
  <2>3. CASE Goto("cfg", "done") /\ UNCHANGED cmd
    BY <1>1, <2>3, GotoTyped DEF Typed, Shape, Places, Senders, Threads, Stations
  <2> QED BY <1>3, <2>1, <2>2, <2>3
<1>5. Shape'
  BY <1>2, <1>4 DEF Typed, Shape, TakeCfg, queues, txState, device
<1>6. Places'
  BY <1>4 DEF Typed, Places, TakeCfg, queues, txState, device, Threads, Senders, Sending
<1> QED BY <1>5, <1>6 DEF Typed

LEMMA TypedHandleEvent ==
  ASSUME Typed, HandleEvent
  PROVE  Typed'
<1> DEFINE e == Head(events)
<1>1. events \in Seq(Events) /\ events # <<>>
  BY DEF Typed, Shape, HandleEvent
<1>2. e \in Events /\ Tail(events) \in Seq(Events)
  BY <1>1
<1>3. permits' \in Nat /\ pending' \subseteq Messages
  <2>1. permits \in Nat /\ pending \subseteq Messages
    BY DEF Typed, Shape
  <2>2. Account(e)
    BY DEF HandleEvent
  <2>3. e.type = "rsp" /\ e.op = "send" => e.msg \in Messages
    BY <1>2 DEF Events
  <2> HIDE DEF e
  <2> QED BY <2>1, <2>2, <2>3 DEF Account
<1>4. \/ Goto("ev", "answer") /\ current' = e /\ UNCHANGED cmd
      \/ Issue("cfg", Configure(1)) /\ UNCHANGED current
      \/ UNCHANGED <<pc, cmd, current>>
  BY DEF HandleEvent
<1>5. /\ cmd' \in [Senders -> Commands] /\ cmd'["tx"] = cmd["tx"]
      /\ pc'["tx"] = pc["tx"] /\ pc'["api"] = pc["api"]
      /\ pc'["ev"] \in {"answer", pc["ev"]} /\ pc'["cfg"] \in {"clear", pc["cfg"]}
      /\ pc' \in [Threads -> Stations]
      /\ \/ cmd'["cfg"] = cmd["cfg"] /\ pc'["cfg"] = pc["cfg"]
         \/ cmd'["cfg"] = Configure(1)
      /\ current' \in Events
  <2> HIDE DEF e
  <2>1. CASE Goto("ev", "answer") /\ current' = e /\ UNCHANGED cmd
    BY <1>2, <2>1, GotoTyped DEF Typed, Shape, Senders, Threads, Stations
  <2>2. CASE Issue("cfg", Configure(1)) /\ UNCHANGED current
    BY <2>2, IssueTyped, ConfigureTyped DEF Typed, Shape, Senders, Threads
  <2>3. CASE UNCHANGED <<pc, cmd, current>>
    BY <2>3 DEF Typed, Shape
  <2> QED BY <1>4, <2>1, <2>2, <2>3
<1>6. Shape'
  BY <1>2, <1>3, <1>5 DEF Typed, Shape, HandleEvent, queues, caches, device
<1>7. cmd'["cfg"].op # "send"
  BY <1>5, ConfigureTyped, OpsAre DEF Typed, Places
<1>8. pc'["cfg"] \in Sending =>
        cmd'["cfg"].step \in 1..7 /\ cmd'["cfg"].op = ConfigOps[cmd'["cfg"].step]
  BY <1>5, ConfigureTyped DEF Typed, Places
<1>9. Places'
  BY <1>5, <1>7, <1>8 DEF Typed, Places, HandleEvent, queues, caches, device, Sending
<1> QED BY <1>6, <1>9 DEF Typed

-----------------------------------------------------------------------------
(* The device. *)

LEMMA EmitTyped ==
  ASSUME Shape, NEW e \in Events, Emit(e)
  PROVE  events' \in Seq(Events)
BY DEF Shape, Emit

LEMMA AddKeyTyped ==
  ASSUME Shape, NEW c \in Commands, NEW what \in Keys \union {"app"}, AddKey(c, what)
  PROVE  dev' \in Tables /\ events' \in Seq(Events)
<1>1. dev \in Tables /\ KeyHandles \subseteq Handles /\ NoHandle \in Handles
  BY DEF Shape, Handles
<1>2. CASE \E h \in FirstFree(dev.keys) :
             /\ dev' = [dev EXCEPT !.keys[h] = what]
             /\ Emit(Rsp(c, TRUE, h))
  <2>1. PICK h \in FirstFree(dev.keys) :
             /\ dev' = [dev EXCEPT !.keys[h] = what]
             /\ Emit(Rsp(c, TRUE, h))
    BY <1>2
  <2>2. h \in KeyHandles
    BY <1>1 DEF FirstFree, FreeRows, Tables, KeyTable
  <2>3. dev' \in Tables
    BY <1>1, <2>1, <2>2 DEF Tables, KeyTable
  <2> QED BY <1>1, <2>1, <2>2, <2>3, EmitTyped, EventTyped
<1>3. CASE Emit(Rsp(c, FALSE, NoHandle)) /\ UNCHANGED dev
  BY <1>1, <1>3, EmitTyped, EventTyped
<1> QED BY <1>2, <1>3 DEF AddKey

LEMMA AddAddrTyped ==
  ASSUME Shape, NEW c \in Commands, NEW what \in Addrs \union {"group"}, AddAddr(c, what)
  PROVE  dev' \in Tables /\ events' \in Seq(Events)
<1>1. dev \in Tables /\ AddrHandles \subseteq Handles /\ NoHandle \in Handles
  BY DEF Shape, Handles
<1>2. CASE \E h \in FirstFree(dev.addrs) :
             /\ dev' = [dev EXCEPT !.addrs[h] = what]
             /\ Emit(Rsp(c, TRUE, h))
  <2>1. PICK h \in FirstFree(dev.addrs) :
             /\ dev' = [dev EXCEPT !.addrs[h] = what]
             /\ Emit(Rsp(c, TRUE, h))
    BY <1>2
  <2>2. h \in AddrHandles
    BY <1>1 DEF FirstFree, FreeRows, Tables, AddrTable
  <2>3. dev' \in Tables
    BY <1>1, <2>1, <2>2 DEF Tables, AddrTable
  <2> QED BY <1>1, <2>1, <2>2, <2>3, EmitTyped, EventTyped
<1>3. CASE Emit(Rsp(c, FALSE, NoHandle)) /\ UNCHANGED dev
  BY <1>1, <1>3, EmitTyped, EventTyped
<1> QED BY <1>2, <1>3 DEF AddAddr

LEMMA ManageTyped ==
  ASSUME Shape, NEW c \in Commands, Manage(c)
  PROVE  dev' \in Tables /\ events' \in Seq(Events)
<1>1. dev \in Tables /\ {0, NoHandle} \subseteq Handles /\ BOOLEAN = {TRUE, FALSE}
  BY DEF Shape, Handles
<1>2. \A ok \in BOOLEAN, h \in {0, NoHandle} :
        Emit(Rsp(c, ok, h)) => events' \in Seq(Events)
  BY <1>1, EmitTyped, EventTyped
<1>3. CASE dev' = [Empty EXCEPT !.sending = dev.sending] /\ Emit(Rsp(c, TRUE, NoHandle))
  BY <1>1, <1>2, <1>3 DEF Empty, Tables, KeyTable, AddrTable
<1>4. CASE Emit(Rsp(c, TRUE, NoHandle)) /\ UNCHANGED dev
  BY <1>1, <1>2, <1>4
<1>5. CASE Emit(Rsp(c, TRUE, 0)) /\ UNCHANGED dev
  BY <1>1, <1>2, <1>5
<1>6. CASE AddKey(c, "app") \/ (c.op = "devkey_add" /\ AddKey(c, c.what))
  BY <1>6, AddKeyTyped DEF Commands
<1>7. CASE AddAddr(c, "group") \/ (c.op = "addr_add" /\ AddAddr(c, c.what))
  BY <1>7, AddAddrTyped DEF Commands
<1>8. CASE /\ dev' = [dev EXCEPT !.keys = Freed(@, c.handle, Keys)]
           /\ Emit(Rsp(c, TRUE, NoHandle))
  <2>1. Freed(dev.keys, c.handle, Keys) \in KeyTable
    BY <1>1 DEF Tables, KeyTable, Freed
  <2> QED BY <1>1, <1>2, <1>8, <2>1 DEF Tables
<1>9. CASE /\ dev' = [dev EXCEPT !.addrs = Freed(@, c.handle, Addrs)]
           /\ Emit(Rsp(c, TRUE, NoHandle))
  <2>1. Freed(dev.addrs, c.handle, Addrs) \in AddrTable
    BY <1>1 DEF Tables, AddrTable, Freed
  <2> QED BY <1>1, <1>2, <1>9, <2>1 DEF Tables
<1> QED
  BY <1>3, <1>4, <1>5, <1>6, <1>7, <1>8, <1>9 DEF Manage

LEMMA TransmitTyped ==
  ASSUME Shape, NEW c \in Commands, Transmit(c)
  PROVE  dev' \in Tables /\ events' \in Seq(Events) /\ air' \in Seq(Packets)
<1>1. dev \in Tables /\ air \in Seq(Packets) /\ NoHandle \in Handles /\ c.msg \in Messages
  BY DEF Shape, Handles, Transmit, Commands
<1>2. CASE UNCHANGED <<dev, air>> /\ Emit(Rsp(c, FALSE, NoHandle))
  BY <1>1, <1>2, EmitTyped, EventTyped
<1>3. CASE /\ Used(dev.keys, c.handle) /\ Used(dev.addrs, c.addr)
           /\ dev' = [dev EXCEPT !.sending = @ \union {c.msg}]
           /\ air' = Append(air, [msg |-> c.msg, key |-> dev.keys[c.handle],
                                  addr |-> dev.addrs[c.addr]])
           /\ Emit(Rsp(c, TRUE, NoHandle))
  <2>1. dev' \in Tables
    BY <1>1, <1>3 DEF Tables
  <2>2. dev.keys[c.handle] \in Keys \union {"free", "app"}
        /\ dev.addrs[c.addr] \in Addrs \union {"free", "group"}
    BY <1>1, <1>3 DEF Used, Tables, KeyTable, AddrTable
  <2>3. [msg |-> c.msg, key |-> dev.keys[c.handle], addr |-> dev.addrs[c.addr]] \in Packets
    BY <1>1, <2>2 DEF Packets
  <2> DEFINE packet == [msg |-> c.msg, key |-> dev.keys[c.handle],
                        addr |-> dev.addrs[c.addr]]
  <2>4. packet \in Packets /\ air' = Append(air, packet)
    BY <1>3, <2>3
  <2> HIDE DEF packet
  <2>5. air' \in Seq(Packets)
    BY <1>1, <2>4
  <2>6. events' \in Seq(Events)
    BY <1>1, <1>3, EmitTyped, EventTyped
  <2> QED BY <2>1, <2>5, <2>6
<1> QED BY <1>2, <1>3 DEF Transmit

LEMMA TypedDeviceCommand ==
  ASSUME Typed, DeviceCommand
  PROVE  Typed'
<1> DEFINE c == Head(toDevice)
<1>1. toDevice \in Seq(Commands) /\ toDevice # <<>> /\ air \in Seq(Packets)
  BY DEF Typed, Shape, DeviceCommand
<1>2. c \in Commands /\ Tail(toDevice) \in Seq(Commands)
  BY <1>1
<1>3. dev' \in Tables /\ events' \in Seq(Events) /\ air' \in Seq(Packets)
  BY <1>1, <1>2, ManageTyped, TransmitTyped DEF Typed, DeviceCommand
<1>4. Shape'
  BY <1>2, <1>3 DEF Typed, Shape, DeviceCommand, queues, txState, caches
<1>5. Places'
  BY DEF Typed, Places, DeviceCommand, queues, txState, caches
<1> QED BY <1>4, <1>5 DEF Typed

LEMMA RestartTyped ==
  ASSUME Shape, NEW lost \in 0..Len(toDevice), Restart(lost)
  PROVE  /\ dev' \in Tables /\ toDevice' \in Seq(Commands) /\ heard' \in BOOLEAN
         /\ events' \in Seq(Events) /\ restarts' \in Nat /\ quiet' \in BOOLEAN
         /\ UNCHANGED air
<1>1. toDevice \in Seq(Commands) /\ events \in Seq(Events) /\ restarts \in Nat
  BY DEF Shape
<1>2. dev' \in Tables
  BY DEF Restart, Empty, Tables, KeyTable, AddrTable
<1>3. toDevice' \in Seq(Commands)
  <2>1. \A i \in (lost + 1)..Len(toDevice) : toDevice[i] \in Commands
    BY <1>1
  <2>2. SubSeq(toDevice, lost + 1, Len(toDevice)) \in Seq(Commands)
    BY <1>1, <2>1, SubSeqProperties
  <2> QED BY <2>2 DEF Restart
<1> QED BY <1>1, <1>2, <1>3, EventTyped DEF Restart, Shape

LEMMA TypedRestart ==
  ASSUME Typed, NEW lost \in 0..Len(toDevice), Restart(lost),
         UNCHANGED <<queues, txState, pc, cmd, slot, caches, devStarted, current, remote>>
  PROVE  Typed'
<1>1. Shape'
  BY RestartTyped DEF Typed, Shape, queues, txState, caches
<1>2. Places'
  BY DEF Typed, Places, txState, caches
<1> QED BY <1>1, <1>2 DEF Typed

LEMMA RestartOf ==
  ASSUME Typed, DeviceReset \/ PowerCycle
  PROVE  /\ \E lost \in 0..Len(toDevice) : Restart(lost)
         /\ UNCHANGED <<queues, txState, pc, cmd, slot, caches, devStarted, current, remote>>
<1>1. Len(toDevice) \in Nat
  BY DEF Typed, Shape
<1> QED BY <1>1 DEF DeviceReset, PowerCycle

LEMMA TypedTransmitted ==
  ASSUME Typed, Transmitted
  PROVE  Typed'
<1>1. PICK m \in dev.sending : /\ dev' = [dev EXCEPT !.sending = @ \ {m}]
                               /\ Emit(Ev("tx_complete", m))
  BY DEF Transmitted
<1>2. m \in Messages /\ dev' \in Tables
  BY <1>1 DEF Typed, Shape, Tables
<1>3. events' \in Seq(Events)
  BY <1>1, <1>2, EmitTyped, EventTyped DEF Typed
<1>4. Shape'
  BY <1>2, <1>3 DEF Typed, Shape, Transmitted, queues, txState, caches
<1>5. Places'
  BY DEF Typed, Places, Transmitted, queues, txState, caches
<1> QED BY <1>4, <1>5 DEF Typed

LEMMA TypedStutter == Typed /\ UNCHANGED vars => Typed'
<1> SUFFICES ASSUME Typed, UNCHANGED vars PROVE Typed'
  OBVIOUS
<1>1. Shape'
  BY DEF Typed, Shape, vars, queues, txState, caches, device
<1>2. Places'
  BY DEF Typed, Places, vars, queues, txState, caches, device
<1> QED BY <1>1, <1>2 DEF Typed

LEMMA TypedNext == Typed /\ [Next]_vars => Typed'
<1> SUFFICES ASSUME Typed, [Next]_vars PROVE Typed'
  OBVIOUS
<1>1. CASE \E m \in Messages : Submit(m)
  BY <1>1, TypedSubmit
<1>2. CASE TxThread
  BY <1>2, TypedTakeHigh, TypedTryLow, TypedTakeLow, TypedEndRun, TypedAcquire, TypedTakeTx,
     TypedClearComplete, TypedExpectOpcode, TypedPutCommand, TypedSeeComplete
  DEF TxThread, SendCommand, Senders
<1>3. CASE CfgThread
  BY <1>3, TypedTakeCfg, TypedClearComplete, TypedExpectOpcode, TypedPutCommand,
     TypedSeeComplete
  DEF CfgThread, SendCommand, Senders
<1>4. CASE EvThread
  BY <1>4, TypedHandleEvent, TypedStoreResponse, TypedSetComplete DEF EvThread
<1>5. CASE ApiThread
  BY <1>5, TypedStart, TypedReset, TypedStarted, TypedStopDevice, TypedStopEvents,
     TypedStopUart, TypedStopTx
  DEF ApiThread
<1>6. CASE Device \/ PowerCycle
  BY <1>6, TypedDeviceCommand, TypedRestart, RestartOf, TypedTransmitted DEF Device
<1>7. CASE UNCHANGED vars
  BY <1>7, TypedStutter
<1> QED
  BY <1>1, <1>2, <1>3, <1>4, <1>5, <1>6, <1>7 DEF Next

-----------------------------------------------------------------------------
(* Before the device starts. *)

LEMMA DeafInit == Init => Deaf
<1> SUFFICES ASSUME Init PROVE Deaf
  OBVIOUS
<1>1. pc["tx"] = "get"
  BY DEF Init, Senders
<1>2. Ev("none", NoMsg).handle = NoHandle
  BY DEF Ev
<1>3. slot.response = Ev("none", NoMsg)
  BY DEF Init
<1>4. tx.key = NoHandle
  BY DEF Init
<1>5. slot.response.handle = NoHandle /\ current.handle = NoHandle
  BY <1>2, <1>3 DEF Init
<1>6. pc["tx"] \notin Sending
  BY <1>1 DEF Sending
<1>7. events = <<>> /\ devkeys = <<>> /\ appkey = NoHandle /\ DOMAIN toDevice = {}
  BY DEF Init
<1> QED BY <1>4, <1>5, <1>6, <1>7 DEF Deaf

LEMMA DeafTx ==
  ASSUME Typed, Deaf, TxThread
  PROVE  Deaf'
<1> SUFFICES ASSUME ~heard
             PROVE  Deaf'
  BY DEF Deaf, TxThread, SendCommand, TakeHigh, TryLow, TakeLow, EndRun, Acquire, TakeTx,
     ClearComplete, ExpectOpcode, PutCommand, SeeComplete, device
<1>1. /\ events = <<>> /\ current.handle = NoHandle
      /\ slot.response.handle = NoHandle
      /\ tx.key = NoHandle /\ appkey = NoHandle
      /\ devkeys = <<>>
      /\ pc["tx"] \in Sending => cmd["tx"].op # "send"
      /\ \A i \in DOMAIN toDevice : toDevice[i].op # "send"
  BY DEF Deaf
<1>2. CASE TryLow \/ EndRun \/ SeeComplete("tx") \/ ClearComplete("tx") \/ ExpectOpcode("tx")
  <2>1. pc'["tx"] \in Sending => pc["tx"] \in Sending
    BY <1>2 DEF Typed, Shape, Threads, Senders, TryLow, EndRun, SeeComplete, ClearComplete,
       ExpectOpcode, Goto, Sending
  <2>2. slot'.response = slot.response
    BY <1>2 DEF Typed, Shape, TryLow, EndRun, SeeComplete, ClearComplete, ExpectOpcode
  <2> QED BY <1>1, <1>2, <2>1, <2>2 DEF Deaf, TryLow, EndRun, SeeComplete, ClearComplete,
            ExpectOpcode, queues, txState, caches, device
<1>3. CASE TakeHigh \/ TakeLow
  <2>1. pc'["tx"] \notin Sending
    BY <1>3 DEF Typed, Shape, Threads, Senders, TakeHigh, TakeLow, Goto, Sending
  <2>2. tx'.key = tx.key
    BY <1>3 DEF Typed, Shape, TakeHigh, TakeLow
  <2> QED BY <1>1, <1>3, <2>1, <2>2 DEF Deaf, TakeHigh, TakeLow, caches, device
<1>4. CASE PutCommand("tx")
  <2>1. pc["tx"] \in Sending /\ toDevice' = Append(toDevice, cmd["tx"])
        /\ toDevice \in Seq(Commands)
    BY <1>4 DEF PutCommand, Sending, Typed, Shape
  <2>2. \A i \in DOMAIN toDevice' : toDevice'[i].op # "send"
    BY <1>1, <2>1
  <2> QED BY <1>1, <1>4, <2>1, <2>2 DEF Deaf, PutCommand, queues, txState, caches, device
<1>5. CASE Acquire
  <2>1. /\ tx.msg \in Messages /\ Shape
    BY <1>5, AcquireTyped DEF Typed
  <2>2. CASE Dst[tx.msg] \notin Keys
    <3>1. FindAddress(tx.msg, appkey) /\ UNCHANGED <<devkeys, devkeysAddr, tx>>
      BY <1>5, <2>2 DEF Acquire
    <3>2. \/ Die("tx")
          \/ \E c \in Commands : Issue("tx", c) /\ c.op # "send"
      BY <1>1, <2>1, <3>1, FindAddressTyped DEF Shape
    <3>3. pc'["tx"] \in Sending => cmd'["tx"].op # "send"
      BY <2>1, <3>2, IssueTyped, DieTyped DEF Senders, Sending
    <3> QED BY <1>1, <1>5, <3>1, <3>3 DEF Acquire, Deaf, device
  <2>3. CASE Dst[tx.msg] \in Keys
    <3>1. FindDevkey(tx.msg) /\ DOMAIN devkeys = {}
      BY <1>1, <1>5, <2>3 DEF Acquire
    <3>2. DOMAIN devkeysAddr = {} /\ Len(devkeys) = 0
      BY <1>1, <3>1 DEF Typed, Places, Shape
    <3>3. CachedKey(tx.msg) = {} /\ AddrIndex(AddrOf[Dst[tx.msg]]) = {}
      BY <3>1, <3>2 DEF CachedKey, AddrIndex
    <3>4. /\ Issue("tx", Add("devkey_add", Dst[tx.msg]))
          /\ UNCHANGED <<tx, devkeys>>
      BY <3>1, <3>2, <3>3, TransmissionAssumption DEF FindDevkey
    <3>5. cmd'["tx"].op # "send"
      BY <2>1, <2>3, <3>4, AddTyped, IssueTyped DEF Senders
    <3> QED BY <1>1, <1>5, <3>4, <3>5 DEF Acquire, Deaf, device
  <2> QED BY <2>2, <2>3
<1>6. CASE TakeTx
  <2>1. pc["tx"] \in Sending /\ cmd["tx"].op # "send" /\ ~HasHandle(slot.response)
        /\ cmd["tx"].op \in TxOps
    BY <1>1, <1>6 DEF TakeTx, Sending, HasHandle, Typed, Places
  <2>2. /\ UNCHANGED <<devkeys, tx>>
        /\ \/ Die("tx")
           \/ Issue("tx", Add("devkey_add", Dst[tx.msg])) /\ Dst[tx.msg] \in Keys
           \/ Issue("tx", Add("addr_add", Addr(tx.msg)))
    BY <1>6, <2>1 DEF TakeTx, Typed, Places
  <2>3. tx.msg \in Messages
    BY <2>1 DEF Typed, Places
  <2>4. pc'["tx"] \in Sending => cmd'["tx"].op # "send"
    BY <2>2, <2>3, IssueTyped, DieTyped, AddTyped, AddrTyped DEF Senders, Sending, Typed
  <2> QED BY <1>1, <1>6, <2>2, <2>4 DEF TakeTx, Deaf, device
<1> QED BY <1>2, <1>3, <1>4, <1>5, <1>6 DEF TxThread, SendCommand

LEMMA DeafCfg ==
  ASSUME Typed, Deaf, CfgThread
  PROVE  Deaf'
<1> SUFFICES ASSUME ~heard
             PROVE  Deaf'
  BY DEF Deaf, CfgThread, SendCommand, TakeCfg, ClearComplete, ExpectOpcode, PutCommand,
     SeeComplete, device
<1>1. /\ events = <<>> /\ current.handle = NoHandle
      /\ slot.response.handle = NoHandle
      /\ tx.key = NoHandle /\ appkey = NoHandle
      /\ devkeys = <<>>
      /\ pc["tx"] \in Sending => cmd["tx"].op # "send"
      /\ \A i \in DOMAIN toDevice : toDevice[i].op # "send"
  BY DEF Deaf
<1>2. pc'["tx"] = pc["tx"] /\ cmd'["tx"] = cmd["tx"]
  BY DEF CfgThread, SendCommand, TakeCfg, ClearComplete, ExpectOpcode, PutCommand,
     SeeComplete, Goto, Issue, Die, Typed, Shape, Threads, Senders
<1>3. slot'.response = slot.response
  BY DEF CfgThread, SendCommand, TakeCfg, ClearComplete, ExpectOpcode, PutCommand,
     SeeComplete, Typed, Shape
<1>4. \A i \in DOMAIN toDevice' : toDevice'[i].op # "send"
  <2>1. CASE PutCommand("cfg")
    <3>1. /\ toDevice' = Append(toDevice, cmd["cfg"]) /\ toDevice \in Seq(Commands)
          /\ cmd["cfg"].op # "send"
      BY <2>1 DEF PutCommand, Typed, Shape, Places
    <3> QED BY <1>1, <3>1
  <2>2. CASE ~PutCommand("cfg")
    BY <1>1, <2>2 DEF CfgThread, SendCommand, TakeCfg, ClearComplete, ExpectOpcode, SeeComplete
  <2> QED BY <2>1, <2>2
<1>5. appkey' = appkey
  <2>1. CASE TakeCfg
    <3>1. cmd["cfg"].step < 4 \/ UNCHANGED appkey
      BY <1>1, <2>1 DEF TakeCfg, HasHandle
    <3>2. cmd["cfg"].step \in 1..7
      BY <2>1 DEF TakeCfg, Typed, Places, Sending
    <3>3. cmd["cfg"].step < 4 => ConfigOps[cmd["cfg"].step] # "appkey_add"
      BY <3>2 DEF ConfigOps
    <3> QED BY <2>1, <3>1, <3>3 DEF TakeCfg
  <2>2. CASE ~TakeCfg
    BY <2>2 DEF CfgThread, SendCommand, ClearComplete, ExpectOpcode, PutCommand, SeeComplete,
       caches
  <2> QED BY <2>1, <2>2
<1>6. UNCHANGED <<events, current, tx, devkeys>>
  BY DEF CfgThread, SendCommand, TakeCfg, ClearComplete, ExpectOpcode, PutCommand,
     SeeComplete, txState, caches
<1> QED BY <1>1, <1>2, <1>3, <1>4, <1>5, <1>6 DEF Deaf

\* What reset and stop send.
LEMMA PostEffect ==
  ASSUME Shape, Start \/ Reset \/ StopDevice
  PROVE  /\ \A i \in DOMAIN toDevice :
              i \in DOMAIN toDevice' /\ toDevice'[i] = toDevice[i]
         /\ \A i \in DOMAIN toDevice' :
              \/ i \in DOMAIN toDevice /\ toDevice'[i] = toDevice[i]
              \/ i \notin DOMAIN toDevice /\ toDevice'[i].op \in {"reset", "unsubscribe"}
<1> DEFINE one == <<Cmd("reset")>>
           three == <<Cmd("unsubscribe"), Cmd("unsubscribe"), Cmd("reset")>>
<1>1. toDevice' = toDevice \/ Post(one) \/ Post(three)
  BY DEF Start, Reset, StopDevice
<1>2. toDevice \in Seq(Commands)
  BY DEF Shape
<1>3. /\ one \in Seq(Commands) /\ \A i \in DOMAIN one : one[i].op = "reset"
      /\ three \in Seq(Commands)
      /\ \A i \in DOMAIN three : three[i].op \in {"reset", "unsubscribe"}
  BY CmdTyped
<1>4. ASSUME NEW more \in Seq(Commands), Post(more),
             \A i \in DOMAIN more : more[i].op \in {"reset", "unsubscribe"}
      PROVE  /\ \A i \in DOMAIN toDevice :
                  i \in DOMAIN toDevice' /\ toDevice'[i] = toDevice[i]
             /\ \A i \in DOMAIN toDevice' :
                  \/ i \in DOMAIN toDevice /\ toDevice'[i] = toDevice[i]
                  \/ i \notin DOMAIN toDevice /\ toDevice'[i].op \in {"reset", "unsubscribe"}
  <2>1. toDevice' = toDevice \o more
    BY <1>4 DEF Post
  <2> QED BY <1>2, <1>4, <2>1
<1> HIDE DEF one, three
<1> QED BY <1>1, <1>3, <1>4

LEMMA DeafRest ==
  ASSUME Typed, Deaf,
         (\E m \in Messages : Submit(m)) \/ EvThread \/ ApiThread \/ UNCHANGED vars
  PROVE  Deaf'
<1> SUFFICES ASSUME ~heard
             PROVE  Deaf'
  BY DEF Deaf, Submit, EvThread, ApiThread, HandleEvent, StoreResponse, SetComplete, Start,
     Reset, Started, StopDevice, StopEvents, StopUart, StopTx, vars, device
<1>1. /\ events = <<>> /\ current.handle = NoHandle
      /\ slot.response.handle = NoHandle
      /\ tx.key = NoHandle /\ appkey = NoHandle
      /\ devkeys = <<>>
      /\ pc["tx"] \in Sending => cmd["tx"].op # "send"
      /\ \A i \in DOMAIN toDevice : toDevice[i].op # "send"
  BY DEF Deaf
<1>2. CASE \E m \in Messages : Submit(m)
  BY <1>1, <1>2 DEF Submit, Deaf, txState, caches, device
<1>3. CASE EvThread
  <2>1. ~HandleEvent
    BY <1>1 DEF HandleEvent
  <2>2. pc'["tx"] = pc["tx"]
    BY <1>3, <2>1 DEF EvThread, StoreResponse, SetComplete, Goto, Typed, Shape, Threads, Senders
  <2>3. slot'.response.handle = NoHandle /\ current'.handle = NoHandle
    BY <1>1, <1>3, <2>1 DEF EvThread, StoreResponse, SetComplete, Typed, Shape, Ev
  <2> QED BY <1>1, <1>3, <2>1, <2>2, <2>3 DEF EvThread, StoreResponse, SetComplete, Deaf,
            txState, caches, device
<1>4. CASE ApiThread
  <2>1. pc'["tx"] = pc["tx"]
    BY <1>4 DEF ApiThread, Start, Reset, Started, StopDevice, StopEvents, StopUart, StopTx,
       Goto, Typed, Shape, Threads, Senders
  <2>2. \A i \in DOMAIN toDevice' : toDevice'[i].op # "send"
    <3>1. CASE Start \/ Reset \/ StopDevice
      BY <1>1, <3>1, PostEffect DEF Typed
    <3>2. CASE ~(Start \/ Reset \/ StopDevice)
      BY <1>1, <1>4, <3>2 DEF ApiThread, Started, StopEvents, StopUart, StopTx
    <3> QED BY <3>1, <3>2
  <2> QED BY <1>1, <1>4, <2>1, <2>2 DEF ApiThread, Start, Reset, Started, StopDevice,
            StopEvents, StopUart, StopTx, Deaf, txState, caches, device
<1>5. CASE UNCHANGED vars
  BY <1>1, <1>5 DEF vars, Deaf, txState, caches, device
<1> QED BY <1>2, <1>3, <1>4, <1>5

\* What the device does with a command.
LEMMA AddEffect ==
  ASSUME Typed, NEW c \in Commands, NEW what,
         AddKey(c, what) \/ AddAddr(c, what)
  PROVE  /\ dev'.sending = dev.sending
         /\ \E ok \in BOOLEAN, h \in Handles : Emit(Rsp(c, ok, h))
<1>1. dev \in Tables /\ KeyHandles \subseteq Handles /\ AddrHandles \subseteq Handles
      /\ NoHandle \in Handles
  BY DEF Typed, Shape, Handles
<1>2. CASE UNCHANGED dev /\ Emit(Rsp(c, FALSE, NoHandle))
  BY <1>1, <1>2
<1>3. CASE \E h \in FirstFree(dev.keys) :
             dev' = [dev EXCEPT !.keys[h] = what] /\ Emit(Rsp(c, TRUE, h))
  BY <1>1, <1>3 DEF FirstFree, FreeRows, Tables, KeyTable
<1>4. CASE \E h \in FirstFree(dev.addrs) :
             dev' = [dev EXCEPT !.addrs[h] = what] /\ Emit(Rsp(c, TRUE, h))
  BY <1>1, <1>4 DEF FirstFree, FreeRows, Tables, AddrTable
<1> QED BY <1>2, <1>3, <1>4 DEF AddKey, AddAddr

DeviceDoes(c) ==
  \E ok \in BOOLEAN, h \in Handles :
    /\ Emit(Rsp(c, ok, h))
    /\ \/ dev'.sending = dev.sending /\ (c.op = "send" => ~ok)
       \/ c.op = "send" /\ ok /\ dev'.sending = dev.sending \union {c.msg}

LEMMA CommandEffect ==
  ASSUME Typed, NEW c \in Commands, Manage(c) \/ Transmit(c)
  PROVE  DeviceDoes(c)
<1>1. dev \in Tables /\ {0, NoHandle} \subseteq Handles
  BY DEF Typed, Shape, Handles
<1>2. CASE Manage(c)
  <2>1. c.op # "send"
    BY <1>2 DEF Manage
  <2>2. CASE \E what : AddKey(c, what) \/ AddAddr(c, what)
    BY <2>1, <2>2, AddEffect DEF DeviceDoes
  <2>3. CASE /\ \/ dev' = [Empty EXCEPT !.sending = dev.sending]
                \/ UNCHANGED dev
                \/ dev' = [dev EXCEPT !.keys = Freed(@, c.handle, Keys)]
                \/ dev' = [dev EXCEPT !.addrs = Freed(@, c.handle, Addrs)]
             /\ Emit(Rsp(c, TRUE, NoHandle)) \/ Emit(Rsp(c, TRUE, 0))
    <3>1. dev'.sending = dev.sending
      BY <1>1, <2>3 DEF Empty, Tables
    <3>2. PICK h \in {0, NoHandle} : Emit(Rsp(c, TRUE, h))
      BY <2>3
    <3> QED BY <1>1, <2>1, <3>1, <3>2 DEF DeviceDoes
  <2> QED BY <1>2, <2>2, <2>3 DEF Manage
<1>3. CASE Transmit(c)
  <2>1. CASE Emit(Rsp(c, FALSE, NoHandle)) /\ UNCHANGED <<dev, air>>
    <3>1. \E ok \in BOOLEAN : Emit(Rsp(c, ok, NoHandle)) /\ ~ok
      BY <2>1
    <3> QED BY <1>1, <2>1, <3>1 DEF DeviceDoes
  <2>2. CASE dev' = [dev EXCEPT !.sending = @ \union {c.msg}] /\ Emit(Rsp(c, TRUE, NoHandle))
    <3>1. dev'.sending = dev.sending \union {c.msg} /\ c.op = "send"
      BY <1>1, <1>3, <2>2 DEF Tables, Transmit
    <3> QED BY <1>1, <2>2, <3>1 DEF DeviceDoes
  <2> QED BY <1>3, <2>1, <2>2 DEF Transmit
<1> QED BY <1>2, <1>3

LEMMA DeviceEffect ==
  ASSUME Typed, DeviceCommand
  PROVE  /\ toDevice \in Seq(Commands) /\ toDevice # <<>> /\ toDevice[1] \in Commands
         /\ toDevice' = Tail(toDevice)
         /\ DeviceDoes(toDevice[1])
<1>1. toDevice \in Seq(Commands) /\ toDevice # <<>> /\ toDevice' = Tail(toDevice)
  BY DEF Typed, Shape, DeviceCommand
<1>2. Head(toDevice) = toDevice[1] /\ toDevice[1] \in Commands
  BY <1>1
<1> QED BY <1>1, <1>2, CommandEffect DEF DeviceCommand

LEMMA DeafDevice ==
  ASSUME Typed, Deaf, Device \/ PowerCycle
  PROVE  Deaf'
<1>1. CASE DeviceReset \/ PowerCycle
  BY <1>1, RestartOf DEF Restart, Deaf
<1>2. CASE DeviceCommand
  <2>1. heard' = heard /\ toDevice' = Tail(toDevice) /\ toDevice \in Seq(Commands)
        /\ toDevice # <<>>
    BY <1>2 DEF DeviceCommand, Typed, Shape
  <2>2. ~heard => events' = events
    BY <1>2, DeviceEffect DEF Emit, DeviceDoes
  <2>3. (\A i \in DOMAIN toDevice : toDevice[i].op # "send")
          => \A i \in DOMAIN toDevice' : toDevice'[i].op # "send"
    BY <2>1
  <2> QED BY <1>2, <2>1, <2>2, <2>3 DEF Deaf, DeviceCommand, txState, caches
<1>3. CASE Transmitted
  <2>1. ~heard => events' = events
    BY <1>3 DEF Transmitted, Emit
  <2> QED BY <1>3, <2>1 DEF Deaf, Transmitted, txState, caches
<1> QED BY <1>1, <1>2, <1>3 DEF Device

LEMMA DeafNext == Typed /\ Deaf /\ [Next]_vars => Deaf'
BY DeafTx, DeafCfg, DeafRest, DeafDevice DEF Next

-----------------------------------------------------------------------------
(* What is in the queues after a step. *)

LEMMA AfterAppend ==
  ASSUME NEW S, NEW s \in Seq(S), NEW e \in S
  PROVE  /\ \A i \in DOMAIN Append(s, e) :
              \/ i \in DOMAIN s /\ i < Len(s) + 1 /\ Append(s, e)[i] = s[i]
              \/ i = Len(s) + 1 /\ Append(s, e)[i] = e
         /\ \A i \in DOMAIN s : i \in DOMAIN Append(s, e) /\ Append(s, e)[i] = s[i]
         /\ Len(s) + 1 \in DOMAIN Append(s, e) /\ Append(s, e)[Len(s) + 1] = e
OBVIOUS

LEMMA AfterTail ==
  ASSUME NEW S, NEW s \in Seq(S), s # <<>>
  PROVE  /\ \A i \in DOMAIN Tail(s) : i \in Nat /\ i + 1 \in DOMAIN s /\ Tail(s)[i] = s[i + 1]
         /\ \A i \in DOMAIN s : i = 1 \/ (i - 1 \in DOMAIN Tail(s) /\ Tail(s)[i - 1] = s[i])
         /\ 1 \in DOMAIN s /\ Head(s) = s[1]
OBVIOUS

LEMMA AfterCut ==
  ASSUME NEW S, NEW s \in Seq(S), NEW k \in 0..Len(s)
  PROVE  \A i \in DOMAIN SubSeq(s, k + 1, Len(s)) :
           i \in Nat /\ i + k \in DOMAIN s /\ SubSeq(s, k + 1, Len(s))[i] = s[i + k]
<1> DEFINE t == SubSeq(s, k + 1, Len(s))
<1>1. \A i \in (k + 1)..Len(s) : s[i] \in S
  OBVIOUS
<1>2. /\ t \in Seq(S) /\ Len(t) = IF k + 1 <= Len(s) THEN Len(s) - (k + 1) + 1 ELSE 0
      /\ \A i \in 1..(Len(s) - (k + 1) + 1) : t[i] = s[(k + 1) + i - 1]
  BY <1>1, SubSeqProperties
<1> HIDE DEF t
<1>3. Len(t) = Len(s) - k
  BY <1>2
<1>4. ASSUME NEW i \in DOMAIN t
      PROVE  i \in Nat /\ i + k \in DOMAIN s /\ t[i] = s[i + k]
  <2>1. i \in 1..(Len(s) - k)
    BY <1>2, <1>3, <1>4
  <2>2. i \in 1..(Len(s) - (k + 1) + 1) /\ (k + 1) + i - 1 = i + k
    BY <2>1
  <2>3. t[i] = s[(k + 1) + i - 1]
    BY <1>2, <2>2
  <2>4. i \in Nat /\ i + k \in DOMAIN s
    BY <2>1
  <2> QED BY <2>2, <2>3, <2>4
<1> QED BY <1>4 DEF t

LEMMA EventAppended ==
  ASSUME Shape, NEW e \in Events, events' = Append(events, e)
  PROVE  /\ \A m \in Messages :
              /\ Answered(m)' <=> Answered(m) \/ Answers(e, m)
              /\ Refused(m)' <=> Refused(m) \/ (Answers(e, m) /\ ~e.ok)
              /\ Reported(m)' <=> Reported(m) \/ (e.type = "tx_complete" /\ e.msg = m)
         /\ AnsweredOnce /\ (\A m \in Messages : Answers(e, m) => ~Answered(m))
              => AnsweredOnce'
<1>1. /\ \A i \in DOMAIN events' :
           \/ i \in DOMAIN events /\ events'[i] = events[i]
           \/ i = Len(events) + 1 /\ events'[i] = e
      /\ \A i \in DOMAIN events : i \in DOMAIN events' /\ events'[i] = events[i]
      /\ Len(events) + 1 \in DOMAIN events' /\ events'[Len(events) + 1] = e
  BY AfterAppend DEF Shape
<1>2. \A m \in Messages : Answered(m)' <=> Answered(m) \/ Answers(e, m)
  BY <1>1 DEF Answered
<1>3. \A m \in Messages : Refused(m)' <=> Refused(m) \/ (Answers(e, m) /\ ~e.ok)
  BY <1>1 DEF Refused
<1>4. \A m \in Messages :
        Reported(m)' <=> Reported(m) \/ (e.type = "tx_complete" /\ e.msg = m)
  BY <1>1 DEF Reported
<1>5. ASSUME AnsweredOnce, \A m \in Messages : Answers(e, m) => ~Answered(m)
      PROVE  AnsweredOnce'
  <2> SUFFICES ASSUME NEW m \in Messages, NEW i \in DOMAIN events', NEW j \in DOMAIN events',
                      Answers(events'[i], m), Answers(events'[j], m)
               PROVE  i = j
    BY DEF AnsweredOnce
  <2>1. CASE Answers(e, m)
    BY <1>1, <1>5, <2>1 DEF Answered
  <2>2. CASE ~Answers(e, m)
    BY <1>1, <1>5, <2>2 DEF AnsweredOnce
  <2> QED BY <2>1, <2>2
<1> QED BY <1>2, <1>3, <1>4, <1>5

LEMMA EventTaken ==
  ASSUME Shape, events # <<>>, events' = Tail(events)
  PROVE  LET e == events[1] IN
         /\ \A m \in Messages :
              /\ Answered(m)' => Answered(m)
              /\ Answered(m) => Answered(m)' \/ Answers(e, m)
              /\ Refused(m)' => Refused(m)
              /\ Reported(m)' => Reported(m)
              /\ Answers(e, m) => Answered(m)
              /\ Answers(e, m) /\ ~e.ok => Refused(m)
              /\ e.type = "tx_complete" /\ e.msg = m => Reported(m)
         /\ AnsweredOnce => /\ AnsweredOnce'
                            /\ \A m \in Messages : Answers(e, m) => ~Answered(m)'
<1> DEFINE e == events[1]
<1>1. /\ \A i \in DOMAIN events' : i \in Nat /\ i + 1 \in DOMAIN events /\ events'[i] = events[i + 1]
      /\ \A i \in DOMAIN events : i = 1 \/ (i - 1 \in DOMAIN events' /\ events'[i - 1] = events[i])
      /\ 1 \in DOMAIN events
  BY AfterTail DEF Shape
<1>2. ASSUME NEW m \in Messages
      PROVE  /\ Answered(m)' => Answered(m)
             /\ Refused(m)' => Refused(m)
             /\ Reported(m)' => Reported(m)
             /\ Answers(e, m) => Answered(m)
             /\ Answers(e, m) /\ ~e.ok => Refused(m)
             /\ e.type = "tx_complete" /\ e.msg = m => Reported(m)
  BY <1>1 DEF Answered, Refused, Reported
<1>3. ASSUME NEW m \in Messages, Answered(m), ~Answers(e, m)
      PROVE  Answered(m)'
  <2>1. PICK i \in DOMAIN events : Answers(events[i], m)
    BY <1>3 DEF Answered
  <2>2. i - 1 \in DOMAIN events' /\ Answers(events'[i - 1], m)
    BY <1>1, <1>3, <2>1
  <2> QED BY <2>2 DEF Answered
<1>4. ASSUME AnsweredOnce PROVE AnsweredOnce'
  <2> SUFFICES ASSUME NEW m \in Messages, NEW i \in DOMAIN events', NEW j \in DOMAIN events',
                      Answers(events'[i], m), Answers(events'[j], m)
               PROVE  i = j
    BY DEF AnsweredOnce
  <2>1. i + 1 = j + 1
    BY <1>1, <1>4 DEF AnsweredOnce
  <2> QED BY <1>1, <2>1
<1>5. ASSUME AnsweredOnce, NEW m \in Messages, Answers(e, m), Answered(m)'
      PROVE  FALSE
  <2>1. PICK i \in DOMAIN events' : Answers(events'[i], m)
    BY <1>5 DEF Answered
  <2>2. i + 1 \in DOMAIN events /\ Answers(events[i + 1], m) /\ i \in Nat /\ 1 \in DOMAIN events
    BY <1>1, <2>1
  <2>3. i \in 1..Len(events')
    BY <2>1, <1>1 DEF Shape
  <2>4. i + 1 = 1
    BY <1>5, <2>2 DEF AnsweredOnce
  <2> QED BY <2>3, <2>4
<1> QED BY <1>2, <1>3, <1>4, <1>5

LEMMA EventsSame ==
  ASSUME UNCHANGED events
  PROVE  /\ \A m \in Messages : /\ Answered(m)' <=> Answered(m)
                                /\ Refused(m)' <=> Refused(m)
                                /\ Reported(m)' <=> Reported(m)
         /\ AnsweredOnce => AnsweredOnce'
BY DEF Answered, Refused, Reported, AnsweredOnce

LEMMA CommandAppended ==
  ASSUME Shape, NEW c \in Commands, toDevice' = Append(toDevice, c)
  PROVE  /\ \A m \in Messages : OnWay(m)' <=> OnWay(m) \/ Carries(c, m)
         /\ SentOnce /\ (\A m \in Messages : Carries(c, m) => ~OnWay(m)) => SentOnce'
<1>1. /\ \A i \in DOMAIN toDevice' :
           \/ i \in DOMAIN toDevice /\ toDevice'[i] = toDevice[i]
           \/ i = Len(toDevice) + 1 /\ toDevice'[i] = c
      /\ \A i \in DOMAIN toDevice : i \in DOMAIN toDevice' /\ toDevice'[i] = toDevice[i]
      /\ Len(toDevice) + 1 \in DOMAIN toDevice' /\ toDevice'[Len(toDevice) + 1] = c
  BY AfterAppend DEF Shape
<1>2. \A m \in Messages : OnWay(m)' <=> OnWay(m) \/ Carries(c, m)
  BY <1>1 DEF OnWay
<1>3. ASSUME SentOnce, \A m \in Messages : Carries(c, m) => ~OnWay(m)
      PROVE  SentOnce'
  <2> SUFFICES ASSUME NEW m \in Messages, NEW i \in DOMAIN toDevice', NEW j \in DOMAIN toDevice',
                      Carries(toDevice'[i], m), Carries(toDevice'[j], m)
               PROVE  i = j
    BY DEF SentOnce
  <2>1. CASE Carries(c, m)
    BY <1>1, <1>3, <2>1 DEF OnWay
  <2>2. CASE ~Carries(c, m)
    BY <1>1, <1>3, <2>2 DEF SentOnce
  <2> QED BY <2>1, <2>2
<1> QED BY <1>2, <1>3

LEMMA CommandTaken ==
  ASSUME Shape, toDevice # <<>>, toDevice' = Tail(toDevice)
  PROVE  /\ \A m \in Messages : /\ OnWay(m)' => OnWay(m)
                                /\ Carries(toDevice[1], m) => OnWay(m)
         /\ SentOnce => /\ SentOnce'
                        /\ \A m \in Messages : Carries(toDevice[1], m) => ~OnWay(m)'
<1>1. /\ \A i \in DOMAIN toDevice' :
           i \in Nat /\ i + 1 \in DOMAIN toDevice /\ toDevice'[i] = toDevice[i + 1]
      /\ 1 \in DOMAIN toDevice
  BY AfterTail DEF Shape
<1>2. \A m \in Messages : /\ OnWay(m)' => OnWay(m)
                          /\ Carries(toDevice[1], m) => OnWay(m)
  BY <1>1 DEF OnWay
<1>4. ASSUME SentOnce PROVE SentOnce'
  <2> SUFFICES ASSUME NEW m \in Messages, NEW i \in DOMAIN toDevice', NEW j \in DOMAIN toDevice',
                      Carries(toDevice'[i], m), Carries(toDevice'[j], m)
               PROVE  i = j
    BY DEF SentOnce
  <2>1. i + 1 = j + 1
    BY <1>1, <1>4 DEF SentOnce
  <2> QED BY <1>1, <2>1
<1>5. ASSUME SentOnce, NEW m \in Messages, Carries(toDevice[1], m), OnWay(m)'
      PROVE  FALSE
  <2>1. PICK i \in DOMAIN toDevice' : Carries(toDevice'[i], m)
    BY <1>5 DEF OnWay
  <2>2. /\ i + 1 \in DOMAIN toDevice /\ Carries(toDevice[i + 1], m)
        /\ i \in Nat /\ 1 \in DOMAIN toDevice
    BY <1>1, <2>1
  <2>3. i \in 1..Len(toDevice')
    BY <2>1, <1>1 DEF Shape
  <2>4. i + 1 = 1
    BY <1>5, <2>2 DEF SentOnce
  <2> QED BY <2>3, <2>4
<1> QED BY <1>2, <1>4, <1>5

LEMMA CommandsCut ==
  ASSUME Shape, NEW k \in 0..Len(toDevice), toDevice' = SubSeq(toDevice, k + 1, Len(toDevice))
  PROVE  /\ \A m \in Messages : OnWay(m)' => OnWay(m)
         /\ SentOnce => SentOnce'
<1>1. \A i \in DOMAIN toDevice' :
        i \in Nat /\ i + k \in DOMAIN toDevice /\ toDevice'[i] = toDevice[i + k]
  BY AfterCut DEF Shape
<1>2. \A m \in Messages : OnWay(m)' => OnWay(m)
  BY <1>1 DEF OnWay
<1>3. ASSUME SentOnce PROVE SentOnce'
  <2> SUFFICES ASSUME NEW m \in Messages, NEW i \in DOMAIN toDevice', NEW j \in DOMAIN toDevice',
                      Carries(toDevice'[i], m), Carries(toDevice'[j], m)
               PROVE  i = j
    BY DEF SentOnce
  <2>1. i + k = j + k
    BY <1>1, <1>3 DEF SentOnce
  <2> QED BY <1>1, <2>1
<1> QED BY <1>2, <1>3

LEMMA CommandsPosted ==
  ASSUME Shape, (Start \/ Reset \/ StopDevice) \/ UNCHANGED toDevice
  PROVE  /\ \A m \in Messages : OnWay(m)' <=> OnWay(m)
         /\ SentOnce => SentOnce'
<1>1. CASE UNCHANGED toDevice
  BY <1>1 DEF OnWay, SentOnce
<1>2. CASE Start \/ Reset \/ StopDevice
  <2>1. /\ \A i \in DOMAIN toDevice : i \in DOMAIN toDevice' /\ toDevice'[i] = toDevice[i]
        /\ \A i \in DOMAIN toDevice' :
             \/ i \in DOMAIN toDevice /\ toDevice'[i] = toDevice[i]
             \/ \A m \in Messages : ~Carries(toDevice'[i], m)
    BY <1>2, PostEffect DEF Carries
  <2> QED BY <2>1 DEF OnWay, SentOnce
<1> QED BY <1>1, <1>2

-----------------------------------------------------------------------------
(* Messages move forward. *)

Single == QueuedOnce /\ SentOnce /\ AnsweredOnce

LEMMA ForwardInit == Init => Forward /\ Single
<1> SUFFICES ASSUME Init PROVE Forward /\ Single
  OBVIOUS
<1>1. pc["tx"] = "get" /\ dev.sending = {}
  BY DEF Init, Senders, Empty
<1>2. pending = {} /\ DOMAIN high = {} /\ DOMAIN low = {} /\ DOMAIN toDevice = {}
      /\ DOMAIN events = {}
  BY DEF Init
<1>3. \A m \in Messages : ~Held(m) /\ ~OnWay(m) /\ ~Answered(m) /\ ~Refused(m) /\ ~Reported(m)
  BY <1>1, <1>2 DEF Held, OnWay, Answered, Refused, Reported, Sending
<1> QED BY <1>1, <1>2, <1>3 DEF Forward, Past, Single, QueuedOnce, SentOnce, AnsweredOnce

\* Steps that move no message.
LEMMA ForwardStill ==
  ASSUME Forward, UNCHANGED <<pending, dev>>,
         \A m \in Messages : /\ Queued(m)' => Queued(m)
                             /\ Held(m)' => Held(m)
                             /\ OnWay(m)' <=> OnWay(m)
                             /\ Answered(m)' <=> Answered(m)
                             /\ Refused(m)' <=> Refused(m)
                             /\ Reported(m)' <=> Reported(m)
  PROVE  Forward'
BY DEF Forward, Past

LEMMA QueuesSame ==
  ASSUME UNCHANGED queues
  PROVE  (\A m \in Messages : Queued(m)' => Queued(m)) /\ (QueuedOnce => QueuedOnce')
BY DEF queues, Queued, QueuedOnce

LEMMA ForwardSubmit ==
  ASSUME Typed, Forward, Single, NEW m \in Messages, Submit(m)
  PROVE  Forward' /\ Single'
<1>1. /\ high \in Seq(Messages) /\ low \in Seq(Messages)
      /\ m \in fresh /\ fresh' = fresh \ {m}
  BY DEF Typed, Shape, Submit
<1>2. \/ high' = Append(high, m) /\ low' = low
      \/ low' = Append(low, m) /\ high' = high
      \/ high' = high /\ low' = low
  BY DEF Submit
<1>3. /\ \A i \in DOMAIN Append(high, m) :
           \/ i \in DOMAIN high /\ i < Len(high) + 1 /\ Append(high, m)[i] = high[i]
           \/ i = Len(high) + 1 /\ Append(high, m)[i] = m
      /\ \A i \in DOMAIN Append(low, m) :
           \/ i \in DOMAIN low /\ i < Len(low) + 1 /\ Append(low, m)[i] = low[i]
           \/ i = Len(low) + 1 /\ Append(low, m)[i] = m
  BY <1>1, AfterAppend
<1>4. \A n \in Messages : Queued(n)' => Queued(n)
  BY <1>1, <1>2, <1>3 DEF Queued
<1>5. QueuedOnce'
  <2>1. QueuedOnce
    BY DEF Single
  <2>2. (\A i \in DOMAIN high : high[i] # m) /\ (\A i \in DOMAIN low : low[i] # m)
    BY <1>1, <2>1 DEF QueuedOnce
  <2>3. CASE high' = Append(high, m) /\ low' = low
    BY <1>1, <1>3, <2>1, <2>2, <2>3 DEF QueuedOnce
  <2>4. CASE low' = Append(low, m) /\ high' = high
    BY <1>1, <1>3, <2>1, <2>2, <2>4 DEF QueuedOnce
  <2>5. CASE high' = high /\ low' = low
    BY <1>1, <2>1, <2>5 DEF QueuedOnce
  <2> QED BY <1>2, <2>3, <2>4, <2>5
<1>6. UNCHANGED <<pending, dev, tx, pc, cmd, toDevice, events>>
  BY DEF Submit, txState, device
<1>7. \A n \in Messages : Held(n)' => Held(n)
  BY <1>6 DEF Held
<1> QED BY <1>4, <1>5, <1>6, <1>7, ForwardStill, EventsSame, CommandsPosted DEF Single, Typed

\* A message is taken from one of the queues.
LEMMA ForwardTake ==
  ASSUME Typed, Forward, Single, TakeHigh \/ TakeLow
  PROVE  Forward' /\ Single'
<1>1. /\ UNCHANGED <<fresh, pending, dev, cmd, toDevice, events>>
      /\ pc["tx"] \in {"get", "low"}
  BY DEF TakeHigh, TakeLow, device
<1>2. \A m \in Messages : ~Held(m)
  BY <1>1 DEF Held, Sending
<1>3. high \in Seq(Messages) /\ low \in Seq(Messages)
  BY DEF Typed, Shape
<1>4. CASE high # <<>> /\ high' = Tail(high) /\ low' = low /\ tx' = [tx EXCEPT !.msg = Head(high)]
  <2>1. /\ \A i \in DOMAIN high' : i \in Nat /\ i + 1 \in DOMAIN high /\ high'[i] = high[i + 1]
        /\ 1 \in DOMAIN high /\ Head(high) = high[1]
    BY <1>3, <1>4, AfterTail
  <2>2. QueuedOnce'
    BY <1>1, <1>4, <2>1 DEF Single, QueuedOnce
  <2>3. \A m \in Messages : Queued(m)' => Queued(m) /\ m # high[1]
    <3>1. \A i \in DOMAIN high' : high'[i] # high[1]
      <4> SUFFICES ASSUME NEW i \in DOMAIN high', high'[i] = high[1]
                   PROVE  FALSE
        OBVIOUS
      <4>1. i + 1 = 1
        BY <2>1 DEF Single, QueuedOnce
      <4>2. i \in 1..Len(high')
        BY <1>3, <1>4
      <4> QED BY <4>1, <4>2
    <3>2. high[1] \notin fresh /\ \A i \in DOMAIN low : low[i] # high[1]
      BY <2>1 DEF Single, QueuedOnce
    <3> QED BY <1>1, <1>4, <2>1, <3>1, <3>2 DEF Queued
  <2>4. \A m \in Messages : Held(m)' => m = high[1]
    BY <1>4, <2>1 DEF Held, Typed, Shape
  <2>5. \A m \in Messages : Held(m)' => Queued(m)
    BY <2>1, <2>4 DEF Queued
  <2>6. Forward'
    BY <1>1, <2>3, <2>4, <2>5, EventsSame, CommandsPosted DEF Forward, Past, Typed
  <2> QED BY <1>1, <2>2, <2>6, EventsSame, CommandsPosted DEF Single, Typed
<1>5. CASE low # <<>> /\ low' = Tail(low) /\ high' = high /\ tx' = [tx EXCEPT !.msg = Head(low)]
  <2>1. /\ \A i \in DOMAIN low' : i \in Nat /\ i + 1 \in DOMAIN low /\ low'[i] = low[i + 1]
        /\ 1 \in DOMAIN low /\ Head(low) = low[1]
    BY <1>3, <1>5, AfterTail
  <2>2. QueuedOnce'
    BY <1>1, <1>5, <2>1 DEF Single, QueuedOnce
  <2>3. \A m \in Messages : Queued(m)' => Queued(m) /\ m # low[1]
    <3>1. \A i \in DOMAIN low' : low'[i] # low[1]
      <4> SUFFICES ASSUME NEW i \in DOMAIN low', low'[i] = low[1]
                   PROVE  FALSE
        OBVIOUS
      <4>1. i + 1 = 1
        BY <2>1 DEF Single, QueuedOnce
      <4>2. i \in 1..Len(low')
        BY <1>3, <1>5
      <4> QED BY <4>1, <4>2
    <3>2. low[1] \notin fresh /\ \A i \in DOMAIN high : high[i] # low[1]
      BY <2>1 DEF Single, QueuedOnce
    <3> QED BY <1>1, <1>5, <2>1, <3>1, <3>2 DEF Queued
  <2>4. \A m \in Messages : Held(m)' => m = low[1]
    BY <1>5, <2>1 DEF Held, Typed, Shape
  <2>5. \A m \in Messages : Held(m)' => Queued(m)
    BY <2>1, <2>4 DEF Queued
  <2>6. Forward'
    BY <1>1, <2>3, <2>4, <2>5, EventsSame, CommandsPosted DEF Forward, Past, Typed
  <2> QED BY <1>1, <2>2, <2>6, EventsSame, CommandsPosted DEF Single, Typed
<1>6. CASE TakeLow /\ low = <<>>
  <2>1. UNCHANGED queues /\ pc'["tx"] = "get"
    BY <1>6 DEF TakeLow, queues, Goto, Typed, Shape, Threads, Senders
  <2>2. \A m \in Messages : ~Held(m)'
    BY <2>1 DEF Held, Sending
  <2> QED BY <1>1, <2>1, <2>2, ForwardStill, QueuesSame, EventsSame, CommandsPosted
        DEF Single, Typed
<1> QED BY <1>4, <1>5, <1>6 DEF TakeHigh, TakeLow

\* Steps of the transmission thread that leave what it holds, or let it go.
LEMMA HoldEffect ==
  ASSUME Typed,
         TryLow \/ EndRun \/ Acquire \/ TakeTx
         \/ ClearComplete("tx") \/ ExpectOpcode("tx") \/ SeeComplete("tx")
  PROVE  /\ UNCHANGED <<queues, pending, dev, toDevice, events>>
         /\ pc'["api"] = pc["api"]
         /\ \A m \in Messages : Held(m)' => Held(m)
         /\ ~Acquire => permits' = permits /\ (pc'["tx"] \in Sending => pc["tx"] \in Sending)
<1>1. UNCHANGED <<queues, pending, dev, toDevice, events>>
  BY DEF TryLow, EndRun, Acquire, TakeTx, ClearComplete, ExpectOpcode, SeeComplete,
     txState, device
<1>2. CASE TryLow \/ EndRun
  <2>1. pc'["tx"] \in {"low", "ended"} /\ pc'["api"] = pc["api"] /\ permits' = permits
    BY <1>2 DEF TryLow, EndRun, Goto, Typed, Shape, Threads, Senders, txState
  <2> QED BY <1>1, <2>1 DEF Held, Sending
<1>3. CASE ClearComplete("tx") \/ ExpectOpcode("tx") \/ SeeComplete("tx")
  <2>1. /\ pc["tx"] \in Sending /\ UNCHANGED <<tx, cmd, permits>> /\ pc'["api"] = pc["api"]
        /\ pc'["tx"] \in {"expect", "put"} => pc["tx"] \in {"clear", "expect"}
        /\ pc'["tx"] \in {"expect", "put", "take"}
        /\ pc'["tx"] = "take" => pc["tx"] = "wait"
    BY <1>3 DEF ClearComplete, ExpectOpcode, SeeComplete, Goto, Typed, Shape, Threads,
       Senders, txState, Sending
  <2> QED BY <1>1, <2>1 DEF Held, Sending
<1>4. CASE Acquire
  <2>1. pc["tx"] = "permit" /\ tx'.msg = tx.msg
    BY <1>4, AcquireTyped DEF Acquire
  <2>2. \E c : Die("tx") \/ Issue("tx", c)
    BY <1>4, AcquireTyped
  <2>3. pc'["api"] = pc["api"]
    BY <2>2 DEF Die, Issue, Goto, Typed, Shape, Threads, Senders
  <2> QED BY <1>1, <1>4, <2>1, <2>3 DEF Held, Sending
<1>5. CASE TakeTx
  <2>1. pc["tx"] = "take" /\ permits' = permits
    BY <1>5 DEF TakeTx
  <2>2. CASE Die("tx") \/ (Goto("tx", "get") /\ UNCHANGED cmd)
    <3>1. pc'["tx"] \in {"dead", "get"} /\ pc'["api"] = pc["api"]
      BY <2>2 DEF Die, Goto, Typed, Shape, Threads, Senders
    <3> QED BY <1>1, <2>1, <3>1 DEF Held, Sending
  <2>3. CASE \E c : Issue("tx", c) /\ cmd["tx"].op # "send" /\ tx'.msg = tx.msg
    <3>1. pc'["api"] = pc["api"]
      BY <2>3 DEF Issue, Goto, Typed, Shape, Threads, Senders
    <3> QED BY <1>1, <2>1, <2>3, <3>1 DEF Held, Sending
  <2> QED BY <1>5, <2>2, <2>3, TakeTxTyped
<1> QED BY <1>2, <1>3, <1>4, <1>5

LEMMA ForwardHold ==
  ASSUME Typed, Forward, Single,
         TryLow \/ EndRun \/ Acquire \/ TakeTx
         \/ ClearComplete("tx") \/ ExpectOpcode("tx") \/ SeeComplete("tx")
  PROVE  Forward' /\ Single'
BY HoldEffect, ForwardStill, QueuesSame, EventsSame, CommandsPosted DEF Single, Typed

LEMMA ForwardPut ==
  ASSUME Typed, Forward, Single, NEW t \in Senders, PutCommand(t)
  PROVE  Forward' /\ Single'
<1>1. /\ UNCHANGED <<queues, pending, dev, events, tx, cmd>>
      /\ toDevice' = Append(toDevice, cmd[t]) /\ cmd[t] \in Commands
      /\ pc[t] = "put" /\ pc'[t] = "wait"
      /\ \A s \in Senders : s # t => pc'[s] = pc[s]
  BY DEF PutCommand, Typed, Shape, Goto, Threads, Senders, txState, device
<1>2. CASE cmd[t].op # "send"
  <2>1. \A m \in Messages : ~Carries(cmd[t], m)
    BY <1>2 DEF Carries
  <2>2. \A m \in Messages : OnWay(m)' <=> OnWay(m)
    BY <1>1, <2>1, CommandAppended DEF Typed
  <2>3. \A m \in Messages : Held(m)' => Held(m)
    BY <1>1, <1>2 DEF Held, Sending, Senders
  <2> QED BY <1>1, <2>1, <2>2, <2>3, CommandAppended, ForwardStill, QueuesSame, EventsSame
        DEF Single, Typed
<1>3. CASE cmd[t].op = "send"
  <2>1. t = "tx" /\ cmd[t].msg = tx.msg
    BY <1>1, <1>3 DEF Typed, Places, Senders, Sending
  <2>2. \A m \in Messages : Carries(cmd[t], m) => Held(m)
    BY <1>1, <2>1 DEF Carries, Held, Sending
  <2>3. \A m \in Messages : ~Held(m)'
    BY <1>1, <1>3, <2>1 DEF Held, Sending
  <2>4. \A m \in Messages : OnWay(m)' <=> OnWay(m) \/ Carries(cmd[t], m)
    BY <1>1, CommandAppended DEF Typed
  <2>5. Forward'
    BY <1>1, <2>2, <2>3, <2>4, QueuesSame, EventsSame DEF Forward, Past
  <2>6. SentOnce'
    BY <1>1, <2>2, CommandAppended DEF Forward, Single, Typed
  <2> QED BY <1>1, <2>5, <2>6, QueuesSame, EventsSame DEF Single
<1> QED BY <1>2, <1>3

LEMMA ForwardOthers ==
  ASSUME Typed, Forward, Single,
         \/ TakeCfg \/ ClearComplete("cfg") \/ ExpectOpcode("cfg") \/ SeeComplete("cfg")
         \/ StoreResponse \/ SetComplete \/ ApiThread \/ UNCHANGED vars
  PROVE  Forward' /\ Single'
<1>1. UNCHANGED <<fresh, high, low, pending, dev, events, tx>>
  BY DEF TakeCfg, ClearComplete, ExpectOpcode, SeeComplete, StoreResponse, SetComplete,
     ApiThread, Start, Reset, Started, StopDevice, StopEvents, StopUart, StopTx, vars,
     queues, txState, device
<1>2. pc'["tx"] = pc["tx"] /\ cmd'["tx"] = cmd["tx"]
  BY DEF TakeCfg, ClearComplete, ExpectOpcode, SeeComplete, StoreResponse, SetComplete,
     ApiThread, Start, Reset, Started, StopDevice, StopEvents, StopUart, StopTx, vars,
     Goto, Issue, Die, Typed, Shape, Threads, Senders
<1>3. \A m \in Messages : Held(m)' => Held(m)
  BY <1>1, <1>2 DEF Held
<1>4. (Start \/ Reset \/ StopDevice) \/ UNCHANGED toDevice
  BY DEF TakeCfg, ClearComplete, ExpectOpcode, SeeComplete, StoreResponse, SetComplete,
     ApiThread, Started, StopEvents, StopUart, StopTx, vars
<1> QED BY <1>1, <1>3, <1>4, ForwardStill, QueuesSame, EventsSame, CommandsPosted
      DEF Single, Typed, queues

LEMMA HandleEventEffect ==
  ASSUME Typed, HandleEvent
  PROVE  /\ events # <<>> /\ events' = Tail(events) /\ events[1] \in Events
         /\ Account(events[1]) /\ EventsRun
         /\ UNCHANGED <<fresh, high, low, dev, toDevice, tx>>
         /\ pc'["tx"] = pc["tx"] /\ pc'["api"] = pc["api"] /\ cmd'["tx"] = cmd["tx"]
<1>1. events \in Seq(Events) /\ events # <<>>
  BY DEF Typed, Shape, HandleEvent
<1>2. Head(events) = events[1] /\ events[1] \in Events
  BY <1>1
<1>3. \/ Goto("ev", "answer") /\ UNCHANGED cmd
      \/ Issue("cfg", Configure(1))
      \/ UNCHANGED <<pc, cmd>>
  BY DEF HandleEvent
<1>4. pc'["tx"] = pc["tx"] /\ pc'["api"] = pc["api"] /\ cmd'["tx"] = cmd["tx"]
  BY <1>3 DEF Goto, Issue, Typed, Shape, Threads, Senders
<1> QED BY <1>1, <1>2, <1>4 DEF HandleEvent, queues, device

\* What the handlers of TxManager do.
LEMMA AccountEffect ==
  ASSUME Typed, NEW e \in Events, Account(e)
  PROVE  \/ /\ e.msg \in Messages /\ Answers(e, e.msg) /\ e.ok
            /\ pending' = pending \union {e.msg} /\ permits' = permits
         \/ /\ e.msg \in Messages /\ Answers(e, e.msg) /\ ~e.ok
            /\ pending' = pending /\ permits' = permits + 1
         \/ /\ e.msg \in pending /\ e.type = "tx_complete"
            /\ pending' = pending \ {e.msg} /\ permits' = permits + 1
         \/ /\ \A m \in Messages : ~Answers(e, m)
            /\ pending' = pending /\ permits' = permits
<1>1. e.type = "rsp" /\ e.op = "send" => e.msg \in Messages /\ Answers(e, e.msg)
  BY DEF Events, Answers
<1>2. ~(e.type = "rsp" /\ e.op = "send") => \A m \in Messages : ~Answers(e, m)
  BY DEF Answers
<1>3. e.type = "tx_complete" => \A m \in Messages : ~Answers(e, m)
  BY DEF Answers
<1> QED BY <1>1, <1>2, <1>3 DEF Account

LEMMA ForwardHandle ==
  ASSUME Typed, Forward, Single, HandleEvent
  PROVE  Forward' /\ Single'
<1> DEFINE e == events[1]
<1>1. /\ events # <<>> /\ events' = Tail(events) /\ e \in Events /\ Account(e)
      /\ UNCHANGED <<fresh, high, low, dev, toDevice, tx>>
      /\ pc'["tx"] = pc["tx"] /\ cmd'["tx"] = cmd["tx"]
  BY HandleEventEffect
<1>2. /\ \A m \in Messages :
           /\ Answered(m)' => Answered(m)
           /\ Answered(m) => Answered(m)' \/ Answers(e, m)
           /\ Refused(m)' => Refused(m)
           /\ Reported(m)' => Reported(m)
           /\ Answers(e, m) => Answered(m) /\ ~Answered(m)'
           /\ Answers(e, m) /\ ~e.ok => Refused(m)
           /\ e.type = "tx_complete" /\ e.msg = m => Reported(m)
      /\ AnsweredOnce'
  BY <1>1, EventTaken DEF Single, Typed
<1>3. /\ \A m \in Messages : /\ Queued(m)' <=> Queued(m)
                             /\ Held(m)' <=> Held(m)
                             /\ OnWay(m)' <=> OnWay(m)
      /\ QueuedOnce' /\ SentOnce'
  BY <1>1 DEF Queued, Held, OnWay, QueuedOnce, SentOnce, Single
<1>4. \/ /\ e.msg \in Messages /\ Answers(e, e.msg) /\ e.ok
         /\ pending' = pending \union {e.msg}
      \/ /\ e.msg \in Messages /\ Answers(e, e.msg) /\ ~e.ok
         /\ pending' = pending
      \/ /\ e.msg \in pending /\ e.type = "tx_complete"
         /\ pending' = pending \ {e.msg}
      \/ /\ \A m \in Messages : ~Answers(e, m)
         /\ pending' = pending
  BY <1>1, AccountEffect
<1>5. pending \subseteq Messages /\ dev' = dev
  BY <1>1 DEF Typed, Shape
<1>6. \A m \in Messages : Answers(e, m) => m = e.msg
  BY DEF Answers
<1> HIDE DEF e
<1>7. Forward'
  <2>1. CASE /\ e.msg \in Messages /\ Answers(e, e.msg) /\ e.ok
             /\ pending' = pending \union {e.msg}
    BY <1>2, <1>3, <1>5, <1>6, <2>1 DEF Forward, Past
  <2>2. CASE /\ e.msg \in Messages /\ Answers(e, e.msg) /\ ~e.ok
             /\ pending' = pending
    BY <1>2, <1>3, <1>5, <1>6, <2>2 DEF Forward, Past
  <2>3. CASE /\ e.msg \in pending /\ e.type = "tx_complete"
             /\ pending' = pending \ {e.msg}
    <3>1. \A m \in Messages : ~Answers(e, m)
      BY <2>3 DEF Answers
    <3> QED BY <1>2, <1>3, <1>5, <2>3, <3>1 DEF Forward, Past
  <2>4. CASE /\ \A m \in Messages : ~Answers(e, m)
             /\ pending' = pending
    BY <1>2, <1>3, <1>5, <2>4 DEF Forward, Past
  <2> QED BY <1>4, <2>1, <2>2, <2>3, <2>4
<1> QED BY <1>2, <1>3, <1>7 DEF Single

\* A command of the transmission thread carries no packet before the device is heard.
LEMMA ForwardDeviceCommand ==
  ASSUME Typed, Deaf, Forward, Single, DeviceCommand
  PROVE  Forward' /\ Single'
<1> DEFINE c == toDevice[1]
<1>1. /\ toDevice # <<>> /\ c \in Commands /\ toDevice' = Tail(toDevice) /\ DeviceDoes(c)
  BY DeviceEffect
<1>2. /\ \A m \in Messages : /\ OnWay(m)' => OnWay(m)
                             /\ Carries(c, m) => OnWay(m) /\ ~OnWay(m)'
      /\ SentOnce'
  BY <1>1, CommandTaken DEF Single, Typed
<1>3. UNCHANGED <<fresh, high, low, pending, tx, pc, cmd>>
  BY DEF DeviceCommand, queues, txState
<1>4. /\ \A m \in Messages : /\ Queued(m)' <=> Queued(m)
                             /\ Held(m)' <=> Held(m)
      /\ QueuedOnce'
  BY <1>3 DEF Queued, Held, QueuedOnce, Single
<1>5. c.op = "send" => heard
  <2>1. 1 \in DOMAIN toDevice
    BY <1>1 DEF Typed, Shape
  <2> QED BY <2>1 DEF Deaf
<1>6. c.op = "send" => c.msg \in Messages /\ Carries(c, c.msg)
  BY <1>1 DEF Commands, Carries
<1> HIDE DEF c
<1>7. PICK ok \in BOOLEAN, h \in Handles :
           /\ Emit(Rsp(c, ok, h))
           /\ \/ dev'.sending = dev.sending /\ (c.op = "send" => ~ok)
              \/ c.op = "send" /\ ok /\ dev'.sending = dev.sending \union {c.msg}
  BY <1>1 DEF DeviceDoes
<1> DEFINE e == Rsp(c, ok, h)
<1>8. /\ e \in Events /\ e.type = "rsp" /\ e.ok = ok
      /\ \A m \in Messages : Answers(e, m) <=> Carries(c, m)
  BY <1>1, EventTyped DEF Rsp, Answers, Carries
<1>9. \A m \in Messages : Carries(c, m) => c.op = "send" /\ m = c.msg
  BY DEF Carries
<1>10. Emit(e)
  BY <1>7
<1> HIDE DEF e
<1>11. CASE heard
  <2>1. events' = Append(events, e)
    BY <1>10, <1>11 DEF Emit
  <2>2. /\ \A m \in Messages :
             /\ Answered(m)' <=> Answered(m) \/ Carries(c, m)
             /\ Refused(m)' <=> Refused(m) \/ (Carries(c, m) /\ ~ok)
             /\ Reported(m)' <=> Reported(m)
        /\ AnsweredOnce /\ (\A m \in Messages : Carries(c, m) => ~Answered(m))
             => AnsweredOnce'
    BY <1>8, <2>1, EventAppended DEF Typed
  <2>3. AnsweredOnce'
    BY <1>2, <2>2 DEF Forward, Past, Single
  <2>4. Forward'
    <3>1. CASE dev'.sending = dev.sending /\ (c.op = "send" => ~ok)
      BY <1>2, <1>3, <1>4, <1>9, <2>2, <3>1 DEF Forward, Past
    <3>2. CASE c.op = "send" /\ ok /\ dev'.sending = dev.sending \union {c.msg}
      <4>1. \A m \in Messages : Refused(m) => Answered(m)
        BY DEF Refused, Answered
      <4>2. ASSUME NEW m \in Messages, m # c.msg
            PROVE  /\ Queued(m)' => ~Held(m)' /\ ~OnWay(m)' /\ ~Past(m)'
                   /\ Held(m)' => ~OnWay(m)' /\ ~Past(m)'
                   /\ OnWay(m)' => ~Past(m)'
                   /\ Answered(m)' => m \notin pending'
                   /\ Refused(m)' \/ Reported(m)' => m \notin dev'.sending
                   /\ m \in dev'.sending => Answered(m)' \/ m \in pending'
        BY <1>2, <1>3, <1>4, <1>9, <2>2, <3>2, <4>2 DEF Forward, Past
      <4>3. ASSUME NEW m \in Messages, m = c.msg
            PROVE  /\ Queued(m)' => ~Held(m)' /\ ~OnWay(m)' /\ ~Past(m)'
                   /\ Held(m)' => ~OnWay(m)' /\ ~Past(m)'
                   /\ OnWay(m)' => ~Past(m)'
                   /\ Answered(m)' => m \notin pending'
                   /\ Refused(m)' \/ Reported(m)' => m \notin dev'.sending
                   /\ m \in dev'.sending => Answered(m)' \/ m \in pending'
        <5>1. Carries(c, m) /\ OnWay(m) /\ ~OnWay(m)' /\ Answered(m)'
          BY <1>2, <1>6, <2>2, <3>2, <4>3
        <5>2. ~Queued(m) /\ ~Held(m) /\ ~Past(m)
          BY <5>1 DEF Forward
        <5>3. ~Refused(m)' /\ ~Reported(m)' /\ m \notin pending'
          BY <1>3, <2>2, <3>2, <4>1, <5>2 DEF Past
        <5> QED BY <1>4, <5>1, <5>2, <5>3
      <4> QED BY <4>2, <4>3 DEF Forward
    <3> QED BY <1>7, <3>1, <3>2
  <2> QED BY <1>2, <1>4, <2>3, <2>4 DEF Single
<1>12. CASE ~heard
  <2>1. events' = events /\ dev'.sending = dev.sending
    BY <1>5, <1>7, <1>10, <1>12 DEF Emit
  <2>2. \A m \in Messages : ~Carries(c, m)
    BY <1>5, <1>9, <1>12
  <2>3. /\ \A m \in Messages : /\ Answered(m)' <=> Answered(m)
                               /\ Refused(m)' <=> Refused(m)
                               /\ Reported(m)' <=> Reported(m)
        /\ AnsweredOnce'
    BY <2>1, EventsSame DEF Single
  <2>4. Forward'
    BY <1>2, <1>3, <1>4, <2>1, <2>3 DEF Forward, Past
  <2> QED BY <1>2, <1>4, <2>3, <2>4 DEF Single
<1> QED BY <1>11, <1>12

LEMMA ForwardRestart ==
  ASSUME Typed, Forward, Single, DeviceReset \/ PowerCycle
  PROVE  Forward' /\ Single'
<1>1. PICK lost \in 0..Len(toDevice) : Restart(lost)
  BY RestartOf
<1>2. UNCHANGED <<fresh, high, low, pending, tx, pc, cmd>>
  BY RestartOf DEF queues, txState
<1>3. /\ \A m \in Messages : /\ Queued(m)' <=> Queued(m)
                             /\ Held(m)' <=> Held(m)
      /\ QueuedOnce'
  BY <1>2 DEF Queued, Held, QueuedOnce, Single
<1>4. (\A m \in Messages : OnWay(m)' => OnWay(m)) /\ SentOnce'
  BY <1>1, CommandsCut DEF Restart, Single, Typed
<1> DEFINE e == Ev("dev_reset", NoMsg)
<1>5. e \in Events /\ events' = Append(events, e) /\ e.type = "dev_reset"
  BY <1>1, EventTyped DEF Restart, Ev
<1> HIDE DEF e
<1>6. \A m \in Messages : ~Answers(e, m)
  BY <1>5 DEF Answers
<1>7. /\ \A m \in Messages : /\ Answered(m)' <=> Answered(m)
                             /\ Refused(m)' <=> Refused(m)
                             /\ Reported(m)' <=> Reported(m)
      /\ AnsweredOnce'
  BY <1>5, <1>6, EventAppended DEF Single, Typed
<1>8. dev'.sending = {}
  BY <1>1 DEF Restart, Empty
<1>9. Forward'
  BY <1>2, <1>3, <1>4, <1>7, <1>8 DEF Forward, Past
<1> QED BY <1>3, <1>4, <1>7, <1>9 DEF Single

LEMMA ForwardTransmitted ==
  ASSUME Typed, Deaf, Forward, Single, Transmitted
  PROVE  Forward' /\ Single'
<1>1. PICK m \in dev.sending : /\ dev' = [dev EXCEPT !.sending = @ \ {m}]
                               /\ Emit(Ev("tx_complete", m))
  BY DEF Transmitted
<1>2. m \in Messages /\ dev'.sending = dev.sending \ {m}
  BY <1>1 DEF Typed, Shape, Tables
<1>3. UNCHANGED <<fresh, high, low, pending, tx, pc, cmd, toDevice>>
  BY DEF Transmitted, queues, txState
<1>4. /\ \A n \in Messages : /\ Queued(n)' <=> Queued(n)
                             /\ Held(n)' <=> Held(n)
                             /\ OnWay(n)' <=> OnWay(n)
      /\ QueuedOnce' /\ SentOnce'
  BY <1>3 DEF Queued, Held, OnWay, QueuedOnce, SentOnce, Single
<1> DEFINE e == Ev("tx_complete", m)
<1>5. e \in Events /\ e.type = "tx_complete" /\ e.msg = m /\ Emit(e)
  BY <1>1, <1>2, EventTyped DEF Ev
<1> HIDE DEF e
<1>6. \A n \in Messages : ~Answers(e, n)
  BY <1>5 DEF Answers
<1>7. /\ \A n \in Messages : /\ Answered(n)' <=> Answered(n)
                             /\ Refused(n)' <=> Refused(n)
                             /\ Reported(n)' => Reported(n) \/ n = m
      /\ AnsweredOnce'
  <2>1. CASE heard
    BY <1>5, <1>6, <2>1, EventAppended DEF Emit, Single, Typed
  <2>2. CASE ~heard
    BY <1>5, <2>2, EventsSame DEF Emit, Single
  <2> QED BY <2>1, <2>2
<1>8. Forward'
  BY <1>1, <1>2, <1>3, <1>4, <1>7 DEF Forward, Past
<1> QED BY <1>4, <1>7, <1>8 DEF Single

LEMMA ForwardNext ==
  ASSUME Typed, Deaf, Forward, Single, [Next]_vars
  PROVE  Forward' /\ Single'
<1>1. CASE \E m \in Messages : Submit(m)
  BY <1>1, ForwardSubmit
<1>2. CASE TxThread
  BY <1>2, ForwardTake, ForwardHold, ForwardPut DEF TxThread, SendCommand, Senders
<1>3. CASE CfgThread
  BY <1>3, ForwardOthers, ForwardPut DEF CfgThread, SendCommand, Senders
<1>4. CASE EvThread
  BY <1>4, ForwardOthers, ForwardHandle DEF EvThread
<1>5. CASE ApiThread \/ UNCHANGED vars
  BY <1>5, ForwardOthers
<1>6. CASE Device \/ PowerCycle
  BY <1>6, ForwardDeviceCommand, ForwardRestart, ForwardTransmitted DEF Device
<1> QED
  BY <1>1, <1>2, <1>3, <1>4, <1>5, <1>6 DEF Next

-----------------------------------------------------------------------------
(* A permit for each message on its way. *)

Claims(m) ==
  \/ Held(m) /\ pc["tx"] \in Sending
  \/ OnWay(m) \/ Answered(m) \/ m \in pending

ClaimedRight ==
  /\ Claimed = {m \in Messages : Claims(m)}
  /\ IsFiniteSet(Claimed) /\ Cardinality(Claimed) \in Nat

LEMMA ClaimedIs == Typed => ClaimedRight
<1> SUFFICES ASSUME Typed PROVE ClaimedRight
  OBVIOUS
<1>1. ASSUME NEW m \in Messages
      PROVE  Claims(m) <=> \/ m = tx.msg /\ pc["tx"] \in Sending
                                /\ (pc["tx"] \in {"wait", "take"} => cmd["tx"].op # "send")
                           \/ \E i \in DOMAIN toDevice : toDevice[i].op = "send" /\ toDevice[i].msg = m
                           \/ \E i \in DOMAIN events :
                                events[i].type = "rsp" /\ events[i].op = "send" /\ events[i].msg = m
                           \/ m \in pending
  BY DEF Claims, Held, OnWay, Carries, Answered, Answers
<1>2. Claimed = {m \in Messages : Claims(m)}
  BY <1>1 DEF Claimed
<1>3. Claimed \subseteq Messages
  BY DEF Claimed
<1> QED BY <1>2, <1>3, TransmissionAssumption, FS_Subset, FS_CardinalityType DEF ClaimedRight

LEMMA ClaimedIsNext == Typed' => ClaimedRight'
BY ClaimedIs, PTL

\* Steps that take no permit and give none back.
LEMMA PermitsStill ==
  ASSUME Typed, Typed', Permits, permits' = permits, Running' => Running,
         \A m \in Messages : Claims(m)' => Claims(m)
  PROVE  Permits'
<1>1. Claimed' = {m \in Messages : Claims(m)'}
  BY ClaimedIsNext DEF ClaimedRight
<1>2. Claimed' \subseteq Claimed
  BY <1>1, ClaimedIs DEF ClaimedRight
<1>3. Cardinality(Claimed)' \in Nat /\ Cardinality(Claimed)' <= Cardinality(Claimed)
  BY <1>2, ClaimedIs, ClaimedIsNext, FS_Subset DEF ClaimedRight
<1>4. permits \in Nat /\ MaxInFlight \in Nat /\ Cardinality(Claimed) \in Nat
  BY ClaimedIs, TransmissionAssumption DEF Typed, Shape, ClaimedRight
<1> QED BY <1>3, <1>4 DEF Permits

LEMMA PermitsAcquire ==
  ASSUME Typed, Typed', Permits, Acquire
  PROVE  Permits'
<1>1. /\ UNCHANGED <<pending, toDevice, events>>
      /\ Running' <=> Running
      /\ pc["tx"] = "permit" /\ tx'.msg = tx.msg /\ tx.msg \in Messages
  BY HoldEffect, AcquireTyped DEF Acquire, Running
<1>2. \A m \in Messages : Claims(m)' => Claims(m) \/ m = tx.msg
  BY <1>1 DEF Claims, Held, OnWay, Answered
<1>3. Claimed' = {m \in Messages : Claims(m)'}
  BY ClaimedIsNext DEF ClaimedRight
<1>4. Claimed' \subseteq Claimed \union {tx.msg}
  BY <1>2, <1>3, ClaimedIs DEF ClaimedRight
<1>5. /\ IsFiniteSet(Claimed \union {tx.msg})
      /\ Cardinality(Claimed \union {tx.msg}) <= Cardinality(Claimed) + 1
  <2>1. IsFiniteSet(Claimed) /\ Cardinality(Claimed) \in Nat
    BY ClaimedIs DEF ClaimedRight
  <2>2. /\ IsFiniteSet(Claimed \union {tx.msg})
        /\ \/ Cardinality(Claimed \union {tx.msg}) = Cardinality(Claimed)
           \/ Cardinality(Claimed \union {tx.msg}) = Cardinality(Claimed) + 1
    BY <2>1, FS_AddElement
  <2> QED BY <2>1, <2>2
<1>6. Cardinality(Claimed)' \in Nat /\ Cardinality(Claimed)' <= Cardinality(Claimed) + 1
  <2>1. Cardinality(Claimed)' \in Nat
    BY ClaimedIsNext DEF ClaimedRight
  <2>2. Cardinality(Claimed)' <= Cardinality(Claimed \union {tx.msg})
    BY <1>4, <1>5, FS_Subset
  <2>3. Cardinality(Claimed) \in Nat /\ Cardinality(Claimed \union {tx.msg}) \in Nat
    BY <1>5, ClaimedIs, FS_CardinalityType DEF ClaimedRight
  <2> QED BY <1>5, <2>1, <2>2, <2>3
<1>7. \/ permits > 0 /\ permits' = permits - 1
      \/ ~Running /\ permits' = permits
  BY DEF Acquire, TakePermit
<1>8. permits \in Nat /\ MaxInFlight \in Nat /\ Cardinality(Claimed) \in Nat
  BY ClaimedIs, TransmissionAssumption DEF Typed, Shape, ClaimedRight
<1> QED BY <1>1, <1>6, <1>7, <1>8 DEF Permits

LEMMA PermitsHandle ==
  ASSUME Typed, Typed', Forward, Single, Permits, HandleEvent
  PROVE  Permits'
<1> DEFINE e == events[1]
<1>1. /\ events # <<>> /\ events' = Tail(events) /\ e \in Events /\ Account(e)
      /\ UNCHANGED <<toDevice, tx>> /\ EventsRun
      /\ pc'["tx"] = pc["tx"] /\ pc'["api"] = pc["api"] /\ cmd'["tx"] = cmd["tx"]
  BY HandleEventEffect
<1>2. \A m \in Messages :
        /\ Answered(m)' => Answered(m)
        /\ e.type = "tx_complete" /\ e.msg = m => Reported(m)
        /\ Answers(e, m) => Answered(m) /\ ~Answered(m)'
  BY <1>1, EventTaken DEF Single, Typed
<1>3. \/ /\ e.msg \in Messages /\ Answers(e, e.msg)
         /\ pending' = pending \union {e.msg} /\ permits' = permits
      \/ /\ e.msg \in Messages /\ Answers(e, e.msg)
         /\ pending' = pending /\ permits' = permits + 1
      \/ /\ e.msg \in pending /\ e.type = "tx_complete"
         /\ pending' = pending \ {e.msg} /\ permits' = permits + 1
      \/ pending' = pending /\ permits' = permits
  BY <1>1, AccountEffect
<1> HIDE DEF e
<1>4. \A m \in Messages : (OnWay(m)' <=> OnWay(m)) /\ (Held(m)' <=> Held(m))
  BY <1>1 DEF OnWay, Held
<1>5. Running /\ Running'
  BY <1>1 DEF EventsRun, Running
<1>6. CASE permits' = permits /\ (pending' = pending
             \/ (e.msg \in Messages /\ Answers(e, e.msg) /\ pending' = pending \union {e.msg}))
  <2>1. \A m \in Messages : Claims(m)' => Claims(m)
    BY <1>1, <1>2, <1>4, <1>6 DEF Claims
  <2> QED BY <1>5, <1>6, <2>1, PermitsStill
<1>7. CASE /\ permits' = permits + 1
           /\ \/ e.msg \in Messages /\ Answers(e, e.msg) /\ pending' = pending
              \/ /\ e.msg \in pending /\ e.type = "tx_complete"
                 /\ pending' = pending \ {e.msg}
  <2>1. PICK n \in Messages : n = e.msg
    BY <1>7 DEF Typed, Shape
  <2>2. Claims(n) /\ ~Claims(n)'
    <3>1. CASE Answers(e, n) /\ pending' = pending
      <4>1. Answered(n) /\ ~Answered(n)'
        BY <1>2, <3>1
      <4>2. ~Held(n) /\ ~OnWay(n) /\ n \notin pending
        BY <4>1 DEF Forward, Past
      <4> QED BY <1>4, <3>1, <4>1, <4>2 DEF Claims
    <3>2. CASE n \in pending /\ pending' = pending \ {n}
      <4>1. ~Held(n) /\ ~OnWay(n) /\ ~Answered(n)
        BY <3>2 DEF Forward, Past
      <4> QED BY <1>2, <1>4, <3>2, <4>1 DEF Claims
    <3> QED BY <1>7, <2>1, <3>1, <3>2
  <2>3. \A m \in Messages : Claims(m)' => Claims(m)
    BY <1>1, <1>2, <1>4, <1>7 DEF Claims
  <2>4. Claimed' = {m \in Messages : Claims(m)'}
    BY ClaimedIsNext DEF ClaimedRight
  <2>5. Claimed' \subseteq Claimed \ {n} /\ n \in Claimed
    BY <2>2, <2>3, <2>4, ClaimedIs DEF ClaimedRight
  <2>6. /\ IsFiniteSet(Claimed \ {n})
        /\ Cardinality(Claimed \ {n}) = Cardinality(Claimed) - 1
    BY <2>5, ClaimedIs, FS_RemoveElement DEF ClaimedRight
  <2>7. Cardinality(Claimed)' \in Nat /\ Cardinality(Claimed)' <= Cardinality(Claimed \ {n})
    BY <2>5, <2>6, ClaimedIsNext, FS_Subset DEF ClaimedRight
  <2>8. permits \in Nat /\ MaxInFlight \in Nat /\ Cardinality(Claimed) \in Nat
    BY ClaimedIs, TransmissionAssumption DEF Typed, Shape, ClaimedRight
  <2> QED BY <1>5, <1>7, <2>6, <2>7, <2>8 DEF Permits
<1> QED BY <1>3, <1>6, <1>7

\* Steps of the transmission thread and of the other threads.
LEMMA PermitsThreads ==
  ASSUME Typed, Typed', Permits,
         \/ \E m \in Messages : Submit(m)
         \/ TxThread /\ ~Acquire
         \/ CfgThread \/ StoreResponse \/ SetComplete \/ ApiThread \/ UNCHANGED vars
  PROVE  Permits'
<1>1. CASE (\E m \in Messages : Submit(m)) \/ UNCHANGED vars
  <2>1. UNCHANGED <<pending, toDevice, events, tx, pc, cmd, permits>>
    BY <1>1 DEF Submit, txState, vars
  <2>2. \A m \in Messages : Claims(m)' => Claims(m)
    BY <2>1 DEF Claims, Held, OnWay, Answered
  <2> QED BY <2>1, <2>2, PermitsStill DEF Running
<1>2. CASE TakeHigh \/ TakeLow
  <2>1. /\ UNCHANGED <<pending, toDevice, events, permits>>
        /\ pc'["tx"] \notin Sending /\ pc'["api"] = pc["api"]
    BY <1>2 DEF TakeHigh, TakeLow, Goto, Sending, Typed, Shape, Threads, Senders, device
  <2>2. \A m \in Messages : Claims(m)' => Claims(m)
    BY <2>1 DEF Claims, OnWay, Answered
  <2> QED BY <2>1, <2>2, PermitsStill DEF Running
<1>3. CASE (TryLow \/ EndRun \/ TakeTx \/ ClearComplete("tx") \/ ExpectOpcode("tx")
            \/ SeeComplete("tx")) /\ ~Acquire
  <2>1. /\ UNCHANGED <<pending, toDevice, events, permits>>
        /\ pc'["api"] = pc["api"]
        /\ \A m \in Messages : Held(m)' => Held(m)
        /\ pc'["tx"] \in Sending => pc["tx"] \in Sending
    BY <1>3, HoldEffect
  <2>2. \A m \in Messages : Claims(m)' => Claims(m)
    BY <2>1 DEF Claims, OnWay, Answered
  <2> QED BY <2>1, <2>2, PermitsStill DEF Running
<1>4. ASSUME NEW t \in Senders, PutCommand(t)
      PROVE  Permits'
  <2>1. /\ UNCHANGED <<pending, events, tx, cmd, permits>>
        /\ toDevice' = Append(toDevice, cmd[t]) /\ cmd[t] \in Commands
        /\ pc[t] = "put" /\ pc'[t] = "wait" /\ pc'["api"] = pc["api"]
        /\ \A s \in Senders : s # t => pc'[s] = pc[s]
    BY <1>4 DEF PutCommand, Typed, Shape, Goto, Threads, Senders, txState, device
  <2>2. \A m \in Messages : OnWay(m)' <=> OnWay(m) \/ Carries(cmd[t], m)
    BY <2>1, CommandAppended DEF Typed
  <2>3. \A m \in Messages : Carries(cmd[t], m) => Held(m) /\ pc["tx"] \in Sending
    BY <2>1 DEF Typed, Places, Senders, Sending, Carries, Held
  <2>4. \A m \in Messages : Held(m)' /\ pc'["tx"] \in Sending => Held(m) /\ pc["tx"] \in Sending
    BY <2>1 DEF Held, Sending, Senders
  <2>5. \A m \in Messages : Claims(m)' => Claims(m)
    BY <2>1, <2>2, <2>3, <2>4 DEF Claims, Answered
  <2> QED BY <2>1, <2>5, PermitsStill DEF Running
<1>5. CASE TakeCfg \/ ClearComplete("cfg") \/ ExpectOpcode("cfg") \/ SeeComplete("cfg")
           \/ StoreResponse \/ SetComplete \/ ApiThread
  <2>1. UNCHANGED <<pending, events, tx, permits>>
    BY <1>5 DEF TakeCfg, ClearComplete, ExpectOpcode, SeeComplete, StoreResponse, SetComplete,
       ApiThread, Start, Reset, Started, StopDevice, StopEvents, StopUart, StopTx, txState
  <2>2. /\ pc'["tx"] = pc["tx"] /\ cmd'["tx"] = cmd["tx"]
        /\ pc["api"] = "stopped" => pc'["api"] = "stopped"
    BY <1>5 DEF TakeCfg, ClearComplete, ExpectOpcode, SeeComplete, StoreResponse, SetComplete,
       ApiThread, Start, Reset, Started, StopDevice, StopEvents, StopUart, StopTx,
       Goto, Issue, Die, Typed, Shape, Threads, Senders
  <2>3. (Start \/ Reset \/ StopDevice) \/ UNCHANGED toDevice
    BY <1>5 DEF TakeCfg, ClearComplete, ExpectOpcode, SeeComplete, StoreResponse, SetComplete,
       ApiThread, Started, StopEvents, StopUart, StopTx
  <2>4. \A m \in Messages : OnWay(m)' <=> OnWay(m)
    BY <2>3, CommandsPosted DEF Typed
  <2>5. \A m \in Messages : Claims(m)' => Claims(m)
    BY <2>1, <2>2, <2>4 DEF Claims, Held, Answered
  <2> QED BY <2>1, <2>2, <2>5, PermitsStill DEF Running
<1> QED BY <1>1, <1>2, <1>3, <1>4, <1>5 DEF TxThread, CfgThread, SendCommand, Senders

LEMMA PermitsDevice ==
  ASSUME Typed, Typed', Permits, Single, Device \/ PowerCycle
  PROVE  Permits'
<1>1. UNCHANGED <<pending, tx, pc, cmd, permits>>
  BY DEF Device, DeviceCommand, DeviceReset, Transmitted, PowerCycle, txState
<1>2. CASE DeviceCommand
  <2> DEFINE c == toDevice[1]
  <2>1. /\ toDevice # <<>> /\ c \in Commands /\ toDevice' = Tail(toDevice) /\ DeviceDoes(c)
    BY <1>2, DeviceEffect
  <2>2. \A m \in Messages : /\ OnWay(m)' => OnWay(m)
                            /\ Carries(c, m) => OnWay(m)
    BY <2>1, CommandTaken DEF Single, Typed
  <2> HIDE DEF c
  <2>3. PICK ok \in BOOLEAN, h \in Handles : Emit(Rsp(c, ok, h))
    BY <2>1 DEF DeviceDoes
  <2> DEFINE e == Rsp(c, ok, h)
  <2>4. e \in Events /\ Emit(e) /\ \A m \in Messages : Answers(e, m) <=> Carries(c, m)
    BY <2>1, <2>3, EventTyped DEF Rsp, Answers, Carries
  <2> HIDE DEF e
  <2>5. \A m \in Messages : Answered(m)' => Answered(m) \/ Carries(c, m)
    <3>1. CASE heard
      BY <2>4, <3>1, EventAppended DEF Emit, Typed
    <3>2. CASE ~heard
      BY <2>4, <3>2, EventsSame DEF Emit
    <3> QED BY <3>1, <3>2
  <2>6. \A m \in Messages : Claims(m)' => Claims(m)
    BY <1>1, <2>2, <2>5 DEF Claims, Held
  <2> QED BY <1>1, <2>6, PermitsStill DEF Running
<1>3. CASE DeviceReset \/ PowerCycle
  <2>1. PICK lost \in 0..Len(toDevice) : Restart(lost)
    BY <1>3, RestartOf
  <2>2. \A m \in Messages : OnWay(m)' => OnWay(m)
    BY <2>1, CommandsCut DEF Restart, Single, Typed
  <2>3. Ev("dev_reset", NoMsg) \in Events /\ \A m \in Messages : ~Answers(Ev("dev_reset", NoMsg), m)
    BY EventTyped DEF Ev, Answers
  <2>4. \A m \in Messages : Answered(m)' <=> Answered(m)
    BY <2>1, <2>3, EventAppended DEF Restart, Typed
  <2>5. \A m \in Messages : Claims(m)' => Claims(m)
    BY <1>1, <2>2, <2>4 DEF Claims, Held
  <2> QED BY <1>1, <2>5, PermitsStill DEF Running
<1>4. CASE Transmitted
  <2>1. PICK n \in dev.sending : Emit(Ev("tx_complete", n))
    BY <1>4 DEF Transmitted
  <2>2. toDevice' = toDevice /\ n \in Messages
    BY <1>4, <2>1 DEF Transmitted, Typed, Shape, Tables
  <2>3. Ev("tx_complete", n) \in Events /\ \A m \in Messages : ~Answers(Ev("tx_complete", n), m)
    BY <2>2, EventTyped DEF Ev, Answers
  <2>4. \A m \in Messages : Answered(m)' <=> Answered(m)
    <3>1. CASE heard
      BY <2>1, <2>3, <3>1, EventAppended DEF Emit, Typed
    <3>2. CASE ~heard
      BY <2>1, <3>2, EventsSame DEF Emit
    <3> QED BY <3>1, <3>2
  <2>5. \A m \in Messages : Claims(m)' => Claims(m)
    BY <1>1, <2>2, <2>4 DEF Claims, Held, OnWay
  <2> QED BY <1>1, <2>5, PermitsStill DEF Running
<1> QED BY <1>2, <1>3, <1>4 DEF Device

LEMMA PermitsInit == Init => Permits
<1> SUFFICES ASSUME Init PROVE Permits
  OBVIOUS
<1>1. pc["tx"] = "get" /\ pending = {} /\ DOMAIN toDevice = {} /\ DOMAIN events = {}
  BY DEF Init, Senders
<1>2. Claimed = {}
  BY <1>1 DEF Claimed, Sending
<1> QED BY <1>2, FS_EmptySet, TransmissionAssumption DEF Init, Permits

-----------------------------------------------------------------------------
(* The theorems. *)

IInv == Typed /\ Deaf /\ Forward /\ Single /\ Permits

LEMMA InitHolds == Init => IInv
BY InitTyped, DeafInit, ForwardInit, PermitsInit DEF IInv

LEMMA NextHolds == IInv /\ [Next]_vars => IInv'
<1> SUFFICES ASSUME IInv, [Next]_vars PROVE IInv'
  OBVIOUS
<1>1. Typed /\ Deaf /\ Forward /\ Single /\ Permits
  BY DEF IInv
<1>2. Typed' /\ Deaf' /\ Forward' /\ Single'
  BY <1>1, TypedNext, DeafNext, ForwardNext
<1>3. Permits'
  <2>1. CASE Acquire
    BY <1>1, <1>2, <2>1, PermitsAcquire
  <2>2. CASE HandleEvent
    BY <1>1, <1>2, <2>2, PermitsHandle
  <2>3. CASE Device \/ PowerCycle
    BY <1>1, <1>2, <2>3, PermitsDevice
  <2>4. CASE /\ ~Acquire
             /\ \/ \E m \in Messages : Submit(m)
                \/ TxThread \/ CfgThread \/ StoreResponse \/ SetComplete
                \/ ApiThread \/ UNCHANGED vars
    BY <1>1, <1>2, <2>4, PermitsThreads
  <2> QED BY <2>1, <2>2, <2>3, <2>4 DEF Next, EvThread
<1> QED BY <1>2, <1>3 DEF IInv

LEMMA AlwaysHolds == Spec => []IInv
<1>1. Init => IInv
  BY InitHolds
<1>2. IInv /\ [Next]_vars => IInv'
  BY NextHolds
<1> QED BY <1>1, <1>2, PTL DEF Spec

LEMMA TypesFollow == IInv => TypeOK
<1> SUFFICES ASSUME IInv PROVE TypeOK
  OBVIOUS
<1>1. Commands \subseteq Command /\ Events \subseteq Event
  BY DEF Commands, Events
<1>2. /\ cmd \in [Senders -> Command] /\ current \in Event
      /\ slot \in [opcode : Ops, complete : BOOLEAN, response : Event]
  BY <1>1 DEF IInv, Typed, Shape
<1>3. toDevice \in Seq(Command)
  BY <1>1 DEF IInv, Typed, Shape
<1>4. events \in Seq(Event)
  BY <1>1 DEF IInv, Typed, Shape
<1>5. /\ dev.keys \in [KeyHandles -> Keys \union {"free", "app"}]
      /\ dev.addrs \in [AddrHandles -> Addrs \union {"free", "group"}]
      /\ dev.sending \subseteq Messages
  BY DEF IInv, Typed, Shape, Tables, KeyTable, AddrTable
<1>6. permits \in 0..MaxInFlight
  BY TransmissionAssumption DEF IInv, Typed, Shape, Permits
<1>7. Typed
  BY DEF IInv
<1> QED BY <1>2, <1>3, <1>4, <1>5, <1>6, <1>7 DEF Typed, Shape, Places, KeyEntry, AddrEntry, TypeOK

\* Everything has its type, and the transmission manager never has more permits
\* than it started with, whatever the device restarts, refuses or reports.
THEOREM TypeCorrect == Spec => []TypeOK
BY AlwaysHolds, TypesFollow, PTL

\* The device never has more packets in hand than the permits of TxManager: a
\* permit is given back once for each one taken, for any number of messages,
\* restarts of the device and rows of its tables.
THEOREM NeverTooMany == Spec => []InFlight
<1>1. ASSUME IInv PROVE InFlight
  <2>1. Typed /\ Permits /\ Forward
    BY <1>1 DEF IInv
  <2>2. dev.sending \subseteq Claimed
    <3>1. dev.sending \subseteq Messages
      BY <2>1 DEF Typed, Shape, Tables
    <3>2. \A m \in dev.sending : Claims(m)
      BY <2>1, <3>1 DEF Forward, Claims
    <3> QED BY <2>1, <3>1, <3>2, ClaimedIs DEF ClaimedRight
  <2> QED BY <2>1, <2>2 DEF Permits, InFlight
<1> QED BY <1>1, AlwaysHolds, PTL

-----------------------------------------------------------------------------
(* What waits, and in what order: the promise of MessageService.            *)

\* Each queue holds the messages of its priority.
Sorted ==
  /\ \A i \in DOMAIN high : high[i] \notin LowPriority
  /\ \A i \in DOMAIN low : low[i] \in LowPriority

\* The parts of Waiting and Before.
InLine(q, m) == \E i \in DOMAIN q : q[i] = m
LineBefore(q, m, n) == \E i, j \in DOMAIN q : i < j /\ q[i] = m /\ q[j] = n
SentBefore(m, n) ==
  \E i, j \in DOMAIN toDevice :
    i < j /\ Carries(toDevice[i], m) /\ Carries(toDevice[j], n)

LEMMA TailLine ==
  ASSUME NEW S, NEW q \in Seq(S), q # <<>>
  PROVE  /\ \A m : InLine(q, m) <=> m = Head(q) \/ InLine(Tail(q), m)
         /\ \A m, n : LineBefore(q, m, n)
                        <=> LineBefore(Tail(q), m, n) \/ (m = Head(q) /\ InLine(Tail(q), n))
<1> DEFINE t == Tail(q)
<1>1. /\ \A i \in DOMAIN t : i \in Nat /\ i >= 1 /\ i + 1 \in DOMAIN q /\ t[i] = q[i + 1]
      /\ \A i \in DOMAIN q : i \in Nat /\ i >= 1
                             /\ (i = 1 \/ (i - 1 \in DOMAIN t /\ t[i - 1] = q[i]))
      /\ 1 \in DOMAIN q /\ Head(q) = q[1]
  OBVIOUS
<1> HIDE DEF t
<1>2. ASSUME NEW m PROVE InLine(q, m) <=> m = Head(q) \/ InLine(t, m)
  BY <1>1 DEF InLine
<1>3. ASSUME NEW m, NEW n, LineBefore(q, m, n)
      PROVE  LineBefore(t, m, n) \/ (m = Head(q) /\ InLine(t, n))
  <2>1. PICK i \in DOMAIN q, j \in DOMAIN q : i < j /\ q[i] = m /\ q[j] = n
    BY <1>3 DEF LineBefore
  <2>2. j - 1 \in DOMAIN t /\ t[j - 1] = n
    BY <1>1, <2>1
  <2>3. CASE i = 1
    BY <1>1, <2>1, <2>2, <2>3 DEF InLine
  <2>4. CASE i # 1
    <3>1. i - 1 \in DOMAIN t /\ t[i - 1] = m /\ i - 1 < j - 1
      BY <1>1, <2>1, <2>4
    <3> QED BY <2>2, <3>1 DEF LineBefore
  <2> QED BY <2>3, <2>4
<1>4. ASSUME NEW m, NEW n, LineBefore(t, m, n) PROVE LineBefore(q, m, n)
  <2>1. PICK i \in DOMAIN t, j \in DOMAIN t : i < j /\ t[i] = m /\ t[j] = n
    BY <1>4 DEF LineBefore
  <2>2. i + 1 \in DOMAIN q /\ j + 1 \in DOMAIN q /\ i + 1 < j + 1
        /\ q[i + 1] = m /\ q[j + 1] = n
    BY <1>1, <2>1
  <2> QED BY <2>2 DEF LineBefore
<1>5. ASSUME NEW n, InLine(t, n) PROVE LineBefore(q, Head(q), n)
  <2>1. PICK j \in DOMAIN t : t[j] = n
    BY <1>5 DEF InLine
  <2>2. j + 1 \in DOMAIN q /\ 1 < j + 1 /\ q[j + 1] = n /\ 1 \in DOMAIN q /\ q[1] = Head(q)
    BY <1>1, <2>1
  <2> QED BY <2>2 DEF LineBefore
<1> QED BY <1>2, <1>3, <1>4, <1>5 DEF t

LEMMA AppendLine ==
  ASSUME NEW S, NEW q \in Seq(S), NEW e \in S
  PROVE  /\ \A m : InLine(Append(q, e), m) <=> InLine(q, m) \/ m = e
         /\ \A m, n : LineBefore(Append(q, e), m, n)
                        <=> LineBefore(q, m, n) \/ (InLine(q, m) /\ n = e)
<1> DEFINE t == Append(q, e)
           L == Len(q)
<1>1. /\ \A i \in DOMAIN t : i \in Nat /\ (\/ i \in DOMAIN q /\ i < L + 1 /\ t[i] = q[i]
                                           \/ i = L + 1 /\ t[i] = e)
      /\ \A i \in DOMAIN q : i \in Nat /\ i < L + 1 /\ i \in DOMAIN t /\ t[i] = q[i]
      /\ L \in Nat /\ L + 1 \in DOMAIN t /\ t[L + 1] = e
  OBVIOUS
<1> HIDE DEF t, L
<1>2. ASSUME NEW m PROVE InLine(t, m) <=> InLine(q, m) \/ m = e
  BY <1>1 DEF InLine
<1>3. ASSUME NEW m, NEW n, LineBefore(t, m, n)
      PROVE  LineBefore(q, m, n) \/ (InLine(q, m) /\ n = e)
  <2>1. PICK i \in DOMAIN t, j \in DOMAIN t : i < j /\ t[i] = m /\ t[j] = n
    BY <1>3 DEF LineBefore
  <2>2. i \in DOMAIN q /\ q[i] = m
    BY <1>1, <2>1
  <2>3. CASE j = L + 1
    BY <1>1, <2>1, <2>2, <2>3 DEF InLine
  <2>4. CASE j # L + 1
    <3>1. j \in DOMAIN q /\ q[j] = n
      BY <1>1, <2>1, <2>4
    <3> QED BY <2>1, <2>2, <3>1 DEF LineBefore
  <2> QED BY <2>3, <2>4
<1>4. ASSUME NEW m, NEW n, LineBefore(q, m, n) PROVE LineBefore(t, m, n)
  BY <1>1, <1>4 DEF LineBefore
<1>5. ASSUME NEW m, InLine(q, m) PROVE LineBefore(t, m, e)
  BY <1>1, <1>5 DEF LineBefore, InLine
<1> QED BY <1>2, <1>3, <1>4, <1>5 DEF t, L

LEMMA OrderIs ==
  /\ \A m : InQueue(m) <=> InLine(high, m) \/ InLine(low, m)
  /\ \A m, n : Before(m, n) <=>
       \/ SentBefore(m, n)
       \/ OnWay(m) /\ (Held(n) \/ InQueue(n))
       \/ Held(m) /\ InQueue(n)
       \/ LineBefore(high, m, n) \/ LineBefore(low, m, n)
  /\ \A m, n : SentBefore(m, n) => OnWay(m) /\ OnWay(n)
  /\ \A q, m, n : LineBefore(q, m, n) => InLine(q, m) /\ InLine(q, n)
<1>1. \A m : InQueue(m) <=> InLine(high, m) \/ InLine(low, m)
  BY DEF InQueue, InLine
<1>2. ASSUME NEW m, NEW n
      PROVE  Before(m, n) <=>
       \/ SentBefore(m, n)
       \/ OnWay(m) /\ (Held(n) \/ InQueue(n))
       \/ Held(m) /\ InQueue(n)
       \/ LineBefore(high, m, n) \/ LineBefore(low, m, n)
  BY DEF Before, SentBefore, LineBefore
<1>3. \A m, n : SentBefore(m, n) => OnWay(m) /\ OnWay(n)
  BY DEF SentBefore, OnWay
<1>4. \A q, m, n : LineBefore(q, m, n) => InLine(q, m) /\ InLine(q, n)
  BY DEF LineBefore, InLine
<1> QED BY <1>1, <1>2, <1>3, <1>4

LEMMA OrderIsNext ==
  /\ \A m : InQueue(m)' <=> InLine(high', m) \/ InLine(low', m)
  /\ \A m, n : Before(m, n)' <=>
       \/ SentBefore(m, n)'
       \/ OnWay(m)' /\ (Held(n)' \/ InQueue(n)')
       \/ Held(m)' /\ InQueue(n)'
       \/ LineBefore(high', m, n) \/ LineBefore(low', m, n)
  /\ \A m, n : SentBefore(m, n)' => OnWay(m)' /\ OnWay(n)'
<1>1. \A m : InQueue(m)' <=> InLine(high', m) \/ InLine(low', m)
  BY DEF InQueue, InLine
<1>2. ASSUME NEW m, NEW n
      PROVE  Before(m, n)' <=>
       \/ SentBefore(m, n)'
       \/ OnWay(m)' /\ (Held(n)' \/ InQueue(n)')
       \/ Held(m)' /\ InQueue(n)'
       \/ LineBefore(high', m, n) \/ LineBefore(low', m, n)
  BY DEF Before, SentBefore, LineBefore
<1>3. \A m, n : SentBefore(m, n)' => OnWay(m)' /\ OnWay(n)'
  BY DEF SentBefore, OnWay
<1> QED BY <1>1, <1>2, <1>3

\* Those that are in one place are not in another.
LEMMA OnePlace ==
  ASSUME Forward, NEW m \in Messages
  PROVE  /\ InQueue(m) \/ m \in fresh => ~Held(m) /\ ~OnWay(m)
         /\ Held(m) => ~OnWay(m)
<1>1. InQueue(m) \/ m \in fresh => Queued(m)
  BY DEF InQueue, Queued
<1> QED BY <1>1 DEF Forward

-----------------------------------------------------------------------------
\* A step after which some messages no longer wait, and nothing else changes.
Loses(gone) ==
  /\ \A m \in Messages : Waiting(m)' <=> Waiting(m) /\ m \notin gone
  /\ \A m, n \in Messages :
       Alike(m, n) => (Before(m, n)' <=> Before(m, n) /\ m \notin gone /\ n \notin gone)

LEMMA LeaveRight ==
  ASSUME NEW gone \in SUBSET Messages, Loses(gone)
  PROVE  Service!Leave(gone)
<1>1. {m \in Messages : Waiting(m)}' = {m \in Messages : Waiting(m)} \ gone
  BY DEF Loses
<1>2. [n \in Messages |-> {m \in Messages : Alike(m, n) /\ Before(m, n)}]'
        = [n \in Messages |->
             IF n \in gone THEN {}
             ELSE [k \in Messages |-> {m \in Messages : Alike(m, k) /\ Before(m, k)}][n] \ gone]
  <2>1. ASSUME NEW n \in Messages
        PROVE  {m \in Messages : Alike(m, n) /\ Before(m, n)'}
                 = IF n \in gone THEN {} ELSE {m \in Messages : Alike(m, n) /\ Before(m, n)} \ gone
    BY DEF Loses
  <2> QED BY <2>1 DEF Alike
<1> QED BY <1>1, <1>2 DEF Service!Leave

LEMMA LoseRight ==
  ASSUME NEW gone \in SUBSET Messages, Loses(gone), UNCHANGED <<fresh, air>>
  PROVE  Service!Next
<1>1. Service!Leave(gone)
  BY LeaveRight
<1>2. [i \in DOMAIN air |-> air[i].msg]' = [i \in DOMAIN air |-> air[i].msg]
  OBVIOUS
<1>3. Service!Lose(gone)
  BY <1>1, <1>2 DEF Service!Lose
<1> QED BY <1>3 DEF Service!Next

\* The message in hand may be dropped.
LEMMA LosesHeld ==
  ASSUME Forward, UNCHANGED <<high, low>>,
         \A m \in Messages : /\ Held(m)' => Held(m)
                             /\ OnWay(m)' <=> OnWay(m),
         \A m, n \in Messages : SentBefore(m, n)' <=> SentBefore(m, n)
  PROVE  \E gone \in SUBSET Messages : Loses(gone)
<1> DEFINE gone == {m \in Messages : Held(m) /\ ~Held(m)'}
<1>0. \A m \in Messages : m \in gone <=> Held(m) /\ ~Held(m)'
  OBVIOUS
<1> HIDE DEF gone
<1>1. ASSUME NEW m \in Messages
      PROVE  /\ InQueue(m)' <=> InQueue(m)
             /\ InQueue(m) => ~Held(m) /\ ~OnWay(m)
             /\ Held(m) => ~OnWay(m)
             /\ Waiting(m)' <=> Waiting(m) /\ m \notin gone
  BY <1>0, OnePlace DEF InQueue, Waiting
<1>2. ASSUME NEW m \in Messages, NEW n \in Messages
      PROVE  Before(m, n)' <=> Before(m, n) /\ m \notin gone /\ n \notin gone
  <2> DEFINE queued == LineBefore(high, m, n) \/ LineBefore(low, m, n)
  <2>1. /\ Before(m, n) <=> \/ SentBefore(m, n)
                            \/ OnWay(m) /\ (Held(n) \/ InQueue(n))
                            \/ Held(m) /\ InQueue(n)
                            \/ queued
        /\ Before(m, n)' <=> \/ SentBefore(m, n)'
                             \/ OnWay(m)' /\ (Held(n)' \/ InQueue(n)')
                             \/ Held(m)' /\ InQueue(n)'
                             \/ queued
    BY OrderIs, OrderIsNext
  <2>2. /\ SentBefore(m, n) => OnWay(m) /\ OnWay(n)
        /\ queued => InQueue(m) /\ InQueue(n)
    BY OrderIs
  <2> HIDE DEF queued
  <2> QED BY <1>0, <1>1, <2>1, <2>2
<1>3. Loses(gone) /\ gone \in SUBSET Messages
  BY <1>1, <1>2 DEF Loses, gone
<1> QED BY <1>3

\* The first commands on their way may be taken out.
LEMMA LosesSent ==
  ASSUME Forward, SentOnce, UNCHANGED <<high, low>>, NEW k \in Nat,
         \A i \in DOMAIN toDevice : i \in Nat,
         \A i \in DOMAIN toDevice' :
           i \in Nat /\ i + k \in DOMAIN toDevice /\ toDevice'[i] = toDevice[i + k],
         \A m \in Messages : Held(m)' <=> Held(m)
  PROVE  \E gone \in SUBSET Messages :
           /\ Loses(gone)
           /\ \A m \in Messages : m \in gone <=> OnWay(m) /\ ~OnWay(m)'
<1> DEFINE gone == {m \in Messages : OnWay(m) /\ ~OnWay(m)'}
<1>0. \A m \in Messages : m \in gone <=> OnWay(m) /\ ~OnWay(m)'
  OBVIOUS
<1> HIDE DEF gone
<1>1. ASSUME NEW m \in Messages
      PROVE  /\ InQueue(m)' <=> InQueue(m)
             /\ InQueue(m) => ~Held(m) /\ ~OnWay(m)
             /\ Held(m) => ~OnWay(m)
             /\ OnWay(m)' => OnWay(m)
             /\ Waiting(m)' <=> Waiting(m) /\ m \notin gone
  <2>1. OnWay(m)' => OnWay(m)
    BY DEF OnWay
  <2> QED BY <1>0, <2>1, OnePlace DEF InQueue, Waiting
<1>2. ASSUME NEW m \in Messages, NEW n \in Messages, SentBefore(m, n)'
      PROVE  SentBefore(m, n)
  <2>1. PICK i \in DOMAIN toDevice', j \in DOMAIN toDevice' :
          i < j /\ Carries(toDevice'[i], m) /\ Carries(toDevice'[j], n)
    BY <1>2 DEF SentBefore
  <2>2. i + k < j + k
    BY <2>1
  <2> QED BY <2>1, <2>2 DEF SentBefore
<1>3. ASSUME NEW m \in Messages, NEW n \in Messages, SentBefore(m, n), OnWay(m)', OnWay(n)'
      PROVE  SentBefore(m, n)'
  <2>1. PICK i \in DOMAIN toDevice, j \in DOMAIN toDevice :
          i < j /\ Carries(toDevice[i], m) /\ Carries(toDevice[j], n)
    BY <1>3 DEF SentBefore
  <2>2. PICK a \in DOMAIN toDevice' : Carries(toDevice'[a], m)
    BY <1>3 DEF OnWay
  <2>3. PICK b \in DOMAIN toDevice' : Carries(toDevice'[b], n)
    BY <1>3 DEF OnWay
  <2>4. a + k = i
    BY <2>1, <2>2 DEF SentOnce
  <2>5. b + k = j
    BY <2>1, <2>3 DEF SentOnce
  <2>6. a < b
    BY <2>1, <2>2, <2>3, <2>4, <2>5
  <2> QED BY <2>2, <2>3, <2>6 DEF SentBefore
<1>4. ASSUME NEW m \in Messages, NEW n \in Messages
      PROVE  Before(m, n)' <=> Before(m, n) /\ m \notin gone /\ n \notin gone
  <2> DEFINE queued == LineBefore(high, m, n) \/ LineBefore(low, m, n)
  <2>1. /\ Before(m, n) <=> \/ SentBefore(m, n)
                            \/ OnWay(m) /\ (Held(n) \/ InQueue(n))
                            \/ Held(m) /\ InQueue(n)
                            \/ queued
        /\ Before(m, n)' <=> \/ SentBefore(m, n)'
                             \/ OnWay(m)' /\ (Held(n)' \/ InQueue(n)')
                             \/ Held(m)' /\ InQueue(n)'
                             \/ queued
        /\ SentBefore(m, n)' => OnWay(m)' /\ OnWay(n)'
    BY OrderIs, OrderIsNext
  <2>2. /\ SentBefore(m, n) => OnWay(m) /\ OnWay(n)
        /\ queued => InQueue(m) /\ InQueue(n)
    BY OrderIs
  <2> HIDE DEF queued
  <2> QED BY <1>0, <1>1, <1>2, <1>3, <2>1, <2>2
<1>5. Loses(gone)
  BY <1>1, <1>4 DEF Loses
<1>6. gone \in SUBSET Messages
  BY DEF gone
<1> QED BY <1>0, <1>5, <1>6
\* The steps, one after the other: those that move no message, or drop the one in
\* hand.
LEMMA SentStill ==
  ASSUME UNCHANGED toDevice
  PROVE  /\ \A m \in Messages : OnWay(m)' <=> OnWay(m)
         /\ \A m, n \in Messages : SentBefore(m, n)' <=> SentBefore(m, n)
BY DEF OnWay, SentBefore

LEMMA ServiceHold ==
  ASSUME IInv,
         TryLow \/ EndRun \/ Acquire \/ TakeTx
         \/ ClearComplete("tx") \/ ExpectOpcode("tx") \/ SeeComplete("tx")
  PROVE  Service!Next
<1>1. /\ UNCHANGED <<queues, toDevice>>
      /\ \A m \in Messages : Held(m)' => Held(m)
  BY HoldEffect DEF IInv
<1>2. UNCHANGED <<fresh, air>>
  BY DEF TryLow, EndRun, Acquire, TakeTx, ClearComplete, ExpectOpcode, SeeComplete,
     queues, device
<1>3. \E gone \in SUBSET Messages : Loses(gone)
  BY <1>1, SentStill, LosesHeld DEF IInv, queues
<1> QED BY <1>2, <1>3, LoseRight

LEMMA ServiceOthers ==
  ASSUME IInv,
         \/ TakeCfg \/ ClearComplete("cfg") \/ ExpectOpcode("cfg") \/ SeeComplete("cfg")
         \/ EvThread \/ ApiThread \/ Transmitted
  PROVE  Service!Next
<1>1. UNCHANGED <<fresh, high, low, air, tx>>
  BY DEF TakeCfg, ClearComplete, ExpectOpcode, SeeComplete, EvThread, HandleEvent,
     StoreResponse, SetComplete, ApiThread, Start, Reset, Started, StopDevice, StopEvents,
     StopUart, StopTx, Transmitted, queues, txState, device
<1>2. pc'["tx"] = pc["tx"] /\ cmd'["tx"] = cmd["tx"]
  <2>1. CASE HandleEvent
    BY <2>1, HandleEventEffect DEF IInv
  <2>2. CASE ~HandleEvent
    BY <2>2 DEF TakeCfg, ClearComplete, ExpectOpcode, SeeComplete, EvThread,
       StoreResponse, SetComplete, ApiThread, Start, Reset, Started, StopDevice, StopEvents,
       StopUart, StopTx, Transmitted, Goto, Issue, Die, IInv, Typed, Shape, Threads, Senders
  <2> QED BY <2>1, <2>2
<1>3. \A m \in Messages : Held(m)' <=> Held(m)
  BY <1>1, <1>2 DEF Held
<1>4. /\ \A m \in Messages : OnWay(m)' <=> OnWay(m)
      /\ \A m, n \in Messages : SentBefore(m, n)' <=> SentBefore(m, n)
  <2>1. CASE Start \/ Reset \/ StopDevice
    <3>1. /\ \A i \in DOMAIN toDevice : i \in DOMAIN toDevice' /\ toDevice'[i] = toDevice[i]
          /\ \A i \in DOMAIN toDevice', m \in Messages :
               Carries(toDevice'[i], m) => i \in DOMAIN toDevice /\ toDevice'[i] = toDevice[i]
      BY <2>1, PostEffect DEF Carries, IInv, Typed
    <3> QED BY <3>1 DEF OnWay, SentBefore
  <2>2. CASE ~(Start \/ Reset \/ StopDevice)
    <3>1. UNCHANGED toDevice
      BY <2>2 DEF TakeCfg, ClearComplete, ExpectOpcode, SeeComplete, EvThread, HandleEvent,
         StoreResponse, SetComplete, ApiThread, Started, StopEvents, StopUart, StopTx,
         Transmitted
    <3> QED BY <3>1, SentStill
  <2> QED BY <2>1, <2>2
<1>5. \E gone \in SUBSET Messages : Loses(gone)
  BY <1>1, <1>3, <1>4, LosesHeld DEF IInv
<1> QED BY <1>1, <1>5, LoseRight

\* A command is sent.
LEMMA ServicePut ==
  ASSUME IInv, NEW t \in Senders, PutCommand(t)
  PROVE  Service!Next
<1>1. /\ UNCHANGED <<fresh, high, low, air, tx, cmd>>
      /\ toDevice' = Append(toDevice, cmd[t]) /\ cmd[t] \in Commands
      /\ toDevice \in Seq(Commands)
      /\ pc[t] = "put" /\ pc'[t] = "wait"
      /\ \A s \in Senders : s # t => pc'[s] = pc[s]
  BY DEF PutCommand, IInv, Typed, Shape, Goto, Threads, Senders, queues, txState, device
<1>2. \A m \in Messages : OnWay(m)' <=> OnWay(m) \/ Carries(cmd[t], m)
  BY <1>1, CommandAppended DEF IInv, Typed
<1>3. ASSUME NEW m \in Messages, NEW n \in Messages
      PROVE  SentBefore(m, n)' <=> SentBefore(m, n) \/ (OnWay(m) /\ Carries(cmd[t], n))
  <2>1. /\ \A i \in DOMAIN toDevice' :
             \/ i \in DOMAIN toDevice /\ toDevice'[i] = toDevice[i]
             \/ i = Len(toDevice) + 1 /\ toDevice'[i] = cmd[t]
        /\ \A i \in DOMAIN toDevice : /\ i \in Nat /\ i < Len(toDevice) + 1
                                     /\ i \in DOMAIN toDevice' /\ toDevice'[i] = toDevice[i]
        /\ Len(toDevice) + 1 \in DOMAIN toDevice' /\ toDevice'[Len(toDevice) + 1] = cmd[t]
        /\ \A i \in DOMAIN toDevice' : i < Len(toDevice) + 1 \/ i = Len(toDevice) + 1
    BY <1>1
  <2>2. SentBefore(m, n) => SentBefore(m, n)'
    BY <2>1 DEF SentBefore
  <2>3. OnWay(m) /\ Carries(cmd[t], n) => SentBefore(m, n)'
    BY <2>1 DEF SentBefore, OnWay
  <2>4. ASSUME SentBefore(m, n)' PROVE SentBefore(m, n) \/ (OnWay(m) /\ Carries(cmd[t], n))
    <3>1. PICK i \in DOMAIN toDevice', j \in DOMAIN toDevice' :
            i < j /\ Carries(toDevice'[i], m) /\ Carries(toDevice'[j], n)
      BY <2>4 DEF SentBefore
    <3>2. i \in DOMAIN toDevice /\ Carries(toDevice[i], m)
      <4>1. i # Len(toDevice) + 1
        <5>1. i \in Nat /\ j \in Nat /\ Len(toDevice) \in Nat
          BY <1>1, <3>1
        <5> QED BY <2>1, <3>1, <5>1
      <4> QED BY <2>1, <3>1, <4>1
    <3> QED BY <2>1, <3>1, <3>2 DEF SentBefore, OnWay
  <2> QED BY <2>2, <2>3, <2>4
<1>4. CASE cmd[t].op # "send"
  <2>1. \A m \in Messages : ~Carries(cmd[t], m)
    BY <1>4 DEF Carries
  <2>2. \A m \in Messages : Held(m)' => Held(m)
    BY <1>1, <1>4 DEF Held, Sending, Senders
  <2>3. \E gone \in SUBSET Messages : Loses(gone)
    BY <1>1, <1>2, <1>3, <2>1, <2>2, LosesHeld DEF IInv
  <2> QED BY <1>1, <2>3, LoseRight
<1>5. CASE cmd[t].op = "send"
  <2>1. t = "tx" /\ cmd[t].msg = tx.msg
    BY <1>1, <1>5 DEF IInv, Typed, Places, Senders, Sending
  <2>2. \A m \in Messages : (Held(m) <=> Carries(cmd[t], m)) /\ ~Held(m)'
    BY <1>1, <1>5, <2>1 DEF Carries, Held, Sending
  <2>3. \A m \in Messages : InQueue(m)' <=> InQueue(m)
    BY <1>1 DEF InQueue
  <2>4. \A m \in Messages : Waiting(m)' <=> Waiting(m)
    BY <1>2, <2>2, <2>3 DEF Waiting
  <2>5. ASSUME NEW m \in Messages, NEW n \in Messages PROVE Before(m, n)' <=> Before(m, n)
    <3>1. /\ Before(m, n) <=> \/ SentBefore(m, n)
                              \/ OnWay(m) /\ (Held(n) \/ InQueue(n))
                              \/ Held(m) /\ InQueue(n)
                              \/ LineBefore(high, m, n) \/ LineBefore(low, m, n)
          /\ Before(m, n)' <=> \/ SentBefore(m, n)'
                               \/ OnWay(m)' /\ (Held(n)' \/ InQueue(n)')
                               \/ Held(m)' /\ InQueue(n)'
                               \/ LineBefore(high', m, n) \/ LineBefore(low', m, n)
      BY OrderIs, OrderIsNext
    <3> QED BY <1>1, <1>2, <1>3, <2>2, <2>3, <3>1
  <2>6. Loses({})
    BY <2>4, <2>5 DEF Loses
  <2> QED BY <1>1, <2>6, LoseRight
<1> QED BY <1>4, <1>5

\* A message is taken from one of the queues; m has been its first.
LEMMA ServiceTaken ==
  ASSUME IInv, Sorted, NEW h \in Messages,
         UNCHANGED <<fresh, air, toDevice>>,
         \A m \in Messages : ~Held(m) /\ (Held(m)' <=> m = h),
         \/ high # <<>> /\ high' = Tail(high) /\ low' = low /\ h = Head(high)
         \/ low # <<>> /\ low' = Tail(low) /\ high' = high /\ h = Head(low)
  PROVE  Service!Next
<1>1. high \in Seq(Messages) /\ low \in Seq(Messages)
  BY DEF IInv, Typed, Shape
<1>2. PICK q \in Seq(Messages), r \in Seq(Messages) :
        /\ q # <<>> /\ h = Head(q)
        /\ \A m : InQueue(m) <=> InLine(q, m) \/ InLine(r, m)
        /\ \A m : InQueue(m)' <=> InLine(Tail(q), m) \/ InLine(r, m)
        /\ \A m, n : LineBefore(high, m, n) \/ LineBefore(low, m, n)
                       <=> LineBefore(q, m, n) \/ LineBefore(r, m, n)
        /\ \A m, n : LineBefore(high', m, n) \/ LineBefore(low', m, n)
                       <=> LineBefore(Tail(q), m, n) \/ LineBefore(r, m, n)
        /\ \A m, n : InLine(q, m) /\ InLine(r, n) => ~Alike(m, n)
  <2>1. \A m, n : InLine(high, m) /\ InLine(low, n) => ~Alike(m, n) /\ ~Alike(n, m)
    BY DEF Sorted, InLine, Alike
  <2>2. CASE high # <<>> /\ high' = Tail(high) /\ low' = low /\ h = Head(high)
    <3> USE <1>1
    <3> WITNESS high \in Seq(Messages), low \in Seq(Messages)
    <3> QED BY <2>1, <2>2, OrderIs, OrderIsNext
  <2>3. CASE low # <<>> /\ low' = Tail(low) /\ high' = high /\ h = Head(low)
    <3> USE <1>1
    <3> WITNESS low \in Seq(Messages), high \in Seq(Messages)
    <3> QED BY <2>1, <2>3, OrderIs, OrderIsNext
  <2> QED BY <1>1, <2>2, <2>3
<1>3. /\ \A m : InLine(q, m) <=> m = h \/ InLine(Tail(q), m)
      /\ \A m, n : LineBefore(q, m, n)
                     <=> LineBefore(Tail(q), m, n) \/ (m = h /\ InLine(Tail(q), n))
  BY <1>2, TailLine
<1>4. \A m \in Messages : OnWay(m)' <=> OnWay(m)
  BY SentStill
<1>5. ASSUME NEW m \in Messages PROVE Waiting(m)' <=> Waiting(m)
  BY <1>2, <1>3, <1>4 DEF Waiting
<1>6. ASSUME NEW m \in Messages, NEW n \in Messages, Alike(m, n)
      PROVE  Before(m, n)' <=> Before(m, n)
  <2>1. /\ Before(m, n) <=> \/ SentBefore(m, n)
                            \/ OnWay(m) /\ InQueue(n)
                            \/ LineBefore(q, m, n) \/ LineBefore(r, m, n)
        /\ Before(m, n)' <=> \/ SentBefore(m, n)'
                             \/ OnWay(m)' /\ (n = h \/ InQueue(n)')
                             \/ m = h /\ InQueue(n)'
                             \/ LineBefore(Tail(q), m, n) \/ LineBefore(r, m, n)
    BY <1>2, OrderIs, OrderIsNext
  <2>2. SentBefore(m, n)' <=> SentBefore(m, n)
    BY SentStill
  <2>3. InQueue(n) <=> n = h \/ InQueue(n)'
    BY <1>2, <1>3
  <2>4. m = h => (InQueue(n)' <=> InLine(Tail(q), n))
    BY <1>2, <1>3, <1>6
  <2> QED BY <1>3, <1>4, <2>1, <2>2, <2>3, <2>4
<1>7. Loses({})
  BY <1>5, <1>6 DEF Loses
<1> QED BY <1>7, LoseRight

LEMMA ServiceTake ==
  ASSUME IInv, Sorted, TakeHigh \/ TakeLow
  PROVE  Service!Next
<1>1. /\ high \in Seq(Messages) /\ low \in Seq(Messages)
      /\ tx \in [msg : Messages \union {NoMsg}, key : Handles]
      /\ pc \in [Threads -> Stations]
  BY DEF IInv, Typed, Shape
<1>2. /\ UNCHANGED <<fresh, air, toDevice, cmd>>
      /\ pc["tx"] \in {"get", "low"}
  BY DEF TakeHigh, TakeLow, device
<1>3. \A m \in Messages : ~Held(m)
  BY <1>2 DEF Held, Sending
<1>4. ASSUME NEW h \in Messages, tx' = [tx EXCEPT !.msg = h], Goto("tx", "permit")
      PROVE  \A m \in Messages : Held(m)' <=> m = h
  <2>1. tx'.msg = h /\ pc'["tx"] = "permit"
    BY <1>1, <1>4 DEF Goto, Threads, Senders
  <2> QED BY <2>1 DEF Held, Sending
<1>5. CASE TakeHigh
  <2>1. high # <<>> /\ high' = Tail(high) /\ low' = low /\ Head(high) \in Messages
        /\ tx' = [tx EXCEPT !.msg = Head(high)] /\ Goto("tx", "permit")
    BY <1>1, <1>5 DEF TakeHigh
  <2> QED BY <1>2, <1>3, <1>4, <2>1, ServiceTaken
<1>6. CASE TakeLow /\ low # <<>>
  <2>1. low' = Tail(low) /\ high' = high /\ Head(low) \in Messages
        /\ tx' = [tx EXCEPT !.msg = Head(low)] /\ Goto("tx", "permit")
    BY <1>1, <1>6 DEF TakeLow
  <2> QED BY <1>2, <1>3, <1>4, <1>6, <2>1, ServiceTaken
<1>7. CASE TakeLow /\ low = <<>>
  <2>1. UNCHANGED <<high, low, fresh, air, toDevice>> /\ pc'["tx"] = "get"
    BY <1>1, <1>2, <1>7 DEF TakeLow, Goto, Threads, Senders
  <2>2. \A m \in Messages : ~Held(m)'
    BY <2>1 DEF Held, Sending
  <2>3. \E gone \in SUBSET Messages : Loses(gone)
    BY <2>1, <2>2, SentStill, LosesHeld DEF IInv
  <2> QED BY <2>1, <2>3, LoseRight
<1> QED BY <1>5, <1>6, <1>7

\* A restart of the device loses commands.
LEMMA ServiceRestart ==
  ASSUME IInv, NEW lost \in 0..Len(toDevice), Restart(lost),
         UNCHANGED <<queues, tx, pc, cmd>>
  PROVE  Service!Next
<1>1. /\ toDevice \in Seq(Commands)
      /\ toDevice' = SubSeq(toDevice, lost + 1, Len(toDevice))
      /\ UNCHANGED <<fresh, high, low, air>>
  BY DEF Restart, IInv, Typed, Shape, queues
<1>2. /\ lost \in Nat
      /\ \A i \in DOMAIN toDevice : i \in Nat
      /\ \A i \in DOMAIN toDevice' :
           i \in Nat /\ i + lost \in DOMAIN toDevice /\ toDevice'[i] = toDevice[i + lost]
  BY <1>1, AfterCut
<1>3. \A m \in Messages : Held(m)' <=> Held(m)
  BY DEF Held
<1>4. \E gone \in SUBSET Messages : Loses(gone)
  BY <1>1, <1>2, <1>3, LosesSent DEF IInv, Single
<1> QED BY <1>1, <1>4, LoseRight

\* The device transmits a packet, or refuses it.
LEMMA ServiceDevice ==
  ASSUME IInv, DeviceCommand
  PROVE  Service!Next
<1> DEFINE c == toDevice[1]
<1>1. /\ toDevice \in Seq(Commands) /\ toDevice # <<>> /\ c \in Commands
      /\ toDevice' = Tail(toDevice) /\ c = Head(toDevice)
      /\ UNCHANGED <<fresh, high, low, tx, pc, cmd>>
      /\ 1 \in DOMAIN toDevice
  <2>1. toDevice \in Seq(Commands) /\ toDevice # <<>> /\ toDevice' = Tail(toDevice)
        /\ UNCHANGED <<fresh, high, low, tx, pc, cmd>>
    BY DEF DeviceCommand, IInv, Typed, Shape, queues, txState
  <2> QED BY <2>1
<1>2. /\ \A i \in DOMAIN toDevice :
           /\ i \in Nat
           /\ i = 1 \/ (i - 1 \in DOMAIN toDevice' /\ toDevice'[i - 1] = toDevice[i])
      /\ \A i \in DOMAIN toDevice' :
           i \in Nat /\ i + 1 \in DOMAIN toDevice /\ toDevice'[i] = toDevice[i + 1]
  BY <1>1
<1>3. \A m \in Messages : Held(m)' <=> Held(m)
  BY <1>1 DEF Held
<1>4. PICK gone \in SUBSET Messages :
        Loses(gone) /\ \A m \in Messages : m \in gone <=> OnWay(m) /\ ~OnWay(m)'
  <2>1. SentOnce /\ Forward /\ 1 \in Nat
    BY DEF IInv, Single
  <2> QED BY <1>1, <1>2, <1>3, <2>1, LosesSent
<1>5. CASE UNCHANGED air
  BY <1>1, <1>4, <1>5, LoseRight
<1>6. CASE ~UNCHANGED air
  <2>1. c.op = "send" /\ c.msg \in Messages
    BY <1>1, <1>6 DEF DeviceCommand, Transmit, Commands
  <2>2. PICK m \in Messages : m = c.msg
    BY <2>1
  <2>3. Carries(c, m) /\ \A n \in Messages : Carries(c, n) => n = m
    BY <2>1, <2>2 DEF Carries
  <2>4. /\ OnWay(m) /\ ~OnWay(m)'
        /\ ~Held(m) /\ ~InQueue(m)
    <3>1. \A n \in Messages : Carries(c, n) => OnWay(n) /\ ~OnWay(n)'
      BY <1>1, CommandTaken DEF IInv, Typed, Single
    <3>2. OnWay(m) /\ ~OnWay(m)'
      BY <2>3, <3>1
    <3> QED BY <3>2, OnePlace DEF IInv
  <2>5. \A n \in Messages : OnWay(n) /\ n # m => OnWay(n)'
    BY <1>2, <2>3 DEF OnWay
  <2>6. gone = {m}
    <3>1. \A n \in Messages : n \in gone <=> n = m
      BY <1>4, <2>4, <2>5
    <3> QED BY <3>1
  <2>7. \A n \in Messages : ~Before(n, m)
    <3>1. \A j \in DOMAIN toDevice : Carries(toDevice[j], m) => j = 1
      BY <1>1, <2>1, <2>3 DEF IInv, Single, SentOnce
    <3>2. \A i \in DOMAIN toDevice : i >= 1
      BY <1>1
    <3>3. \A n \in Messages : ~SentBefore(n, m)
      <4>1. \A i, j \in DOMAIN toDevice : i < j => ~Carries(toDevice[j], m)
        BY <1>2, <3>1, <3>2
      <4> QED BY <4>1 DEF SentBefore
    <3> QED BY <2>4, <3>3, OrderIs
  <2>8. [i \in DOMAIN air |-> air[i].msg]' = Append([i \in DOMAIN air |-> air[i].msg], m)
    <3> DEFINE out == [i \in DOMAIN air |-> air[i].msg]
               L == Len(air)
    <3>1. air \in Seq(Packets)
      BY DEF IInv, Typed, Shape
    <3>2. PICK x : x.msg = m /\ air' = Append(air, x)
      BY <1>1, <1>6, <2>2 DEF DeviceCommand, Transmit
    <3>3. L \in Nat /\ DOMAIN air = 1..L
      BY <3>1
    <3>4. /\ DOMAIN air' = 1..(L + 1) /\ air'[L + 1] = x
          /\ \A i \in 1..L : air'[i] = air[i]
      BY <3>1, <3>2
    <3>5. out \in Seq(Messages) /\ Len(out) = L
      <4>0. \A i \in 1..L : air[i].msg \in Messages
        <5>1. \A i \in 1..L : air[i] \in Packets
          BY <3>1, <3>3
        <5> QED BY <5>1 DEF Packets
      <4>1. out \in [1..L -> Messages]
        BY <3>3, <4>0
      <4> HIDE DEF out, L
      <4> QED BY <3>3, <4>1
    <3>6. \A i \in 1..L : out[i] = air[i].msg
      BY <3>3
    <3>7. out' = [i \in 1..(L + 1) |-> IF i = L + 1 THEN m ELSE out[i]]
      <4>1. \A i \in 1..(L + 1) : i = L + 1 \/ i \in 1..L
        BY <3>3
      <4> QED BY <3>2, <3>3, <3>4, <3>6, <4>1
    <3> HIDE DEF out, L
    <3>8. Append(out, m) = [i \in 1..(L + 1) |-> IF i = L + 1 THEN m ELSE out[i]]
      <4> DEFINE t == Append(out, m)
      <4>1. /\ t \in Seq(Messages) /\ Len(t) = L + 1
            /\ \A i \in 1..L : t[i] = out[i]
            /\ t[L + 1] = m
        BY <3>3, <3>5
      <4> HIDE DEF t
      <4>2. t \in [1..(L + 1) -> Messages]
        BY <3>3, <4>1
      <4>3. \A i \in 1..(L + 1) : i = L + 1 \/ i \in 1..L
        BY <3>3
      <4>4. \A i \in 1..(L + 1) : t[i] = IF i = L + 1 THEN m ELSE out[i]
        BY <4>1, <4>3
      <4> QED BY <4>2, <4>4 DEF t
    <3> QED BY <3>7, <3>8 DEF out
  <2>9. Service!Leave({m})
    BY <1>4, <2>6, LeaveRight
  <2>10. m \in {n \in Messages : Waiting(n)}
    BY <2>1, <2>4 DEF Waiting
  <2>11. [n \in Messages |-> {k \in Messages : Alike(k, n) /\ Before(k, n)}][m] = {}
    BY <2>1, <2>7
  <2>12. Service!Transmit(m)
    BY <1>1, <2>8, <2>9, <2>10, <2>11 DEF Service!Transmit
  <2> QED BY <2>12 DEF Service!Next
<1> QED BY <1>5, <1>6

\* A message is submitted.
LEMMA ServiceSubmit ==
  ASSUME IInv, Sorted, NEW k \in Messages, Submit(k)
  PROVE  Service!Next
<1>1. /\ high \in Seq(Messages) /\ low \in Seq(Messages)
      /\ k \in fresh /\ fresh' = fresh \ {k}
      /\ UNCHANGED <<air, toDevice, tx, pc, cmd>>
  BY DEF IInv, Typed, Shape, Submit, txState, device
<1>2. /\ \A m \in Messages : /\ OnWay(m)' <=> OnWay(m)
                             /\ Held(m)' <=> Held(m)
      /\ \A m, n \in Messages : SentBefore(m, n)' <=> SentBefore(m, n)
  BY <1>1, SentStill DEF Held
<1>3. ~Held(k) /\ ~OnWay(k) /\ ~InLine(high, k) /\ ~InLine(low, k)
  BY <1>1, OnePlace DEF IInv, Single, QueuedOnce, InLine
<1>4. [i \in DOMAIN air |-> air[i].msg]' = [i \in DOMAIN air |-> air[i].msg]
  BY <1>1
<1>5. CASE UNCHANGED <<high, low>>
  <2>1. \A m \in Messages : Waiting(m)' <=> Waiting(m)
    BY <1>2, <1>5 DEF Waiting, InQueue
  <2>2. ASSUME NEW m \in Messages, NEW n \in Messages PROVE Before(m, n)' <=> Before(m, n)
    <3>1. InQueue(n)' <=> InQueue(n)
      BY <1>5 DEF InQueue
    <3> QED BY <1>2, <1>5, <3>1, OrderIs, OrderIsNext
  <2>3. UNCHANGED <<{m \in Messages : Waiting(m)},
                    [n \in Messages |-> {m \in Messages : Alike(m, n) /\ Before(m, n)}]>>
    BY <2>1, <2>2 DEF Alike
  <2>4. Service!Submit(k)
    BY <1>1, <1>4, <2>3 DEF Service!Submit
  <2> QED BY <2>4 DEF Service!Next
<1>6. CASE ~UNCHANGED <<high, low>>
  <2>1. PICK q \in Seq(Messages), r \in Seq(Messages) :
          /\ \A m : InQueue(m) <=> InLine(q, m) \/ InLine(r, m)
          /\ \A m : InQueue(m)' <=> InLine(Append(q, k), m) \/ InLine(r, m)
          /\ \A m, n : LineBefore(high, m, n) \/ LineBefore(low, m, n)
                         <=> LineBefore(q, m, n) \/ LineBefore(r, m, n)
          /\ \A m, n : LineBefore(high', m, n) \/ LineBefore(low', m, n)
                         <=> LineBefore(Append(q, k), m, n) \/ LineBefore(r, m, n)
          /\ \A m : InLine(r, m) => ~Alike(m, k)
          /\ ~InLine(q, k) /\ ~InLine(r, k)
    <3>1. CASE k \notin LowPriority /\ high' = Append(high, k) /\ low' = low
      <4>1. \A m : InLine(low, m) => ~Alike(m, k)
        BY <3>1 DEF Sorted, InLine, Alike
      <4> USE <1>1
      <4> WITNESS high \in Seq(Messages), low \in Seq(Messages)
      <4> QED BY <1>3, <3>1, <4>1, OrderIs, OrderIsNext
    <3>2. CASE k \in LowPriority /\ low' = Append(low, k) /\ high' = high
      <4>1. \A m : InLine(high, m) => ~Alike(m, k)
        BY <3>2 DEF Sorted, InLine, Alike
      <4> USE <1>1
      <4> WITNESS low \in Seq(Messages), high \in Seq(Messages)
      <4> QED BY <1>3, <3>2, <4>1, OrderIs, OrderIsNext
    <3> QED BY <1>6, <3>1, <3>2 DEF Submit
  <2>2. /\ \A m : InLine(Append(q, k), m) <=> InLine(q, m) \/ m = k
        /\ \A m, n : LineBefore(Append(q, k), m, n)
                       <=> LineBefore(q, m, n) \/ (InLine(q, m) /\ n = k)
    BY AppendLine
  <2>3. ASSUME NEW m \in Messages PROVE Waiting(m)' <=> Waiting(m) \/ m = k
    BY <1>2, <2>1, <2>2 DEF Waiting
  <2>4. ASSUME NEW m \in Messages, NEW n \in Messages, n # k
        PROVE  Before(m, n)' <=> Before(m, n)
    <3>1. InQueue(n)' <=> InQueue(n)
      BY <2>1, <2>2, <2>4
    <3> QED BY <1>2, <2>1, <2>2, <2>4, <3>1, OrderIs, OrderIsNext
  <2>5. ASSUME NEW m \in Messages, Alike(m, k)
        PROVE  Before(m, k)' <=> Waiting(m)
    <3>1. /\ ~SentBefore(m, k) /\ ~LineBefore(q, m, k) /\ ~LineBefore(r, m, k)
          /\ InQueue(k)' /\ ~InLine(r, m)
      BY <1>3, <2>1, <2>2, <2>5, OrderIs
    <3>2. Before(m, k)' <=> OnWay(m) \/ Held(m) \/ InLine(q, m)
      BY <1>2, <2>1, <2>2, <3>1, OrderIsNext
    <3> QED BY <2>1, <3>1, <3>2 DEF Waiting
  <2>6. {m \in Messages : Waiting(m)}' = {m \in Messages : Waiting(m)} \union {k}
    BY <2>3
  <2>7. [n \in Messages |-> {m \in Messages : Alike(m, n) /\ Before(m, n)}]'
          = [[n \in Messages |-> {m \in Messages : Alike(m, n) /\ Before(m, n)}]
               EXCEPT ![k] = {n \in {m \in Messages : Waiting(m)} : Alike(n, k)}]
    <3>1. ASSUME NEW n \in Messages
          PROVE  {m \in Messages : Alike(m, n) /\ Before(m, n)'}
                   = IF n = k THEN {x \in {m \in Messages : Waiting(m)} : Alike(x, k)}
                     ELSE {m \in Messages : Alike(m, n) /\ Before(m, n)}
      BY <2>4, <2>5
    <3> QED BY <3>1 DEF Alike
  <2>8. Service!Submit(k)
    BY <1>1, <1>4, <2>6, <2>7 DEF Service!Submit, Service!Alike, Alike
  <2> QED BY <2>8 DEF Service!Next
<1> QED BY <1>5, <1>6

LEMMA SortedNext ==
  ASSUME Typed, Sorted, [Next]_vars
  PROVE  Sorted'
<1>1. high \in Seq(Messages) /\ low \in Seq(Messages)
  BY DEF Typed, Shape
<1>2. CASE UNCHANGED <<high, low>>
  BY <1>2 DEF Sorted
<1>3. CASE \E m \in Messages : Submit(m)
  <2>1. PICK m \in Messages : Submit(m)
    BY <1>3
  <2>2. CASE m \in LowPriority /\ low' = Append(low, m) /\ high' = high
    BY <1>1, <2>2, AfterAppend DEF Sorted
  <2>3. CASE m \notin LowPriority /\ high' = Append(high, m) /\ low' = low
    BY <1>1, <2>3, AfterAppend DEF Sorted
  <2> QED BY <1>2, <2>1, <2>2, <2>3 DEF Submit
<1>4. CASE TakeHigh \/ TakeLow
  <2>1. CASE high # <<>> /\ high' = Tail(high) /\ low' = low
    BY <1>1, <2>1, AfterTail DEF Sorted
  <2>2. CASE low # <<>> /\ low' = Tail(low) /\ high' = high
    BY <1>1, <2>2, AfterTail DEF Sorted
  <2> QED BY <1>2, <1>4, <2>1, <2>2 DEF TakeHigh, TakeLow
<1>5. CASE ~(\E m \in Messages : Submit(m)) /\ ~TakeHigh /\ ~TakeLow
  <2>1. UNCHANGED <<high, low>>
    BY <1>5 DEF Next, TxThread, CfgThread, EvThread, ApiThread, Device, SendCommand,
       TryLow, EndRun, Acquire, ClearComplete, ExpectOpcode, PutCommand, SeeComplete, TakeTx,
       TakeCfg, HandleEvent, StoreResponse, SetComplete, Start, Reset, Started, StopDevice,
       StopEvents, StopUart, StopTx, DeviceCommand, DeviceReset, PowerCycle, Transmitted,
       vars, queues
  <2> QED BY <1>2, <2>1
<1> QED BY <1>3, <1>4, <1>5

LEMMA ServiceInit == Init => Service!Init
<1> SUFFICES ASSUME Init PROVE Service!Init
  OBVIOUS
<1>1. pc["tx"] = "get" /\ DOMAIN toDevice = {} /\ DOMAIN high = {} /\ DOMAIN low = {}
      /\ fresh = Messages /\ air = <<>>
  BY DEF Init, Senders
<1>2. \A m \in Messages : ~OnWay(m) /\ ~Held(m) /\ ~InQueue(m)
  BY <1>1 DEF OnWay, Held, InQueue, Sending
<1>3. \A m, n \in Messages : ~Waiting(m) /\ ~Before(m, n)
  BY <1>1, <1>2 DEF Waiting, Before
<1>4. {m \in Messages : Waiting(m)} = {}
      /\ [n \in Messages |-> {m \in Messages : Alike(m, n) /\ Before(m, n)}]
           = [m \in Messages |-> {}]
  BY <1>3
<1>5. [i \in DOMAIN air |-> air[i].msg] = <<>>
  BY <1>1
<1> QED BY <1>1, <1>4, <1>5 DEF Service!Init

LEMMA ServiceNext ==
  ASSUME IInv, Sorted, [Next]_vars
  PROVE  [Service!Next]_Service!vars
<1>1. CASE \E m \in Messages : Submit(m)
  BY <1>1, ServiceSubmit
<1>2. CASE TxThread
  BY <1>2, ServiceTake, ServiceHold, ServicePut DEF TxThread, SendCommand, Senders
<1>3. CASE CfgThread
  BY <1>3, ServiceOthers, ServicePut DEF CfgThread, SendCommand, Senders
<1>4. CASE EvThread \/ ApiThread \/ Transmitted
  BY <1>4, ServiceOthers
<1>5. CASE DeviceCommand
  BY <1>5, ServiceDevice
<1>6. CASE DeviceReset \/ PowerCycle
  <2>1. /\ \E lost \in 0..Len(toDevice) : Restart(lost)
        /\ UNCHANGED <<queues, tx, pc, cmd>>
    BY <1>6, RestartOf DEF IInv, txState
  <2> QED BY <2>1, ServiceRestart
<1>7. CASE UNCHANGED vars
  <2>1. UNCHANGED <<fresh, high, low, air, toDevice, tx, pc, cmd>>
    BY <1>7 DEF vars, queues, txState, device
  <2>2. \A m \in Messages : Held(m)' <=> Held(m)
    BY <2>1 DEF Held
  <2>3. \E gone \in SUBSET Messages : Loses(gone)
    BY <2>1, <2>2, SentStill, LosesHeld DEF IInv
  <2> QED BY <2>1, <2>3, LoseRight
<1> QED BY <1>1, <1>2, <1>3, <1>4, <1>5, <1>6, <1>7 DEF Next, Device

\* The code implements MessageService, through queues, threads, the device and
\* its restarts: each message goes out once at most, and of two of one priority
\* the one submitted first goes first, or is lost.
THEOREM PromiseKept == Spec => ServiceSpec
<1>1. Init => Service!Init /\ Sorted
  BY ServiceInit DEF Init, Sorted
<1>2. IInv /\ Sorted /\ [Next]_vars => [Service!Next]_Service!vars /\ Sorted'
  BY ServiceNext, SortedNext DEF IInv
<1> QED BY <1>1, <1>2, AlwaysHolds, PTL DEF Spec, ServiceSpec, Service!Spec

\* What has been transmitted neither waits nor can be submitted again: an
\* invariant of the abstract steps alone.
Out == [i \in DOMAIN air |-> air[i].msg]
Gone ==
  /\ \A i \in DOMAIN Out : Out[i] \notin fresh /\ ~Waiting(Out[i])
  /\ \A m \in Messages : Waiting(m) => m \notin fresh
  /\ Service!Once

LEMMA GoneNext ==
  ASSUME Typed, Gone, [Service!Next]_Service!vars
  PROVE  Gone'
<1> DEFINE W == {m \in Messages : Waiting(m)}
<1>1. Out \in Seq(Messages)
  <2>1. air \in Seq(Packets)
    BY DEF Typed, Shape
  <2>2. Len(air) \in Nat /\ \A i \in 1..Len(air) : air[i] \in Packets
    BY <2>1
  <2>3. Out \in [1..Len(air) -> Messages]
    BY <2>1, <2>2 DEF Out, Packets
  <2> QED BY <2>2, <2>3
<1>2. /\ \A i \in DOMAIN Out : Out[i] \in Messages /\ Out[i] \notin fresh /\ Out[i] \notin W
      /\ \A m \in W : m \notin fresh
      /\ \A i, j \in DOMAIN Out : Out[i] = Out[j] => i = j
  BY <1>1 DEF Gone, Out, Service!Once
<1>3. SUFFICES /\ \A i \in DOMAIN Out' : /\ Out'[i] \in Messages
                                         /\ Out'[i] \notin fresh' /\ Out'[i] \notin W'
               /\ \A m \in W' : m \notin fresh'
               /\ \A i, j \in DOMAIN Out' : Out'[i] = Out'[j] => i = j
  BY DEF Gone, Out, Service!Once
<1>4. CASE \E k \in Messages : Service!Submit(k)
  <2>1. PICK k \in fresh : /\ fresh' = fresh \ {k} /\ W' \subseteq W \union {k}
                           /\ Out' = Out
    BY <1>4 DEF Service!Submit, Out
  <2> HIDE DEF W
  <2> QED BY <1>2, <2>1
<1>5. CASE \E m \in Messages : Service!Transmit(m)
  <2>1. PICK m \in W : /\ fresh' = fresh /\ W' = W \ {m} /\ Out' = Append(Out, m)
                       /\ m \in Messages
    BY <1>5 DEF Service!Transmit, Service!Leave, Out
  <2>2. m \notin fresh
    BY <1>2, <2>1
  <2> HIDE DEF W
  <2>3. \A i \in DOMAIN Out' :
          \/ i \in DOMAIN Out /\ i < Len(Out) + 1 /\ Out'[i] = Out[i]
          \/ i = Len(Out) + 1 /\ Out'[i] = m
    BY <1>1, <2>1, AfterAppend
  <2> QED BY <1>2, <2>1, <2>2, <2>3
<1>6. CASE \E lost \in SUBSET Messages : Service!Lose(lost)
  <2>1. fresh' = fresh /\ W' \subseteq W /\ Out' = Out
    BY <1>6 DEF Service!Lose, Service!Leave, Out
  <2> HIDE DEF W
  <2> QED BY <1>2, <2>1
<1>7. CASE UNCHANGED Service!vars
  <2>1. fresh' = fresh /\ W' = W /\ Out' = Out
    BY <1>7 DEF Service!vars, Out
  <2> HIDE DEF W
  <2> QED BY <1>2, <2>1
<1> QED BY <1>4, <1>5, <1>6, <1>7 DEF Service!Next

\* No message is transmitted twice, whatever is refused, restarted or submitted.
THEOREM TransmittedOnce == Spec => []Service!Once
<1>1. Init => Gone
  <2> SUFFICES ASSUME Init PROVE Gone
    OBVIOUS
  <2>1. Service!Init
    BY ServiceInit
  <2>2. \A m \in Messages : ~Waiting(m)
    BY <2>1 DEF Service!Init
  <2>3. Out = <<>>
    BY <2>1 DEF Service!Init, Out
  <2>4. DOMAIN Out = {} /\ DOMAIN [i \in DOMAIN air |-> air[i].msg] = {}
    BY <2>3 DEF Out
  <2> QED BY <2>2, <2>4 DEF Gone, Service!Once
<1>2. IInv /\ Gone /\ [Service!Next]_Service!vars => Gone'
  BY GoneNext DEF IInv
<1>3. Gone => Service!Once
  BY DEF Gone
<1> QED BY <1>1, <1>2, <1>3, AlwaysHolds, PromiseKept, PTL DEF Spec, ServiceSpec, Service!Spec
===============================================================================
