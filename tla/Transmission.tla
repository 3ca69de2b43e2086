----------------------------- MODULE Transmission -----------------------------
(***************************************************************************)
(* How a message reaches the device: the transmission manager              *)
(* (tx_manager.py) with its thread, its permits and its two queues; the    *)
(* command channel of the device manager (dev_manager.py), which the thread *)
(* that configures the device shares; the caches of key and address handles *)
(* and the tables of the device they are copies of.                        *)
(*                                                                         *)
(* Nothing here holds a lock: a step is one access to what threads share,  *)
(* with the local computation that follows it.  The device is external: it *)
(* answers commands in order and reports each packet it has transmitted.   *)
(***************************************************************************)
EXTENDS Integers, Sequences, FiniteSets, SequencesExt

CONSTANTS Messages,
          Keys,            \* device keys: each stands for a node
          Addrs,           \* unicast addresses
          AddrOf,          \* the address of the node with a key
          Dst,             \* where a message goes: a node or an address
          LowPriority,     \* the messages submitted with low_priority
          KeyHandles, AddrHandles,  \* the rows of the device's tables
          MaxDevkeys,      \* HandleManager.MAX_DEVKEYS
          MaxAddresses,    \* HandleManager.MAX_ADDRESSES
          MaxInFlight,     \* permits of TxManager.semaphore
          NoHandle, NoMsg, \* model values
          \* Bounds on the environment.
          Early,           \* messages that may come before the device is
                           \* configured: nothing holds back the application of a
                           \* remote gateway, nor the answers to nodes
          MaxRestarts,     \* restarts before reset() is called again
          MaxPowerCycles   \* restarts before the device restarts on its own

ASSUME TransmissionAssumption ==
  /\ IsFiniteSet(Messages) /\ NoMsg \notin Messages
  /\ AddrOf \in [Keys -> Addrs]
  /\ Dst \in [Messages -> Keys \union Addrs] /\ Keys \intersect Addrs = {}
  /\ LowPriority \subseteq {m \in Messages : Dst[m] \in Addrs}
  /\ {"free", "app", "group", "none"} \intersect (Keys \union Addrs) = {}
  /\ KeyHandles \subseteq Nat /\ AddrHandles \subseteq Nat /\ NoHandle \notin Nat
  /\ MaxDevkeys \in Nat \ {0} /\ MaxAddresses \in Nat \ {0}
  /\ MaxInFlight \in Nat

VARIABLES
  fresh,        \* messages not submitted yet
  high, low,    \* send_queue, low_priority_queue
  permits,      \* value of the semaphore
  pending,      \* TxManager.pending, tokens; a token stands for its message
  pc,           \* where each thread is
  cmd,          \* the command a thread is sending
  tx,           \* the message and the key handle in hand in _send_node/_send_addr
  slot,         \* cmd_opcode_wait, cmd_complete, cmd_response
  devkeys, devkeysAddr, addresses, appkey,  \* HandleManager
  devStarted,   \* dev_started
  current,      \* the event the event thread is handling
  toDevice,     \* commands on their way to the device
  events,       \* responses and events on their way from it
  dev,          \* the device: tables of keys and addresses, packets in its hands
  heard,        \* rx_process has seen the start message
  restarts,     \* how often the device has restarted
  remote,       \* DeviceManager.remote
  air,          \* history: what the device has transmitted
  quiet         \* history: one restart, and no message submitted before the
                \* device was configured

queues == <<fresh, high, low>>
txState == <<permits, pending, tx>>
caches == <<devkeys, devkeysAddr, addresses, appkey>>
device == <<dev, heard, restarts, air>>
vars == <<queues, txState, pc, cmd, slot, caches, devStarted, current, toDevice,
          events, device, remote, quiet>>

Senders == {"tx", "cfg"}   \* the threads that call send_cmd_wait_rsp
Sending == {"clear", "expect", "put", "wait", "take"}
Stopping == {"stop_events", "stop_uart", "stop_tx", "stopped"}

\* event_handler runs, uart.write runs, TxManager.running,
\* dev_event_handler is registered.
EventsRun == pc["api"] \notin {"stop_uart", "stop_tx", "stopped"}
LinkUp == pc["api"] \notin {"stop_tx", "stopped"}
Running == pc["api"] # "stopped"
Listening == pc["api"] \notin {"new"} \union Stopping

ConfigOps == <<"state_clear", "unicast", "net_state", "subnet", "appkey_add",
               "subscribe", "subscribe">>
TxOps == {"devkey_add", "devkey_del", "addr_add", "addr_del", "send"}
Handles == {0} \union KeyHandles \union AddrHandles \union {NoHandle}

Ops == TxOps \union {ConfigOps[i] : i \in DOMAIN ConfigOps}
             \union {"reset", "unsubscribe", "none"}
Command == [op : Ops,
            what : Keys \union Addrs \union {"none"},
            handle : Handles, addr : Handles,
            step : 0..Len(ConfigOps),
            msg : Messages \union {NoMsg}]
Cmd(op) == [op |-> op, what |-> "none", handle |-> NoHandle,
            addr |-> NoHandle, step |-> 0, msg |-> NoMsg]
Add(op, what) == [Cmd(op) EXCEPT !.what = what]
Delete(op, handle) == [Cmd(op) EXCEPT !.handle = handle]
Configure(i) == [Cmd(ConfigOps[i]) EXCEPT !.step = i]
PacketSend(key, addr, m) ==
  [op |-> "send", what |-> "none", handle |-> key, addr |-> addr, step |-> 0,
   msg |-> m]

Event == [type : {"none", "rsp", "tx_complete", "dev_reset"}, op : Ops,
          ok : BOOLEAN, handle : Handles, msg : Messages \union {NoMsg}]
Ev(type, m) ==
  [type |-> type, op |-> "none", ok |-> TRUE, handle |-> NoHandle, msg |-> m]
Rsp(c, ok, h) ==
  [type |-> "rsp", op |-> c.op, ok |-> ok, handle |-> h, msg |-> c.msg]

\* The device after a restart.
Empty == [keys |-> [h \in KeyHandles |-> "free"],
          addrs |-> [h \in AddrHandles |-> "free"],
          sending |-> {}]

Init ==
  /\ fresh = Messages /\ high = <<>> /\ low = <<>>
  /\ permits = MaxInFlight /\ pending = {}
  /\ pc = [t \in Senders \union {"ev", "api"} |->
             CASE t = "tx" -> "get" [] t = "cfg" -> "none"
               [] t = "ev" -> "idle" [] t = "api" -> "new"]
  /\ cmd = [t \in Senders |-> Cmd("none")]
  /\ tx = [msg |-> NoMsg, key |-> NoHandle]
  /\ slot = [opcode |-> "none", complete |-> FALSE, response |-> Ev("none", NoMsg)]
  /\ devkeys = <<>> /\ devkeysAddr = <<>> /\ addresses = <<>>
  /\ appkey = NoHandle
  /\ devStarted = FALSE
  /\ current = Ev("none", NoMsg)
  /\ toDevice = <<>> /\ events = <<>>
  /\ dev = Empty
  /\ heard = FALSE /\ restarts = 0
  /\ remote \in BOOLEAN
  /\ air = <<>>
  /\ quiet = TRUE

-----------------------------------------------------------------------------
(* Submission: send_node and send_addr, from any thread. *)

Submit(m) ==
  /\ m \in fresh /\ pc["api"] # "new"
  /\ devStarted \/ m \in Early
  /\ fresh' = fresh \ {m}
  /\ \/ /\ m \in LowPriority
        /\ low' = Append(low, m) /\ UNCHANGED high
     \/ /\ m \notin LowPriority
        /\ high' = Append(high, m) /\ UNCHANGED low
     \* send_node of a listener or a provisioner.
     \/ Dst[m] \in Keys /\ UNCHANGED <<high, low>>
  /\ quiet' = (quiet /\ devStarted)
  /\ UNCHANGED <<txState, pc, cmd, slot, caches, devStarted, current, toDevice,
                 events, device, remote>>

-----------------------------------------------------------------------------
(* The transmission thread: _run, _send_node, _send_addr and the lookup of  *)
(* handles, up to the next command.                                         *)

Goto(t, place) == pc' = [pc EXCEPT ![t] = place]

Issue(t, c) == Goto(t, "clear") /\ cmd' = [cmd EXCEPT ![t] = c]

\* An exception: nothing catches it, the thread ends.
Die(t) == Goto(t, "dead") /\ cmd' = [cmd EXCEPT ![t] = Cmd("none")]

\* Mutant: the message that was put last is taken first.
TakeNewest ==
  /\ pc["tx"] = "get" /\ Running /\ high # <<>>
  /\ tx' = [tx EXCEPT !.msg = Last(high)]
  /\ high' = Front(high)
  /\ Goto("tx", "permit")
  /\ UNCHANGED <<fresh, low, permits, pending, cmd, slot, caches, devStarted,
                 current, toDevice, events, device, remote, quiet>>

TakeHigh ==
  /\ pc["tx"] = "get" /\ Running /\ high # <<>>
  /\ tx' = [tx EXCEPT !.msg = Head(high)]
  /\ high' = Tail(high)
  /\ Goto("tx", "permit")
  /\ UNCHANGED <<fresh, low, permits, pending, cmd, slot, caches, devStarted,
                 current, toDevice, events, device, remote, quiet>>

\* get() of the first queue has timed out: the second one is tried.
TryLow ==
  /\ pc["tx"] = "get" /\ Running /\ high = <<>>
  /\ Goto("tx", "low")
  /\ UNCHANGED <<queues, txState, cmd, slot, caches, devStarted, current,
                 toDevice, events, device, remote, quiet>>

TakeLow ==
  /\ pc["tx"] = "low"
  /\ \/ /\ low # <<>>
        /\ tx' = [tx EXCEPT !.msg = Head(low)]
        /\ low' = Tail(low)
        /\ Goto("tx", "permit")
     \/ /\ low = <<>>
        /\ Goto("tx", "get")
        /\ UNCHANGED <<low, tx>>
  /\ UNCHANGED <<fresh, high, permits, pending, cmd, slot, caches, devStarted,
                 current, toDevice, events, device, remote, quiet>>

EndRun ==
  /\ pc["tx"] = "get" /\ ~Running
  /\ Goto("tx", "ended")
  /\ UNCHANGED <<queues, txState, cmd, slot, caches, devStarted, current,
                 toDevice, events, device, remote, quiet>>

Addr(m) == IF Dst[m] \in Keys THEN AddrOf[Dst[m]] ELSE Dst[m]

\* PacketSend with the handles found; handles.appkey is None until configured.
SendPacket(m, key, addr) ==
  IF key = NoHandle THEN Die("tx") ELSE Issue("tx", PacketSend(key, addr, m))

\* Mutant: the old handle is not given back to the device.
FindAddressLeaking(m, key) ==
  LET cached == {i \in DOMAIN addresses : addresses[i].addr = Addr(m)} IN
  \/ /\ \E i \in cached : SendPacket(m, key, addresses[i].handle)
     /\ UNCHANGED addresses
  \/ /\ cached = {}
     /\ Issue("tx", Add("addr_add", Addr(m)))
     /\ addresses' = IF Len(addresses) >= MaxAddresses THEN Tail(addresses)
                                                       ELSE addresses

\* get_address_handle; a PacketSend follows when the handle is cached.
FindAddress(m, key) ==
  LET cached == {i \in DOMAIN addresses : addresses[i].addr = Addr(m)} IN
  \/ /\ \E i \in cached : SendPacket(m, key, addresses[i].handle)
     /\ UNCHANGED addresses
  \/ /\ cached = {} /\ Len(addresses) >= MaxAddresses
     /\ Issue("tx", Delete("addr_del", addresses[1].handle))
     /\ addresses' = Tail(addresses)
  \/ /\ cached = {} /\ Len(addresses) < MaxAddresses
     /\ Issue("tx", Add("addr_add", Addr(m)))
     /\ UNCHANGED addresses

\* Mutant: devkeys_addr is forgotten.
DropDevkeyOnly(i) ==
  /\ Issue("tx", Delete("devkey_del", devkeys[i].handle))
  /\ devkeys' = RemoveAt(devkeys, i)
  /\ UNCHANGED devkeysAddr

\* del devkeys[...] and devkeys_addr.pop(i), then a DevkeyDelete.
DropDevkey(i) ==
  /\ Issue("tx", Delete("devkey_del", devkeys[i].handle))
  /\ devkeys' = RemoveAt(devkeys, i)
  /\ devkeysAddr' = RemoveAt(devkeysAddr, i)

AddrIndex(a) == {i \in DOMAIN devkeysAddr : devkeysAddr[i] = a}
\* Mutant: the cache is asked for the address of the node, not for its key.
CachedKeyByAddress(m) == AddrIndex(Addr(m))

CachedKey(m) == {i \in DOMAIN devkeys : devkeys[i].key = Dst[m]}

\* get_devkey_handle.
FindDevkey(m) ==
  LET cached == CachedKey(m)
      sameAddr == AddrIndex(AddrOf[Dst[m]])
  IN
  \/ /\ \E i \in cached :
          /\ tx' = [tx EXCEPT !.key = devkeys[i].handle]
          /\ FindAddress(m, devkeys[i].handle)
     /\ UNCHANGED <<devkeys, devkeysAddr>>
  \/ /\ cached = {}
     /\ \/ \E i \in sameAddr : (\A j \in sameAddr : i <= j) /\ DropDevkey(i)
        \/ sameAddr = {} /\ Len(devkeys) >= MaxDevkeys /\ DropDevkey(1)
        \/ /\ sameAddr = {} /\ Len(devkeys) < MaxDevkeys
           /\ Issue("tx", Add("devkey_add", Dst[m]))
           /\ UNCHANGED <<devkeys, devkeysAddr>>
     /\ UNCHANGED <<tx, addresses>>

\* Mutant: acquire() that times out lets the message go.
TakePermitOrNot ==
  \/ permits > 0 /\ permits' = permits - 1
  \/ permits = 0 /\ UNCHANGED permits

\* The permit; a message in hand when the thread is stopped goes without one.
TakePermit ==
  \/ permits > 0 /\ permits' = permits - 1
  \/ permits = 0 /\ ~Running /\ UNCHANGED permits

Acquire ==
  /\ pc["tx"] = "permit"
  /\ TakePermit
  /\ IF Dst[tx.msg] \in Keys
       THEN FindDevkey(tx.msg)
       ELSE FindAddress(tx.msg, appkey) /\ UNCHANGED <<devkeys, devkeysAddr, tx>>
  /\ UNCHANGED <<queues, pending, slot, appkey, devStarted, current, toDevice,
                 events, device, remote, quiet>>

-----------------------------------------------------------------------------
(* send_cmd_wait_rsp, statement by statement, in either thread. *)

\* Mutant: cmd_complete is not reset.
ClearNothing(t) ==
  /\ pc[t] = "clear"
  /\ Goto(t, "expect")
  /\ UNCHANGED <<queues, txState, cmd, slot, caches, devStarted, current,
                 toDevice, events, device, remote, quiet>>

ClearComplete(t) ==
  /\ pc[t] = "clear"
  /\ slot' = [slot EXCEPT !.complete = FALSE]
  /\ Goto(t, "expect")
  /\ UNCHANGED <<queues, txState, cmd, caches, devStarted, current, toDevice,
                 events, device, remote, quiet>>

ExpectOpcode(t) ==
  /\ pc[t] = "expect"
  /\ slot' = [slot EXCEPT !.opcode = cmd[t].op]
  /\ Goto(t, "put")
  /\ UNCHANGED <<queues, txState, cmd, caches, devStarted, current, toDevice,
                 events, device, remote, quiet>>

PutCommand(t) ==
  /\ pc[t] = "put"
  /\ toDevice' = Append(toDevice, cmd[t])
  /\ Goto(t, "wait")
  /\ UNCHANGED <<queues, txState, cmd, slot, caches, devStarted, current, events,
                 device, remote, quiet>>

\* Mutant: a packet is sent again when the response does not come in time.
SeeCompleteOrRetry(t) ==
  /\ pc[t] = "wait" /\ (slot.complete \/ cmd[t].op = "send")
  /\ Goto(t, IF slot.complete THEN "take" ELSE "put")
  /\ UNCHANGED <<queues, txState, cmd, slot, caches, devStarted, current,
                 toDevice, events, device, remote, quiet>>

SeeComplete(t) ==
  /\ pc[t] = "wait" /\ slot.complete
  /\ Goto(t, "take")
  /\ UNCHANGED <<queues, txState, cmd, slot, caches, devStarted, current,
                 toDevice, events, device, remote, quiet>>

\* rsp["rsp_data"] holds a handle; otherwise the subscript or unpack raises.
HasHandle(e) == e.handle # NoHandle

\* What the transmission thread does with the response, up to the next command.
TakeTx ==
  LET m == tx.msg
      h == slot.response.handle
  IN
  /\ pc["tx"] = "take"
  /\ \/ /\ cmd["tx"].op = "devkey_del"
        /\ Issue("tx", Add("devkey_add", Dst[m]))
        /\ UNCHANGED <<devkeys, devkeysAddr, addresses, tx>>
     \/ /\ cmd["tx"].op = "devkey_add" /\ HasHandle(slot.response)
        /\ devkeys' = Append(devkeys, [key |-> Dst[m], handle |-> h])
        /\ devkeysAddr' = Append(devkeysAddr, Addr(m))
        /\ tx' = [tx EXCEPT !.key = h]
        /\ FindAddress(m, h)
     \/ /\ cmd["tx"].op = "addr_del"
        /\ Issue("tx", Add("addr_add", Addr(m)))
        /\ UNCHANGED <<devkeys, devkeysAddr, addresses, tx>>
     \/ /\ cmd["tx"].op = "addr_add" /\ HasHandle(slot.response)
        /\ addresses' = Append(addresses, [addr |-> Addr(m), handle |-> h])
        /\ SendPacket(m, IF Dst[m] \in Keys THEN tx.key ELSE appkey, h)
        /\ UNCHANGED <<devkeys, devkeysAddr, tx>>
     \/ /\ cmd["tx"].op \in {"devkey_add", "addr_add"} /\ ~HasHandle(slot.response)
        /\ Die("tx")
        /\ UNCHANGED <<devkeys, devkeysAddr, addresses, tx>>
     \/ /\ cmd["tx"].op = "send"
        /\ Goto("tx", "get")
        /\ tx' = [tx EXCEPT !.msg = NoMsg]
        /\ UNCHANGED <<devkeys, devkeysAddr, addresses, cmd>>
  /\ UNCHANGED <<queues, permits, pending, slot, appkey, devStarted, current,
                 toDevice, events, device, remote, quiet>>

\* config_device after its i-th command.
TakeCfg ==
  LET i == cmd["cfg"].step IN
  /\ pc["cfg"] = "take"
  /\ \/ /\ i >= 4 /\ ~HasHandle(slot.response)
        /\ Die("cfg")
        /\ UNCHANGED <<appkey, devStarted>>
     \/ /\ i < 4 \/ HasHandle(slot.response)
        /\ IF ConfigOps[i] = "appkey_add" THEN appkey' = slot.response.handle
                                          ELSE UNCHANGED appkey
        /\ IF i < Len(ConfigOps)
             THEN Issue("cfg", Configure(i + 1)) /\ UNCHANGED devStarted
             ELSE Goto("cfg", "done") /\ devStarted' = TRUE /\ UNCHANGED cmd
  /\ UNCHANGED <<queues, txState, slot, devkeys, devkeysAddr, addresses, current,
                 toDevice, events, device, remote, quiet>>

-----------------------------------------------------------------------------
(* The event thread: it calls the handlers of TxManager, then that of       *)
(* DeviceManager.                                                           *)

\* Mutant: a refused packet keeps its permit.
AccountLosing(e) ==
  CASE e.type = "rsp" /\ e.op = "send" /\ e.ok ->
         pending' = pending \union {e.msg} /\ UNCHANGED permits
    [] e.type = "tx_complete" /\ e.msg \in pending ->
         permits' = permits + 1 /\ pending' = pending \ {e.msg}
    [] OTHER -> UNCHANGED <<permits, pending>>

\* Mutant: a permit is given back when a packet is accepted, and again later.
AccountTwice(e) ==
  CASE e.type = "rsp" /\ e.op = "send" /\ e.ok ->
         permits' = permits + 1 /\ pending' = pending \union {e.msg}
    [] e.type = "tx_complete" /\ e.msg \in pending ->
         permits' = permits + 1 /\ pending' = pending \ {e.msg}
    [] OTHER -> UNCHANGED <<permits, pending>>

\* rsp_handler and sent_handler.
Account(e) ==
  CASE e.type = "rsp" /\ e.op = "send" /\ e.ok ->
         pending' = pending \union {e.msg} /\ UNCHANGED permits
    [] e.type = "rsp" /\ e.op = "send" /\ ~e.ok ->
         permits' = permits + 1 /\ UNCHANGED pending
    [] e.type = "tx_complete" /\ e.msg \in pending ->
         permits' = permits + 1 /\ pending' = pending \ {e.msg}
    [] OTHER -> UNCHANGED <<permits, pending>>

HandleEvent ==
  LET e == Head(events) IN
  /\ pc["ev"] = "idle" /\ EventsRun /\ events # <<>>
  /\ events' = Tail(events)
  /\ Account(e)
  /\ \/ /\ Listening /\ e.type = "rsp" /\ e.op = slot.opcode
        /\ Goto("ev", "answer") /\ current' = e /\ UNCHANGED cmd
     \/ /\ Listening /\ e.type = "dev_reset" /\ pc["cfg"] = "none"
        /\ Issue("cfg", Configure(1)) /\ UNCHANGED current
     \* Not for dev_event_handler, or evt_thd is set and it raises.
     \/ /\ \/ ~Listening
           \/ e.type = "tx_complete"
           \/ e.type = "rsp" /\ e.op # slot.opcode
           \/ e.type = "dev_reset" /\ pc["cfg"] # "none"
        /\ UNCHANGED <<pc, cmd, current>>
  /\ UNCHANGED <<queues, tx, slot, caches, devStarted, toDevice, device, remote,
                 quiet>>

StoreResponse ==
  /\ pc["ev"] = "answer"
  /\ slot' = [slot EXCEPT !.response = current]
  /\ Goto("ev", "complete")
  /\ UNCHANGED <<queues, txState, cmd, caches, devStarted, current, toDevice,
                 events, device, remote, quiet>>

SetComplete ==
  /\ pc["ev"] = "complete"
  /\ slot' = [slot EXCEPT !.complete = TRUE]
  /\ Goto("ev", "idle")
  /\ current' = Ev("none", NoMsg)
  /\ UNCHANGED <<queues, txState, cmd, caches, devStarted, toDevice, events,
                 device, remote, quiet>>

-----------------------------------------------------------------------------
(* The application: Gateway.start, reset and stop. *)

Post(commands) == toDevice' = toDevice \o commands

\* dev_manager.start; a remote gateway does not reset its device.
Start ==
  /\ pc["api"] = "new"
  /\ IF remote THEN Goto("api", "up") /\ UNCHANGED toDevice
               ELSE Goto("api", "starting") /\ Post(<<Cmd("reset")>>)
  /\ devStarted' = FALSE
  /\ UNCHANGED <<queues, txState, cmd, slot, caches, current, events, device,
                 remote, quiet>>

Reset ==
  /\ pc["api"] = "up" /\ restarts < MaxRestarts
  /\ Post(<<Cmd("reset")>>)
  /\ Goto("api", "starting")
  /\ UNCHANGED <<queues, txState, cmd, slot, caches, devStarted, current, events,
                 device, remote, quiet>>

\* start_device returns.
Started ==
  /\ pc["api"] = "starting" /\ devStarted
  /\ Goto("api", "up")
  /\ UNCHANGED <<queues, txState, cmd, slot, caches, devStarted, current,
                 toDevice, events, device, remote, quiet>>

\* dev_manager.stop; it raises while the device is being configured.
StopDevice ==
  /\ pc["api"] = "up"
  /\ IF remote THEN UNCHANGED toDevice
               ELSE Post(<<Cmd("unsubscribe"), Cmd("unsubscribe"),
                           Cmd("reset")>>)
  /\ devStarted' = FALSE
  /\ IF pc["cfg"] \in Sending THEN UNCHANGED pc ELSE Goto("api", "stop_events")
  /\ UNCHANGED <<queues, txState, cmd, slot, caches, current, events, device,
                 remote, quiet>>

\* event_parser.stop and event_handler.stop.
StopEvents ==
  /\ pc["api"] = "stop_events" /\ pc["ev"] = "idle"
  /\ Goto("api", "stop_uart")
  /\ UNCHANGED <<queues, txState, cmd, slot, caches, devStarted, current,
                 toDevice, events, device, remote, quiet>>

\* uart.stop writes what is left and closes the port.
StopUart ==
  /\ pc["api"] = "stop_uart" /\ toDevice = <<>>
  /\ Goto("api", "stop_tx")
  /\ UNCHANGED <<queues, txState, cmd, slot, caches, devStarted, current,
                 toDevice, events, device, remote, quiet>>

\* TxManager.stop; the join times out if the thread does not end.
StopTx ==
  /\ pc["api"] = "stop_tx"
  /\ Goto("api", "stopped")
  /\ UNCHANGED <<queues, txState, cmd, slot, caches, devStarted, current,
                 toDevice, events, device, remote, quiet>>

-----------------------------------------------------------------------------
(* The device and the link; external. *)

\* rx_process ignores all input until the start message.
Emit(e) == events' = IF heard THEN Append(events, e) ELSE events

FreeRows(table) == {h \in DOMAIN table : table[h] = "free"}
FirstFree(table) == {h \in FreeRows(table) : \A i \in FreeRows(table) : h <= i}

\* A row of its own for what is added, or a refusal when there is none.
AddKey(c, what) ==
  \/ \E h \in FirstFree(dev.keys) :
       /\ dev' = [dev EXCEPT !.keys[h] = what]
       /\ Emit(Rsp(c, TRUE, h))
  \/ /\ FreeRows(dev.keys) = {}
     /\ Emit(Rsp(c, FALSE, NoHandle)) /\ UNCHANGED dev

AddAddr(c, what) ==
  \/ \E h \in FirstFree(dev.addrs) :
       /\ dev' = [dev EXCEPT !.addrs[h] = what]
       /\ Emit(Rsp(c, TRUE, h))
  \/ /\ FreeRows(dev.addrs) = {}
     /\ Emit(Rsp(c, FALSE, NoHandle)) /\ UNCHANGED dev

Freed(table, row, what) ==
  [h \in DOMAIN table |->
     IF h = row /\ table[h] \in what THEN "free" ELSE table[h]]
Used(table, row) == row \in DOMAIN table /\ table[row] # "free"

\* The device forgets its tables and its packets, and so the commands it had
\* read, the first lost ones.
Restart(lost) ==
  /\ dev' = Empty
  /\ toDevice' = SubSeq(toDevice, lost + 1, Len(toDevice))
  /\ heard' = TRUE
  /\ events' = Append(events, Ev("dev_reset", NoMsg))
  /\ restarts' = restarts + 1
  /\ quiet' = (quiet /\ restarts = 0)
  /\ UNCHANGED air

\* What a command does to the tables, and its response.
Manage(c) ==
  \/ /\ c.op = "state_clear"
     /\ dev' = [Empty EXCEPT !.sending = dev.sending]
     /\ Emit(Rsp(c, TRUE, NoHandle))
  \/ /\ c.op \in {"unicast", "net_state", "unsubscribe"}
     /\ Emit(Rsp(c, TRUE, NoHandle))
     /\ UNCHANGED dev
  \/ /\ c.op = "subnet"
     /\ Emit(Rsp(c, TRUE, 0))
     /\ UNCHANGED dev
  \/ c.op = "appkey_add" /\ AddKey(c, "app")
  \/ c.op = "subscribe" /\ AddAddr(c, "group")
  \/ c.op = "devkey_add" /\ AddKey(c, c.what)
  \/ c.op = "addr_add" /\ AddAddr(c, c.what)
  \/ /\ c.op = "devkey_del"
     /\ dev' = [dev EXCEPT !.keys = Freed(@, c.handle, Keys)]
     /\ Emit(Rsp(c, TRUE, NoHandle))
  \/ /\ c.op = "addr_del"
     /\ dev' = [dev EXCEPT !.addrs = Freed(@, c.handle, Addrs)]
     /\ Emit(Rsp(c, TRUE, NoHandle))

\* PacketSend: refused without such handles, or for want of room.
Transmit(c) ==
  /\ c.op = "send"
  /\ \/ /\ Used(dev.keys, c.handle) /\ Used(dev.addrs, c.addr)
        /\ dev' = [dev EXCEPT !.sending = @ \union {c.msg}]
        /\ air' = Append(air, [msg |-> c.msg, key |-> dev.keys[c.handle],
                               addr |-> dev.addrs[c.addr]])
        /\ Emit(Rsp(c, TRUE, NoHandle))
     \/ /\ Emit(Rsp(c, FALSE, NoHandle))
        /\ UNCHANGED <<dev, air>>

DeviceCommand ==
  /\ LinkUp /\ toDevice # <<>> /\ Head(toDevice).op # "reset"
  /\ \/ Manage(Head(toDevice)) /\ UNCHANGED air
     \/ Transmit(Head(toDevice))
  /\ toDevice' = Tail(toDevice)
  /\ UNCHANGED <<queues, txState, pc, cmd, slot, caches, devStarted, current,
                 heard, restarts, remote, quiet>>

DeviceReset ==
  /\ LinkUp /\ toDevice # <<>> /\ Head(toDevice).op = "reset"
  /\ \E lost \in 1..Len(toDevice) : Restart(lost)
  /\ UNCHANGED <<queues, txState, pc, cmd, slot, caches, devStarted, current, remote>>

PowerCycle ==
  /\ restarts < MaxPowerCycles
  /\ \E lost \in 0..Len(toDevice) : Restart(lost)
  /\ UNCHANGED <<queues, txState, pc, cmd, slot, caches, devStarted, current, remote>>

Transmitted ==
  /\ \E m \in dev.sending :
       /\ dev' = [dev EXCEPT !.sending = @ \ {m}]
       /\ Emit(Ev("tx_complete", m))
  /\ UNCHANGED <<queues, txState, pc, cmd, slot, caches, devStarted, current,
                 toDevice, heard, restarts, air, remote, quiet>>

-----------------------------------------------------------------------------
SendCommand(t) ==
  ClearComplete(t) \/ ExpectOpcode(t) \/ PutCommand(t) \/ SeeComplete(t)
TxThread ==
  \/ TakeHigh \/ TryLow \/ TakeLow \/ EndRun \/ Acquire
  \/ SendCommand("tx") \/ TakeTx
CfgThread == SendCommand("cfg") \/ TakeCfg
EvThread == HandleEvent \/ StoreResponse \/ SetComplete
ApiThread ==
  Start \/ Reset \/ Started \/ StopDevice \/ StopEvents \/ StopUart \/ StopTx
Device == DeviceCommand \/ DeviceReset \/ Transmitted

Next ==
  \/ \E m \in Messages : Submit(m)
  \/ TxThread \/ CfgThread \/ EvThread \/ ApiThread
  \/ Device \/ PowerCycle

Spec == Init /\ [][Next]_vars

\* Threads run on, and the device answers and transmits.
Fairness ==
  /\ WF_vars(TxThread) /\ WF_vars(CfgThread) /\ WF_vars(EvThread)
  /\ WF_vars(DeviceCommand) /\ WF_vars(DeviceReset) /\ WF_vars(Transmitted)
  /\ WF_vars(StopEvents) /\ WF_vars(StopUart) /\ WF_vars(StopTx)
FairSpec == Spec /\ Fairness

-----------------------------------------------------------------------------
(* Properties *)

\* Everything has its type; there are never more permits than at the start.
TypeOK ==
  /\ fresh \subseteq Messages /\ pending \subseteq Messages
  /\ high \in Seq(Messages) /\ low \in Seq(Messages)
  /\ permits \in 0..MaxInFlight
  /\ pc["tx"] \in {"get", "low", "permit", "ended", "dead"} \union Sending
  /\ pc["cfg"] \in {"none", "done", "dead"} \union Sending
  /\ pc["ev"] \in {"idle", "answer", "complete"}
  /\ pc["api"] \in {"new", "starting", "up"} \union Stopping
  /\ cmd \in [Senders -> Command]
  /\ tx \in [msg : Messages \union {NoMsg}, key : Handles]
  /\ slot \in [opcode : Ops, complete : BOOLEAN, response : Event]
  /\ devkeys \in Seq([key : Keys, handle : Handles])
  /\ devkeysAddr \in Seq(Addrs)
  /\ addresses \in Seq([addr : Addrs, handle : Handles])
  /\ appkey \in Handles
  /\ devStarted \in BOOLEAN /\ heard \in BOOLEAN
  /\ remote \in BOOLEAN /\ quiet \in BOOLEAN
  /\ current \in Event
  /\ toDevice \in Seq(Command) /\ events \in Seq(Event)
  /\ dev.keys \in [KeyHandles -> Keys \union {"free", "app"}]
  /\ dev.addrs \in [AddrHandles -> Addrs \union {"free", "group"}]
  /\ dev.sending \subseteq Messages
  /\ restarts \in Nat

\* The messages that have taken a permit and not given it back: about to be
\* sent, on their way, or answered and not reported transmitted.
Claimed ==
  {m \in Messages :
     \/ m = tx.msg /\ pc["tx"] \in Sending
          /\ (pc["tx"] \in {"wait", "take"} => cmd["tx"].op # "send")
     \/ \E i \in DOMAIN toDevice : toDevice[i].op = "send" /\ toDevice[i].msg = m
     \/ \E i \in DOMAIN events :
          events[i].type = "rsp" /\ events[i].op = "send" /\ events[i].msg = m
     \/ m \in pending}

\* The device never has more packets in hand than there are permits ("Size 10
\* already fails on a nRF52832"), whatever restarts, refusals and answers to
\* other threads do: a permit is given back once for each one taken.
InFlight ==
  /\ Running => permits + Cardinality(Claimed) <= MaxInFlight
  /\ dev.sending \subseteq Claimed

\* send_cmd_wait_rsp returns the response to the command of its own thread, although
\* the threads share one slot, as long as nothing is sent before the device is
\* configured.
QuietAnswers ==
  quiet => \A t \in Senders : pc[t] = "take" => slot.response.op = cmd[t].op

\* A cached handle is the device's row for that key or address, the three
\* lists of HandleManager agree, and no row is there twice.
CachedHandles ==
  quiet =>
    /\ \A i \in DOMAIN devkeys : dev.keys[devkeys[i].handle] = devkeys[i].key
    /\ \A i \in DOMAIN addresses : dev.addrs[addresses[i].handle] = addresses[i].addr
    /\ devkeysAddr = [i \in DOMAIN devkeys |-> AddrOf[devkeys[i].key]]
    /\ IsInjective(devkeysAddr)

\* The device is never asked to hold more rows than the caches count on, so no
\* refusal ends the transmission thread, which nothing would restart.
TxAlive == quiet => pc["tx"] # "dead"

\* A message is transmitted to its address, under the key of its node or the
\* application key.
RightDestination ==
  quiet =>
    \A i \in DOMAIN air :
      /\ air[i].addr = Addr(air[i].msg)
      /\ air[i].key = IF Dst[air[i].msg] \in Keys THEN Dst[air[i].msg] ELSE "app"

\* What waits to be transmitted: commands on their way, the message in hand, the
\* queues.
Carries(c, m) == c.op = "send" /\ c.msg = m
OnWay(m) == \E i \in DOMAIN toDevice : Carries(toDevice[i], m)
Held(m) ==
  /\ tx.msg = m /\ pc["tx"] \in {"permit"} \union Sending
  /\ pc["tx"] \in {"wait", "take"} => cmd["tx"].op # "send"
InQueue(m) == \E q \in {high, low} : \E i \in DOMAIN q : q[i] = m
Waiting(m) == OnWay(m) \/ Held(m) \/ InQueue(m)

\* m waits nearer to the device than n.
Before(m, n) ==
  \/ \E i, j \in DOMAIN toDevice :
       i < j /\ Carries(toDevice[i], m) /\ Carries(toDevice[j], n)
  \/ OnWay(m) /\ (Held(n) \/ InQueue(n))
  \/ Held(m) /\ InQueue(n)
  \/ \E q \in {high, low} : \E i, j \in DOMAIN q : i < j /\ q[i] = m /\ q[j] = n

\* The gateway transmits each message once at most, in order of submission.
Alike(m, n) == m \in LowPriority <=> n \in LowPriority
Service ==
  INSTANCE MessageService WITH
    waiting <- {m \in Messages : Waiting(m)},
    ahead <- [n \in Messages |-> {m \in Messages : Alike(m, n) /\ Before(m, n)}],
    air <- [i \in DOMAIN air |-> air[i].msg]
ServiceSpec == Service!Spec

\* A submitted message is transmitted or refused in the end: no permit is lost
\* and no one waits for ever, while the gateway runs and the device stays up.
Served ==
  \A m \in Messages :
    Waiting(m) ~> ~Waiting(m) \/ ~quiet \/ pc["api"] \in Stopping
===============================================================================
