# Verification of ttgwlib

`ttgwlib` runs a Bluetooth-mesh gateway: a Python library that drives an nRF
microcontroller over a serial line (or a socket), keeps a set of nodes
configured, and offers the application a command API. This directory holds TLA+
models of it, the TLC configurations that check them and TLAPS proofs.

    tlc -config tq_on.cfg MCTaskQueue       # tq_*.cfg but tq_live
    tlc -config tq_live.cfg MCSettling
    tlc -config tx_storm.cfg MCTransmission # tx_*.cfg
    tlc -config tr_mesh.cfg MCTransport     # tr_*.cfg
    tlc -config pv_scan.cfg MCProvisioning  # pv_*.cfg
    tlc -config lc_gateway.cfg MCLifecycle  # lc_*.cfg
    tlapm TaskQueueProofs.tla               # and the other *Proofs modules

## 1. The system: inventory

Paths are under `src/ttgwlib/`.

| Component | State | Operations | Talks to |
|---|---|---|---|
| Task queue (`models/task_queue.py`, `models/task.py`, the task classes in `models/*.py`) | per node: list of tasks, its configuration timer (`config_nodes`), membership of `configuring_nodes`; per task: retries, timer | `add_task`, `cancel_tasks`, `reschedule_tasks`, `get_tasks`, `set_sleep_time`, `sleep_node`, `task_handler`, `config_timeout_handler`, `node_clean_tasks` | events in; timers, whitelist, node database and Tx manager out |
| Time events (`events/time_events.py`) | a `threading.Timer` each | `start`, `cancel`, `restart`, fire | puts itself in the event queue |
| Event handler (`events/event_handler.py`) | event queue, list of handlers | `add_event`, `process_packets`, `add_handler`, `remove_handler`, `start`, `stop` | calls every handler, in order, in one thread |
| Whitelist (`whitelist.py`) | a list of nodes, no lock | `add_node`, `remove_node`, `is_node_in_whitelist` | cleans the task queue of a node it removes |
| Device manager (`dev_manager.py`) | one slot for the awaited command and its response, handle caches, started flag, sequence-number file | `send_cmd_wait_rsp`, `get_devkey_handle`, `get_address_handle`, `dev_event_handler`, `config_device`, `start`, `stop` | device over UART; answers come as events |
| Transmission manager (`tx_manager.py`) | two queues, semaphore of 3 permits, pending tokens | `send_node`, `send_addr`, `_run`, `rsp_handler`, `sent_handler`, `stop` | device manager, events |
| Provisioning (`provisioning/`) | `scanning`, `provisioning`, the node in hand | `start_scan`, `stop_scan`, `provision`, `prov_handler`, scan timeout | node database, events, device |
| Transport (`models/transport.py`) | one partly received packet per source | `send_msg`, `data_handler` | Tx manager, events |
| Event parser, replay cache (`events/event_parser.py`, `events/replay_cache.py`) | last sequence number per source; the receive thread | `rx_process`, `check_seq_number`, `remove_node` | UART in, event queue out |
| Gateway (`gateway.py`, `hw_self_test.py`) | what is started, the mode | `init`, `hw_check`, `start`, `start_passthrough`, `stop`, `reset`, and the API | everything |
| Links (`uart.py`, `uart_socket.py`, `passthrough.py`) | connection, threads | `start`, `stop`, `read`, `write`, reconnect | device, remote server |
| OTA helper (`ota_helper.py`) | none to speak of | parse a hex file, upload it | UART |
| Formats (`commands.py`, `events/*_events.py`, `provisioning/encryption.py`), `platform/` | none | pure conversions, external tools | |

Threads: one event-handler thread runs all handlers, one timer thread per
pending timeout, the receive thread, the Tx thread, a thread that configures the
device, and those of the application, which call the API directly.

What is hard, and what makes each part correct:

* **Task queue.** Called by the event thread and by the application. A timer
  that is cancelled may already have queued its event; the lock covers some
  accesses only. Correct when: a node's queue never gets stuck on a task nobody
  executes; configuration slots are bounded, and given back; what is kept about
  a node in `config_nodes`, `configuring_nodes` and `queue` agrees; pending
  commands survive a reconfiguration.
* **Device manager and Tx manager.** Two threads share one response slot; three
  permits must be neither lost nor invented; the cached handles must be those
  of the device's tables, which a reset empties.
* **Sequence number.** Must never be used twice over a crash; the file is
  truncated before it is written.
* **Provisioning.** One node at a time, no address given twice, never stuck.
* **Transport, replay cache.** The mesh loses, repeats, delays and reorders.
* **Lifecycle.** Threads started by a start that fails half-way; a thread that
  an exception ends while another one waits for it; resets that overtake, or are
  ignored.

The `hazards` of `PROJECT.json` list these one by one, with the line and the
property that watches it, or why there is none.

## 2. Plan

| # | Modules | Subject | Status |
|---|---|---|---|
| 1 | `NodeTasks`, `TaskQueue`, `Settling` | task queue, timers, whitelist, event thread | done, proved |
| 2 | `Transmission`, `MessageService` | the command channel with two threads, permits, the handle caches against the device's tables, reset and stop; the promise to the callers as an abstract specification | done, its invariants and the refinement proved |
| 3 | `Provisioning` | scan, timeout, one node at a time, addresses, the replay cache against removal | done, proved |
| 4 | `Transport` | fragments and replay cache over a lossy mesh, sequence numbers over a crash | done, proved |
| 5 | `Links`, `Passthrough`, `Lifecycle` | the threads of the links and of passthrough mode, composed with self test, start and stop | done, proved |
| 6 | proofs | every invariant of `Transmission` and its refinement, of `Provisioning` and of `Transport` | done |
| 7 | proofs | every invariant of `Lifecycle` | done |

## 3. The modules

| Module | Contents |
|---|---|
| `NodeTasks` | the record kept for one node and one operator per method of `TaskQueue`, as functions from record to record |
| `TaskQueue` | one such record per node, the event queue, the two threads, timers, whitelist and database; actions; properties |
| `Settling` | `TaskQueue` with a history of the queues that lost what would have moved them on; the property about queues that come to an end |
| `MCTaskQueue`, `MCSettling` | values for TLC: what the configuration callback adds |
| `NodeTasksProofs` | what each operator of `NodeTasks` preserves |
| `TaskQueueProofs` | the inductive invariant of `TaskQueue`, the pending tasks, and the theorems on configuration slots |
| `Transmission` | from `send_node` and `send_addr` to the device and back: transmission thread, configuration thread, event thread, application, device; properties |
| `MessageService` | the abstract specification: each message goes out once at most, those of one priority in order |
| `MCTransmission` | values for TLC: which node has which address, where each message goes |
| `TransmissionProofs` | types, one place for each message, permits, and that `Transmission` implements `MessageService` |
| `HandleProofs` | the response slot and the handle caches |
| `AliveProofs` | room in the device's tables |
| `Transport`, `MCTransport` | two gateways, the mesh between them and the sequence-number file of the sender |
| `TransportProofs` | types, sequence numbers, that messages are not mixed, and that what arrives is put together |
| `Provisioning`, `MCProvisioning` | the scan, the node in hand, the list of handlers and the receive thread |
| `ProvisioningProofs` | the inductive invariants of `Provisioning` |
| `Links` | the serial port and the socket: their threads, their queues and the device behind them |
| `Passthrough` | extends `Links` with the thread that keeps the connection and the two relays |
| `Lifecycle`, `MCLifecycle` | extends `Passthrough` with the calls of the application and the threads they start |
| `LifecycleProofs` | which threads run at which place of a call, and the order of what is under way to the device and back |

### State of `TaskQueue`

| TLA+ | code |
|---|---|
| `node[n].queue` | `task_queue.queue[n]`; `<<>>` when `n` is not a key (while the lock is free the dict holds an empty list only after an exception: `left`) |
| `node[n].stray` | running `TaskTimeout` timers of tasks that are gone |
| `node[n].config` | `config_nodes[n]`: absent, or its timer running or stopped |
| `node[n].orphans` | running `ConfigTimeout` timers whose entry is gone |
| `node[n].configuring` | `n in configuring_nodes` |
| `node[n].late` | history: `notify_cb` put it there when its entry of `config_nodes` was already gone |
| `node[n].left` | a `KeyError` ended `task_handler` after `pop(0)` and before the queue was deleted: the dict still holds the rest of it, be it the empty list |
| `node[n].period` | `n.sleep_period` |
| `sleepTime`, `whitelist`, `db`, `listener` | `wake_up.sleep_time`, `whitelist.whitelist`, nodes of `node_db`, `gw.listener` |
| `events` | `event_handler.event_queue`, events of nodes only |
| `pc`, `target`, `current` | where the event thread (`"ev"`) and the application (`"api"`) are, the node each works on, the event in hand |

A task is its kind, its retries and its timer. There are as many kinds as the
queue tells apart: Wake, Sleep, Alive, Reset; the command that sets the sleep
period (`conf`), another one answered by the same acknowledgement (`rate`),
the deletion that goes with it in legacy mode, and all others (`cmd`). Every
command's `success()` cancels its timer, and raises when there is none.

### Actions of `TaskQueue`

`config_nodes` and `configuring_nodes` are changed without `queue_lock` by
`config_timeout_handler` and by `Whitelist.remove_node`, so that the block of
`task_handler` under the lock is cut where it looks at them again:

| Action | `task_queue.py` |
|---|---|
| `Dispatch` | mode and whitelist, before the lock (255 to 259) |
| `Callbacks` | `wake_reset_cb`, `notify_cb` up to the re-adding of tasks (to 236) |
| `Mark` | `configuring_nodes.add` and the `self.queue[node]` after it (237, 238) |
| `Renew`, `Restart` | the test and the restart of the configuration timer (267, 268) |
| `HeadTask` | the head task sees the event, up to `sleep_node` or the next task |
| `EndConfiguration` | the end of a Sleep, Alive or Reset task, one step per access (274 to 279) |
| `Expire`, `Forget` | `config_timeout_handler`: the whitelist (175), then one step per access (177 to 182); the last test and deletion, of the queue, are one |
| `Remove(t)` | `Whitelist.remove_node`, `node_is_in_queue`, `node_clean_tasks`, by either thread, one step per access |

The actions of the two threads on the entries share `TestConfig`, `CancelEntry`,
`DeleteEntry`, `TestConfiguring`, `Unmark` and `ClearQueue`. An entry that has
gone since it was tested is a `KeyError`, which ends the call or the dispatch. A
dispatch that an exception ends is not passed on to the next handler: a
`CONFIGURATION_TIMEOUT` on which `task_handler` raises (`Restart`, a queue whose
list was left empty in `HeadTask`) never reaches `config_timeout_handler`. The
methods that keep the lock throughout (`ApiAddTask`, `ApiCancelTasks`) are one
step, and wait for the block.

Messages of nodes are arbitrary members of the constant `Messages`, at any
time, in any order and any number, which covers lost, late and repeated mesh
messages. Timers fire at any moment while they run.

### State of `Transmission`

| TLA+ | code |
|---|---|
| `high`, `low`, `permits`, `pending` | `send_queue`, `low_priority_queue`, the value of `semaphore`, `pending` of `TxManager` |
| `pc`, `cmd` | where the transmission thread (`"tx"`), the configuration thread (`"cfg"`), the event thread (`"ev"`) and the application (`"api"`) are, and the command each sender is sending |
| `tx` | the message and the key handle in the locals of `_send_node` |
| `slot` | `cmd_opcode_wait`, `cmd_complete`, `cmd_response` |
| `devkeys`, `devkeysAddr`, `addresses`, `appkey` | the fields of `HandleManager`; its ordered dicts are sequences |
| `devStarted`, `remote`, `current` | `dev_started`, `remote`, the event in hand |
| `toDevice` | `uart.write_queue` and the line, up to the device |
| `events`, `heard` | the line back and `event_queue`; the start message has been seen |
| `dev`, `restarts` | external: the device's tables of keys and addresses and its packets |
| `fresh`, `air`, `quiet` | history: messages not submitted yet, what was transmitted, and whether the device has restarted more than once or a message came before it was configured |

A device key stands for its node. A token stands for its message: the device
gives every packet another one.

### Actions of `Transmission`

None of this code holds a lock, so a step is one access to what threads share:
the three statements of `send_cmd_wait_rsp` before its loop are `ClearComplete`,
`ExpectOpcode` and `PutCommand`, the loop ends with `SeeComplete`, and
`return self.cmd_response` starts `TakeTx` or `TakeCfg`, which go on to the next
command. `dev_event_handler` stores the response and sets the flag in two steps
(`StoreResponse`, `SetComplete`), after the handlers of `TxManager`, which are
registered first (`Account`). `Acquire` covers the permit and the look at the
caches, which only the transmission thread touches. `StopDevice` to `StopTx` are
the calls of `Gateway.stop` in order. An exception in a thread is `Die`.

The device is external. It answers commands in order, gives what is added the
lowest free row or refuses, accepts a packet only under rows in use, may refuse
any packet, and reports each accepted one transmitted, after its answer. A
restart, commanded or not, empties its tables and loses the packets and any
number of the commands on their way. Nothing comes through before its start
message, as in `rx_process`.

### `Transport`

| TLA+ | code |
|---|---|
| `sent`, `high`, `low` | how far `send_msg` is with each message, and `send_queue`, `low_priority_queue` of the sender |
| `boot`, `file`, `updates`, `writing` | where `config_device` is with the sequence-number file, its contents, `SEQ_UPDATE` events on their way, `dev_event_handler` has the file open |
| `cache`, `frpkt`, `received` | of the receiver, for this source: `ReplayCache.cache`, `TransportModel.frpkt`, the `TRANSPORT_RECV` events |
| `number`, `air` | external: the device's next sequence number, the packets in the mesh |
| `load`, `cut`, `assembled`, `born`, `latest`, `startLost`, `overlap`, `stale`, `calm` | the messages to send, and history |

A thread that sends a message submits one packet a step (`SendMsg`). Files are
truncated in one step and written in the next, so `Crash` finds them empty.
`Transmit` takes the queue of high priority first, as `TxManager` does.
`Receive` is the whole way of a packet in the receiver, from the replay cache to
`data_handler`: an exception there leaves the state as it was.

### `Provisioning`

| TLA+ | code |
|---|---|
| `scanning`, `onlyOne`, `provisioning`, `filter` | the fields of `ProvManager` |
| `inHand` | `Provisioner.node`, with its `unicast_addr` |
| `handlers` | which handlers are in `handler_list` |
| `timers` | running `ScanTimeout` timers |
| `db`, `cache` | address and key stored of each node; the replay cache |
| `pc`, `asked`, `current`, `packet` | where the application, the event thread and the receive thread are, the arguments of `start_scan`, the event and the packet in hand |
| `toDevice`, `events`, `dev`, `mesh` | the channels; external: the device with its link, the nodes |
| `timed`, `early`, `crossed`, `exhausted`, `strays` | history: the scan has a timeout, its timer beat the handler, a call overlapped with a handler, no address was left, packets came from an address given up |

`start_scan` and `stop_scan` are called without a lock, by the application and
in handlers: each statement that touches shared state is a step (`StartCheck` to
`SendScanStart`, `StopCheck` to `Unhook`). `add_handler` and `remove_handler`
wait for a dispatch of another thread (`LockFree`). `check_seq_number` looks the
entry up in one step and reads it in the next (`RxLook`, `RxCompare`,
`RxAccept`), while the event thread removes entries.

### `Links`, `Passthrough`, `Lifecycle`

| TLA+ | code |
|---|---|
| `remote`, `running`, `connected`, `reader`, `writer`, `readQ`, `writeQ` | `Gateway.remote`; flags, threads and queues of `Uart` or `UartSocket` |
| `devIn`, `applied`, `broken` | external: commands on their way to the device, its configuration, the line is cut |
| `conn`, `ptRunning`, `ptConnected`, `startEvent`, `relayRx`, `relayTx`, `socket` | `socket_thd`, the flags, the relay threads and the socket of `Passthrough` |
| `call`, `at` | the operation that holds `start_lock`, and where it is |
| `started`, `devManager`, `devStarted`, `config` | `Gateway.started`, there is a `dev_manager`, its `dev_started` and its `evt_thd` with the step of `config_device` |
| `handlers`, `events`, `evRunning`, `ev` | list, queue, flag and thread of `EventHandler` |
| `rxRunning`, `parsers` | `EventParser.running`; the receive thread, and one of an earlier start that it has forgotten |
| `resetFlag`, `echoFlag` | the flags of `HwSelfTest` |
| `tx` | the thread of `TxManager`: in its loop, or waiting for an answer |
| `failed`, `shared`, `stale`, `again`, `relayed`, `told`, `echoed`, `announced` | history |

The three modules are one specification by `EXTENDS`: `Links` has no next-state
relation of its own, `Passthrough` reads `readQ` and writes `devIn`, and
`Lifecycle` composes them. A call is a sequence of steps between which another
thread can act: what it starts (`StartGateway`), each wait
(`StartReturns`, `ParserEnded`, `EventsEnded`, `OperationEnds`), and the changes
in between. `stop` and `hw_check` end with the same three steps, `stop` with the
join of the transmission thread behind them (`StopEnds`), the one join that
times out: a thread that waits for an answer is left behind. A call that raises
before it has changed anything is no step; those that raise half-way are:
`StopGateway` while the device is configured, a self test that times out
(`TestTimesOut`), and `StartPassthroughFails` (`gateway.py:171`, a certificate
that can not be read), which leave their threads running.

`ResetGateway` is `Gateway.reset`, which any thread calls without a lock.
`ConfigFails` is an exception of `config_device` (`dev_manager.py:259`, 268 to
284): the configuration thread is `"dead"` and `start` waits at 231 for ever.
`HardReset` is the programmer's, which resets the device, leaves it as it is and
says nothing (`"unreset"`), or raises and ends `socket_thd` while the relays go on
(`"done"`). The server sends any of `RemoteCommands`: what its own gateway sends
to configure, reset and use the device.

## 4. What is checked

| Run | Question | Instance |
|---|---|---|
| `tq_low` | queue shape, executed heads, pending tasks kept, types, for a sleeping node | one low-power node, legacy mode, two sleep times, 2 retries; 2.7 million states |
| `tq_on` | executed heads for a node that is always on, and slots with an owner and a timer, under the calls of the application that race with the event thread, removal from the whitelist among them | one node, 1 retry, one command added at a time; 6.9 million states |
| `tq_slots` | bound on slots; slots are freed | two nodes of both sorts, one slot, no calls of the application but the change of mode; 0.6 million states |
| `tq_live` | queues of an always-on node come to an end | one node, which the application whitelists, unlists and cancels the tasks of, on a gateway that becomes a listener and back; 1.5 million states |
| `tx_serve` | handles and destinations are right, the thread survives, every message is served, in its turn | three nodes, two of them in turn at one address, one cached key, one cached address, one permit; one restart; 0.3 million states |
| `tx_storm` | permits, answers and order under restarts, early messages and stop | two messages, one of low priority and early, two restarts; 1.5 million states |
| `tr_mesh` | what is put together was sent, and what arrives is put together; numbers rise over a power loss | two messages of one, two or three packets, one fragment short; two packets in the mesh, blocks of two numbers; 4.8 million states |
| `tr_arrive` | a long message arrives | one message; violated, see below |
| `pv_scan` | provisioning and scans end, device and library agree on the scan | one node, two timers, one restart; 6.5 million states |
| `pv_mesh` | addresses, stored keys, the replay cache | two nodes, one address; 6.4 million states |
| `pv_lasts` | a scan without timeout lasts | one node; violated, see below |
| `lc_gateway` | threads, configuration, self test, reset at the end, waits, loss of the link, reconnection | either link, three calls of the application or acts of the server, a configuration of two commands; 0.2 million states |

The properties:

* `HeadReady`: a command at the head of a queue has been executed. Four methods
  put tasks at the head, under different assumptions on what is there. Excepted
  is a queue that an exception left in the dict (`left`), or that is being ended.
* `QueueShape`: a `WakeTask` is only at the head, and there is at most one
  `SleepTask`.
* `PendingKept`: whatever an event of a node does to its queue (the callback's
  configuration with the re-adding of what was pending, a retry, a new wake-up,
  `sleep_node`), each pending task but the one acknowledged is still there, in its
  order, as what it was. It speaks of every step of the locked block and of none
  of its operators. Two cases cancel everything, and are excepted: the legacy
  configuration (`task_queue.py:216`), and an always-on node that is out of
  retries (104).
* `ConfiguringOwned`: a node in `configuring_nodes` is in `config_nodes`, or a
  thread is about to take it out. Otherwise `notify_cb` would never configure
  it again. That does happen when a removal deletes the entry between 229 and 237:
  the exception is `late`, and without it TLC finds the removal.
* `SlotTimed`: an entry of `config_nodes` whose timer no longer runs has its
  timeout queued or in hand, or a thread about to delete it. A timeout in hand
  counts only where no exception can take it from `config_timeout_handler`
  (`event_handler.py:92`): at the head task it counts no more, the timer must run
  again.
* `SlotBound`: no more than `MAX_CONFIG_NODES` entries.
* `SlotsFreed`: after the nodes have gone silent for good all slots are free. The
  run has no calls of the application but the change to listener mode and back:
  with a removal a slot can stay, see the last list of this section.
* `CommandsSettle`: after nodes and application have gone silent for good the
  queues of whitelisted always-on nodes are empty. Excepted are the queues that
  `Settling` calls stranded, by what the code does: a `TASK_TIMEOUT` dropped
  because its node was off the whitelist or the gateway a listener
  (`task_queue.py:256`, 258) or hidden by an exception, a slot ended under a queue
  that waits for its node to wake up, a queue that an exception left. A
  queue is stranded until it is empty: what happens to the queues of a node
  later is checked again.

And those of `Transmission`:

* `InFlight`: permits and the messages that hold one never exceed the number of
  permits, and the device has no packet that holds none. The permit is taken in
  one thread and given back in another, at two places.
* `CachedHandles`: a cached handle is the row of the device that holds that key
  or address; `devkeys` and `devkeys_addr` agree; no address has two keys.
* `RightDestination`: each packet went to the address of its message, under the
  key of its node, although nodes take turns in one cache row.
* `TxAlive`: no refusal ends the transmission thread.
* `Served`: a submitted message does not wait for ever.
* `ServiceSpec`: `Transmission` implements `MessageService`. What waits is what
  is queued, in hand or on its way as a `PacketSend`; of two messages of one
  priority, the one nearer to the device is ahead of the other (`Before`), and
  the abstract specification transmits only what has none ahead. In `tx_serve`
  three messages of one priority wait; in `tx_storm` there is one of each.
* `QuietAnswers`: each thread gets the answer to its own command, as long as no
  message is submitted before the device is configured and it restarts once.

Four of these hold only while `quiet` does. The code never clears the caches
when the device restarts, and lets messages in while the device is being
configured: then handles go stale and answers are mixed up, in the model as in
the code. `InFlight` and `ServiceSpec` hold without `quiet`.

Those of `Transport`:

* `Intact`: what `data_handler` puts together is one message, whole, once,
  whatever the mesh does. The code relies on three things it does not check:
  every `FRAGMENT_START` arrives (a packet is kept after its `FRAGMENT_END`), one
  thread sends at a time, and no power loss makes the sequence numbers start over
  (a fragment from before it could be taken between those of a new message).
  The property excepts just these; the proof is what showed the third.
* `NumbersRise`: the replay cache takes what is younger and refuses copies and
  what was overtaken, over power losses too, except one that finds the file
  empty or more than a block behind the device.
* `PutTogether`: a message whose packets all arrive is put together.

Those of `Provisioning`:

* `ProvisioningOwned`: while `provisioning` is set something is on its way that
  clears it. Two cases are excepted, from which the code never recovers: no
  address was left, or the device restarted with a link open.
* `TimedScanEnds`: a scan with a timeout ends, whatever earlier scans and
  timers have left behind; except that a timer may fire before its handler is
  registered (`early`).
* `ScanAgrees`: at rest the device scans if and only if `scanning`, unless a
  call of the application overlapped with a handler that starts or stops it.
* `AddressesDistinct`, `StoredRight`: no address twice; what is stored of a node
  is what it was given last.
* `RxAlive`, `Heard`: the removal of an entry neither kills the receive thread
  between its test and its read, nor leaves a new node behind the numbers of an
  old one; except when packets come from an address already given up (`strays`):
  then the thread does die, in the model as in the code.

Those of `Lifecycle`:

* `AllStopped`: nothing runs after `stop` or a self test that passed, and the
  gateway can be started. Not after a self test or a `start_passthrough` that
  failed half-way (`failed`): `check_stop` then refuses everything. A transmission
  thread that waits for an answer may survive `stop`, and so may the relays when
  the programmer raised after `stop` had joined them (`shared`).
* `OneReader`: the bytes of the device have one reader, unless `hw_check` was
  called while the link was in use or `stop` left the relays (`shared`).
* `Configured`: `start` returns, and leaves, a device with all of its
  configuration; except after a reset from before the call (`stale`: `stop` and
  `start` in quick succession), after `Gateway.reset` (`again`), and with two users
  of the link (`shared`).
* `LeftReset`: after `stop` the device is reset or about to be: the commands are
  written before the port is closed. Passthrough mode resets nothing when it
  stops, so excepted is what the server has reset or configured (`relayed`).
* `Verdict`: a test passes only when the device has answered it; except when a
  reset or an echo of an earlier call is still under way as it begins (`stale`).
  The proof showed the second: `run` may look at both flags before `send_echo`
  has cleared the one that the late echo set.
* `CallsReturn`: every call returns. The exceptions name the ways in which
  `start` waits for ever for `dev_started`: the line is cut, an exception has
  ended the thread that would set it, a reset from before the call or a
  `Gateway.reset` makes the device forget a command half-way, another reader
  takes its answers. No other call may hang.
* `LossTold`: a lost socket is reported, if the receive thread is between
  packets. A thread that waits for the start message or the rest of a packet
  never looks, and a serial port never notices.
* `Announced`: after each reconnection the server sees the start message,
  without which its gateway would ignore the device; unless the programmer did not
  reset the device, about which nothing is said to anyone.

**Bounds.** Nodes share nothing but the slots, the event queue and the thread,
so one node is enough where slots are no part of the question, and two nodes
with one slot where they are. `MaxRetries` is 1 or 2 instead of 4: retries are
only compared with it, so the counter of a task stops there, where that of the
code goes on. `MaxLoad` and `MaxPending` bound the timers and the
pending events of a node at 2: enough for an event to go stale behind another,
which is what the interleavings need. `MaxQueue` bounds the commands the
application adds to 2 or 3 per queue; `MaxExpiries` is the number of pending
`CONFIGURATION_TIMEOUT` events and of orphan timers the application may cause.
They bound the environment, never the program: handling an event never
increases what they count. In `Transmission` caches, permits and tables have the
smallest size at which eviction, replacement and waiting for a permit happen;
`MaxRestarts` and `MaxPowerCycles` bound the restarts the environment causes. The
device's tables have room for the caches, the application key and the two group
addresses, no more.

In `Transport` `MaxQueued` and `MaxInAir` bound the packets under way; two in the
mesh are enough for loss, copies and overtaking, and one queued lets messages of
two threads and of two priorities meet. `Loads` picks which messages are sent
together, a short second fragment among them. In `Provisioning` one address
(`CacheSize`) for two nodes makes it run out and be given again; `MaxTimers` = 2
leaves the timer of an earlier scan with that of a later one; `MaxEvents` and
`MaxCommands` keep nodes and application from acting while there is a backlog,
which the handlers' own steps may exceed; `MaxSeq` bounds the packets of a node.
In `Lifecycle` `MaxCalls` = 3 bounds the calls of the application, its messages
and the acts of the server together: enough for a test, a start and a stop, a
start after a stop, or passthrough mode whose server configures the device before
the stop, or drops the connection. A message is submitted only to a configured
device; `Steps` = 2 makes a half-configured device. The line is not cut in
passthrough mode, a bound too. `tq_live` has the calls that can lose a timeout
(whitelist, listener mode) and the one that leaves timers behind (cancel); the
other runs divide the rest: `tq_on` has those that race for the entries. `CHECK_DEADLOCK FALSE` is for what these bounds stop.

**Fairness.** Weak fairness of the event thread (it loops for ever on the
queue), of a removal the application has begun, and of each timer
(`threading.Timer` fires). Nothing is assumed of nodes or application. In `Transmission`: of the three
threads of the library, of the steps of `stop` once begun, and of the device,
which answers and transmits; restarts and submissions are never assumed. In
`Lifecycle`: of the call under way, of the threads of passthrough mode, and of
all other threads with the device. One condition for each group is enough: only
the attempts to connect can go on for ever. Calls, the server and the cut of the
line are not assumed. Every
event of a node restarts its configuration timer, so a node that keeps talking
may keep its slot: the liveness properties speak only of what follows silence.

**Mutants.** For each property of a passing run the modules hold a mutated
operator (marked as such) under which the property fails.

### Where the code departs from what is written

* `tr_arrive`, a bug: `gateway.py:424`, "Sends the message msg to the node with
  the specified unicast address." The `mesh_data` made at `FRAGMENT_END`
  (`transport.py:63`) lacks the `sequence_number` that `TransportRecv` reads
  (`model_events.py:653`), so a message of more than seven bytes ends in a
  logged `KeyError`.
* `pv_lasts`: `gateway.py:402`, a scan without timeout "last indefinitely, until
  stop_scan is called". The `ScanTimeout` of a scan that was stopped is not
  cancelled and ends the next one.

The models show further departures, which no run singles out; each is a property
without its exception, so that TLC finds it when the exception is removed, or a
property one can state in a line:

* `config_client.py:29`: `ResetTask` counts `TASK_TIMEOUT` as success and removes
  a node that never answered, where `gateway.py:512` says "If the node
  acknowledges the operation, it is removed from the Mesh".
* `task_queue.py:175`: a `CONFIGURATION_TIMEOUT` queued just before the
  configuration finished removes a configured node from the whitelist.
* `task_queue.py:238`: without the configuration callback, "Optional" in
  `config.py:6`, a node asking to be configured is marked, a `KeyError` ends the
  handler and it is given no task.
* `dev_manager.py:180` (`QuietAnswers` without `quiet`): two threads share one
  response slot, and one takes the other's answer.
* `dev_manager.py:183`: a thread that waits for a response when `stop` ends the
  event handler waits for ever, so `TxManager.stop` does not "terminate the
  processing thread".
* `task_queue.py:237` (`ConfiguringOwned` without `late`): `notify_cb` marks the
  node after it has looked at its entry (229); a removal that comes between leaves
  it in `configuring_nodes` without an entry, though `node_clean_tasks` is to
  remove it "from the set of configuring nodes" (310), and no later `conf = 0`
  configures it.
* `dev_manager.py:143` (`Configured` without `again`): `start_device` is to be
  "waiting until it is fully started" (225). After `Gateway.reset` on a gateway
  that is up it finds `dev_started` still set and returns at once;
  `evt_thd.is_alive` is not called, so every `DEV_RESET` after the first raises,
  and the device is not configured again.
* `task_queue.py:258` (`CommandsSettle` without `stranded`): a `TASK_TIMEOUT` that
  comes while its node is off the whitelist is dropped; once the node is
  whitelisted again, nothing takes its queue up.
* `task_queue.py:276` (`SlotsFreed` with a removal in the application's thread): when
  `node_clean_tasks` deletes the entry first, the `KeyError` leaves the task list
  of the node in the dict, perhaps empty. While the list is empty every event of
  the node ends in an `IndexError` at 271, its `CONFIGURATION_TIMEOUT` too, after
  which the timer has been restarted: a slot taken then is never given back.
* `passthrough.py:235` (`Announced` with `"unreset"`): a programmer that fails
  without an exception leaves a connection in which the server hears nothing.
* `dev_manager.py:268` (`CallsReturn` with `config.at = "dead"`): a refusal in
  `config_device` ends its thread, and `start` waits for ever under `start_lock`.
* `hw_self_test.py` (`Verdict` without `stale`): a second self test can pass on
  the echo of the first.
* `replay_cache.py:17` (`RxAlive` without `strays`), `prov_manager.py:68`
  (`ProvisioningOwned` without its exceptions), `gateway.py:112` (`AllStopped`
  without `failed`).

## 5. What is proved

A theorem holds for all values of the constants that its module assumes: every
finite set of nodes or messages, every size of tables, caches and queues; the
bounds on the environment play no part. Each invariant below was checked by TLC
on the runs of its module before it was proved.

### Task queue

Assumed: `NodeTasksAssumption` and `TaskQueueAssumption`, the types of the
constants.

1. `PreparedGood`, `HeadHandledGood` (`NodeTasksProofs`): the two halves of the
   locked block take a *good* record (in its type, in shape, head executed) to a
   good one. The first, the callbacks, changes the configuration entry only as
   `SlotStep` allows: it opens one only if there is room, stops no timer and
   disowns no node. The second leaves the entry alone; when a Sleep, Alive or
   Reset task succeeds it leaves a queue that may start with a command nobody
   executed, which is why its end is in the exception of `HeadReady`. One lemma
   per method leads there.
2. `SoundInvariant` (`TaskQueueProofs`): `TypeOK /\ HeadReady /\ QueueShape` is
   inductive. No conjunct is so alone: `get_tasks` puts back tasks by the
   shape, and the head of a shortened queue is typed because the queue was.
   A queue that is not ready is being ended by the event thread, which holds the
   lock (`EndingQueue`), or was left: the lock keeps the application's `add_task`
   from the first, and nothing but the end of the whole list repairs the
   second. The steps on the entries, of whichever thread, are one lemma for each
   kind (`EntriesCases`, `EntryMoves`, `EntryRecord`). `TypeCorrect`,
   `HeadAlwaysReady`, `QueueShapeKept` follow.
3. `PendingAlwaysKept`: a statement about every step of the locked block, proved
   from `Sound` for each of them. `Keeps` asks for an order-preserving map from
   the pending tasks into the queue that results. `ConfiguredKeeps` gives the one
   of a reconfiguration: in a queue of that shape the pending tasks are an interval
   without one place (`PendingCount`), which gives each its index in what
   `get_tasks` returns (`GetTasksKeeps`) and then its place behind the wake-up
   and what the callback added. `CompletedKeeps` and `FailedKeeps` do the same for
   the head task (the next one moves up, `sleep_node` appends, a low-power node's
   queue gets a wake-up in front), `PreparedKeeps` for the other callbacks.
4. `SlotsBounded`: only `Callbacks` adds a node to `config_nodes`, one, and only
   with room (lemma `NewSlot`).
5. `ConfiguringAlwaysOwned`: with `Sound`, the invariant is inductive; the
   cases that matter are deletion by one thread while the other one is between
   test and removal, at any of the accesses each makes (`OwnedEntries`,
   `OtherThread`), and marking behind a deletion, which is `late`.
6. `SlotsTimed`: needs `EvExpires`: where the block drops an event it is no
   `CONFIGURATION_TIMEOUT`, and once the event thread is past the entry of a node
   there is none, since no other thread makes entries. At the head task, where the
   event in hand does not count, the timer has been restarted, or the other thread
   is about to delete the entry.

### Provisioning

Assumed: `ProvisioningAssumption`, the types of the constants, among them that
`None` is none of the values it stands in for. Each layer is inductive with the
ones before it.

1. `Typed` is `TypeOK` with what each thread has in hand where it stands, and:
   `"prov_handler"` is registered only while a node is in hand. `TypeCorrect`.
2. `Session`: there is one link at a time. Its order to the device, the open
   link, its events on their way and the handler that works one off exclude one
   another, come in this order, and are all for the node in hand; nothing
   follows the event that closes it. Without it two nodes could be completed
   under one address. `AddressesStayDistinct` rests on it and on the address
   being chosen while `db` does not change.
3. `Stored`: what the completion on its way reports is what the node has, and
   there is one. `StoredIsRight`.
4. `Owned`: while `provisioning` is set, the order, the link or the event that
   closes it is there. `ProvisioningEnds`, with the exceptions the property
   names (addresses exhausted, a device that restarts, a dead receive thread).
5. `Timing`: the timer of a scan, its event, or the handler that works the event
   off is there, counted against the timers that earlier scans leave behind.
   `TimedScansEnd`.
6. `Received`: a node that may still send is stored, or its completion comes
   before the event that removes it; its numbers are above its cache entry, and
   the entry is gone when its address is given again. `ReceiveThreadLives` and
   `NodesAreHeard`, while no node sends from an address it gave up (`strays`).
7. `Agreeing`, with `Typed` alone: what the device will do when it has carried out
   the commands on their way (`WillScan`, `WillRest`) is told by the last of them
   that starts or stops a scan. Without a scan that is "rest", up to the stop
   being sent; with one it is "scan", but for `start_scan` not having sent its
   command and from `unprov_handler` stopping the device to the end of the link
   resuming it. It needs that a call and such a handler exclude one another,
   which the code does not see to (`crossed`). `ScanAlwaysAgrees`. TLC checked
   `Agreed` too with `pv_scan`'s constants before it was proved.

### Transmission

Assumed: `TransmissionAssumption`, the types of the constants and that keys and
addresses differ from each other and from the marks in the tables.

1. `Typed` (`TransmissionProofs`): types, and what each thread has in hand.
   `Deaf`: before the device has started once no handle is known and no packet
   sent, so a packet on its way has its handles.
2. `Forward` and `Single`: a message is in one place at a time (queue, hand of
   the thread, line, device or `pending`), there once, and never goes back.
3. `Permits`: the permits and the messages that claim one are never more than
   the semaphore was made with. One message claims one permit because of 2:
   without it, a message answered twice would give back two. `TypeCorrect` and
   `NeverTooMany`.
4. `Once` (`HandleProofs`), while `quiet`, which says that the device has started
   once at most and nothing was submitted before it was configured: the device
   is configured once, and nothing is sent before.
5. `Exchange`: so there is one command at a time, in one place (line, event
   queue, event thread, slot), and its thread waits for it. The slot has no
   lock; this is why it needs none. `AnswersMatch`.
6. `Right`: a cached handle is the device's row for its key or address; between
   two commands the transmission thread holds a row that nothing will free
   before it is used; an answer on its way brings the row asked for.
   `HandlesMatch` and `SentRight`.
7. `Room` (`AliveProofs`), the converse of 6: a row with a device key or an
   address is cached, but for the one a command gives back or an answer brings,
   and the configuration has made its rows and no other. A full table is then
   counted by a surjection from the entries of the cache and the rows of the
   configuration. `ThreadLives` has the hypothesis `RoomEnough`: a row for each
   entry that `MAX_DEVKEYS` (`MAX_ADDRESSES`) allows and one (two) more. The
   code says nothing of the size of the device's tables; with less the device
   refuses and the thread dies. `tx_serve` checks an instance where it holds with
   equality.

8. `PromiseKept` (`TransmissionProofs`): the refinement of `MessageService`,
   from `Typed`, `Forward`, `Single` and `Sorted` (each queue holds the messages
   of its priority). Every step is one of three kinds: it takes some messages
   out of those that wait and leaves the order of the others (`Loses`: nothing
   or the message in hand in `LosesHeld`, the first commands on their way in
   `LosesSent`); it adds a message behind all of its priority
   (`ServiceSubmit`); or it moves one on without overtaking another
   (`ServiceTaken`, `ServicePut`). A packet the device transmits is the first
   command, so nothing is ahead of it, because each message is there once.
   `TransmittedOnce` follows from the abstract steps alone.

### Transport

Assumed: `TransportAssumption`, the types of the constants and that `None` and
`Empty` are none of the values they stand in for (`None`: no number, no content of
a slot, no record of a packet).

1. `Typed` is `TypeOK` with the kinds of packets in each queue and the order of
   transmission: a place in it is one packet, whatever its copies. `TypeCorrect`.
2. `Numbers`, while not `stale`: every number used is below the one that comes
   next, and while the device has none, below the one the file will give it. The
   file and the updates on their way hold multiples of `SEQ_BLOCK`, so what
   `config_device` restores is exactly one block above; this is why a file that
   lags by up to a block does no harm. `NumbersAlwaysRise`.
3. So what the receiver may still take (`Ahead`) is what is younger than what it
   has taken, in the order of submission. `Stream` says what that order is like:
   the fragments of a message are together and in order (`InOrder`), after their
   `FRAGMENT_START` unless the receiver has taken it (`FromStart`); the message
   being submitted comes last (`AtEnd`); the partly received packet holds
   fragments of the one message begun (`Begins`); and of what is put together
   nothing is ahead (`Whole`), so that no message is put together twice.
   Each step keeps these because it takes something from `Ahead` or adds one
   entry at its end: lemmas about sets of entries (`StartTaken`, `OtherTaken`,
   `OneMore`, `CutOff`, `SameOrder`) that know nothing of the variables.
4. `Singles`, while not `stale`: a message of one packet is in the queue, ahead,
   or handed over, once. With 3 this is `NeverMixed`, which states `Intact`.
5. `Arriving`, while every packet transmitted arrives and one thread sends at a
   time; it does without `Numbers`, since `PutTogether` holds even when the
   sequence numbers start over. While every packet arrives, the receiver takes a
   packet only if it has the lowest number of those under way (`Fresh`). So a
   packet under way that it would refuse stays so, and the case ends (`Doomed`);
   and a message with packets still to be numbered whose next number is not above
   the cache will meet that case (`Hopeless`). Otherwise the message makes
   `Progress`: the receiver has taken its first `a` packets, the others are in the
   mesh and behind that in the queue, in order (`Split`), and each number between
   them is under way with a packet of the message itself or with a message in one
   packet (`Dense`), so none can get between them and start another
   fragmented packet. `Queued` is the queue's part: the fragments of a message
   follow its `FRAGMENT_START`. `ArrivedIsPutTogether`.

### Lifecycle

Assumed: `LifecycleAssumption`, that the configuration has a first command. The
invariant was checked by TLC with three calls completely, and with seven along
random behaviours, before it was proved.

1. `Typed`: types, and what is a command and what an answer. `TypeCorrect`.
2. `Phases`: which threads run in which mode and at which place of an operation
   (`Modes`, `LinkUp`, `EventsUp`, `ParsersUp`, `Connections`, `Managing`), and
   which handlers are registered (`Listed`), until a self test or a
   `start_passthrough` fails half-way; after that only another self test does
   anything (`Stuck`). None of them is inductive alone:
   that the receive thread has ended when `hw_check` returns rests on the join,
   that nothing starts it again on the mode. `GatewayStops`,
   `BytesHaveOneReader`. A relay may still be started after `stop` has joined the
   relays: what ends it is that `stop` then joins `socket_thd`, which starts them
   and waits for them. It does not wait when the programmer raises: then the relays
   outlive it, which is a case of `Connections` before the join and the exception
   `shared` behind it. The transmission thread runs only under a `DeviceManager`
   or a `stop` that has yet to join it (`Managing`).
3. `Session`: from `start` to `stop` there is one reset, unless `Gateway.reset` adds
   one (`again`, which `Covered` leaves out). The four queues from
   the library to the device and back keep their order, so behind the reset
   there is no answer, no `config` and no second reset (`Line`), and after its
   event each command awaited has been carried out (`Applied`). A configuration
   thread that has died has never set `dev_started`. Commands are
   never answers (`Commands`). `DeviceConfigured`.
4. `Left`: once a gateway that configured the device has begun to stop, every
   `config` on its way has a reset behind it, and a port whose writer has ended
   holds neither; as long as the server sends neither (`relayed`).
   `DeviceLeftReset`.
5. `Tested`: in a self test no echo is under way until the event of the reset,
   and then only the one `send_echo` asks for, after it has cleared the flag.
   `TestIsTrue`. A stale echo breaks it, which is the exception of `Verdict`.

Each queue step is an append or a `Tail`: lemmas on `Has`, `Behind`, `Within` and
`Resetting` say what these do, and the actions cite them.

### Only model-checked

The liveness properties (`SlotsFreed`, `CommandsSettle`, `Served`, `CallsReturn`,
`LossTold`, `Announced`): fairness and `ENABLED` are out of the prover's reach.
Every invariant and the refinement are proved.

## 6. What is not modelled

* `notify_cb` up to the re-adding of tasks, and the end of a queue in
  `sleep_node`, are one step each: `add_task`, `set_sleep_time` and `sleep_node`
  look at `config_nodes` again there, and a removal between the two looks would let
  them choose the other branch. So are the last test and deletion of
  `config_timeout_handler` (181, 182), whose `KeyError` has nothing left to skip.
* The listener flag does not change while `task_handler` holds the lock.
  Provisioner mode, which never changes, is listener mode from the start.
* One application thread, but for the calls of `send_msg`.
* In `Transmission`, a node is a listener or not as each message happens to be
  ignored or not; the commands of provisioning and the echo of
  `check_connection`, which wait for nothing in the slot, are left out. A
  `MESH_TX_COMPLETE` comes after the answer it belongs to (`sent_handler` drops one
  that comes first, and its permit is lost).
* In `Transport`, one sender and one receiver, which share nothing with a third;
  the permits and refusals of `TxManager`, which `Transmission` has, are a queue
  that may wait.
* In `Provisioning`, the key pair and the `ClearNodeReplayCache` sent to the
  device, whose effects only the device sees.
* In `Lifecycle`, a second `init`; joins that time out, but for that of the
  transmission thread (each waits ten seconds for steps that take a second, and
  only that thread may wait for something that never comes); a cut of the line in
  passthrough mode; the set-up of TLS beyond its failure; a device that restarts
  on its own (`Transmission` has it). `UartSocket` has no `clean()`, so
  passthrough mode is only started on a serial port, as documented.
* What a message says beyond its type, logging, `node_tasks` (a record for the
  application only), and the messages sent by `execute()`, which may be lost
  anyway.
* For good: byte formats, cryptography, the OTA helper and what the platform tools
  do beyond the outcomes of a reset (pure conversions, sequential I/O and external
  programs).
