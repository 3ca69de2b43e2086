------------------------------ MODULE Provisioning ------------------------------
(***************************************************************************)
(* Scanning for new nodes and provisioning them (provisioning/), with what  *)
(* has a part in it: the list of handlers and the thread that calls them    *)
(* (events/event_handler.py), the receive thread (events/event_parser.py)   *)
(* with its replay cache, the ScanTimeout timers, and the node database.    *)
(*                                                                         *)
(* The application, the event thread and the receive thread take one step   *)
(* per access to what they share.  handler_list_lock is held throughout a   *)
(* dispatch.  The device, which scans and runs the link to the node being   *)
(* provisioned, and the nodes of the mesh are external.                     *)
(***************************************************************************)
EXTENDS Integers, Sequences, FiniteSets, SequencesExt

CONSTANTS Nodes,
          CacheSize,     \* DeviceManager.cache_size: how many addresses there are
          Filters,       \* sets of nodes that a filter lets through
          None,          \* a model value
          \* Bounds on the environment.
          MaxSeq,        \* packets a node sends with one key
          MaxTimers,     \* ScanTimeout timers that run, or have fired unseen, at a time
          MaxEvents,     \* events in the queue when a node causes one
          MaxCommands,   \* commands on their way when the application calls
          MaxRestarts    \* restarts of the device

ASSUME ProvisioningAssumption ==
  /\ IsFiniteSet(Nodes) /\ None \notin Nodes \union Int
  /\ None \notin [node : Nodes, addr : Int] \union [addr : Int, key : Int]
                   \union [addr : Int, seq : Int]
  /\ CacheSize \in Nat /\ Filters \subseteq SUBSET Nodes /\ Filters # {}
  /\ {MaxSeq, MaxTimers, MaxEvents, MaxCommands, MaxRestarts} \subseteq Nat

VARIABLES
  \* the library
  scanning, onlyOne, provisioning, filter,  \* ProvManager
  inHand,      \* Provisioner.node: None, or a node and its address
  handlers,    \* which of the handlers of this module are registered
  timers,      \* running ScanTimeout timers
  db,          \* node_db: None, or the address and the key stored for a node
  cache,       \* ReplayCache.cache; None without an entry
  \* the threads
  pc,          \* where each is
  asked,       \* the arguments of the start_scan under way
  current,     \* the event being dispatched
  \* channels
  toDevice,    \* uart.write_queue and the line
  events,      \* event_queue
  packet,      \* the packet of a node the receive thread has read, or None
  \* external
  dev,         \* the device: whether it scans, and its link
  mesh,        \* the nodes: whether in the network; address, key, sequence number
  \* history
  timed,       \* the scan was started with a timeout
  early,       \* its timer fired before its handler was registered
  crossed,     \* a call of the application overlapped with a scan handler
  exhausted,   \* there was no address left
  strays,      \* packets came from an address given up
  restarts

manager == <<scanning, onlyOne, provisioning, filter>>
scan == <<manager, timers, timed, early>>
store == <<db, inHand, exhausted>>
channels == <<toDevice, events, packet>>
external == <<dev, mesh, restarts, strays>>
vars == <<scan, store, cache, handlers, pc, asked, current, channels, external,
          crossed>>

NodeStartUnicast == 21
Addrs == NodeStartUnicast..(NodeStartUnicast + CacheSize - 1)

Commands == {"scan_start", "scan_stop", "oob_use", "ecdh_secret"}
Cmd(op) == [op |-> op, node |-> None, addr |-> None]
Provision(n, a) == [op |-> "provision", node |-> n, addr |-> a]

\* Events of the device and of timers; a key is told from the one before it.
Kinds == {"unprov", "caps", "ecdh", "complete", "closed", "timeout", "reset"}
Event(type, n) == [type |-> type, node |-> n, key |-> 0]
Events == [type : Kinds, node : Nodes \union {None}, key : {0, 1}]

\* The handler that acts on an event.
Handler(type) ==
  CASE type = "unprov" -> "unprov_handler"
    [] type = "timeout" -> "scan_timeout_handler"
    [] type = "reset" -> "task_handler"
    [] OTHER -> "prov_handler"

NoEvent == Event("closed", None)
NotAsked == [timeout |-> FALSE, filter |-> {}]

Unprovisioned == [member |-> FALSE, addr |-> None, key |-> 0, seq |-> 0]
Off == [scan |-> FALSE, node |-> None, addr |-> None, stage |-> "none"]

Idle(t) == pc[t] = "idle"
Goto(t, place) == pc' = [pc EXCEPT ![t] = place]
LockFree == Idle("ev")
Put(c) == toDevice' = Append(toDevice, c)

Init ==
  /\ scanning = FALSE /\ onlyOne = FALSE /\ provisioning = FALSE /\ filter = {}
  /\ inHand = None /\ handlers = {"task_handler"} /\ timers = 0
  /\ db = [n \in Nodes |-> None] /\ cache = [a \in Addrs |-> None]
  /\ pc = [t \in {"api", "ev", "rx"} |-> "idle"]
  /\ asked = NotAsked
  /\ current = NoEvent
  /\ toDevice = <<>> /\ events = <<>> /\ packet = None
  /\ dev = Off /\ mesh = [n \in Nodes |-> Unprovisioned]
  /\ timed = FALSE /\ early = FALSE /\ crossed = FALSE /\ exhausted = FALSE
  /\ strays = FALSE /\ restarts = 0

-----------------------------------------------------------------------------
(* start_scan, by the application. *)

\* Handlers that work on the scan.
OnScan == ~Idle("ev") /\ current.type \in {"unprov", "closed", "timeout"}

\* ScanTimeout events not seen yet; only the bound on the timers asks.
Fired == Cardinality({i \in DOMAIN events : events[i].type = "timeout"})

StartScan(timeout, one, f) ==
  /\ Idle("api") /\ Len(toDevice) < MaxCommands
  /\ timeout => timers + Fired < MaxTimers
  /\ onlyOne' = one
  /\ asked' = [timeout |-> timeout, filter |-> f]
  /\ crossed' = (crossed \/ OnScan)
  /\ Goto("api", "start")
  /\ UNCHANGED <<scanning, provisioning, filter, timers, timed, early, store,
                 cache, handlers, current, channels, external>>

\* A scan that is on, or listener mode, ends the call.
StartCheck ==
  /\ pc["api"] = "start"
  /\ \/ Goto("api", "idle") /\ UNCHANGED <<scanning, filter, timed, early>>
     \/ /\ ~scanning
        /\ scanning' = TRUE
        /\ filter' = asked.filter
        /\ timed' = asked.timeout /\ early' = FALSE
        /\ Goto("api", IF asked.timeout THEN "timer" ELSE "hook")
  /\ asked' = NotAsked
  /\ UNCHANGED <<onlyOne, provisioning, timers, store, cache, handlers,
                 current, channels, external, crossed>>

\* The timer runs from before its handler is registered.
StartTimer ==
  /\ pc["api"] = "timer"
  /\ timers' = timers + 1
  /\ Goto("api", "hook_timeout")
  /\ UNCHANGED <<manager, timed, early, store, cache, handlers, asked, current,
                 channels, external, crossed>>

\* Mutant: without the lock.
AddHandlerUnlocked(h) == handlers' = handlers \union {h}

AddHandler(h) == LockFree /\ handlers' = handlers \union {h}

HookTimeout ==
  /\ pc["api"] = "hook_timeout"
  /\ AddHandler("scan_timeout_handler")
  /\ Goto("api", "hook")
  /\ UNCHANGED <<scan, store, cache, asked, current, channels, external, crossed>>

Hook ==
  /\ pc["api"] = "hook"
  /\ AddHandler("unprov_handler")
  /\ Goto("api", "scan_start")
  /\ UNCHANGED <<scan, store, cache, asked, current, channels, external, crossed>>

\* The last step of start_scan and of end_provision.
SendScanStart(t) ==
  /\ pc[t] = "scan_start"
  /\ Put(Cmd("scan_start"))
  /\ Goto(t, IF t = "ev" THEN "forget" ELSE "idle")
  /\ UNCHANGED <<scan, store, cache, handlers, asked, current, events, packet,
                 external, crossed>>

-----------------------------------------------------------------------------
(* stop_scan, by the application or in a handler. *)

\* Where a handler goes on after stop_scan.
AfterStop(t) ==
  CASE t = "api" -> "idle"
    [] t = "ev" -> IF current.type = "timeout" THEN "unhook_timeout" ELSE "resume"

CallStop ==
  /\ Idle("api") /\ Len(toDevice) < MaxCommands
  /\ crossed' = (crossed \/ OnScan)
  /\ Goto("api", "stop")
  /\ UNCHANGED <<scan, store, cache, handlers, asked, current, channels, external>>

StopCheck(t) ==
  /\ pc[t] = "stop"
  /\ Goto(t, IF scanning THEN "unset" ELSE AfterStop(t))
  /\ UNCHANGED <<scan, store, cache, handlers, asked, current, channels, external,
                 crossed>>

StopUnset(t) ==
  /\ pc[t] = "unset"
  /\ scanning' = FALSE
  /\ Goto(t, "scan_stop")
  /\ UNCHANGED <<onlyOne, provisioning, filter, timers, timed, early, store, cache,
                 handlers, asked, current, channels, external, crossed>>

SendScanStop(t) ==
  /\ pc[t] = "scan_stop"
  /\ Put(Cmd("scan_stop"))
  /\ Goto(t, "unhook")
  /\ UNCHANGED <<scan, store, cache, handlers, asked, current, events, packet,
                 external, crossed>>

Unhook(t) ==
  /\ pc[t] = "unhook"
  /\ t = "api" => LockFree
  /\ handlers' = handlers \ {"unprov_handler"}
  /\ Goto(t, AfterStop(t))
  /\ UNCHANGED <<scan, store, cache, asked, current, channels, external, crossed>>

-----------------------------------------------------------------------------
(* The event thread. *)

Places(type) ==
  CASE type = "unprov" -> "found" [] type = "timeout" -> "stop"
    [] type = "closed" -> "end" [] type = "complete" -> "complete"
    [] type = "reset" -> "reset" [] OTHER -> "answer"

\* An event without its handler registered does nothing.
Dispatch ==
  /\ Idle("ev") /\ events # <<>>
  /\ LET e == Head(events) IN
     IF Handler(e.type) \in handlers
       THEN /\ current' = e
            /\ Goto("ev", Places(e.type))
            /\ crossed' = (crossed \/ (/\ ~Idle("api")
                                       /\ e.type \in {"unprov", "closed", "timeout"}))
            /\ UNCHANGED early
       ELSE /\ early' = (early \/ e.type = "timeout")
            /\ UNCHANGED <<current, pc, crossed>>
  /\ events' = Tail(events)
  /\ UNCHANGED <<manager, timers, timed, store, cache, handlers, asked, toDevice,
                 packet, external>>

Return == Goto("ev", "idle") /\ current' = NoEvent

\* Mutant: a second node is let in.
TakesAlways(n) == n \in filter

Takes(n) == ~provisioning /\ n \in filter

\* unprov_handler: a stored node that announces itself is removed.
Found ==
  /\ pc["ev"] = "found"
  /\ LET n == current.node IN
     /\ db' = [db EXCEPT ![n] = None]
     /\ IF Takes(n) THEN Put(Cmd("scan_stop")) /\ Goto("ev", "provision") /\ UNCHANGED current
                    ELSE Return /\ UNCHANGED toDevice
  /\ UNCHANGED <<scan, inHand, exhausted, cache, handlers, asked, events, packet, external, crossed>>

UsedAddr == {db[n].addr : n \in {m \in Nodes : db[m] # None}}

Lowest(S) == {a \in S : \A b \in S : a <= b}

\* Mutant: one address too many.
ObtainUnicastAddrBeyond == Lowest((Addrs \union {NodeStartUnicast + CacheSize}) \ UsedAddr)

\* Mutant: used addresses too.
ObtainUnicastAddrUsed == Lowest(Addrs)

\* obtain_unicast_addr: the lowest free address, if there is one.
ObtainUnicastAddr == Lowest(Addrs \ UsedAddr)

\* Mutant: the entry of the node before stays.
ForgetEntryNot(a) == cache

ForgetEntry(a) == [cache EXCEPT ![a] = None]

\* provision(): without an address nothing follows, and `provisioning' stays.
BeginProvision ==
  /\ pc["ev"] = "provision"
  /\ provisioning' = TRUE
  /\ \/ /\ ObtainUnicastAddr = {}
        /\ exhausted' = TRUE
        /\ UNCHANGED <<inHand, cache, handlers, toDevice>>
     \/ \E a \in ObtainUnicastAddr :
          /\ inHand' = [node |-> current.node, addr |-> a]
          /\ cache' = ForgetEntry(a)
          /\ handlers' = handlers \union {"prov_handler"}
          /\ Put(Provision(current.node, a))
          /\ UNCHANGED exhausted
  /\ Return
  /\ UNCHANGED <<scanning, onlyOne, filter, timers, timed, early, db, asked, events, packet, external, crossed>>

\* PROV_CAPS, PROV_ECDH: answered, unless the key of the node is not a point of
\* the curve, which raises.
Answer ==
  /\ pc["ev"] = "answer"
  /\ \/ Put(Cmd(IF current.type = "caps" THEN "oob_use" ELSE "ecdh_secret"))
     \/ current.type = "ecdh" /\ UNCHANGED toDevice
  /\ Return
  /\ UNCHANGED <<scan, store, cache, handlers, asked, events, packet,
                 external, crossed>>

ProvComplete ==
  /\ pc["ev"] = "complete"
  /\ db' = [db EXCEPT ![inHand.node] = [addr |-> inHand.addr, key |-> current.key]]
  /\ Return
  /\ UNCHANGED <<scan, inHand, exhausted, cache, handlers, asked, channels,
                 external, crossed>>

\* Mutant: the flag is left.
EndFlagKept == provisioning

EndFlag == FALSE

\* PROV_LINK_CLOSED: prov_end, end_provision.
ProvEnd ==
  /\ pc["ev"] = "end"
  /\ handlers' = handlers \ {"prov_handler"}
  /\ provisioning' = EndFlag
  /\ Goto("ev", "one")
  /\ UNCHANGED <<scanning, onlyOne, filter, timers, timed, early, store, cache,
                 asked, current, channels, external, crossed>>

OnlyOne ==
  /\ pc["ev"] = "one"
  /\ Goto("ev", IF onlyOne THEN "stop" ELSE "resume")
  /\ UNCHANGED <<scan, store, cache, handlers, asked, current, channels, external,
                 crossed>>

\* Mutant: the scan goes on in any case.
ResumesAlways == TRUE

Resumes == scanning

Resume ==
  /\ pc["ev"] = "resume"
  /\ Goto("ev", IF Resumes THEN "scan_start" ELSE "forget")
  /\ UNCHANGED <<scan, store, cache, handlers, asked, current, channels, external,
                 crossed>>

ForgetNode ==
  /\ pc["ev"] = "forget"
  /\ inHand' = None
  /\ Return
  /\ UNCHANGED <<scan, db, exhausted, cache, handlers, asked, channels,
                 external, crossed>>

\* scan_timeout_handler, after stop_scan.
UnhookTimeout ==
  /\ pc["ev"] = "unhook_timeout"
  /\ handlers' = handlers \ {"scan_timeout_handler"}
  /\ Return
  /\ UNCHANGED <<scan, store, cache, asked, channels, external, crossed>>

\* ResetTask.success of an acknowledged reset.
NodeIsReset ==
  /\ pc["ev"] = "reset"
  /\ LET n == current.node IN
     /\ cache' = IF db[n] = None THEN cache ELSE ForgetEntry(db[n].addr)
     /\ db' = [db EXCEPT ![n] = None]
  /\ Return
  /\ UNCHANGED <<scan, inHand, exhausted, handlers, asked, channels,
                 external, crossed>>

\* ResetTask.success of a reset that timed out: the node may still be there.
ResetExpires(n) ==
  /\ Idle("ev") /\ db[n] # None
  /\ cache' = ForgetEntry(db[n].addr)
  /\ db' = [db EXCEPT ![n] = None]
  /\ strays' = TRUE
  /\ UNCHANGED <<scan, inHand, exhausted, handlers, pc, asked, current, channels,
                 dev, mesh, restarts, crossed>>

ScanTimeout ==
  /\ timers > 0
  /\ timers' = timers - 1
  /\ events' = Append(events, Event("timeout", None))
  /\ UNCHANGED <<manager, timed, early, store, cache, handlers, pc, asked, current,
                 toDevice, packet, external, crossed>>

-----------------------------------------------------------------------------
(* The receive thread: process_packet, check_seq_number. *)

\* A message of the device arrives; without the thread it is lost.
Arrives(e) ==
  /\ packet = None
  /\ events' = IF pc["rx"] = "dead" THEN events ELSE Append(events, e)

\* A packet of a node arrives.
PacketArrives(a, s) ==
  /\ Idle("rx") /\ packet = None
  /\ packet' = [addr |-> a, seq |-> s]

RxDone == Goto("rx", "idle") /\ packet' = None

\* if node_address in self.cache
RxLook ==
  /\ Idle("rx") /\ packet # None
  /\ Goto("rx", IF cache[packet.addr] = None THEN "accept" ELSE "compare")
  /\ UNCHANGED <<scan, store, cache, handlers, asked, current, toDevice, events,
                 packet, external, crossed>>

\* if seq_number > self.cache[node_address]: the entry may be gone by now, and the
\* KeyError ends rx_process.
RxCompare ==
  /\ pc["rx"] = "compare"
  /\ \/ cache[packet.addr] = None /\ Goto("rx", "dead") /\ packet' = None
     \/ /\ cache[packet.addr] # None
        /\ IF packet.seq > cache[packet.addr] THEN Goto("rx", "accept") /\ UNCHANGED packet
                                              ELSE RxDone
  /\ UNCHANGED <<scan, store, cache, handlers, asked, current, toDevice, events,
                 external, crossed>>

RxAccept ==
  /\ pc["rx"] = "accept"
  /\ cache' = [cache EXCEPT ![packet.addr] = packet.seq]
  /\ RxDone
  /\ UNCHANGED <<scan, store, handlers, asked, current, toDevice, events, external,
                 crossed>>

-----------------------------------------------------------------------------
(* The device and the mesh; external. *)

Room == Len(events) < MaxEvents

\* A Provision while a link is open is refused.
DeviceCommand ==
  /\ toDevice # <<>>
  /\ toDevice' = Tail(toDevice)
  /\ LET c == Head(toDevice) IN
     dev' = CASE c.op = "scan_start" -> [dev EXCEPT !.scan = TRUE]
              [] c.op = "scan_stop" -> [dev EXCEPT !.scan = FALSE]
              [] c.op = "provision" /\ dev.node = None ->
                   [dev EXCEPT !.node = c.node, !.addr = c.addr, !.stage = "open"]
              [] c.op = "oob_use" /\ dev.stage = "caps" -> [dev EXCEPT !.stage = "oob"]
              [] c.op = "ecdh_secret" /\ dev.stage = "ecdh" ->
                   [dev EXCEPT !.stage = "keyed"]
              [] OTHER -> dev
  /\ UNCHANGED <<scan, store, cache, handlers, pc, asked, current, events, packet,
                 mesh, restarts, strays, crossed>>

\* The link goes on when the node is there: capabilities, keys.
LinkAsks ==
  /\ dev.node # None /\ ~mesh[dev.node].member
  /\ \E s \in {<<"open", "caps">>, <<"oob", "ecdh">>} :
       /\ dev.stage = s[1]
       /\ dev' = [dev EXCEPT !.stage = s[2]]
       /\ Arrives(Event(s[2], None))
  /\ UNCHANGED <<scan, store, cache, handlers, pc, asked, current, toDevice, packet,
                 mesh, restarts, strays, crossed>>

\* The node takes its address and a new key, and starts its sequence numbers.
LinkCompletes ==
  /\ dev.stage = "keyed"
  /\ LET key == 1 - mesh[dev.node].key IN
     /\ mesh' = [mesh EXCEPT ![dev.node] = [member |-> TRUE, addr |-> dev.addr,
                                                key |-> key, seq |-> 0]]
     /\ Arrives([Event("complete", None) EXCEPT !.key = key])
  /\ dev' = [dev EXCEPT !.stage = "done"]
  /\ UNCHANGED <<scan, store, cache, handlers, pc, asked, current, toDevice, packet,
                 restarts, strays, crossed>>

\* The link is closed when all is done, or fails.
LinkCloses ==
  /\ dev.node # None
  /\ dev' = [Off EXCEPT !.scan = dev.scan]
  /\ Arrives(Event("closed", None))
  /\ UNCHANGED <<scan, store, cache, handlers, pc, asked, current, toDevice, packet,
                 mesh, restarts, strays, crossed>>

\* Open links are lost in a restart, with commands that are on their way.
Restart ==
  /\ restarts < MaxRestarts
  /\ restarts' = restarts + 1
  /\ dev' = Off /\ toDevice' = <<>>
  /\ UNCHANGED <<scan, store, cache, handlers, pc, asked, current, events, packet,
                 mesh, strays, crossed>>

\* A node announces itself.
Beacon(n) ==
  /\ dev.scan /\ dev.node # n /\ ~mesh[n].member /\ Room
  /\ Arrives(Event("unprov", n))
  /\ UNCHANGED <<scan, store, cache, handlers, pc, asked, current, toDevice, packet,
                 external, crossed>>

\* A node leaves the network, asked to, which it acknowledges, or on its own.
LeaveMesh(n) ==
  /\ mesh[n].member /\ Room /\ dev.node # n
  /\ mesh' = [mesh EXCEPT ![n] = [@ EXCEPT !.member = FALSE, !.seq = 0]]
  /\ Arrives(Event("reset", n)) \/ UNCHANGED events
  /\ UNCHANGED <<scan, store, cache, handlers, pc, asked, current, toDevice, packet,
                 dev, restarts, strays, crossed>>

NodeSends(n) ==
  /\ mesh[n].member /\ mesh[n].seq < MaxSeq /\ Room
  /\ PacketArrives(mesh[n].addr, mesh[n].seq)
  /\ mesh' = [mesh EXCEPT ![n].seq = @ + 1]
  /\ UNCHANGED <<scan, store, cache, handlers, pc, asked, current, toDevice, events,
                 dev, restarts, strays, crossed>>

\* The mesh holds a packet back until its node has left its address.
LatePacket(a, s) ==
  /\ Room /\ \A n \in Nodes : mesh[n].member => mesh[n].addr # a
  /\ PacketArrives(a, s)
  /\ strays' = TRUE
  /\ UNCHANGED <<scan, store, cache, handlers, pc, asked, current, toDevice, events,
                 dev, mesh, restarts, crossed>>

-----------------------------------------------------------------------------
StopScan(t) == StopCheck(t) \/ StopUnset(t) \/ SendScanStop(t) \/ Unhook(t)

Application ==
  \/ \E timeout, one \in BOOLEAN, f \in Filters : StartScan(timeout, one, f)
  \/ StartCheck \/ StartTimer \/ HookTimeout \/ Hook
  \/ CallStop

EventThread ==
  \/ Dispatch \/ Found \/ BeginProvision \/ Answer \/ ProvComplete
  \/ ProvEnd \/ OnlyOne \/ Resume \/ ForgetNode \/ UnhookTimeout \/ NodeIsReset
  \/ \E n \in Nodes : ResetExpires(n)

RxThread == RxLook \/ RxCompare \/ RxAccept

Device == DeviceCommand \/ LinkAsks \/ LinkCompletes \/ LinkCloses \/ Restart

Mesh ==
  \/ \E n \in Nodes : Beacon(n) \/ LeaveMesh(n) \/ NodeSends(n)
  \/ \E a \in Addrs, s \in 0..(MaxSeq - 1) : LatePacket(a, s)

Next ==
  \/ Application \/ EventThread \/ RxThread \/ ScanTimeout \/ Device \/ Mesh
  \/ \E t \in {"api", "ev"} : StopScan(t) \/ SendScanStart(t)

Spec == Init /\ [][Next]_vars

-----------------------------------------------------------------------------
(* Properties *)

ApiPlaces == {"idle", "start", "timer", "hook_timeout", "hook", "scan_start", "stop",
              "unset", "scan_stop", "unhook"}
EvPlaces == {"idle", "found", "provision", "answer", "complete", "end", "one", "stop",
             "unset", "scan_stop", "unhook", "resume", "scan_start", "forget",
             "unhook_timeout", "reset"}

\* Everything has its type, and the threads are where they can be: a handler that
\* needs the node in hand has one.
TypeOK ==
  /\ {scanning, onlyOne, provisioning, timed, early, crossed, exhausted, strays}
       \subseteq BOOLEAN
  /\ filter \subseteq Nodes /\ timers \in 0..MaxTimers /\ restarts \in 0..MaxRestarts
  /\ inHand \in [node : Nodes, addr : Addrs] \union {None}
  /\ pc["ev"] = "complete" => inHand # None
  /\ handlers \subseteq {"unprov_handler", "scan_timeout_handler", "prov_handler",
                         "task_handler"}
  /\ db \in [Nodes -> [addr : Addrs, key : {0, 1}] \union {None}]
  /\ cache \in [Addrs -> 0..MaxSeq \union {None}]
  /\ pc["api"] \in ApiPlaces /\ pc["ev"] \in EvPlaces
  /\ pc["rx"] \in {"idle", "compare", "accept", "dead"}
  /\ asked \in [timeout : BOOLEAN, filter : SUBSET Nodes]
  /\ current \in Events /\ events \in Seq(Events)
  /\ packet \in [addr : Addrs, seq : 0..MaxSeq] \union {None}
  /\ mesh \in [Nodes -> [member : BOOLEAN, addr : Addrs \union {None},
                      key : {0, 1}, seq : 0..MaxSeq]]
  /\ dev.scan \in BOOLEAN /\ dev.stage \in {"none", "open", "caps", "oob", "ecdh",
                                            "keyed", "done"}

\* No address is given twice: stored nodes have addresses of their own, and the node
\* in hand gets none of another node.
AddressesDistinct ==
  /\ \A m, n \in Nodes : m # n /\ db[m] # None /\ db[n] # None => db[m].addr # db[n].addr
  /\ inHand # None =>
       \A n \in Nodes \ {inHand.node} : db[n] # None => db[n].addr # inHand.addr

\* What is stored of a node is the address and the key it was given last: the answer
\* of one link is never taken for another node's, and a node is not provisioned
\* again behind what is stored of it.
StoredRight ==
  \A n \in Nodes :
    db[n] # None => db[n].addr = mesh[n].addr /\ db[n].key = mesh[n].key

OnTheWay(type) == \E e \in Range(events) : e.type = type
Handling(type) == ~Idle("ev") /\ current.type = type

\* provisioning is never left set with nothing that ends it: the device has a link,
\* or is about to get one, or has reported its end.  Two cases excepted, out of which
\* nothing leads: there was no address, or the device restarted.
ProvisioningOwned ==
  provisioning /\ ~exhausted /\ restarts = 0 /\ pc["rx"] # "dead" =>
    /\ inHand # None /\ "prov_handler" \in handlers
    /\ \/ \E c \in Range(toDevice) : c.op = "provision"
       \/ dev.node # None \/ OnTheWay("closed") \/ Handling("closed")

\* A scan with a timeout ends: its timer runs or has fired, and its handler is there,
\* whatever became of earlier scans and their timers; unless the timer was so short
\* that it fired before the handler was registered.
TimedScanEnds ==
  scanning /\ timed /\ Idle("api") /\ ~early =>
    \/ /\ "scan_timeout_handler" \in handlers
       /\ timers > 0 \/ OnTheWay("timeout")
    \/ Handling("timeout")

\* When all is at rest the device scans exactly when the library thinks so; unless a
\* call of the application overlapped with a handler that starts or stops the scan,
\* or the device restarted.
ScanAgrees ==
  /\ ~crossed /\ restarts = 0 /\ ~provisioning
  /\ Idle("api") /\ Idle("ev")
  /\ \A c \in Range(toDevice) : c.op \notin {"scan_start", "scan_stop"}
  => dev.scan = scanning /\ (scanning => "unprov_handler" \in handlers)

\* The receive thread survives the removal of cache entries by the event thread, as
\* long as nothing comes from an address that has been given up.
RxAlive == ~strays => pc["rx"] # "dead"

\* The next packet of a stored node will not be refused for what a former owner of
\* its address has sent; same exception.
Heard ==
  ~strays =>
    \A n \in Nodes :
      db[n] # None /\ mesh[n].member /\ cache[db[n].addr] # None =>
        cache[db[n].addr] < mesh[n].seq

\* start_scan: "If set to 0, the scanning last indefinitely, until stop_scan is
\* called" (gateway.py:402): no timeout ends it.
ScanLasts ==
  [][scanning /\ ~timed /\ ~scanning' => ~Handling("timeout")]_vars
================================================================================
