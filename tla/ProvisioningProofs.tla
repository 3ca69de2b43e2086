-------------------------- MODULE ProvisioningProofs --------------------------
(***************************************************************************)
(* What holds of scanning and provisioning for any nodes, any number of     *)
(* addresses and any bounds: the invariants of Provisioning.                *)
(*                                                                         *)
(* Each rests on the next: Typed says where the threads are and what they   *)
(* hold; Session, that there is one link at a time, which is the node's in  *)
(* hand, and whose end is the last that is heard of it; Stored, that a node *)
(* is stored once, after its link has completed; Received, that an address  *)
(* belongs to one node, from the completion of its link until the event     *)
(* that removes it.  Timing, about the timer of a scan, and Agreeing, about *)
(* the scan of the device, need Typed only.                                 *)
(***************************************************************************)
EXTENDS Provisioning, SequenceTheorems, FiniteSetTheorems, TLAPS
-----------------------------------------------------------------------------
(* The inductive invariant, in parts. *)

StopPlaces == {"stop", "unset", "scan_stop", "unhook"}
EndPlaces == {"one", "resume", "scan_start", "forget"}
LinkTypes == {"caps", "ecdh", "complete", "closed"}

\* The event thread has called end_provision, or stop_scan in it.
Closing ==
  \/ pc["ev"] \in EndPlaces
  \/ pc["ev"] \in StopPlaces /\ current.type # "timeout"

Known == {e \in Events : e.type \in {"unprov", "reset"} => e.node \in Nodes}
Orders == {Cmd(op) : op \in Commands} \union
            {Provision(n, a) : n \in Nodes, a \in Addrs}
Stages == {"none", "open", "caps", "oob", "ecdh", "keyed", "done"}

\* What the variables hold beyond TypeOK.
Shape ==
  /\ pc \in [{"api", "ev", "rx"} ->
               ApiPlaces \union EvPlaces \union {"compare", "accept", "dead"}]
  /\ toDevice \in Seq(Orders) /\ events \in Seq(Known) /\ current \in Known
  /\ dev \in [scan : BOOLEAN, node : Nodes \union {None},
              addr : Addrs \union {None}, stage : Stages]
  /\ dev.node # None <=> dev.stage # "none"
  /\ dev.node # None => dev.addr \in Addrs
  /\ \A n \in Nodes : mesh[n].member => mesh[n].addr \in Addrs

\* The threads and what they have in hand.
Threads ==
  /\ pc["ev"] \in {"found", "provision"} => current.type = "unprov"
  /\ pc["ev"] = "reset" => current.type = "reset"
  /\ pc["ev"] \in {"end"} \union EndPlaces => current.type = "closed"
  /\ pc["ev"] \in StopPlaces => current.type \in {"closed", "timeout"}
  /\ pc["ev"] = "unhook_timeout" => current.type = "timeout"
  /\ pc["ev"] = "complete" => current.type = "complete"
  /\ pc["ev"] = "answer" => current.type \in {"caps", "ecdh"}
  /\ pc["api"] = "timer" \/ (pc["api"] = "start" /\ asked.timeout)
       => timers < MaxTimers
  /\ pc["rx"] \in {"compare", "accept"} => packet # None

\* The handler of the link is there only while a node is in hand.
LinkOwned ==
  /\ "prov_handler" \in handlers => inHand # None
  /\ Closing => "prov_handler" \notin handlers
  /\ pc["ev"] \in {"complete", "end"} => "prov_handler" \in handlers

Typed == TypeOK /\ Shape /\ Threads /\ LinkOwned

\* The link: ordered, open, or with events of it on their way.
Asked == \E i \in DOMAIN toDevice : toDevice[i].op = "provision"
Open == dev.node # None
Reported == \E i \in DOMAIN events : events[i].type \in LinkTypes
Taken == pc["ev"] \in {"answer", "complete", "end"}

Session ==
  /\ \A i, j \in DOMAIN toDevice :
       toDevice[i].op = "provision" /\ toDevice[j].op = "provision" => i = j
  /\ Asked => ~Open /\ ~Reported /\ ~Taken
  /\ \A i, j \in DOMAIN events :
       events[i].type = "closed" /\ events[j].type \in LinkTypes => j <= i
  /\ \A i \in DOMAIN events : events[i].type = "closed" => ~Open
  /\ pc["ev"] = "end" => ~Open /\ ~Reported
  /\ Asked \/ Open \/ Reported \/ Taken
       => provisioning /\ "prov_handler" \in handlers
  /\ provisioning => pc["ev"] # "provision" /\ ~Closing
  /\ \A i \in DOMAIN toDevice : toDevice[i].op = "provision" =>
       toDevice[i].node = inHand.node /\ toDevice[i].addr = inHand.addr
  /\ Open => dev.node = inHand.node /\ dev.addr = inHand.addr

\* The node of a link is not stored before it has reported that it is complete, and
\* what it reports is what the node has.
Fresh == Asked \/ (Open /\ dev.stage # "done")
Completed == \E i \in DOMAIN events : events[i].type = "complete"
Stored ==
  /\ pc["ev"] = "provision" => db[current.node] = None
  /\ Fresh => db[inHand.node] = None /\ ~Completed /\ pc["ev"] # "complete"
  /\ \A i \in DOMAIN events : events[i].type = "complete" =>
       /\ mesh[inHand.node].addr = inHand.addr
       /\ mesh[inHand.node].key = events[i].key
       /\ db[inHand.node] = None /\ pc["ev"] # "complete"
  /\ \A i, j \in DOMAIN events :
       events[i].type = "complete" /\ events[j].type = "complete" => i = j
  /\ pc["ev"] = "complete" =>
       /\ mesh[inHand.node].addr = inHand.addr
       /\ mesh[inHand.node].key = current.key
       /\ db[inHand.node] = None

\* n's completion is not stored yet.
Completing(n) == inHand # None /\ inHand.node = n /\ (Completed \/ pc["ev"] = "complete")
\* An event that removes n from the database, with no completion behind it.
Forgets(n) ==
  \/ \E i \in DOMAIN events :
       /\ events[i].type \in {"unprov", "reset"} /\ events[i].node = n
       /\ inHand # None /\ inHand.node = n =>
            \A j \in DOMAIN events : events[j].type = "complete" => j < i
  \/ /\ pc["ev"] \in {"found", "reset"} /\ current.node = n
     /\ inHand # None /\ inHand.node = n => ~Completed
\* n has the address that it was given.
Placed(n) == (db[n] # None \/ Completing(n)) /\ ~Forgets(n)

Received ==
  ~strays =>
    /\ pc["rx"] # "dead"
    /\ \A n \in Nodes : mesh[n].member => Placed(n)
    /\ packet # None =>
         \E n \in Nodes : /\ Placed(n) /\ mesh[n].addr = packet.addr
                          /\ mesh[n].member => packet.seq < mesh[n].seq
    /\ pc["rx"] = "compare" => cache[packet.addr] # None
    /\ \A n \in Nodes : mesh[n].member /\ cache[mesh[n].addr] # None =>
         cache[mesh[n].addr] < mesh[n].seq
    /\ Fresh => cache[inHand.addr] = None

\* The scan with a timeout.
TimeoutComes == timers > 0 \/ \E i \in DOMAIN events : events[i].type = "timeout"
TimeoutTaken == current.type = "timeout" /\ pc["ev"] \in {"stop", "unset"}
Timing ==
  /\ pc["ev"] \in {"scan_stop", "unhook", "unhook_timeout"} /\ current.type = "timeout"
       => ~scanning \/ ~timed \/ pc["api"] \in {"timer", "hook_timeout"}
  /\ scanning /\ timed /\ ~early =>
       /\ pc["api"] = "hook_timeout" => TimeoutComes \/ TimeoutTaken
       /\ pc["api"] \notin {"timer", "hook_timeout"} =>
            \/ "scan_timeout_handler" \in handlers /\ TimeoutComes
            \/ TimeoutTaken

-----------------------------------------------------------------------------
(* Which actions change a variable. *)

Turns == {"api", "ev"}
Asks == \E timeout, one \in BOOLEAN, f \in Filters : StartScan(timeout, one, f)
Expires == \E n \in Nodes : ResetExpires(n)
Sends == \E n \in Nodes : NodeSends(n)
Late == \E a \in Addrs, s \in 0..(MaxSeq - 1) : LatePacket(a, s)
Leaves == \E n \in Nodes : LeaveMesh(n)
Beacons == \E n \in Nodes : Beacon(n)

LEMMA Frame ==
  ASSUME [Next]_vars
  PROVE
    /\ scanning' = scanning \/ StartCheck \/ \E t \in Turns : StopUnset(t)
    /\ onlyOne' = onlyOne \/ Asks
    /\ provisioning' = provisioning \/ BeginProvision \/ ProvEnd
    /\ UNCHANGED <<filter, timed>> \/ StartCheck
    /\ early' = early \/ StartCheck \/ Dispatch
    /\ inHand' = inHand \/ BeginProvision \/ ForgetNode
    /\ \/ handlers' = handlers \/ HookTimeout \/ Hook \/ BeginProvision \/ ProvEnd
       \/ UnhookTimeout \/ \E t \in Turns : Unhook(t)
    /\ timers' = timers \/ StartTimer \/ ScanTimeout
    /\ db' = db \/ Found \/ ProvComplete \/ NodeIsReset \/ Expires
    /\ cache' = cache \/ BeginProvision \/ NodeIsReset \/ RxAccept \/ Expires
    /\ asked' = asked \/ StartCheck \/ Asks
    /\ \/ current' = current \/ Dispatch \/ Found \/ BeginProvision \/ Answer
       \/ ProvComplete \/ ForgetNode \/ UnhookTimeout \/ NodeIsReset
    /\ \/ toDevice' = toDevice \/ Found \/ BeginProvision \/ Answer \/ DeviceCommand
       \/ Restart \/ \E t \in Turns : SendScanStart(t) \/ SendScanStop(t)
    /\ \/ events' = events \/ Dispatch \/ ScanTimeout \/ LinkAsks \/ LinkCompletes
       \/ LinkCloses \/ Beacons \/ Leaves
    /\ packet' = packet \/ Sends \/ Late \/ RxCompare \/ RxAccept
    /\ dev' = dev \/ DeviceCommand \/ LinkAsks \/ LinkCompletes \/ LinkCloses \/ Restart
    /\ mesh' = mesh \/ LinkCompletes \/ Leaves \/ Sends
    /\ exhausted' = exhausted \/ BeginProvision
    /\ strays' = strays \/ Expires \/ Late
    /\ restarts' = restarts \/ Restart
    /\ crossed' = crossed \/ Asks \/ CallStop \/ Dispatch
<1> USE DEF Next, Application, EventThread, RxThread, Device, Mesh, StopScan,
      StartScan, StartCheck, StartTimer, HookTimeout, Hook, CallStop,
      StopCheck, StopUnset, SendScanStop, Unhook, SendScanStart,
      Dispatch, Found, BeginProvision, Answer, ProvComplete, ProvEnd, OnlyOne,
      Resume, ForgetNode, UnhookTimeout, NodeIsReset, ResetExpires,
      RxLook, RxCompare, RxAccept, ScanTimeout, DeviceCommand, LinkAsks,
      LinkCompletes, LinkCloses, Restart, Beacon, LeaveMesh, NodeSends, LatePacket,
      vars, scan, manager, store, channels, external,
      Turns, Asks, Expires, Sends, Late, Leaves, Beacons
<1>1. scanning' = scanning \/ StartCheck \/ \E t \in Turns : StopUnset(t)
  OBVIOUS
<1>2. onlyOne' = onlyOne \/ Asks
  OBVIOUS
<1>3. provisioning' = provisioning \/ BeginProvision \/ ProvEnd
  OBVIOUS
<1>4. UNCHANGED <<filter, timed>> \/ StartCheck
  OBVIOUS
<1>5. early' = early \/ StartCheck \/ Dispatch
  OBVIOUS
<1>6. inHand' = inHand \/ BeginProvision \/ ForgetNode
  OBVIOUS
<1>7. \/ handlers' = handlers \/ HookTimeout \/ Hook \/ BeginProvision \/ ProvEnd
      \/ UnhookTimeout \/ \E t \in Turns : Unhook(t)
  OBVIOUS
<1>8. timers' = timers \/ StartTimer \/ ScanTimeout
  OBVIOUS
<1>9. db' = db \/ Found \/ ProvComplete \/ NodeIsReset \/ Expires
  OBVIOUS
<1>10. cache' = cache \/ BeginProvision \/ NodeIsReset \/ RxAccept \/ Expires
  OBVIOUS
<1>11. asked' = asked \/ StartCheck \/ Asks
  OBVIOUS
<1>12. \/ current' = current \/ Dispatch \/ Found \/ BeginProvision \/ Answer
       \/ ProvComplete \/ ForgetNode \/ UnhookTimeout \/ NodeIsReset
  BY DEF Return
<1>13. \/ toDevice' = toDevice \/ Found \/ BeginProvision \/ Answer \/ DeviceCommand
       \/ Restart \/ \E t \in Turns : SendScanStart(t) \/ SendScanStop(t)
  OBVIOUS
<1>14. \/ events' = events \/ Dispatch \/ ScanTimeout \/ LinkAsks \/ LinkCompletes
       \/ LinkCloses \/ Beacons \/ Leaves
  OBVIOUS
<1>15. packet' = packet \/ Sends \/ Late \/ RxCompare \/ RxAccept
  OBVIOUS
<1>16. dev' = dev \/ DeviceCommand \/ LinkAsks \/ LinkCompletes \/ LinkCloses \/ Restart
  OBVIOUS
<1>17. mesh' = mesh \/ LinkCompletes \/ Leaves \/ Sends
  OBVIOUS
<1>18. exhausted' = exhausted \/ BeginProvision
  OBVIOUS
<1>19. strays' = strays \/ Expires \/ Late
  OBVIOUS
<1>20. restarts' = restarts \/ Restart
  OBVIOUS
<1>21. crossed' = crossed \/ Asks \/ CallStop \/ Dispatch
  OBVIOUS
<1> HIDE DEF Next, vars, Asks, Expires, Sends, Late, Leaves, Beacons, StartCheck,
      BeginProvision, ProvEnd, Dispatch, ForgetNode, HookTimeout, Hook, UnhookTimeout,
      StartTimer, ScanTimeout, Found, ProvComplete, NodeIsReset, RxAccept, Answer,
      DeviceCommand, Restart, LinkAsks, LinkCompletes, LinkCloses, RxCompare,
      CallStop, StopUnset, Unhook, SendScanStart, SendScanStop
<1> QED
  BY <1>1, <1>2, <1>3, <1>4, <1>5, <1>6, <1>7, <1>8, <1>9, <1>10, <1>11, <1>12,
     <1>13, <1>14, <1>15, <1>16, <1>17, <1>18, <1>19, <1>20, <1>21

-----------------------------------------------------------------------------
(* Types. *)

PlacesOK ==
  /\ pc \in [{"api", "ev", "rx"} ->
               ApiPlaces \union EvPlaces \union {"compare", "accept", "dead"}]
  /\ pc["api"] \in ApiPlaces /\ pc["ev"] \in EvPlaces
  /\ pc["rx"] \in {"idle", "compare", "accept", "dead"}

LEMMA FirstEvent ==
  ASSUME NEW S, events \in Seq(S), events # <<>>
  PROVE  Head(events) \in S /\ Tail(events) \in Seq(S)
  OBVIOUS

LEMMA PlacesStep ==
  ASSUME Typed, [Next]_vars
  PROVE  PlacesOK'
<1>0. PlacesOK /\ events \in Seq(Known)
  BY DEF Typed, TypeOK, Shape, PlacesOK
<1> USE DEF PlacesOK, ApiPlaces, EvPlaces, Goto, Return, Idle
<1>1. CASE Application
  BY <1>0, <1>1 DEF Application, StartScan, StartCheck, StartTimer, HookTimeout, Hook,
     CallStop
<1>2. ASSUME NEW t \in Turns, StopScan(t) \/ SendScanStart(t)
      PROVE  PlacesOK'
  BY <1>0, <1>2 DEF StopScan, StopCheck, StopUnset, SendScanStop, Unhook, SendScanStart,
     AfterStop, Turns
<1>3. CASE Dispatch
  <2>1. events # <<>> => Places(Head(events).type) \in EvPlaces
    BY <1>0, FirstEvent DEF Places, Known, Events, Kinds
  <2> QED
    BY <1>0, <1>3, <2>1 DEF Dispatch
<1>4. CASE EventThread /\ ~Dispatch
  BY <1>0, <1>4 DEF EventThread, Found, BeginProvision, Answer, ProvComplete, ProvEnd,
     OnlyOne, Resume, ForgetNode, UnhookTimeout, NodeIsReset, ResetExpires
<1>5. CASE RxThread
  BY <1>0, <1>5 DEF RxThread, RxLook, RxCompare, RxAccept, RxDone
<1>6. CASE ScanTimeout \/ Device \/ Mesh
  BY <1>0, <1>6 DEF ScanTimeout, Device, Mesh, DeviceCommand, LinkAsks, LinkCompletes,
     LinkCloses, Restart, Beacon, LeaveMesh, NodeSends, LatePacket
<1>7. CASE UNCHANGED vars
  BY <1>0, <1>7 DEF vars
<1> QED
  BY <1>1, <1>2, <1>3, <1>4, <1>5, <1>6, <1>7 DEF Next, Turns

LEMMA FlagsStep ==
  ASSUME Typed, [Next]_vars
  PROVE  /\ {scanning, onlyOne, provisioning, timed, early, crossed, exhausted, strays}'
              \subseteq BOOLEAN
         /\ filter' \subseteq Nodes
         /\ asked' \in [timeout : BOOLEAN, filter : SUBSET Nodes]
<1>0. /\ {scanning, onlyOne, provisioning, timed, early, crossed, exhausted, strays}
           \subseteq BOOLEAN
      /\ filter \subseteq Nodes
      /\ asked \in [timeout : BOOLEAN, filter : SUBSET Nodes]
  BY DEF Typed, TypeOK
<1>1. scanning' \in BOOLEAN
  BY <1>0, Frame DEF StartCheck, StopUnset
<1>2. onlyOne' \in BOOLEAN
  BY <1>0, Frame DEF Asks, StartScan
<1>3. provisioning' \in BOOLEAN
  BY <1>0, Frame DEF BeginProvision, ProvEnd, EndFlag
<1>4. filter' \subseteq Nodes /\ timed' \in BOOLEAN
  BY <1>0, Frame DEF StartCheck
<1>5. early' \in BOOLEAN
  BY <1>0, Frame DEF StartCheck, Dispatch
<1>6. crossed' \in BOOLEAN
  BY <1>0, Frame DEF Asks, StartScan, CallStop, Dispatch
<1>7. exhausted' \in BOOLEAN
  BY <1>0, Frame DEF BeginProvision
<1>8. strays' \in BOOLEAN
  BY <1>0, Frame DEF Expires, ResetExpires, Late, LatePacket
<1>9. asked' \in [timeout : BOOLEAN, filter : SUBSET Nodes]
  <2>1. NotAsked \in [timeout : BOOLEAN, filter : SUBSET Nodes]
    BY DEF NotAsked
  <2>2. CASE Asks
    <3>1. PICK timeout \in BOOLEAN, one \in BOOLEAN, f \in Filters :
                 StartScan(timeout, one, f)
      BY <2>2 DEF Asks
    <3>2. f \in SUBSET Nodes
      BY ProvisioningAssumption
    <3>3. asked' = [timeout |-> timeout, filter |-> f]
      BY <3>1 DEF StartScan
    <3> QED
      BY <3>2, <3>3
  <2> QED
    BY <1>0, <2>1, <2>2, Frame DEF StartCheck
<1> QED
  BY <1>1, <1>2, <1>3, <1>4, <1>5, <1>6, <1>7, <1>8, <1>9

\* Addresses.
LEMMA FreeAddr ==
  ASSUME NEW a \in ObtainUnicastAddr
  PROVE  a \in Addrs /\ a \notin UsedAddr
  BY DEF ObtainUnicastAddr, Lowest

LEMMA RecordsNotNone ==
  /\ \A n \in Nodes, a \in Addrs : [node |-> n, addr |-> a] # None
  /\ \A r \in [addr : Addrs, key : {0, 1}] : r # None
  /\ \A r \in [addr : Addrs, seq : 0..MaxSeq] : r # None
  /\ \A a \in Addrs : a # None
  /\ \A k \in 0..MaxSeq : k # None
<1>1. Addrs \subseteq Int /\ 0..MaxSeq \subseteq Int /\ {0, 1} \subseteq Int
  BY ProvisioningAssumption DEF Addrs, NodeStartUnicast
<1>2. \A n \in Nodes, a \in Addrs : [node |-> n, addr |-> a] # None
  BY <1>1, ProvisioningAssumption
<1>3. \A r \in [addr : Addrs, key : {0, 1}] : r # None
  BY <1>1, ProvisioningAssumption
<1>4. \A r \in [addr : Addrs, seq : 0..MaxSeq] : r # None
  BY <1>1, ProvisioningAssumption
<1> QED
  BY <1>1, <1>2, <1>3, <1>4, ProvisioningAssumption

LEMMA StoreStep ==
  ASSUME Typed, [Next]_vars
  PROVE  /\ inHand' \in [node : Nodes, addr : Addrs] \union {None}
         /\ db' \in [Nodes -> [addr : Addrs, key : {0, 1}] \union {None}]
         /\ cache' \in [Addrs -> 0..MaxSeq \union {None}]
<1>0. /\ inHand \in [node : Nodes, addr : Addrs] \union {None}
      /\ db \in [Nodes -> [addr : Addrs, key : {0, 1}] \union {None}]
      /\ cache \in [Addrs -> 0..MaxSeq \union {None}]
      /\ packet \in [addr : Addrs, seq : 0..MaxSeq] \union {None}
      /\ current \in Known
      /\ pc["ev"] \in {"found", "provision"} => current.type = "unprov"
      /\ pc["ev"] = "complete" => inHand # None
      /\ pc["rx"] \in {"compare", "accept"} => packet # None
  BY DEF Typed, TypeOK, Shape, Threads
<1>1. inHand' \in [node : Nodes, addr : Addrs] \union {None}
  <2>1. CASE BeginProvision
    <3>1. current.node \in Nodes
      BY <1>0, <2>1 DEF BeginProvision, Known
    <3> QED
      BY <1>0, <2>1, <3>1, FreeAddr DEF BeginProvision
  <2> QED
    BY <1>0, <2>1, Frame DEF ForgetNode
<1>2. db' \in [Nodes -> [addr : Addrs, key : {0, 1}] \union {None}]
  <2>1. CASE ProvComplete
    <3>1. inHand \in [node : Nodes, addr : Addrs] /\ current.key \in {0, 1}
      BY <1>0, <2>1 DEF ProvComplete, Known, Events
    <3>2. [addr |-> inHand.addr, key |-> current.key] \in [addr : Addrs, key : {0, 1}]
      BY <3>1
    <3> QED
      BY <1>0, <2>1, <3>2 DEF ProvComplete
  <2> QED
    BY <1>0, <2>1, Frame DEF Found, NodeIsReset, Expires, ResetExpires
<1>3. cache' \in [Addrs -> 0..MaxSeq \union {None}]
  <2>1. CASE BeginProvision
    BY <1>0, <2>1 DEF BeginProvision, ForgetEntry
  <2>2. CASE NodeIsReset \/ Expires
    BY <1>0, <2>2 DEF NodeIsReset, Expires, ResetExpires, ForgetEntry
  <2>3. CASE RxAccept
    BY <1>0, <2>3 DEF RxAccept
  <2> QED
    BY <1>0, <2>1, <2>2, <2>3, Frame
<1> QED
  BY <1>1, <1>2, <1>3

LEMMA HandlersStep ==
  ASSUME Typed, [Next]_vars
  PROVE  handlers' \subseteq {"unprov_handler", "scan_timeout_handler", "prov_handler",
                              "task_handler"}
<1>0. handlers \subseteq {"unprov_handler", "scan_timeout_handler", "prov_handler",
                          "task_handler"}
  BY DEF Typed, TypeOK
<1> QED
  BY <1>0, Frame DEF HookTimeout, Hook, BeginProvision, ProvEnd, UnhookTimeout, Unhook,
     AddHandler

LEMMA BoundsStep ==
  ASSUME Typed, [Next]_vars
  PROVE  timers' \in 0..MaxTimers /\ restarts' \in 0..MaxRestarts
<1>0. /\ timers \in 0..MaxTimers /\ restarts \in 0..MaxRestarts
      /\ pc["api"] = "timer" => timers < MaxTimers
      /\ MaxTimers \in Nat /\ MaxRestarts \in Nat
  BY ProvisioningAssumption DEF Typed, TypeOK, Threads
<1>1. timers' \in 0..MaxTimers
  BY <1>0, Frame DEF StartTimer, ScanTimeout
<1>2. restarts' \in 0..MaxRestarts
  BY <1>0, Frame DEF Restart
<1> QED
  BY <1>1, <1>2

LEMMA KnownEvents ==
  /\ \A type \in Kinds \ {"unprov", "reset"} : Event(type, None) \in Known
  /\ \A type \in {"unprov", "reset"}, n \in Nodes : Event(type, n) \in Known
  /\ \A k \in {0, 1} : [Event("complete", None) EXCEPT !.key = k] \in Known
  /\ Known \subseteq Events
  BY DEF Event, Known, Events, Kinds

\* What brings an event.
Brings(e) ==
  /\ e.type = "timeout" => ScanTimeout
  /\ e.type \in {"caps", "ecdh"} => LinkAsks
  /\ e.type = "complete" => LinkCompletes
  /\ e.type = "closed" => LinkCloses
  /\ e.type = "unprov" => Beacon(e.node)
  /\ e.type = "reset" => LeaveMesh(e.node)

LEMMA EventsGrow ==
  ASSUME Typed, [Next]_vars, ~Dispatch
  PROVE  \/ events' = events
         \/ \E e \in Known : Brings(e) /\ events' = Append(events, e)
<1>0. /\ dev \in [scan : BOOLEAN, node : Nodes \union {None},
                  addr : Addrs \union {None}, stage : Stages]
      /\ dev.node # None <=> dev.stage # "none"
      /\ \A n \in Nodes : mesh[n].key \in {0, 1}
  BY DEF Typed, TypeOK, Shape
<1>1. CASE ScanTimeout
  <2>1. Event("timeout", None) \in Known /\ Brings(Event("timeout", None))
    BY <1>1, KnownEvents DEF Kinds, Event, Brings
  <2> QED
    BY <1>1, <2>1 DEF ScanTimeout
<1>2. CASE LinkAsks
  <2>1. PICK s \in {<<"open", "caps">>, <<"oob", "ecdh">>} : Arrives(Event(s[2], None))
    BY <1>2 DEF LinkAsks
  <2>2. Event(s[2], None) \in Known /\ Brings(Event(s[2], None))
    BY <1>2, KnownEvents DEF Kinds, Event, Brings
  <2> QED
    BY <2>1, <2>2 DEF Arrives
<1>3. CASE LinkCompletes
  <2> DEFINE k == 1 - mesh[dev.node].key
  <2>1. dev.node \in Nodes
    BY <1>0, <1>3 DEF LinkCompletes
  <2>2. k \in {0, 1}
    BY <1>0, <2>1
  <2>3. Arrives([Event("complete", None) EXCEPT !.key = k])
    BY <1>3 DEF LinkCompletes
  <2> HIDE DEF k
  <2>4. /\ [Event("complete", None) EXCEPT !.key = k] \in Known
        /\ Brings([Event("complete", None) EXCEPT !.key = k])
    BY <1>3, <2>2, KnownEvents DEF Event, Brings
  <2> QED
    BY <2>3, <2>4 DEF Arrives
<1>4. CASE LinkCloses
  <2>1. Event("closed", None) \in Known /\ Brings(Event("closed", None))
    BY <1>4, KnownEvents DEF Kinds, Event, Brings
  <2> QED
    BY <1>4, <2>1 DEF LinkCloses, Arrives
<1>5. CASE Beacons
  <2>1. PICK n \in Nodes : Beacon(n)
    BY <1>5 DEF Beacons
  <2>2. Event("unprov", n) \in Known /\ Brings(Event("unprov", n))
    BY <2>1, KnownEvents DEF Event, Brings
  <2> QED
    BY <2>1, <2>2 DEF Beacon, Arrives
<1>6. CASE Leaves
  <2>1. PICK n \in Nodes : LeaveMesh(n)
    BY <1>6 DEF Leaves
  <2>2. Event("reset", n) \in Known /\ Brings(Event("reset", n))
    BY <2>1, KnownEvents DEF Event, Brings
  <2> QED
    BY <2>1, <2>2 DEF LeaveMesh, Arrives
<1> QED
  BY <1>1, <1>2, <1>3, <1>4, <1>5, <1>6, Frame

LEMMA EventsStep ==
  ASSUME Typed, [Next]_vars
  PROVE  events' \in Seq(Known) /\ current' \in Known
<1>0. events \in Seq(Known) /\ current \in Known
  BY DEF Typed, Shape
<1>1. current' \in Known
  BY <1>0, Frame, FirstEvent, KnownEvents
     DEF Dispatch, Found, BeginProvision, Answer, ProvComplete, ForgetNode, UnhookTimeout,
         NodeIsReset, Return, NoEvent, Kinds
<1>2. events' \in Seq(Known)
  <2>1. CASE Dispatch
    BY <1>0, <2>1, FirstEvent DEF Dispatch
  <2>2. CASE ~Dispatch
    BY <1>0, <2>2, EventsGrow, AppendProperties
  <2> QED
    BY <2>1, <2>2
<1> QED
  BY <1>1, <1>2

LEMMA OrdersStep ==
  ASSUME Typed, [Next]_vars
  PROVE  toDevice' \in Seq(Orders)
<1>0. /\ toDevice \in Seq(Orders) /\ current \in Known
      /\ pc["ev"] \in {"found", "provision"} => current.type = "unprov"
  BY DEF Typed, Shape, Threads
<1>1. \A op \in Commands : Cmd(op) \in Orders
  BY DEF Orders
<1>2. \A n \in Nodes, a \in Addrs : Provision(n, a) \in Orders
  BY DEF Orders
<1> USE DEF Put
<1>3. CASE BeginProvision
  <2>1. current.node \in Nodes
    BY <1>0, <1>3 DEF BeginProvision, Known
  <2>2. \/ UNCHANGED toDevice
        \/ \E a \in ObtainUnicastAddr : Put(Provision(current.node, a))
    BY <1>3 DEF BeginProvision
  <2> QED
    BY <1>0, <1>2, <2>1, <2>2, FreeAddr, AppendProperties
<1>4. CASE Found \/ Answer \/ \E t \in Turns : SendScanStart(t) \/ SendScanStop(t)
  <2>1. \/ UNCHANGED toDevice
        \/ \E op \in Commands : Put(Cmd(op))
    BY <1>4 DEF Found, Answer, SendScanStart, SendScanStop, Commands
  <2> QED
    BY <1>0, <1>1, <2>1, AppendProperties
<1>5. CASE DeviceCommand
  BY <1>0, <1>5, HeadTailProperties DEF DeviceCommand
<1>6. CASE Restart
  BY <1>6, EmptySeq DEF Restart
<1> QED
  BY <1>0, <1>3, <1>4, <1>5, <1>6, Frame

\* The record of a node.
Membership == [member : BOOLEAN, addr : Addrs \union {None}, key : {0, 1},
               seq : 0..MaxSeq]

LEMMA MembershipLeft ==
  ASSUME NEW r \in Membership, NEW b \in BOOLEAN, NEW k \in 0..MaxSeq
  PROVE  LET x == [r EXCEPT !.member = b, !.seq = k]
         IN x \in Membership /\ x.member = b /\ x.addr = r.addr /\ x.key = r.key
BY DEF Membership

LEMMA MembershipSent ==
  ASSUME NEW r \in Membership, r.seq < MaxSeq
  PROVE  LET x == [r EXCEPT !.seq = @ + 1]
         IN /\ x \in Membership /\ x.member = r.member /\ x.addr = r.addr
            /\ x.key = r.key /\ x.seq = r.seq + 1
BY ProvisioningAssumption DEF Membership

\* What LeaveMesh and NodeSends do to the node.
LEMMA MeshLeft ==
  ASSUME mesh \in [Nodes -> Membership], NEW n \in Nodes, LeaveMesh(n)
  PROVE  \E x \in Membership :
           /\ mesh' = [mesh EXCEPT ![n] = x] /\ ~x.member
           /\ x.addr = mesh[n].addr /\ x.key = mesh[n].key
<1>1. PICK b \in BOOLEAN, k \in 0..MaxSeq :
        ~b /\ mesh' = [mesh EXCEPT ![n] = [mesh[n] EXCEPT !.member = b, !.seq = k]]
  <2>1. FALSE \in BOOLEAN /\ 0 \in 0..MaxSeq
    BY ProvisioningAssumption
  <2> USE <2>1
  <2> WITNESS FALSE \in BOOLEAN, 0 \in 0..MaxSeq
  <2> QED
    BY DEF LeaveMesh
<1> DEFINE x == [mesh[n] EXCEPT !.member = b, !.seq = k]
<1>2. x \in Membership /\ x.member = b /\ x.addr = mesh[n].addr /\ x.key = mesh[n].key
  <2>1. mesh[n] \in Membership /\ b \in BOOLEAN /\ k \in 0..MaxSeq
    OBVIOUS
  <2>2. x \in Membership /\ x.member = b
    BY <2>1, MembershipLeft
  <2>3. x.addr = mesh[n].addr /\ x.key = mesh[n].key
    BY <2>1 DEF Membership
  <2> QED
    BY <2>2, <2>3
<1>3. ~b /\ mesh' = [mesh EXCEPT ![n] = x]
  BY <1>1
<1> HIDE DEF x
<1> QED
  BY <1>2, <1>3

LEMMA MeshSent ==
  ASSUME mesh \in [Nodes -> Membership], NEW n \in Nodes, NodeSends(n)
  PROVE  \E x \in Membership :
           /\ mesh' = [mesh EXCEPT ![n] = x] /\ x.member /\ mesh[n].member
           /\ x.addr = mesh[n].addr /\ x.key = mesh[n].key /\ x.seq = mesh[n].seq + 1
<1> DEFINE x == [mesh[n] EXCEPT !.seq = @ + 1]
<1>1. mesh[n].member /\ mesh[n].seq < MaxSeq /\ mesh' = [mesh EXCEPT ![n] = x]
  BY DEF NodeSends
<1>2. /\ x \in Membership /\ x.member = mesh[n].member /\ x.addr = mesh[n].addr
      /\ x.key = mesh[n].key /\ x.seq = mesh[n].seq + 1
  BY <1>1, MembershipSent
<1> HIDE DEF x
<1> QED
  BY <1>1, <1>2

LEMMA MeshStep ==
  ASSUME Typed, [Next]_vars
  PROVE  /\ mesh' \in [Nodes -> Membership]
         /\ \A n \in Nodes : mesh'[n].member => mesh'[n].addr \in Addrs
<1>0. /\ mesh \in [Nodes -> Membership]
      /\ \A n \in Nodes : mesh[n].member => mesh[n].addr \in Addrs
      /\ dev.node # None => dev.node \in Nodes /\ dev.addr \in Addrs
      /\ dev.node # None <=> dev.stage # "none"
  BY DEF Typed, TypeOK, Shape, Membership
<1>1. CASE LinkCompletes
  <2> DEFINE x == [member |-> TRUE, addr |-> dev.addr,
                   key |-> 1 - mesh[dev.node].key, seq |-> 0]
  <2>1. dev.node \in Nodes /\ dev.addr \in Addrs
    BY <1>0, <1>1 DEF LinkCompletes
  <2>2. mesh' = [mesh EXCEPT ![dev.node] = x]
    BY <1>1 DEF LinkCompletes
  <2>3. x \in Membership /\ x.addr \in Addrs
    BY <1>0, <2>1, ProvisioningAssumption DEF Membership
  <2> HIDE DEF x
  <2> QED
    BY <1>0, <2>1, <2>2, <2>3
<1>2. CASE Leaves
  BY <1>0, <1>2, MeshLeft DEF Leaves
<1>3. CASE Sends
  BY <1>0, <1>3, MeshSent DEF Sends
<1> QED
  BY <1>0, <1>1, <1>2, <1>3, Frame

LEMMA PacketStep ==
  ASSUME Typed, [Next]_vars
  PROVE  packet' \in [addr : Addrs, seq : 0..MaxSeq] \union {None}
<1>0. /\ mesh \in [Nodes -> Membership]
      /\ \A n \in Nodes : mesh[n].member => mesh[n].addr \in Addrs
      /\ packet \in [addr : Addrs, seq : 0..MaxSeq] \union {None}
  BY DEF Typed, TypeOK, Shape, Membership
<1>1. CASE Sends
  <2>1. PICK n \in Nodes : NodeSends(n)
    BY <1>1 DEF Sends
  <2>2. mesh[n].seq \in 0..MaxSeq /\ mesh[n].addr \in Addrs
    BY <1>0, <2>1 DEF NodeSends, Membership
  <2> QED
    BY <2>1, <2>2 DEF NodeSends, PacketArrives
<1>2. CASE Late
  BY <1>2, ProvisioningAssumption DEF Late, LatePacket, PacketArrives
<1>3. CASE RxCompare \/ RxAccept
  BY <1>0, <1>3 DEF RxCompare, RxAccept, RxDone
<1> QED
  BY <1>0, <1>1, <1>2, <1>3, Frame

LEMMA DevStep ==
  ASSUME Typed, [Next]_vars
  PROVE  /\ dev' \in [scan : BOOLEAN, node : Nodes \union {None},
                      addr : Addrs \union {None}, stage : Stages]
         /\ dev'.node # None <=> dev'.stage # "none"
         /\ dev'.node # None => dev'.addr \in Addrs
<1> DEFINE D == [scan : BOOLEAN, node : Nodes \union {None},
                 addr : Addrs \union {None}, stage : Stages]
<1>0. /\ dev \in D /\ toDevice \in Seq(Orders)
      /\ dev.node # None <=> dev.stage # "none"
      /\ dev.node # None => dev.addr \in Addrs
  BY DEF Typed, Shape
<1>1. Off \in D /\ Off.node = None /\ Off.stage = "none"
  BY DEF Off, Stages
<1>2. CASE DeviceCommand
  <2> DEFINE c == Head(toDevice)
  <2>1. c \in Orders
    BY <1>0, <1>2 DEF DeviceCommand
  <2>2. c.op = "provision" => c.node \in Nodes /\ c.addr \in Addrs
    BY <2>1 DEF Orders, Cmd, Provision, Commands
  <2>3. dev' = CASE c.op = "scan_start" -> [dev EXCEPT !.scan = TRUE]
              [] c.op = "scan_stop" -> [dev EXCEPT !.scan = FALSE]
              [] c.op = "provision" /\ dev.node = None ->
                   [dev EXCEPT !.node = c.node, !.addr = c.addr, !.stage = "open"]
              [] c.op = "oob_use" /\ dev.stage = "caps" -> [dev EXCEPT !.stage = "oob"]
              [] c.op = "ecdh_secret" /\ dev.stage = "ecdh" ->
                   [dev EXCEPT !.stage = "keyed"]
              [] OTHER -> dev
    BY <1>2 DEF DeviceCommand
  <2> HIDE DEF c
  <2>4. CASE c.op = "provision"
    BY <1>0, <2>2, <2>3, <2>4, ProvisioningAssumption DEF Stages
  <2>5. CASE c.op # "provision"
    BY <1>0, <2>3, <2>5 DEF Stages
  <2> QED
    BY <2>4, <2>5
<1>3. CASE LinkAsks
  BY <1>0, <1>3 DEF LinkAsks, Stages
<1>4. CASE LinkCompletes
  BY <1>0, <1>4 DEF LinkCompletes, Stages
<1>5. CASE LinkCloses
  BY <1>0, <1>5 DEF LinkCloses, Off, Stages
<1>6. CASE Restart
  BY <1>1, <1>6 DEF Restart
<1> QED
  BY <1>0, <1>2, <1>3, <1>4, <1>5, <1>6, Frame

\* What the event thread has in hand.
EventPlaces ==
  /\ pc["ev"] \in {"found", "provision"} => current.type = "unprov"
  /\ pc["ev"] = "reset" => current.type = "reset"
  /\ pc["ev"] \in {"end"} \union EndPlaces => current.type = "closed"
  /\ pc["ev"] \in StopPlaces => current.type \in {"closed", "timeout"}
  /\ pc["ev"] = "unhook_timeout" => current.type = "timeout"
  /\ pc["ev"] = "complete" => current.type = "complete"
  /\ pc["ev"] = "answer" => current.type \in {"caps", "ecdh"}

LEMMA EventIdle ==
  ASSUME PlacesOK, ~Idle("ev"), [Next]_vars
  PROVE  \/ pc'["ev"] = pc["ev"] /\ current' = current
         \/ EventThread /\ ~Dispatch
         \/ StopScan("ev") \/ SendScanStart("ev")
<1> USE DEF PlacesOK, Goto, Idle, Return
<1>1. CASE Application
  BY <1>1 DEF Application, StartScan, StartCheck, StartTimer, HookTimeout, Hook,
     CallStop
<1>2. CASE StopScan("api") \/ SendScanStart("api")
  BY <1>2 DEF StopScan, StopCheck, StopUnset, SendScanStop, Unhook, SendScanStart
<1>3. CASE RxThread
  BY <1>3 DEF RxThread, RxLook, RxCompare, RxAccept, RxDone
<1>4. CASE ScanTimeout \/ Device \/ Mesh
  BY <1>4 DEF ScanTimeout, Device, Mesh, DeviceCommand, LinkAsks, LinkCompletes,
     LinkCloses, Restart, Beacon, LeaveMesh, NodeSends, LatePacket
<1>5. CASE UNCHANGED vars
  BY <1>5 DEF vars
<1>6. ~Dispatch
  BY DEF Dispatch
<1> QED
  BY <1>1, <1>2, <1>3, <1>4, <1>5, <1>6 DEF Next

\* The event thread is woken by an event only.
LEMMA EventWakes ==
  ASSUME PlacesOK, Idle("ev"), [Next]_vars
  PROVE  Dispatch \/ (pc'["ev"] = "idle" /\ current' = current)
<1> USE DEF PlacesOK, Goto, Idle, Return
<1>1. CASE Application
  BY <1>1 DEF Application, StartScan, StartCheck, StartTimer, HookTimeout, Hook,
     CallStop
<1>2. ASSUME NEW t \in Turns, StopScan(t) \/ SendScanStart(t)
      PROVE  pc'["ev"] = "idle" /\ current' = current
  BY <1>2 DEF StopScan, StopCheck, StopUnset, SendScanStop, Unhook, SendScanStart, Turns
<1>3. CASE RxThread
  BY <1>3 DEF RxThread, RxLook, RxCompare, RxAccept, RxDone
<1>4. CASE ScanTimeout \/ Device \/ Mesh
  BY <1>4 DEF ScanTimeout, Device, Mesh, DeviceCommand, LinkAsks, LinkCompletes,
     LinkCloses, Restart, Beacon, LeaveMesh, NodeSends, LatePacket
<1>5. CASE EventThread
  BY <1>5 DEF EventThread, Found, BeginProvision, Answer, ProvComplete, ProvEnd,
     OnlyOne, Resume, ForgetNode, UnhookTimeout, NodeIsReset, ResetExpires
<1>6. CASE UNCHANGED vars
  BY <1>6 DEF vars
<1> QED
  BY <1>1, <1>2, <1>3, <1>4, <1>5, <1>6 DEF Next, Turns

LEMMA EventPlacesStep ==
  ASSUME Typed, [Next]_vars
  PROVE  EventPlaces'
<1>0. PlacesOK /\ EventPlaces /\ events \in Seq(Known)
  BY DEF Typed, TypeOK, Shape, Threads, PlacesOK, EventPlaces
<1> USE DEF PlacesOK, EventPlaces, Goto, Return, Idle, EndPlaces, StopPlaces
<1>1. CASE Dispatch
  <2>1. Head(events).type \in Kinds
    BY <1>0, <1>1, FirstEvent DEF Dispatch, Known, Events
  <2> QED
    BY <1>0, <1>1, <2>1 DEF Dispatch, Places, Kinds
<1>2. CASE StopScan("ev") \/ SendScanStart("ev")
  BY <1>0, <1>2 DEF StopScan, StopCheck, StopUnset, SendScanStop, Unhook, SendScanStart,
     AfterStop
<1>3. CASE EventThread /\ ~Dispatch
  BY <1>0, <1>3 DEF EventThread, Found, BeginProvision, Answer, ProvComplete, ProvEnd,
     OnlyOne, Resume, ForgetNode, UnhookTimeout, NodeIsReset, ResetExpires
<1>4. CASE pc'["ev"] = pc["ev"] /\ current' = current
  BY <1>0, <1>4
<1> QED
  BY <1>0, <1>1, <1>2, <1>3, <1>4, EventIdle, EventWakes

LEMMA ApiMoves ==
  ASSUME PlacesOK, [Next]_vars
  PROVE  pc'["api"] = pc["api"] \/ Application \/ StopScan("api") \/ SendScanStart("api")
<1> USE DEF PlacesOK, Goto, Return
<1>1. CASE StopScan("ev") \/ SendScanStart("ev")
  BY <1>1 DEF StopScan, StopCheck, StopUnset, SendScanStop, Unhook, SendScanStart
<1>2. CASE RxThread
  BY <1>2 DEF RxThread, RxLook, RxCompare, RxAccept, RxDone
<1>3. CASE ScanTimeout \/ Device \/ Mesh
  BY <1>3 DEF ScanTimeout, Device, Mesh, DeviceCommand, LinkAsks, LinkCompletes,
     LinkCloses, Restart, Beacon, LeaveMesh, NodeSends, LatePacket
<1>4. CASE EventThread
  BY <1>4 DEF EventThread, Dispatch, Found, BeginProvision, Answer, ProvComplete,
     ProvEnd, OnlyOne, Resume, ForgetNode, UnhookTimeout, NodeIsReset, ResetExpires
<1>5. CASE UNCHANGED vars
  BY <1>5 DEF vars
<1> QED
  BY <1>1, <1>2, <1>3, <1>4, <1>5 DEF Next

LEMMA RxMoves ==
  ASSUME PlacesOK, [Next]_vars
  PROVE  pc'["rx"] = pc["rx"] \/ RxThread
<1> USE DEF PlacesOK, Goto, Return
<1>1. CASE Application
  BY <1>1 DEF Application, StartScan, StartCheck, StartTimer, HookTimeout, Hook,
     CallStop
<1>2. ASSUME NEW t \in Turns, StopScan(t) \/ SendScanStart(t)
      PROVE  pc'["rx"] = pc["rx"]
  BY <1>2 DEF StopScan, StopCheck, StopUnset, SendScanStop, Unhook, SendScanStart, Turns
<1>3. CASE ScanTimeout \/ Device \/ Mesh
  BY <1>3 DEF ScanTimeout, Device, Mesh, DeviceCommand, LinkAsks, LinkCompletes,
     LinkCloses, Restart, Beacon, LeaveMesh, NodeSends, LatePacket
<1>4. CASE EventThread
  BY <1>4 DEF EventThread, Dispatch, Found, BeginProvision, Answer, ProvComplete,
     ProvEnd, OnlyOne, Resume, ForgetNode, UnhookTimeout, NodeIsReset, ResetExpires
<1>5. CASE UNCHANGED vars
  BY <1>5 DEF vars
<1> QED
  BY <1>1, <1>2, <1>3, <1>4, <1>5 DEF Next, Turns

LEMMA ThreadsStep ==
  ASSUME Typed, [Next]_vars
  PROVE  Threads'
<1>0. /\ PlacesOK /\ EventPlaces /\ events \in Seq(Known) /\ Threads
      /\ timers \in 0..MaxTimers /\ MaxTimers \in Nat
      /\ asked \in [timeout : BOOLEAN, filter : SUBSET Nodes]
  BY ProvisioningAssumption
     DEF Typed, TypeOK, Shape, Threads, PlacesOK, EventPlaces
<1> USE DEF PlacesOK, Goto, Idle
<1>1. pc'["api"] = "timer" \/ (pc'["api"] = "start" /\ asked'.timeout)
        => timers' < MaxTimers
  <2>1. CASE Asks
    <3>1. PICK timeout \in BOOLEAN, one \in BOOLEAN, f \in Filters :
                 StartScan(timeout, one, f)
      BY <2>1 DEF Asks
    <3>2. Fired \in Nat
      <4>1. IsFiniteSet({i \in DOMAIN events : events[i].type = "timeout"})
        <5>1. DOMAIN events = 1..Len(events) /\ Len(events) \in Nat
          BY <1>0
        <5>2. IsFiniteSet(1..Len(events))
          BY <5>1, FS_Interval
        <5> QED
          BY <5>1, <5>2, FS_Subset
      <4> QED
        BY <4>1, FS_CardinalityType DEF Fired
    <3>3. asked' = [timeout |-> timeout, filter |-> f] /\ timers' = timers
          /\ pc'["api"] = "start"
      BY <1>0, <3>1 DEF StartScan
    <3>4. timeout => timers + Fired < MaxTimers
      BY <3>1 DEF StartScan
    <3> QED
      BY <1>0, <3>2, <3>3, <3>4
  <2>2. CASE StartCheck
    BY <1>0, <2>2 DEF StartCheck, Threads
  <2>3. CASE Application /\ ~Asks /\ ~StartCheck
    BY <1>0, <2>3 DEF Application, Asks, StartTimer, HookTimeout, Hook, CallStop
  <2>4. CASE StopScan("api") \/ SendScanStart("api")
    BY <1>0, <2>4 DEF StopScan, StopCheck, StopUnset, SendScanStop, Unhook,
       SendScanStart, AfterStop
  <2>5. CASE ScanTimeout
    BY <1>0, <2>5 DEF ScanTimeout, Threads
  <2>6. CASE pc'["api"] = pc["api"] /\ asked' = asked /\ timers' = timers
    BY <1>0, <2>6 DEF Threads
  <2>7. StartTimer => Application /\ ~Asks /\ ~StartCheck
    BY DEF StartTimer, Application, Asks, StartScan, StartCheck
  <2>8. Asks \/ StartCheck \/ ScanTimeout \/ Application
          \/ StopScan("api") \/ SendScanStart("api")
          \/ (pc'["api"] = pc["api"] /\ asked' = asked /\ timers' = timers)
    BY <1>0, <2>7, Frame, ApiMoves
  <2> QED
    BY <2>1, <2>2, <2>3, <2>4, <2>5, <2>6, <2>8
<1>2. pc'["rx"] \in {"compare", "accept"} => packet' # None
  <2>1. CASE RxThread
    BY <1>0, <2>1 DEF RxThread, RxLook, RxCompare, RxAccept, RxDone, Threads
  <2>2. CASE Sends \/ Late
    BY <1>0, <2>2, RxMoves
       DEF Sends, Late, NodeSends, LatePacket, PacketArrives, RxThread, RxLook, RxCompare,
           RxAccept, RxDone
  <2>3. CASE pc'["rx"] = pc["rx"] /\ packet' = packet
    BY <1>0, <2>3 DEF Threads
  <2>4. RxCompare \/ RxAccept => RxThread
    BY DEF RxThread
  <2> QED
    BY <1>0, <2>1, <2>2, <2>3, <2>4, Frame, RxMoves
<1> QED
  BY <1>1, <1>2, EventPlacesStep DEF Threads, EventPlaces

LEMMA LinkOwnedStep ==
  ASSUME Typed, [Next]_vars
  PROVE  LinkOwned'
<1>0. /\ PlacesOK /\ EventPlaces /\ LinkOwned /\ events \in Seq(Known)
      /\ inHand \in [node : Nodes, addr : Addrs] \union {None}
  BY DEF Typed, TypeOK, Shape, Threads, PlacesOK, EventPlaces
<1> USE DEF PlacesOK, LinkOwned, Closing, EndPlaces, StopPlaces, Goto, Return, Idle
<1>1. "prov_handler" \in handlers => inHand # None
  BY <1>0
\* The handler comes and goes in two steps of the event thread.
<1>2. BeginProvision \/ ProvEnd \/ ("prov_handler" \in handlers' <=> "prov_handler" \in handlers)
  BY <1>0, Frame DEF HookTimeout, Hook, UnhookTimeout, Unhook, AddHandler
<1>3. CASE BeginProvision
  <2>1. pc'["ev"] = "idle"
    BY <1>0, <1>3 DEF BeginProvision
  <2>2. CASE UNCHANGED <<inHand, handlers>>
    BY <1>1, <2>1, <2>2
  <2>3. CASE \E a \in ObtainUnicastAddr : inHand' = [node |-> current.node, addr |-> a]
    <3>1. current.node \in Nodes
      BY <1>0, <1>3 DEF BeginProvision, EventPlaces, Known, Typed, Shape
    <3> QED
      BY <2>1, <2>3, <3>1, FreeAddr, RecordsNotNone
  <2> QED
    BY <1>3, <2>2, <2>3 DEF BeginProvision
<1>4. CASE ProvEnd
  BY <1>0, <1>4 DEF ProvEnd
<1>5. CASE ForgetNode
  BY <1>0, <1>2, <1>5 DEF ForgetNode
<1>6. CASE Dispatch
  <2>1. pc'["ev"] \in {"found", "stop", "end", "complete", "reset", "answer", "idle"}
    BY <1>0, <1>6 DEF Dispatch, Places
  <2>2. pc'["ev"] = "stop" => current'.type = "timeout"
    BY <1>0, <1>6 DEF Dispatch, Places
  <2>3. pc'["ev"] \in {"end", "complete"} => "prov_handler" \in handlers
    BY <1>0, <1>6 DEF Dispatch, Places, Handler
  <2>4. inHand' = inHand /\ handlers' = handlers
    BY <1>6 DEF Dispatch, store
  <2> QED
    BY <1>0, <2>1, <2>2, <2>3, <2>4
<1>7. CASE (StopScan("ev") \/ SendScanStart("ev")) /\ ~BeginProvision /\ ~ProvEnd
  <2>1. inHand' = inHand
    BY <1>7 DEF StopScan, StopCheck, StopUnset, SendScanStop, Unhook, SendScanStart, store
  <2> QED
    BY <1>0, <1>2, <1>7, <2>1 DEF StopScan, StopCheck, StopUnset, SendScanStop, Unhook,
       SendScanStart, AfterStop
<1>8. CASE /\ EventThread /\ ~Dispatch /\ ~BeginProvision /\ ~ProvEnd /\ ~ForgetNode
  <2>1. inHand' = inHand
    BY <1>8, Frame
  <2> QED
    BY <1>0, <1>2, <1>8, <2>1 DEF EventThread, Found, Answer, ProvComplete, OnlyOne,
       Resume, UnhookTimeout, NodeIsReset, ResetExpires, EventPlaces
<1>9. CASE /\ pc'["ev"] = pc["ev"] /\ current' = current
           /\ ~BeginProvision /\ ~ProvEnd /\ ~ForgetNode
  BY <1>0, <1>2, <1>9, Frame
<1> QED
  BY <1>0, <1>3, <1>4, <1>5, <1>6, <1>7, <1>8, <1>9, EventIdle, EventWakes

LEMMA TypedStep ==
  ASSUME Typed, [Next]_vars
  PROVE  Typed'
<1>1. TypeOK'
  <2>1. mesh' \in [Nodes -> Membership]
    BY MeshStep
  <2>2. current' \in Events /\ events' \in Seq(Events)
    BY EventsStep, KnownEvents
  <2>3. pc'["ev"] = "complete" => inHand' # None
    BY LinkOwnedStep DEF LinkOwned
  <2>4. dev'.scan \in BOOLEAN /\ dev'.stage \in Stages
    BY DevStep
  <2> QED
    BY <2>1, <2>2, <2>3, <2>4, PlacesStep, FlagsStep, StoreStep, HandlersStep, BoundsStep,
       PacketStep
       DEF TypeOK, PlacesOK, Membership, Stages
<1>2. Shape'
  BY PlacesStep, OrdersStep, EventsStep, MeshStep, DevStep DEF Shape, PlacesOK
<1> QED
  BY <1>1, <1>2, ThreadsStep, LinkOwnedStep DEF Typed

LEMMA TypedInit ==
  ASSUME Init
  PROVE  Typed
<1> USE ProvisioningAssumption DEF Init
<1>1. TypeOK
  <2>1. pc["ev"] = "idle" /\ pc["api"] = "idle" /\ pc["rx"] = "idle"
    OBVIOUS
  <2>2. NoEvent \in Events
    BY DEF NoEvent, Event, Events, Kinds
  <2>3. events \in Seq(Events)
    BY EmptySeq
  <2>4. NotAsked \in [timeout : BOOLEAN, filter : SUBSET Nodes]
    BY DEF NotAsked
  <2>5. Unprovisioned \in [member : BOOLEAN, addr : Addrs \union {None}, key : {0, 1},
                           seq : 0..MaxSeq]
    BY DEF Unprovisioned
  <2>6. Off.scan \in BOOLEAN /\ Off.stage = "none"
    BY DEF Off
  <2>7. /\ inHand = None
        /\ db \in [Nodes -> [addr : Addrs, key : {0, 1}] \union {None}]
        /\ cache \in [Addrs -> 0..MaxSeq \union {None}]
        /\ mesh \in [Nodes -> [member : BOOLEAN, addr : Addrs \union {None}, key : {0, 1},
                               seq : 0..MaxSeq]]
    BY <2>5
  <2>8. /\ {scanning, onlyOne, provisioning, timed, early, crossed, exhausted, strays}
             \subseteq BOOLEAN
        /\ filter \subseteq Nodes
    OBVIOUS
  <2>9. timers \in 0..MaxTimers /\ restarts \in 0..MaxRestarts
    OBVIOUS
  <2> QED
    BY <2>1, <2>2, <2>3, <2>4, <2>6, <2>7, <2>8, <2>9 DEF TypeOK, ApiPlaces, EvPlaces
<1>2. Shape
  BY DEF Shape, ApiPlaces, EvPlaces, NoEvent, Event, Known, Events, Kinds, Off,
     Unprovisioned, Stages
<1>3. Threads /\ LinkOwned
  BY DEF Threads, LinkOwned, Closing, EndPlaces, StopPlaces
<1> QED
  BY <1>1, <1>2, <1>3 DEF Typed

\* Every variable keeps its type and every thread its place; a handler of the link,
\* prov_complete above all, has a node in hand.
THEOREM TypeCorrect == Spec => []TypeOK
<1>1. Init => Typed
  BY TypedInit
<1>2. Typed /\ [Next]_vars => Typed'
  BY TypedStep
<1>3. Typed => TypeOK
  BY DEF Typed
<1> QED
  BY <1>1, <1>2, <1>3, PTL DEF Spec

-----------------------------------------------------------------------------
(* No address is given twice. *)

LEMMA StoreTypes ==
  ASSUME Typed
  PROVE  /\ inHand \in [node : Nodes, addr : Addrs] \union {None}
         /\ db \in [Nodes -> [addr : Addrs, key : {0, 1}] \union {None}]
         /\ cache \in [Addrs -> 0..MaxSeq \union {None}]
         /\ packet \in [addr : Addrs, seq : 0..MaxSeq] \union {None}
         /\ mesh \in [Nodes -> Membership]
         /\ \A n \in Nodes : mesh[n].member => mesh[n].addr \in Addrs
         /\ current \in Known /\ events \in Seq(Known) /\ toDevice \in Seq(Orders)
         /\ PlacesOK /\ EventPlaces
         /\ pc["ev"] \in {"found", "provision", "reset"} => current.node \in Nodes
         /\ pc["ev"] = "complete" => inHand # None
BY DEF Typed, TypeOK, Shape, Threads, PlacesOK, EventPlaces, Known, Membership

LEMMA AddressesStep ==
  ASSUME Typed, AddressesDistinct, [Next]_vars
  PROVE  AddressesDistinct'
<1> USE DEF AddressesDistinct
\* A step that at most removes a node from the database.
<1>1. ASSUME NEW n \in Nodes, db' = [db EXCEPT ![n] = None], inHand' = inHand
      PROVE  AddressesDistinct'
  BY <1>1, StoreTypes
<1>2. CASE Found \/ NodeIsReset \/ Expires
  BY <1>1, <1>2, StoreTypes DEF Found, NodeIsReset, Expires, ResetExpires
\* The node in hand is stored under its address, which no other node has.
<1>3. CASE ProvComplete
  <2> DEFINE x == [addr |-> inHand.addr, key |-> current.key]
  <2>1. /\ inHand # None /\ inHand.node \in Nodes /\ inHand' = inHand
        /\ db' = [db EXCEPT ![inHand.node] = x]
    BY <1>3, StoreTypes DEF ProvComplete
  <2>2. x.addr = inHand.addr
    OBVIOUS
  <2> HIDE DEF x
  <2> QED
    BY <2>1, <2>2, StoreTypes
\* The address taken for a node is free.
<1>4. CASE BeginProvision
  <2>1. db' = db
    BY <1>4 DEF BeginProvision
  <2>2. CASE inHand' = inHand
    BY <2>1, <2>2
  <2>3. CASE \E a \in ObtainUnicastAddr : inHand' = [node |-> current.node, addr |-> a]
    <3>1. PICK a \in ObtainUnicastAddr : inHand' = [node |-> current.node, addr |-> a]
      BY <2>3
    <3>2. \A n \in Nodes : db[n] # None => db[n].addr # a
      BY <3>1, FreeAddr DEF UsedAddr
    <3> QED
      BY <2>1, <3>1, <3>2
  <2> QED
    BY <1>4, <2>2, <2>3 DEF BeginProvision
<1>5. CASE ForgetNode
  BY <1>5 DEF ForgetNode
<1>6. CASE UNCHANGED <<db, inHand>>
  BY <1>6
<1>7. ForgetNode \/ BeginProvision => db' = db
  BY DEF ForgetNode, BeginProvision
<1>8. Found \/ NodeIsReset \/ Expires \/ ProvComplete => inHand' = inHand
  BY DEF Found, NodeIsReset, Expires, ResetExpires, ProvComplete, store
<1> QED
  BY <1>2, <1>3, <1>4, <1>5, <1>6, <1>7, <1>8, Frame

\* No address is given twice, whatever restarts, lost links and resets that expire
\* leave behind: obtain_unicast_addr and the prov_handler that outlives its link.
THEOREM AddressesStayDistinct == Spec => []AddressesDistinct
<1>1. Init => Typed /\ AddressesDistinct
  BY TypedInit DEF Init, AddressesDistinct
<1>2. Typed /\ AddressesDistinct /\ [Next]_vars => (Typed /\ AddressesDistinct)'
  BY TypedStep, AddressesStep
<1> QED
  BY <1>1, <1>2, PTL DEF Spec

-----------------------------------------------------------------------------
(* One link at a time, for the node in hand. *)

LEMMA AfterAppend ==
  ASSUME NEW S, NEW s \in Seq(S), NEW e \in S
  PROVE  /\ \A i \in DOMAIN Append(s, e) :
              \/ i \in DOMAIN s /\ i < Len(s) + 1 /\ Append(s, e)[i] = s[i]
              \/ i = Len(s) + 1 /\ Append(s, e)[i] = e
         /\ \A i \in DOMAIN s : i \in DOMAIN Append(s, e) /\ Append(s, e)[i] = s[i]
         /\ Len(s) + 1 \in DOMAIN Append(s, e)
OBVIOUS

LEMMA AfterTail ==
  ASSUME NEW S, NEW s \in Seq(S), s # <<>>
  PROVE  /\ \A i \in DOMAIN Tail(s) : i + 1 \in DOMAIN s /\ Tail(s)[i] = s[i + 1]
         /\ \A i \in DOMAIN s : i = 1 \/ (i - 1 \in DOMAIN Tail(s) /\ Tail(s)[i - 1] = s[i])
         /\ 1 \in DOMAIN s /\ Head(s) = s[1]
OBVIOUS

\* No order to provision, or event of a link, but those from before, k places ahead.
OrdersWithin(k) ==
  \A i \in DOMAIN toDevice' : toDevice'[i].op = "provision" =>
    i + k \in DOMAIN toDevice /\ toDevice'[i] = toDevice[i + k]
EventsWithin(k) ==
  \A i \in DOMAIN events' : events'[i].type \in LinkTypes =>
    i + k \in DOMAIN events /\ events'[i] = events[i + k]

LEMMA Within ==
  ASSUME Typed
  PROVE  /\ \A i \in DOMAIN toDevice : i \in Int
         /\ \A i \in DOMAIN events : i \in Int
         /\ toDevice' = toDevice => OrdersWithin(0)
         /\ events' = events => EventsWithin(0)
         /\ \A op \in Commands : toDevice' = Append(toDevice, Cmd(op)) => OrdersWithin(0)
         /\ \A e \in Known : e.type \notin LinkTypes /\ events' = Append(events, e)
              => EventsWithin(0)
         /\ toDevice # <<>> /\ toDevice' = Tail(toDevice) => OrdersWithin(1)
         /\ events # <<>> /\ events' = Tail(events) => EventsWithin(1)
         /\ toDevice' = <<>> => OrdersWithin(0)
<1>0. toDevice \in Seq(Orders) /\ events \in Seq(Known)
  BY StoreTypes
<1>1. \A i \in DOMAIN toDevice : i \in Int /\ i + 0 = i
  BY <1>0
<1>2. \A i \in DOMAIN events : i \in Int /\ i + 0 = i
  BY <1>0
<1>3. ASSUME NEW op \in Commands, toDevice' = Append(toDevice, Cmd(op))
      PROVE  OrdersWithin(0)
  <2>1. Cmd(op) \in Orders /\ Cmd(op).op # "provision"
    BY DEF Orders, Cmd, Commands
  <2> QED
    BY <1>0, <1>1, <1>3, <2>1, AfterAppend DEF OrdersWithin
<1>4. ASSUME NEW e \in Known, e.type \notin LinkTypes, events' = Append(events, e)
      PROVE  EventsWithin(0)
  BY <1>0, <1>2, <1>4, AfterAppend DEF EventsWithin
<1>5. toDevice # <<>> /\ toDevice' = Tail(toDevice) => OrdersWithin(1)
  BY <1>0, AfterTail DEF OrdersWithin
<1>6. events # <<>> /\ events' = Tail(events) => EventsWithin(1)
  BY <1>0, AfterTail DEF EventsWithin
<1>7. toDevice' = toDevice => OrdersWithin(0)
  BY <1>1 DEF OrdersWithin
<1>8. events' = events => EventsWithin(0)
  BY <1>2 DEF EventsWithin
<1>9. toDevice' = <<>> => OrdersWithin(0)
  BY DEF OrdersWithin
<1> QED
  BY <1>1, <1>2, <1>3, <1>4, <1>5, <1>6, <1>7, <1>8, <1>9

\* A step that is none of the link's, or ends a part of it.
LEMMA QuietSession ==
  ASSUME Typed, Session, [Next]_vars,
         NEW k \in {0, 1}, OrdersWithin(k), NEW l \in {0, 1}, EventsWithin(l),
         Open' => dev'.node = dev.node /\ dev'.addr = dev.addr,
         inHand' = inHand, provisioning' = provisioning,
         "prov_handler" \in handlers => "prov_handler" \in handlers',
         Taken' => Taken, pc'["ev"] = "end" => pc["ev"] = "end",
         Closing' => Closing,
         pc'["ev"] = "provision" => pc["ev"] = "provision" \/ ~provisioning
  PROVE  Session'
<1>1. Asked' => Asked
  BY DEF Asked, OrdersWithin
<1>2. Reported' => Reported
  BY DEF Reported, EventsWithin
<1>3. Open' => Open
  BY DEF Open
<1>4. \A i \in DOMAIN toDevice' : toDevice'[i].op = "provision" =>
        i + k \in DOMAIN toDevice /\ toDevice'[i] = toDevice[i + k]
  BY DEF OrdersWithin
<1>5. \A i \in DOMAIN events' : events'[i].type \in LinkTypes =>
        i + l \in DOMAIN events /\ events'[i] = events[i + l]
  BY DEF EventsWithin
<1>6. /\ \A i \in DOMAIN toDevice' : i \in Int
      /\ \A i \in DOMAIN events' : i \in Int
  BY TypedStep, StoreTypes DEF Typed, Shape
<1>7. \A i, j \in DOMAIN toDevice' :
        toDevice'[i].op = "provision" /\ toDevice'[j].op = "provision" => i = j
  BY <1>4, <1>6 DEF Session
<1>8. \A i, j \in DOMAIN events' :
        events'[i].type = "closed" /\ events'[j].type \in LinkTypes => j <= i
  BY <1>5, <1>6 DEF Session, LinkTypes
<1>9. \A i \in DOMAIN events' : events'[i].type = "closed" => ~Open'
  BY <1>3, <1>5 DEF Session, LinkTypes
<1>10. \A i \in DOMAIN toDevice' : toDevice'[i].op = "provision" =>
         toDevice'[i].node = inHand.node /\ toDevice'[i].addr = inHand.addr
  BY <1>4 DEF Session
<1> QED
  BY <1>1, <1>2, <1>3, <1>7, <1>8, <1>9, <1>10 DEF Session

\* The event thread is elsewhere.
LEMMA SessionElsewhere ==
  ASSUME Typed, Session, [Next]_vars, pc'["ev"] = pc["ev"], current' = current,
         OrdersWithin(0), EventsWithin(0),
         Open' => dev'.node = dev.node /\ dev'.addr = dev.addr,
         ~BeginProvision, ~ProvEnd, ~ForgetNode
  PROVE  Session'
<1>1. inHand' = inHand /\ provisioning' = provisioning
  BY Frame
<1>2. "prov_handler" \in handlers => "prov_handler" \in handlers'
  BY Frame DEF HookTimeout, Hook, UnhookTimeout, Unhook, AddHandler
<1> QED
  BY <1>1, <1>2, QuietSession DEF Taken, Closing

LEMMA SessionOthers ==
  ASSUME Typed, Session, [Next]_vars, pc'["ev"] = pc["ev"], current' = current,
         ~EventThread \/ Expires,
         ~DeviceCommand, ~LinkAsks, ~LinkCompletes, ~LinkCloses
  PROVE  Session'
<1>1. ~BeginProvision /\ ~ProvEnd /\ ~ForgetNode /\ ~Dispatch /\ ~Found /\ ~Answer
  <2>1. CASE Expires
    <3>1. Idle("ev") /\ events' = events
      BY <2>1 DEF Expires, ResetExpires, channels
    <3>2. ~Dispatch
      BY <3>1, StoreTypes DEF Dispatch
    <3> QED
      BY <3>1, <3>2 DEF Idle, BeginProvision, ProvEnd, ForgetNode, Found, Answer
  <2>2. CASE ~EventThread
    BY <2>2 DEF EventThread
  <2> QED
    BY <2>1, <2>2
<1>2. OrdersWithin(0)
  <2>1. CASE \E t \in Turns : SendScanStart(t) \/ SendScanStop(t)
    BY <2>1, Within DEF SendScanStart, SendScanStop, Put, Commands
  <2>2. CASE Restart
    BY <2>2, Within DEF Restart
  <2> QED
    BY <1>1, <2>1, <2>2, Within, Frame
<1>3. EventsWithin(0)
  <2> USE KnownEvents DEF LinkTypes, Kinds
  <2>1. CASE ScanTimeout
    <3>1. Event("timeout", None) \in Known /\ Event("timeout", None).type \notin LinkTypes
      BY DEF Event
    <3> QED
      BY <2>1, <3>1, Within DEF ScanTimeout
  <2>2. ASSUME NEW n \in Nodes, Beacon(n) \/ LeaveMesh(n)
        PROVE  EventsWithin(0)
    <3>1. \A type \in {"unprov", "reset"} :
            Event(type, n) \in Known /\ Event(type, n).type \notin LinkTypes
      BY DEF Event
    <3>2. events' = events \/ \E type \in {"unprov", "reset"} :
            events' = Append(events, Event(type, n))
      BY <2>2 DEF Beacon, LeaveMesh, Arrives
    <3> QED
      BY <3>1, <3>2, Within
  <2> QED
    BY <1>1, <2>1, <2>2, Within, Frame DEF Beacons, Leaves
<1>4. Open' => dev'.node = dev.node /\ dev'.addr = dev.addr
  BY Frame DEF Open, Restart, Off
<1> QED
  BY <1>1, <1>2, <1>3, <1>4, SessionElsewhere

LEMMA SessionDeviceCommand ==
  ASSUME Typed, Session, [Next]_vars, DeviceCommand
  PROVE  Session'
<1> DEFINE c == Head(toDevice)
<1>1. /\ toDevice # <<>> /\ toDevice' = Tail(toDevice) /\ events' = events
      /\ UNCHANGED <<pc, current, inHand, provisioning, handlers>>
  BY DEF DeviceCommand, scan, manager, store
<1>2. OrdersWithin(1) /\ EventsWithin(0)
  BY <1>1, Within
<1>3. /\ 1 \in DOMAIN toDevice /\ c = toDevice[1]
      /\ \A i \in DOMAIN toDevice' : i \in Int /\ i >= 1
  BY <1>1, StoreTypes, TypedStep DEF Typed, Shape
<1>4. CASE c.op = "provision" /\ dev.node = None
  <2>1. dev'.node = c.node /\ dev'.addr = c.addr
    <3>1. dev' = [dev EXCEPT !.node = c.node, !.addr = c.addr, !.stage = "open"]
      BY <1>4 DEF DeviceCommand
    <3>2. dev \in [scan : BOOLEAN, node : Nodes \union {None},
                   addr : Addrs \union {None}, stage : Stages]
      BY DEF Typed, Shape
    <3> QED
      BY <3>1, <3>2
  <2>2. ~Asked'
    BY <1>2, <1>3, <1>4 DEF Asked, OrdersWithin, Session
  <2>3. Asked /\ ~Reported /\ ~Taken
    BY <1>3, <1>4 DEF Asked, Session
  <2>4. ~Reported' /\ ~Taken' /\ pc'["ev"] # "end" /\ (Closing' <=> Closing)
    BY <1>1, <2>3 DEF Reported, Taken, Closing
  <2>5. \A i \in DOMAIN events' : events'[i].type # "closed"
    BY <2>4 DEF Reported, LinkTypes
  <2>6. \A i \in DOMAIN toDevice' : toDevice'[i].op # "provision"
    BY <2>2 DEF Asked
  <2> QED
    BY <1>1, <1>3, <1>4, <2>1, <2>2, <2>3, <2>4, <2>5, <2>6 DEF Session
<1>5. CASE ~(c.op = "provision" /\ dev.node = None)
  <2>1. dev'.node = dev.node /\ dev'.addr = dev.addr
    <3>1. dev \in [scan : BOOLEAN, node : Nodes \union {None},
                   addr : Addrs \union {None}, stage : Stages]
      BY DEF Typed, Shape
    <3> QED
      BY <1>5, <3>1 DEF DeviceCommand
  <2> QED
    BY <1>1, <1>2, <2>1, QuietSession DEF Taken, Closing
<1> QED
  BY <1>4, <1>5

LEMMA SessionLinkEvent ==
  ASSUME Typed, Session, [Next]_vars, LinkAsks \/ LinkCompletes
  PROVE  Session'
<1>1. Open /\ ~Asked /\ toDevice' = toDevice /\ dev'.node = dev.node /\ dev'.addr = dev.addr
      /\ UNCHANGED <<pc, current, inHand, provisioning, handlers>>
  <2>1. dev \in [scan : BOOLEAN, node : Nodes \union {None},
                 addr : Addrs \union {None}, stage : Stages]
        /\ (dev.node # None <=> dev.stage # "none")
    BY DEF Typed, Shape
  <2>2. Open
    BY <2>1 DEF LinkAsks, LinkCompletes, Open
  <2> QED
    BY <2>1, <2>2 DEF LinkAsks, LinkCompletes, scan, manager, store, Session
<1>2. events' = events \/ \E e \in Known : e.type # "closed" /\ events' = Append(events, e)
  <2>1. CASE LinkAsks
    BY <2>1, KnownEvents DEF LinkAsks, Arrives, Event, Kinds
  <2>2. CASE LinkCompletes
    <3>1. PICK k \in {0, 1} : Arrives([Event("complete", None) EXCEPT !.key = k])
      <4>1. 1 - mesh[dev.node].key \in {0, 1}
        BY <1>1, StoreTypes DEF Open, Membership, Typed, Shape
      <4> QED
        BY <2>2, <4>1 DEF LinkCompletes
    <3>2. [Event("complete", None) EXCEPT !.key = k].type = "complete"
      BY DEF Event
    <3> QED
      BY <3>1, <3>2, KnownEvents DEF Arrives
  <2> QED
    BY <2>1, <2>2
<1>3. \A i \in DOMAIN events' : events'[i].type # "closed"
  BY <1>1, <1>2, AfterAppend, StoreTypes DEF Session
<1>4. ~Asked' /\ Open' /\ Taken' = Taken /\ Closing' = Closing
  BY <1>1 DEF Asked, Open, Taken, Closing
<1>5. provisioning /\ "prov_handler" \in handlers /\ pc["ev"] # "end"
  BY <1>1 DEF Session
<1>6. \A i \in DOMAIN toDevice' : toDevice'[i].op # "provision"
  BY <1>4 DEF Asked
<1> QED
  BY <1>1, <1>3, <1>4, <1>5, <1>6 DEF Session

LEMMA SessionLinkCloses ==
  ASSUME Typed, Session, [Next]_vars, LinkCloses
  PROVE  Session'
<1>1. Open /\ ~Asked /\ toDevice' = toDevice /\ ~Open'
      /\ UNCHANGED <<pc, current, inHand, provisioning, handlers>>
  BY DEF LinkCloses, scan, manager, store, Session, Open, Off
<1>2. ~Asked' /\ Taken' = Taken /\ Closing' = Closing
  BY <1>1 DEF Asked, Taken, Closing
<1>3. provisioning /\ "prov_handler" \in handlers /\ pc["ev"] # "end"
  BY <1>1 DEF Session
<1>4. \A i, j \in DOMAIN events' :
        events'[i].type = "closed" /\ events'[j].type \in LinkTypes => j <= i
  <2>1. Event("closed", None) \in Known
    BY KnownEvents DEF Kinds
  <2>2. events' = events \/ events' = Append(events, Event("closed", None))
    BY DEF LinkCloses, Arrives
  <2>3. \A i \in DOMAIN events : events[i].type # "closed"
    BY <1>1 DEF Session
  <2> QED
    BY <2>1, <2>2, <2>3, AfterAppend, StoreTypes
<1>5. \A i \in DOMAIN toDevice' : toDevice'[i].op # "provision"
  BY <1>2 DEF Asked
<1> QED
  BY <1>1, <1>2, <1>3, <1>4, <1>5 DEF Session

LEMMA SessionDispatch ==
  ASSUME Typed, Session, [Next]_vars, Dispatch
  PROVE  Session'
<1> DEFINE e == Head(events)
<1>1. /\ Idle("ev") /\ events # <<>> /\ events' = Tail(events) /\ toDevice' = toDevice
      /\ UNCHANGED <<dev, inHand, provisioning, handlers>>
  BY DEF Dispatch, store, external, manager
<1>2. EventsWithin(1) /\ OrdersWithin(0)
  BY <1>1, Within
<1>3. e \in Known /\ e = events[1] /\ 1 \in DOMAIN events
      /\ \A i \in DOMAIN events' : i \in Int /\ i >= 1 /\ i + 1 \in DOMAIN events
                                   /\ events'[i] = events[i + 1]
  BY <1>1, StoreTypes, AfterTail, TypedStep DEF Typed, Shape
<1>4. CASE e.type \notin LinkTypes \/ Handler(e.type) \notin handlers
  <2>1. pc'["ev"] \in {"idle", "found", "stop", "reset"}
        /\ (pc'["ev"] = "stop" => current'.type = "timeout")
    BY <1>1, <1>3, <1>4, StoreTypes
       DEF Dispatch, Places, Handler, Known, Events, Kinds, LinkTypes, PlacesOK, Goto, Idle
  <2>2. ~Taken' /\ ~Closing'
    BY <2>1 DEF Taken, Closing, EndPlaces, StopPlaces
  <2> QED
    BY <1>1, <1>2, <2>1, <2>2, QuietSession
<1>5. CASE e.type \in LinkTypes /\ Handler(e.type) \in handlers
  <2>1. Reported /\ ~Asked /\ provisioning /\ "prov_handler" \in handlers
    BY <1>3, <1>5 DEF Reported, Session
  <2>2. pc'["ev"] = Places(e.type) /\ current' = e
    BY <1>1, <1>5, StoreTypes DEF Dispatch, Goto, PlacesOK
  <2>3. pc'["ev"] \in {"end", "answer", "complete"} /\ (pc'["ev"] = "end" <=> e.type = "closed")
    BY <1>5, <2>2 DEF Places, LinkTypes
  <2>4. pc'["ev"] = "end" => ~Open' /\ ~Reported'
    <3> SUFFICES ASSUME e.type = "closed" PROVE ~Open' /\ ~Reported'
      BY <2>3
    <3>1. ~Open
      BY <1>3 DEF Session
    <3>2. \A j \in DOMAIN events : events[j].type \in LinkTypes => j <= 1
      BY <1>3 DEF Session, LinkTypes
    <3>3. ~Reported'
      BY <1>3, <3>2 DEF Reported
    <3> QED
      BY <1>1, <3>1, <3>3 DEF Open
  <2>5. ~Closing' /\ pc'["ev"] # "provision" /\ ~Asked' /\ Open' = Open
    BY <1>1, <2>1, <2>3 DEF Closing, EndPlaces, StopPlaces, Asked, Open
  <2>6. \A i, j \in DOMAIN events' :
          events'[i].type = "closed" /\ events'[j].type \in LinkTypes => j <= i
    BY <1>3 DEF Session
  <2>7. \A i \in DOMAIN events' : events'[i].type = "closed" => ~Open'
    BY <1>3, <2>5 DEF Session
  <2>8. \A i \in DOMAIN toDevice' : toDevice'[i].op # "provision"
    BY <2>5 DEF Asked
  <2> QED
    BY <1>1, <2>1, <2>3, <2>4, <2>5, <2>6, <2>7, <2>8 DEF Session, Open
<1> QED
  BY <1>4, <1>5

\* The steps of the event thread between the events.
LEMMA SessionQuiet ==
  ASSUME Typed, Session, [Next]_vars, ~Idle("ev"),
         \/ Found \/ Answer \/ ProvComplete \/ OnlyOne \/ Resume \/ UnhookTimeout
         \/ NodeIsReset \/ StopScan("ev") \/ SendScanStart("ev")
  PROVE  Session'
<1>0. PlacesOK /\ EventPlaces
  BY StoreTypes
<1>1. UNCHANGED <<dev, events, inHand, provisioning>>
  BY DEF Found, Answer, ProvComplete, OnlyOne, Resume, UnhookTimeout, NodeIsReset,
     StopScan, StopCheck, StopUnset, SendScanStop, Unhook, SendScanStart,
     scan, manager, store, channels, external
<1>2. "prov_handler" \in handlers => "prov_handler" \in handlers'
  BY DEF Found, Answer, ProvComplete, OnlyOne, Resume, UnhookTimeout, NodeIsReset,
     StopScan, StopCheck, StopUnset, SendScanStop, Unhook, SendScanStart
<1>3. OrdersWithin(0)
  <2>1. toDevice' = toDevice \/ \E op \in Commands : toDevice' = Append(toDevice, Cmd(op))
    BY DEF Found, Answer, ProvComplete, OnlyOne, Resume, UnhookTimeout, NodeIsReset,
       StopScan, StopCheck, StopUnset, SendScanStop, Unhook, SendScanStart, Put, Commands,
       channels
  <2> QED
    BY <2>1, Within
<1>4. EventsWithin(0)
  BY <1>1, Within
<1>5. /\ pc'["ev"] \notin {"answer", "complete", "end"}
      /\ pc'["ev"] = "provision" => ~provisioning
  BY <1>0 DEF Found, Answer, ProvComplete, OnlyOne, Resume, UnhookTimeout, NodeIsReset,
     StopScan, StopCheck, StopUnset, SendScanStop, Unhook, SendScanStart,
     Return, Goto, PlacesOK, AfterStop, Takes
<1>6. Closing' => Closing
  BY <1>0 DEF Found, Answer, ProvComplete, OnlyOne, Resume, UnhookTimeout, NodeIsReset,
     StopScan, StopCheck, StopUnset, SendScanStop, Unhook, SendScanStart,
     Return, Goto, PlacesOK, AfterStop, Closing, EndPlaces, StopPlaces, EventPlaces
<1> QED
  BY <1>1, <1>2, <1>3, <1>4, <1>5, <1>6, QuietSession DEF Taken

LEMMA SessionForget ==
  ASSUME Typed, Session, [Next]_vars, ForgetNode
  PROVE  Session'
<1>0. PlacesOK
  BY StoreTypes
<1>1. UNCHANGED <<dev, events, toDevice, provisioning, handlers>> /\ pc'["ev"] = "idle"
  BY <1>0 DEF ForgetNode, scan, manager, channels, external, Return, Goto, PlacesOK
<1>2. ~provisioning /\ ~Asked /\ ~Open /\ ~Reported
  BY DEF ForgetNode, Closing, EndPlaces, Session
<1>3. ~Asked' /\ ~Open' /\ ~Reported' /\ ~Taken' /\ ~Closing'
  BY <1>1, <1>2 DEF Asked, Open, Reported, Taken, Closing, EndPlaces, StopPlaces
<1>4. \A i \in DOMAIN toDevice' : toDevice'[i].op # "provision"
  BY <1>3 DEF Asked
<1>5. \A i \in DOMAIN events' : events'[i].type # "closed"
  BY <1>3 DEF Reported, LinkTypes
<1> QED
  BY <1>1, <1>2, <1>3, <1>4, <1>5 DEF Session

LEMMA SessionEnds ==
  ASSUME Typed, Session, [Next]_vars, ProvEnd
  PROVE  Session'
<1>0. PlacesOK
  BY StoreTypes
<1>1. /\ UNCHANGED <<dev, events, toDevice, inHand>> /\ pc'["ev"] = "one"
      /\ pc["ev"] = "end" /\ ~provisioning'
  BY <1>0 DEF ProvEnd, store, channels, external, Goto, PlacesOK, EndFlag
<1>2. ~Asked /\ ~Open /\ ~Reported
  BY <1>1 DEF Session, Taken
<1>3. ~Asked' /\ ~Open' /\ ~Reported' /\ ~Taken'
  BY <1>1, <1>2 DEF Asked, Open, Reported, Taken
<1>4. \A i \in DOMAIN toDevice' : toDevice'[i].op # "provision"
  BY <1>3 DEF Asked
<1>5. \A i \in DOMAIN events' : events'[i].type # "closed"
  BY <1>3 DEF Reported, LinkTypes
<1> QED
  BY <1>1, <1>3, <1>4, <1>5 DEF Session

LEMMA SessionBegins ==
  ASSUME Typed, Session, [Next]_vars, BeginProvision
  PROVE  Session'
<1>0. PlacesOK /\ current.node \in Nodes /\ toDevice \in Seq(Orders)
  BY StoreTypes DEF BeginProvision
<1>1. /\ UNCHANGED <<dev, events>> /\ pc'["ev"] = "idle"
      /\ pc["ev"] = "provision" /\ provisioning'
  BY <1>0 DEF BeginProvision, external, Return, Goto, PlacesOK
<1>2. ~provisioning /\ ~Asked /\ ~Open /\ ~Reported
  BY <1>1 DEF Session
<1>3. ~Open' /\ ~Reported' /\ ~Taken' /\ ~Closing'
  BY <1>1, <1>2 DEF Open, Reported, Taken, Closing, EndPlaces, StopPlaces
<1>4. \A i \in DOMAIN events' : events'[i].type # "closed"
  BY <1>3 DEF Reported, LinkTypes
<1>5. \A i \in DOMAIN toDevice : toDevice[i].op # "provision"
  BY <1>2 DEF Asked
<1>6. CASE toDevice' = toDevice
  <2>1. ~Asked' /\ \A i \in DOMAIN toDevice' : toDevice'[i].op # "provision"
    BY <1>5, <1>6 DEF Asked
  <2> QED
    BY <1>1, <1>3, <1>4, <2>1 DEF Session
<1>7. ASSUME NEW a \in ObtainUnicastAddr, inHand' = [node |-> current.node, addr |-> a],
             handlers' = handlers \union {"prov_handler"},
             Put(Provision(current.node, a))
      PROVE  Session'
  <2>1. Provision(current.node, a) \in Orders
    BY <1>0, FreeAddr DEF Orders
  <2>2. \A i \in DOMAIN toDevice' : toDevice'[i].op = "provision" =>
          i = Len(toDevice) + 1 /\ toDevice'[i] = Provision(current.node, a)
    BY <1>0, <1>5, <1>7, <2>1, AfterAppend DEF Put
  <2>3. /\ \A i, j \in DOMAIN toDevice' :
             toDevice'[i].op = "provision" /\ toDevice'[j].op = "provision" => i = j
        /\ \A i \in DOMAIN toDevice' : toDevice'[i].op = "provision" =>
             toDevice'[i].node = inHand'.node /\ toDevice'[i].addr = inHand'.addr
    BY <1>7, <2>2 DEF Provision
  <2>4. "prov_handler" \in handlers'
    BY <1>7
  <2> HIDE <1>7
  <2> QED
    BY <1>1, <1>3, <1>4, <2>3, <2>4 DEF Session
<1> QED
  BY <1>6, <1>7 DEF BeginProvision

LEMMA SessionStep ==
  ASSUME Typed, Session, [Next]_vars
  PROVE  Session'
<1>0. PlacesOK
  BY StoreTypes
<1>1. CASE pc'["ev"] = pc["ev"] /\ current' = current /\ (~EventThread \/ Expires)
  BY <1>1, SessionOthers, SessionDeviceCommand, SessionLinkEvent, SessionLinkCloses
<1>2. CASE Dispatch
  BY <1>2, SessionDispatch
<1>3. CASE ~Idle("ev") /\ ((EventThread /\ ~Dispatch /\ ~Expires) \/ StopScan("ev")
                             \/ SendScanStart("ev"))
  BY <1>3, SessionQuiet, SessionForget, SessionEnds, SessionBegins
     DEF EventThread, Expires
<1>4. EventThread /\ ~Dispatch /\ ~Expires => ~Idle("ev")
  BY DEF EventThread, Expires, Idle, Found, BeginProvision, Answer, ProvComplete,
     ProvEnd, OnlyOne, Resume, ForgetNode, UnhookTimeout, NodeIsReset
<1>5. Expires => Idle("ev")
  BY DEF Expires, ResetExpires
<1>6. CASE Idle("ev")
  BY <1>0, <1>1, <1>2, <1>4, <1>6, EventWakes DEF Idle
<1>7. CASE ~Idle("ev")
  BY <1>0, <1>1, <1>2, <1>3, <1>5, <1>7, EventIdle
<1> QED
  BY <1>6, <1>7

LEMMA SessionInit ==
  ASSUME Init
  PROVE  Session
BY DEF Init, Session, Asked, Open, Reported, Taken, Closing, EndPlaces, StopPlaces, Off,
   LinkTypes

-----------------------------------------------------------------------------
(* Provisioning ends: something is there that will end it. *)

ClosedComes == \E i \in DOMAIN events : events[i].type = "closed"
Owned ==
  provisioning /\ ~exhausted /\ restarts = 0 /\ pc["rx"] # "dead" =>
    /\ inHand # None /\ "prov_handler" \in handlers
    /\ Asked \/ Open \/ ClosedComes \/ pc["ev"] = "end"

\* Which steps take away what Owned asks for.
LEMMA OwnedKept ==
  ASSUME Typed, Session, Owned, [Next]_vars, provisioning,
         ~exhausted', restarts' = 0, pc'["rx"] # "dead",
         ~BeginProvision, ~ProvEnd
  PROVE  /\ inHand # None /\ inHand' = inHand
         /\ "prov_handler" \in handlers /\ "prov_handler" \in handlers'
         /\ Asked \/ Open \/ ClosedComes \/ pc["ev"] = "end"
<1>0. PlacesOK
  BY StoreTypes
<1>1. exhausted' = exhausted
  BY Frame
<1>2. restarts = 0
  <2>1. restarts \in Nat
    BY ProvisioningAssumption DEF Typed, TypeOK
  <2>2. restarts' = restarts \/ restarts' = restarts + 1
    BY Frame DEF Restart
  <2> QED
    BY <2>1, <2>2
<1>3. pc["rx"] # "dead"
  <2>1. RxThread /\ pc["rx"] = "dead" => FALSE
    BY DEF RxThread, RxLook, RxCompare, RxAccept, Idle
  <2> QED
    BY <1>0, <2>1, RxMoves
<1>4. inHand' = inHand
  BY Frame DEF ForgetNode, Session, Closing, EndPlaces
<1>5. "prov_handler" \in handlers => "prov_handler" \in handlers'
  BY Frame DEF HookTimeout, Hook, UnhookTimeout, Unhook, AddHandler
<1> QED
  BY <1>1, <1>2, <1>3, <1>4, <1>5 DEF Owned

LEMMA OwnedStep ==
  ASSUME Typed, Session, Owned, [Next]_vars
  PROVE  Owned'
<1>0. PlacesOK /\ toDevice \in Seq(Orders) /\ events \in Seq(Known)
  BY StoreTypes
<1> SUFFICES ASSUME provisioning', ~exhausted', restarts' = 0, pc'["rx"] # "dead"
             PROVE  /\ inHand' # None /\ "prov_handler" \in handlers'
                    /\ Asked' \/ Open' \/ ClosedComes' \/ pc'["ev"] = "end"
  BY DEF Owned
<1>1. CASE BeginProvision
  <2>1. PICK a \in ObtainUnicastAddr :
          /\ inHand' = [node |-> current.node, addr |-> a]
          /\ handlers' = handlers \union {"prov_handler"}
          /\ Put(Provision(current.node, a))
    BY <1>1 DEF BeginProvision
  <2>2. current.node \in Nodes /\ a \in Addrs
    BY <1>1, FreeAddr, StoreTypes DEF BeginProvision
  <2>3. inHand' # None
    BY <2>1, <2>2, RecordsNotNone
  <2>4. Asked'
    <3>1. Provision(current.node, a) \in Orders /\ Provision(current.node, a).op = "provision"
      BY <2>2 DEF Orders, Provision
    <3>2. toDevice' = Append(toDevice, Provision(current.node, a))
      BY <2>1 DEF Put
    <3> QED
      BY <1>0, <3>1, <3>2, AfterAppend DEF Asked
  <2> QED
    BY <2>1, <2>3, <2>4
<1>2. ~ProvEnd
  BY DEF ProvEnd, EndFlag
<1>3. CASE ~BeginProvision
  <2>0. provisioning' = provisioning
    BY <1>2, <1>3, Frame
  <2>1. /\ inHand # None /\ inHand' = inHand
        /\ "prov_handler" \in handlers /\ "prov_handler" \in handlers'
        /\ Asked \/ Open \/ ClosedComes \/ pc["ev"] = "end"
    BY <1>2, <1>3, <2>0, OwnedKept
  \* An order to provision goes when the device takes it, and opens its link.
  <2>2. CASE Asked
    <3>1. CASE DeviceCommand
      <4>1. CASE Head(toDevice).op = "provision"
        <5>1. ~Open
          BY <2>2 DEF Session
        <5>2. Head(toDevice).node \in Nodes
          BY <1>0, <3>1, <4>1 DEF DeviceCommand, Orders, Cmd, Provision, Commands
        <5>3. dev \in [scan : BOOLEAN, node : Nodes \union {None},
                       addr : Addrs \union {None}, stage : Stages]
          BY DEF Typed, Shape
        <5>4. dev'.node = Head(toDevice).node
          BY <3>1, <4>1, <5>1, <5>3 DEF DeviceCommand, Open
        <5> QED
          BY <2>1, <5>2, <5>4, ProvisioningAssumption DEF Open
      <4>2. CASE Head(toDevice).op # "provision"
        <5>1. toDevice # <<>> /\ toDevice' = Tail(toDevice)
          BY <3>1 DEF DeviceCommand
        <5>2. PICK i \in DOMAIN toDevice : toDevice[i].op = "provision"
          BY <2>2 DEF Asked
        <5>3. i - 1 \in DOMAIN toDevice' /\ toDevice'[i - 1] = toDevice[i]
          BY <1>0, <4>2, <5>1, <5>2, AfterTail
        <5>4. Asked'
          BY <5>2, <5>3 DEF Asked
        <5> QED
          BY <2>1, <5>4
      <4> QED
        BY <4>1, <4>2
    <3>2. CASE ~DeviceCommand
      <4>1. ~Restart
        BY ProvisioningAssumption DEF Restart, Typed, TypeOK
      <4>2. toDevice' = toDevice \/ \E op \in Commands : toDevice' = Append(toDevice, Cmd(op))
        BY <1>3, <3>2, <4>1, Frame
           DEF Found, Answer, SendScanStart, SendScanStop, Put, Commands
      <4>3. \A op \in Commands : Cmd(op) \in Orders
        BY DEF Orders
      <4>4. Asked'
        BY <1>0, <2>2, <4>2, <4>3, AfterAppend DEF Asked
      <4> QED
        BY <2>1, <4>4
    <3> QED
      BY <3>1, <3>2
  \* The device reports a link that it closes.
  <2>3. CASE Open
    <3>1. CASE LinkCloses
      <4>1. pc["rx"] # "dead" \/ pc'["rx"] = "dead"
        BY <3>1 DEF LinkCloses
      <4>2. events' = Append(events, Event("closed", None))
        BY <3>1, <4>1 DEF LinkCloses, Arrives
      <4>3. Event("closed", None) \in Known /\ Event("closed", None).type = "closed"
        BY KnownEvents DEF Kinds, Event
      <4>4. ClosedComes'
        BY <1>0, <4>2, <4>3, AfterAppend DEF ClosedComes
      <4> QED
        BY <2>1, <4>4
    <3>2. CASE ~LinkCloses
      <4>1. ~Restart
        BY ProvisioningAssumption DEF Restart, Typed, TypeOK
      <4>2. dev \in [scan : BOOLEAN, node : Nodes \union {None},
                     addr : Addrs \union {None}, stage : Stages]
        BY DEF Typed, Shape
      <4>3. dev'.node = dev.node
        <5>1. DeviceCommand => dev'.node = dev.node
          BY <2>3, <4>2 DEF DeviceCommand, Open
        <5>2. LinkAsks \/ LinkCompletes => dev'.node = dev.node
          BY <4>2 DEF LinkAsks, LinkCompletes
        <5> QED
          BY <3>2, <4>1, <5>1, <5>2, Frame
      <4> QED
        BY <2>1, <2>3, <4>3 DEF Open
    <3> QED
      BY <3>1, <3>2
  \* The handler is there when the event comes.
  <2>4. CASE ClosedComes
    <3>1. CASE Dispatch /\ Head(events).type = "closed"
      <4>1. pc'["ev"] = "end"
        BY <1>0, <2>1, <3>1 DEF Dispatch, Handler, Places, Goto, PlacesOK
      <4> QED
        BY <2>1, <4>1
    <3>2. CASE Dispatch /\ Head(events).type # "closed"
      <4>1. events # <<>> /\ events' = Tail(events)
        BY <3>2 DEF Dispatch
      <4>2. PICK i \in DOMAIN events : events[i].type = "closed"
        BY <2>4 DEF ClosedComes
      <4>3. i - 1 \in DOMAIN events' /\ events'[i - 1] = events[i]
        BY <1>0, <3>2, <4>1, <4>2, AfterTail
      <4>4. ClosedComes'
        BY <4>2, <4>3 DEF ClosedComes
      <4> QED
        BY <2>1, <4>4
    <3>3. CASE ~Dispatch
      <4>1. events' = events \/ \E e \in Known : events' = Append(events, e)
        BY <3>3, EventsGrow
      <4>2. ClosedComes'
        BY <1>0, <2>4, <4>1, AfterAppend DEF ClosedComes
      <4> QED
        BY <2>1, <4>2
    <3> QED
      BY <3>1, <3>2, <3>3
  <2>5. CASE pc["ev"] = "end"
    <3>1. pc'["ev"] = "end"
      <4>1. ~(StopScan("ev") \/ SendScanStart("ev"))
        BY <2>5 DEF StopScan, StopCheck, StopUnset, SendScanStop, Unhook, SendScanStart
      <4>2. ~(EventThread /\ ~Dispatch)
        BY <1>2, <1>3, <2>5 DEF EventThread, Found, Answer, ProvComplete, OnlyOne,
           Resume, ForgetNode, UnhookTimeout, NodeIsReset, ResetExpires, Idle
      <4> QED
        BY <1>0, <2>5, <4>1, <4>2, EventIdle DEF Idle
    <3> QED
      BY <2>1, <3>1
  <2> QED
    BY <2>1, <2>2, <2>3, <2>4, <2>5
<1> QED
  BY <1>1, <1>3

\* Provisioning is never left set with nothing that ends it, but for the two cases
\* that ProvisioningOwned names: prov_complete, prov_end, and the handler that is
\* registered before the order leaves.
THEOREM ProvisioningEnds == Spec => []ProvisioningOwned
<1> DEFINE IInv == Typed /\ Session /\ Owned
<1>1. Init => IInv
  BY TypedInit, SessionInit DEF Init, Owned
<1>2. IInv /\ [Next]_vars => IInv'
  BY TypedStep, SessionStep, OwnedStep
<1>3. IInv => ProvisioningOwned
  <2> SUFFICES ASSUME IInv PROVE ProvisioningOwned
    OBVIOUS
  <2>1. Asked => \E c \in Range(toDevice) : c.op = "provision"
    BY DEF Asked, Range
  <2>2. ClosedComes => OnTheWay("closed")
    BY DEF ClosedComes, OnTheWay, Range
  <2>3. pc["ev"] = "end" => Handling("closed")
    BY StoreTypes DEF Handling, Idle, EventPlaces
  <2> QED
    BY <2>1, <2>2, <2>3 DEF ProvisioningOwned, Owned, Open
<1> QED
  BY <1>1, <1>2, <1>3, PTL DEF Spec

-----------------------------------------------------------------------------
(* What is stored of a node is what it was given. *)

\* A link has a node.
LEMMA LinkNode ==
  ASSUME Typed, Session, Asked \/ Open \/ Reported \/ Taken
  PROVE  /\ inHand # None /\ inHand.node \in Nodes /\ inHand.addr \in Addrs
         /\ provisioning /\ "prov_handler" \in handlers
BY StoreTypes DEF Session, Typed, LinkOwned

LEMMA FreshStep ==
  ASSUME Typed, [Next]_vars, Fresh'
  PROVE  BeginProvision \/ Fresh
<1>0. toDevice \in Seq(Orders)
      /\ dev \in [scan : BOOLEAN, node : Nodes \union {None},
                  addr : Addrs \union {None}, stage : Stages]
  BY StoreTypes DEF Typed, Shape
<1>1. ASSUME Asked', ~BeginProvision
      PROVE  Asked
  <2>1. CASE DeviceCommand
    BY <1>0, <1>1, <2>1, AfterTail DEF DeviceCommand, Asked
  <2>2. CASE ~DeviceCommand /\ ~Restart
    <3>1. toDevice' = toDevice \/ \E op \in Commands : toDevice' = Append(toDevice, Cmd(op))
      BY <1>1, <2>2, Frame DEF Found, Answer, SendScanStart, SendScanStop, Put, Commands
    <3>2. \A op \in Commands : Cmd(op) \in Orders /\ Cmd(op).op # "provision"
      BY DEF Orders, Cmd, Commands
    <3> QED
      BY <1>0, <1>1, <3>1, <3>2, AfterAppend DEF Asked
  <2>3. CASE Restart
    BY <1>1, <2>3 DEF Restart, Asked
  <2> QED
    BY <2>1, <2>2, <2>3
<1>2. ASSUME Open', dev'.stage # "done", ~Asked
      PROVE  Open /\ dev.stage # "done"
  <2>1. CASE DeviceCommand
    <3>1. Head(toDevice).op # "provision"
      BY <1>0, <1>2, <2>1, AfterTail DEF DeviceCommand, Asked
    <3> QED
      BY <1>0, <1>2, <2>1, <3>1 DEF DeviceCommand, Open
  <2>2. CASE LinkAsks
    BY <1>0, <1>2, <2>2 DEF LinkAsks, Open
  <2>3. ~LinkCompletes /\ ~LinkCloses /\ ~Restart
    BY <1>0, <1>2 DEF LinkCompletes, LinkCloses, Restart, Off, Open
  <2> QED
    BY <1>2, <2>1, <2>2, <2>3, Frame DEF Open
<1> QED
  BY <1>1, <1>2 DEF Fresh

\* No completion in the queue but those from before, k places ahead.
CompletesWithin(k) ==
  \A i \in DOMAIN events' : events'[i].type = "complete" =>
    i + k \in DOMAIN events /\ events'[i] = events[i + k]

LEMMA CompletesStep ==
  ASSUME Typed, [Next]_vars, ~LinkCompletes
  PROVE  /\ \A i \in DOMAIN events' : i \in Int
         /\ Dispatch => CompletesWithin(1)
         /\ ~Dispatch => CompletesWithin(0)
<1>0. events \in Seq(Known) /\ \A i \in DOMAIN events : i + 0 = i
  BY StoreTypes
<1>1. Dispatch => CompletesWithin(1)
  BY <1>0, AfterTail DEF Dispatch, CompletesWithin
<1>2. ~Dispatch => CompletesWithin(0)
  BY <1>0, EventsGrow, AfterAppend DEF CompletesWithin, Brings
<1>3. events' \in Seq(Known)
  BY EventsStep
<1> QED
  BY <1>1, <1>2, <1>3

\* Only an event starts a handler.
LEMMA Woken ==
  ASSUME Typed, [Next]_vars, ~Dispatch, pc'["ev"] \in {"found", "reset", "complete"}
  PROVE  pc'["ev"] = pc["ev"] /\ current' = current
<1>0. PlacesOK
  BY StoreTypes
<1>1. CASE StopScan("ev") \/ SendScanStart("ev")
  BY <1>0, <1>1 DEF StopScan, StopCheck, StopUnset, SendScanStop, Unhook,
     SendScanStart, Goto, PlacesOK, AfterStop
<1>2. CASE EventThread
  BY <1>0, <1>2 DEF EventThread, Found, BeginProvision, Answer, ProvComplete, ProvEnd,
     OnlyOne, Resume, ForgetNode, UnhookTimeout, NodeIsReset, ResetExpires, Return, Goto,
     PlacesOK
<1> QED
  BY <1>0, <1>1, <1>2, EventIdle, EventWakes DEF Idle

\* A step that is none of those that give a node its place.
LEMMA QuietStored ==
  ASSUME Typed, Session, Stored, [Next]_vars, ~LinkCompletes,
         Fresh' => Fresh, NEW k \in {0, 1}, CompletesWithin(k), inHand' = inHand,
         \A n \in Nodes : db[n] = None => db'[n] = None,
         pc'["ev"] \in {"complete", "provision"} =>
           pc'["ev"] = pc["ev"] /\ current' = current
  PROVE  Stored'
<1>0. PlacesOK /\ \A i \in DOMAIN events' : i \in Int
  BY StoreTypes, CompletesStep
<1>1. \A n \in Nodes : mesh'[n].addr = mesh[n].addr /\ mesh'[n].key = mesh[n].key
  BY Frame, StoreTypes, MeshLeft, MeshSent DEF Leaves, Sends
<1>2. Completed' => Completed
  BY DEF Completed, CompletesWithin
<1>3. pc'["ev"] = "provision" => db'[current'.node] = None
  BY StoreTypes DEF Stored
<1>4. Fresh' => db'[inHand'.node] = None /\ ~Completed' /\ pc'["ev"] # "complete"
  BY <1>2, LinkNode DEF Stored, Fresh
<1>5. \A i \in DOMAIN events' : events'[i].type = "complete" =>
        i + k \in DOMAIN events /\ events'[i] = events[i + k]
  BY DEF CompletesWithin
<1>6. Completed => Reported
  BY DEF Completed, Reported, LinkTypes
<1>7. \A i \in DOMAIN events' : events'[i].type = "complete" =>
        /\ mesh'[inHand'.node].addr = inHand'.addr
        /\ mesh'[inHand'.node].key = events'[i].key
        /\ db'[inHand'.node] = None /\ pc'["ev"] # "complete"
  <2> SUFFICES ASSUME NEW i \in DOMAIN events', events'[i].type = "complete"
               PROVE  /\ mesh'[inHand'.node].addr = inHand'.addr
                      /\ mesh'[inHand'.node].key = events'[i].key
                      /\ db'[inHand'.node] = None /\ pc'["ev"] # "complete"
    OBVIOUS
  <2>1. i + k \in DOMAIN events /\ events'[i] = events[i + k]
    BY <1>5
  <2>2. inHand.node \in Nodes
    BY <1>6, <2>1, LinkNode DEF Completed
  <2> QED
    BY <1>1, <2>1, <2>2 DEF Stored
<1>8. \A i, j \in DOMAIN events' :
        events'[i].type = "complete" /\ events'[j].type = "complete" => i = j
  <2>1. \A i, j \in DOMAIN events :
          events[i].type = "complete" /\ events[j].type = "complete" => i = j
    BY DEF Stored
  <2> QED
    BY <1>0, <1>5, <2>1
<1>9. pc'["ev"] = "complete" =>
        /\ mesh'[inHand'.node].addr = inHand'.addr
        /\ mesh'[inHand'.node].key = current'.key
        /\ db'[inHand'.node] = None
  BY <1>1, LinkNode DEF Stored, Taken
<1> QED
  BY <1>3, <1>4, <1>7, <1>8, <1>9 DEF Stored

LEMMA StoredCompletes ==
  ASSUME Typed, Session, Stored, [Next]_vars, LinkCompletes
  PROVE  Stored'
<1> DEFINE n == inHand.node
           key == 1 - mesh[n].key
<1>0. PlacesOK /\ mesh \in [Nodes -> Membership] /\ events \in Seq(Known)
      /\ dev \in [scan : BOOLEAN, node : Nodes \union {None},
                  addr : Addrs \union {None}, stage : Stages]
      /\ (dev.node # None <=> dev.stage # "none")
  BY StoreTypes DEF Typed, Shape
<1>1. Open /\ dev.stage # "done" /\ dev.node = n /\ dev.addr = inHand.addr
  BY <1>0 DEF LinkCompletes, Open, Session
<1>2. Fresh /\ ~Asked /\ n \in Nodes /\ inHand # None
  BY <1>1, LinkNode DEF Fresh, Session
<1>3. db[n] = None /\ ~Completed /\ pc["ev"] # "complete"
  BY <1>2 DEF Stored
<1>4. UNCHANGED <<pc, current, db, inHand, toDevice>>
  BY DEF LinkCompletes, store
<1>5. mesh' = [mesh EXCEPT ![n] = [member |-> TRUE, addr |-> inHand.addr,
                                   key |-> key, seq |-> 0]]
      /\ Arrives([Event("complete", None) EXCEPT !.key = key])
      /\ dev' = [dev EXCEPT !.stage = "done"]
  BY <1>1 DEF LinkCompletes
<1>6. key \in {0, 1}
  BY <1>0, <1>2 DEF Membership
<1> HIDE DEF n, key
<1>7. mesh'[n].addr = inHand.addr /\ mesh'[n].key = key
  BY <1>0, <1>2, <1>5
<1>8. ~Fresh'
  BY <1>0, <1>2, <1>4, <1>5 DEF Fresh, Asked
<1>9. \A i \in DOMAIN events' : events'[i].type = "complete" =>
        i = Len(events) + 1 /\ events'[i].key = key
  <2> DEFINE e == [Event("complete", None) EXCEPT !.key = key]
  <2>1. e \in Known /\ e.key = key
    BY <1>6, KnownEvents DEF Event
  <2>2. events' = events \/ events' = Append(events, e)
    BY <1>5 DEF Arrives
  <2>3. \A i \in DOMAIN events : events[i].type # "complete"
    BY <1>3 DEF Completed
  <2> HIDE DEF e
  <2> QED
    BY <1>0, <2>1, <2>2, <2>3, AfterAppend
<1>10. pc["ev"] = "provision" => db[current.node] = None
  BY DEF Stored
<1> QED
  BY <1>3, <1>4, <1>7, <1>8, <1>9, <1>10 DEF Stored, n

LEMMA StoredBegins ==
  ASSUME Typed, Session, Stored, [Next]_vars, BeginProvision
  PROVE  Stored'
<1>0. PlacesOK /\ current.node \in Nodes
  BY StoreTypes DEF BeginProvision
<1>1. UNCHANGED <<dev, events, db>> /\ pc'["ev"] = "idle" /\ pc["ev"] = "provision"
  BY <1>0 DEF BeginProvision, external, Return, Goto, PlacesOK
<1>2. ~Asked /\ ~Open /\ ~Reported /\ db[current.node] = None
  BY <1>1 DEF Session, Stored
<1>3. ~Open' /\ ~Completed' /\ \A i \in DOMAIN events' : events'[i].type # "complete"
  BY <1>1, <1>2 DEF Open, Completed, Reported, LinkTypes
<1>4. Asked' => inHand'.node = current.node
  BY <1>2 DEF BeginProvision, Asked
<1> QED
  BY <1>1, <1>2, <1>3, <1>4 DEF Stored, Fresh

LEMMA StoredForgets ==
  ASSUME Typed, Session, Stored, [Next]_vars, ForgetNode
  PROVE  Stored'
<1>0. PlacesOK
  BY StoreTypes
<1>1. UNCHANGED <<dev, events, toDevice>> /\ pc'["ev"] = "idle"
  BY <1>0 DEF ForgetNode, channels, external, Return, Goto, PlacesOK
<1>2. ~Asked /\ ~Open /\ ~Reported
  BY DEF ForgetNode, Closing, EndPlaces, Session
<1>3. ~Fresh' /\ \A i \in DOMAIN events' : events'[i].type # "complete"
  BY <1>1, <1>2 DEF Fresh, Asked, Open, Reported, LinkTypes
<1> QED
  BY <1>1, <1>3 DEF Stored

LEMMA StoredDispatch ==
  ASSUME Typed, Session, Stored, [Next]_vars, Dispatch
  PROVE  Stored'
<1>0. PlacesOK /\ events \in Seq(Known) /\ events # <<>>
  BY StoreTypes DEF Dispatch
<1>1. UNCHANGED <<db, inHand>> /\ CompletesWithin(1)
  BY CompletesStep DEF Dispatch, LinkCompletes, store, Arrives
<1>2. Fresh' => Fresh
  BY FreshStep DEF Dispatch, BeginProvision, Idle
<1>3. CASE pc'["ev"] # "complete"
  <2>1. pc'["ev"] # "provision"
    BY <1>0 DEF Dispatch, Goto, PlacesOK, Idle, Places
  <2>2. ~LinkCompletes
    BY <1>0 DEF Dispatch, LinkCompletes, Arrives
  <2> QED
    BY <1>1, <1>2, <1>3, <2>1, <2>2, QuietStored
<1>4. CASE pc'["ev"] = "complete"
  <2>1. /\ Head(events).type = "complete" /\ current' = Head(events)
        /\ 1 \in DOMAIN events /\ Head(events) = events[1]
    BY <1>0, <1>4, AfterTail DEF Dispatch, Goto, PlacesOK, Idle, Places
  <2>2. /\ mesh[inHand.node].addr = inHand.addr
        /\ mesh[inHand.node].key = current'.key
        /\ db[inHand.node] = None
    BY <2>1 DEF Stored
  <2>3. \A i \in DOMAIN events' : events'[i].type # "complete"
    <3>1. \A i \in DOMAIN events' : i \in Int /\ i >= 1
      BY EventsStep
    <3>2. \A i \in DOMAIN events : events[i].type = "complete" => i = 1
      BY <2>1 DEF Stored
    <3> QED
      BY <1>1, <3>1, <3>2 DEF CompletesWithin
  <2>4. ~Fresh'
    BY <1>2, <2>1 DEF Stored, Completed
  <2>5. mesh' = mesh
    BY DEF Dispatch, external
  <2> QED
    BY <1>1, <1>4, <2>2, <2>3, <2>4, <2>5 DEF Stored
<1> QED
  BY <1>3, <1>4

LEMMA StoredProvComplete ==
  ASSUME Typed, Session, Stored, [Next]_vars, ProvComplete
  PROVE  Stored'
<1>0. PlacesOK
  BY StoreTypes
<1>1. /\ UNCHANGED <<dev, events, toDevice>>
      /\ pc["ev"] = "complete" /\ pc'["ev"] = "idle"
  BY <1>0 DEF ProvComplete, channels, external, Return, Goto, PlacesOK
<1>2. ~Fresh /\ \A i \in DOMAIN events : events[i].type # "complete"
  BY <1>1 DEF Stored
<1>3. ~Fresh' /\ \A i \in DOMAIN events' : events'[i].type # "complete"
  BY <1>1, <1>2 DEF Fresh, Asked, Open
<1> QED
  BY <1>1, <1>3 DEF Stored

LEMMA StoredStep ==
  ASSUME Typed, Session, Stored, [Next]_vars
  PROVE  Stored'
<1>0. PlacesOK
  BY StoreTypes
<1>1. CASE LinkCompletes \/ BeginProvision \/ ForgetNode \/ Dispatch \/ ProvComplete
  BY <1>1, StoredCompletes, StoredBegins, StoredForgets, StoredDispatch,
     StoredProvComplete
<1>2. CASE ~(LinkCompletes \/ BeginProvision \/ ForgetNode \/ Dispatch \/ ProvComplete)
  <2>1. (Fresh' => Fresh) /\ CompletesWithin(0) /\ inHand' = inHand
    BY <1>2, FreshStep, CompletesStep, Frame
  <2>2. \A n \in Nodes : db[n] = None => db'[n] = None
    BY <1>2, StoreTypes, Frame DEF Found, NodeIsReset, Expires, ResetExpires
  <2>3. pc'["ev"] = "complete" => pc'["ev"] = pc["ev"] /\ current' = current
    BY <1>2, Woken
  <2>4. CASE pc'["ev"] = "provision" => pc'["ev"] = pc["ev"] /\ current' = current
    BY <1>2, <2>1, <2>2, <2>3, <2>4, QuietStored
  \* Found has removed what was stored of the node that it takes.
  <2>5. CASE ~(pc'["ev"] = "provision" => pc'["ev"] = pc["ev"] /\ current' = current)
    <3>1. CASE StopScan("ev") \/ SendScanStart("ev")
      BY <1>0, <2>5, <3>1 DEF StopScan, StopCheck, StopUnset, SendScanStop, Unhook,
         SendScanStart, Goto, PlacesOK, AfterStop
    <3>2. CASE EventThread
      <4>1. Found
        BY <1>0, <1>2, <2>5, <3>2 DEF EventThread, Answer, ProvEnd, OnlyOne, Resume,
           UnhookTimeout, NodeIsReset, ResetExpires, Return, Goto, PlacesOK
      <4>2. /\ UNCHANGED <<current, dev, events, mesh, inHand>> /\ ~provisioning
            /\ current.node \in Nodes /\ db'[current.node] = None
        BY <1>0, <2>5, <4>1, StoreTypes
           DEF Found, Return, Goto, PlacesOK, Takes, external
      <4>3. ~Asked /\ ~Open /\ ~Reported
        BY <4>2 DEF Session
      <4>4. ~Fresh' /\ \A i \in DOMAIN events' : events'[i].type # "complete"
        BY <2>1, <4>2, <4>3 DEF Fresh, Reported, LinkTypes
      <4> QED
        BY <2>5, <4>2, <4>4 DEF Stored
    <3> QED
      BY <1>0, <1>2, <2>5, <3>1, <3>2, EventIdle, EventWakes DEF Idle
  <2> QED
    BY <2>4, <2>5
<1> QED
  BY <1>1, <1>2

LEMMA StoredRightStep ==
  ASSUME Typed, Session, Stored, StoredRight, [Next]_vars
  PROVE  StoredRight'
<1>0. /\ mesh \in [Nodes -> Membership]
      /\ db \in [Nodes -> [addr : Addrs, key : {0, 1}] \union {None}]
  BY StoreTypes
<1> USE DEF StoredRight
\* The node that a link completes for is not stored.
<1>1. CASE LinkCompletes
  <2>1. dev.node = inHand.node /\ db[dev.node] = None /\ db' = db
    BY <1>1 DEF LinkCompletes, store, Session, Stored, Fresh, Open, Typed, Shape
  <2>2. \A n \in Nodes : n # dev.node => mesh'[n] = mesh[n]
    BY <1>0, <1>1 DEF LinkCompletes
  <2> QED
    BY <2>1, <2>2
<1>2. CASE ~LinkCompletes
  <2>1. \A n \in Nodes : mesh'[n].addr = mesh[n].addr /\ mesh'[n].key = mesh[n].key
    BY <1>0, <1>2, Frame, MeshLeft, MeshSent DEF Leaves, Sends
  <2>2. CASE ProvComplete
    <3> DEFINE x == [addr |-> inHand.addr, key |-> current.key]
    <3>1. /\ inHand.node \in Nodes /\ db' = [db EXCEPT ![inHand.node] = x]
          /\ pc["ev"] = "complete"
      BY <2>2, StoreTypes DEF ProvComplete
    <3>2. x.addr = mesh[inHand.node].addr /\ x.key = mesh[inHand.node].key
      BY <3>1 DEF Stored
    <3> HIDE DEF x
    <3> QED
      BY <1>0, <2>1, <3>1, <3>2
  <2>3. CASE Found \/ NodeIsReset \/ Expires
    <3>1. PICK n \in Nodes : db' = [db EXCEPT ![n] = None]
      BY <2>3, StoreTypes DEF Found, NodeIsReset, Expires, ResetExpires
    <3> QED
      BY <1>0, <2>1, <3>1
  <2>4. CASE db' = db
    BY <2>1, <2>4
  <2> QED
    BY <2>2, <2>3, <2>4, Frame
<1> QED
  BY <1>1, <1>2

LEMMA StoredInit ==
  ASSUME Init
  PROVE  Stored /\ StoredRight
BY DEF Init, Stored, StoredRight, Fresh, Asked, Open, Off, Completed

\* What the database says of a node is what the node was given last, whatever links
\* end, devices restart and resets expire in between: prov_complete stores the node
\* in hand under the key of an event that carries no node.
THEOREM StoredIsRight == Spec => []StoredRight
<1> DEFINE IInv == Typed /\ Session /\ Stored /\ StoredRight
<1>1. Init => IInv
  BY TypedInit, SessionInit, StoredInit
<1>2. IInv /\ [Next]_vars => IInv'
  BY TypedStep, SessionStep, StoredStep, StoredRightStep
<1>3. IInv => StoredRight
  OBVIOUS
<1> QED
  BY <1>1, <1>2, <1>3, PTL DEF Spec

-----------------------------------------------------------------------------
(* A scan with a timeout ends. *)

LEMMA ScanBegins ==
  ASSUME Typed, [Next]_vars, scanning', timed'
  PROVE  (scanning /\ timed /\ (early => early')) \/ pc'["api"] = "timer"
<1>0. PlacesOK
  BY StoreTypes
<1>1. CASE StartCheck
  BY <1>0, <1>1 DEF StartCheck, Goto, PlacesOK
<1>2. CASE ~StartCheck
  BY <1>2, Frame DEF StopUnset, Dispatch
<1> QED
  BY <1>1, <1>2

LEMMA ApiWaits ==
  ASSUME Typed, [Next]_vars
  PROVE  /\ pc'["api"] = "hook_timeout" => pc["api"] = "hook_timeout" \/ StartTimer
         /\ pc["api"] \in {"timer", "hook_timeout"} /\ ~HookTimeout
              => pc'["api"] \in {"timer", "hook_timeout"}
         /\ pc["api"] = "timer" /\ ~StartTimer => pc'["api"] = "timer"
<1>0. PlacesOK
  BY StoreTypes
<1>1. CASE Application
  BY <1>0, <1>1 DEF Application, StartScan, StartCheck, StartTimer, HookTimeout, Hook,
     CallStop, Goto, PlacesOK, Idle
<1>2. CASE StopScan("api") \/ SendScanStart("api")
  BY <1>0, <1>2 DEF StopScan, StopCheck, StopUnset, SendScanStop, Unhook, SendScanStart,
     AfterStop, Goto, PlacesOK
<1> QED
  BY <1>0, <1>1, <1>2, ApiMoves

\* The timer runs, then its event is on its way, then it is dispatched.
LEMMA TimeoutStep ==
  ASSUME Typed, [Next]_vars, TimeoutComes
  PROVE  TimeoutComes' \/ (Dispatch /\ Head(events).type = "timeout")
<1>0. events \in Seq(Known) /\ timers \in Int
  BY StoreTypes, ProvisioningAssumption DEF Typed, TypeOK
<1>1. CASE ScanTimeout
  <2>1. Event("timeout", None) \in Known /\ Event("timeout", None).type = "timeout"
    BY KnownEvents DEF Kinds, Event
  <2> QED
    BY <1>0, <1>1, <2>1, AfterAppend DEF ScanTimeout, TimeoutComes
<1>2. CASE timers > 0 /\ ~ScanTimeout
  BY <1>0, <1>2, Frame DEF StartTimer, TimeoutComes
<1>3. CASE ~(timers > 0)
  <2>1. PICK i \in DOMAIN events : events[i].type = "timeout"
    BY <1>3 DEF TimeoutComes
  <2>2. CASE Dispatch
    <3>1. events # <<>> /\ events' = Tail(events)
      BY <2>2 DEF Dispatch
    <3>2. i = 1 \/ (i - 1 \in DOMAIN events' /\ events'[i - 1] = events[i])
      BY <1>0, <2>1, <3>1, AfterTail
    <3> QED
      BY <1>0, <2>1, <2>2, <3>1, <3>2, AfterTail DEF TimeoutComes
  <2>3. CASE ~Dispatch
    BY <1>0, <2>1, <2>3, EventsGrow, AfterAppend DEF TimeoutComes
  <2> QED
    BY <2>2, <2>3
<1> QED
  BY <1>1, <1>2, <1>3

\* stop_scan of the handler finds the scan, and ends it, or does not find it.
LEMMA TakenStep ==
  ASSUME Typed, [Next]_vars, TimeoutTaken
  PROVE  TimeoutTaken' \/ ~scanning' \/ pc'["api"] = "timer"
<1>0. PlacesOK
  BY StoreTypes
<1>1. CASE StopScan("ev")
  BY <1>0, <1>1, Frame DEF StopScan, StopCheck, StopUnset, SendScanStop, Unhook, Goto, PlacesOK,
     TimeoutTaken, scan, manager
<1>2. ~(EventThread /\ ~Dispatch) /\ ~SendScanStart("ev") /\ ~Idle("ev")
  BY DEF TimeoutTaken, EventThread, Found, BeginProvision, Answer, ProvComplete, ProvEnd,
     OnlyOne, Resume, ForgetNode, UnhookTimeout, NodeIsReset, ResetExpires, SendScanStart,
     Idle
<1> QED
  BY <1>0, <1>1, <1>2, EventIdle DEF TimeoutTaken

\* The handler has been through with the scan: there is none, or another begins.
ScanLeft == pc["ev"] \in {"scan_stop", "unhook", "unhook_timeout"} /\ current.type = "timeout"

LEMMA ScanLeftStep ==
  ASSUME Typed, Timing, [Next]_vars, ScanLeft', scanning', timed'
  PROVE  pc'["api"] \in {"timer", "hook_timeout"}
<1>0. PlacesOK /\ EventPlaces
  BY StoreTypes
<1>1. HookTimeout => Idle("ev")
  BY DEF HookTimeout, AddHandler, LockFree
<1>2. CASE Idle("ev")
  BY <1>0, <1>2, EventWakes DEF Dispatch, Places, Goto, PlacesOK, Idle, ScanLeft
<1>3. CASE ScanLeft /\ ~Idle("ev")
  <2>1. pc'["api"] = "timer" \/ pc["api"] \in {"timer", "hook_timeout"}
    BY <1>3, ScanBegins DEF Timing, ScanLeft
  <2> QED
    BY <1>1, <1>3, <2>1, ApiWaits
<1>4. CASE ~ScanLeft /\ ~Idle("ev")
  <2>1. CASE StopScan("ev")
    <3>1. ~scanning'
      BY <1>0, <1>4, <2>1
         DEF StopScan, StopCheck, StopUnset, SendScanStop, Unhook, Goto, PlacesOK, ScanLeft,
             AfterStop, scan, manager, StopPlaces, EventPlaces
    <3> QED
      BY <3>1
  <2>2. CASE SendScanStart("ev")
    BY <1>0, <1>4, <2>2 DEF SendScanStart, Goto, PlacesOK, ScanLeft
  <2>3. CASE EventThread /\ ~Dispatch
    BY <1>0, <1>4, <2>3 DEF EventThread, Found, BeginProvision, Answer, ProvComplete, ProvEnd,
       OnlyOne, Resume, ForgetNode, UnhookTimeout, NodeIsReset, ResetExpires, Return, Goto,
       PlacesOK, ScanLeft
  <2> QED
    BY <1>0, <1>4, <2>1, <2>2, <2>3, EventIdle DEF ScanLeft
<1> QED
  BY <1>2, <1>3, <1>4

LEMMA TimingStep ==
  ASSUME Typed, Timing, [Next]_vars
  PROVE  Timing'
<1>0. PlacesOK /\ EventPlaces /\ events \in Seq(Known)
  BY StoreTypes
<1>1. ScanLeft' /\ scanning' /\ timed' => pc'["api"] \in {"timer", "hook_timeout"}
  BY ScanLeftStep
<1>2. ASSUME scanning', timed', ~early', pc'["api"] # "timer"
      PROVE  /\ pc'["api"] = "hook_timeout" => TimeoutComes' \/ TimeoutTaken'
             /\ pc'["api"] # "hook_timeout" =>
                  \/ "scan_timeout_handler" \in handlers' /\ TimeoutComes'
                  \/ TimeoutTaken'
  <2>1. scanning /\ timed /\ ~early
    BY <1>2, ScanBegins
  <2>2. CASE pc["api"] = "timer"
    <3>1. StartTimer
      BY <1>2, <2>2, ApiWaits
    <3>2. pc'["api"] = "hook_timeout" /\ TimeoutComes'
      BY <1>0, <3>1, ProvisioningAssumption
         DEF StartTimer, Goto, PlacesOK, TimeoutComes, Typed, TypeOK
    <3> QED
      BY <3>2
  <2>3. CASE TimeoutTaken
    BY <1>2, <2>3, TakenStep
  <2>4. CASE pc["api"] # "timer" /\ ~TimeoutTaken
    <3>1. TimeoutComes
      BY <2>1, <2>4 DEF Timing
    \* The event of the timer finds its handler, unless that is not there yet.
    <3>2. TimeoutComes' \/ TimeoutTaken'
      <4>1. CASE Dispatch /\ Head(events).type = "timeout"
        BY <1>0, <1>2, <4>1
           DEF Dispatch, Handler, Places, Goto, PlacesOK, TimeoutTaken
      <4> QED
        BY <3>1, <4>1, TimeoutStep
    <3>3. pc'["api"] # "hook_timeout" =>
            "scan_timeout_handler" \in handlers' \/ HookTimeout
            \/ ("scan_timeout_handler" \in handlers /\ UnhookTimeout)
      <4> SUFFICES ASSUME pc'["api"] # "hook_timeout", ~HookTimeout
                   PROVE  \/ "scan_timeout_handler" \in handlers'
                          \/ ("scan_timeout_handler" \in handlers /\ UnhookTimeout)
        OBVIOUS
      <4>1. pc["api"] \notin {"timer", "hook_timeout"}
        BY <1>2, ApiWaits
      <4>2. "scan_timeout_handler" \in handlers
        BY <2>1, <2>4, <4>1 DEF Timing
      <4> QED
        BY <4>2, Frame DEF HookTimeout, Hook, BeginProvision, ProvEnd, Unhook, AddHandler
    <3>4. HookTimeout => "scan_timeout_handler" \in handlers'
      BY DEF HookTimeout, AddHandler
    <3>5. pc'["api"] # "hook_timeout" /\ ~HookTimeout => ~UnhookTimeout
      <4>1. pc'["api"] # "hook_timeout" /\ ~HookTimeout
              => pc["api"] \notin {"timer", "hook_timeout"}
        BY <1>2, ApiWaits
      <4>2. UnhookTimeout => pc["api"] \in {"timer", "hook_timeout"}
        BY <1>0, <2>1 DEF Timing, UnhookTimeout, EventPlaces
      <4> QED
        BY <4>1, <4>2
    <3> QED
      BY <3>2, <3>3, <3>4, <3>5
  <2> QED
    BY <2>2, <2>3, <2>4
<1> QED
  BY <1>1, <1>2 DEF Timing, ScanLeft

\* A scan that was started with a timeout ends, whatever became of earlier scans and
\* their timers: start_scan starts the timer before it registers the handler, and
\* the handler of an earlier timer unregisters it for the scan that follows.
THEOREM TimedScansEnd == Spec => []TimedScanEnds
<1>1. Init => Typed /\ Timing
  BY TypedInit DEF Init, Timing
<1>2. Typed /\ Timing /\ [Next]_vars => (Typed /\ Timing)'
  BY TypedStep, TimingStep
<1>3. Typed /\ Timing => TimedScanEnds
  <2> SUFFICES ASSUME Typed, Timing, scanning, timed, Idle("api"), ~early
               PROVE  \/ /\ "scan_timeout_handler" \in handlers
                         /\ timers > 0 \/ OnTheWay("timeout")
                      \/ Handling("timeout")
    BY DEF TimedScanEnds
  <2>1. CASE TimeoutTaken
    BY <2>1 DEF TimeoutTaken, Handling, Idle
  <2>2. CASE ~TimeoutTaken
    BY <2>2 DEF Timing, Idle, TimeoutComes, OnTheWay, Range
  <2> QED
    BY <2>1, <2>2
<1> QED
  BY <1>1, <1>2, <1>3, PTL DEF Spec

-----------------------------------------------------------------------------
(* The receive thread, the replay cache, and the owners of the addresses. *)

LEMMA PlacesDistinct ==
  ASSUME Typed, Stored, StoredRight, AddressesDistinct,
         NEW m \in Nodes, NEW n \in Nodes, Placed(m), Placed(n), mesh[m].addr = mesh[n].addr
  PROVE  m = n
<1>1. \A k \in {m, n} :
        \/ db[k] # None /\ db[k].addr = mesh[k].addr
        \/ inHand # None /\ inHand.node = k /\ inHand.addr = mesh[k].addr
  <2> SUFFICES ASSUME NEW k \in {m, n}, db[k] = None
               PROVE  inHand # None /\ inHand.node = k /\ inHand.addr = mesh[k].addr
    BY DEF StoredRight
  <2>1. Completing(k)
    BY DEF Placed
  <2> QED
    BY <2>1 DEF Completing, Completed, Stored
<1> QED
  BY <1>1 DEF AddressesDistinct

\* The address of a link that is not complete, or a free one, is nobody's yet.
LEMMA NoPlace ==
  ASSUME Typed, Session, Stored, StoredRight, AddressesDistinct, NEW m \in Nodes, Placed(m)
  PROVE  /\ Fresh => mesh[m].addr # inHand.addr
         /\ \A a \in ObtainUnicastAddr : pc["ev"] = "provision" => mesh[m].addr # a
<1>1. Fresh => mesh[m].addr # inHand.addr
  <2> SUFFICES ASSUME Fresh, mesh[m].addr = inHand.addr
               PROVE  FALSE
    OBVIOUS
  <2>1. ~Completing(m) /\ db[inHand.node] = None /\ inHand # None
    BY LinkNode DEF Fresh, Stored, Completing
  <2>2. db[m] # None /\ db[m].addr = inHand.addr
    BY <2>1 DEF Placed, StoredRight
  <2> QED
    BY <2>1, <2>2 DEF AddressesDistinct
<1>2. ASSUME NEW a \in ObtainUnicastAddr, pc["ev"] = "provision", mesh[m].addr = a
      PROVE  FALSE
  <2>1. ~Completed
    BY <1>2 DEF Session, Completed, Reported, LinkTypes
  <2>2. db[m] # None /\ db[m].addr = a
    BY <1>2, <2>1 DEF Placed, StoredRight, Completing
  <2> QED
    BY <2>2, FreeAddr DEF UsedAddr
<1> QED
  BY <1>1, <1>2

LEMMA ForgetsStep ==
  ASSUME Typed, Session, Stored, [Next]_vars, ~LinkCompletes,
         NEW n \in Nodes, ~Beacon(n), ~LeaveMesh(n), Forgets(n)'
  PROVE  Forgets(n)
<1>0. PlacesOK /\ events \in Seq(Known)
  BY StoreTypes
<1>1. CASE Dispatch
  <2>1. /\ events # <<>> /\ events' = Tail(events) /\ inHand' = inHand
        /\ \A i \in DOMAIN events' : /\ i \in Int /\ i + 1 \in DOMAIN events
                                     /\ events'[i] = events[i + 1]
        /\ \A i \in DOMAIN events : i \in Int
        /\ \A i \in DOMAIN events :
             i = 1 \/ (i - 1 \in DOMAIN events' /\ events'[i - 1] = events[i])
        /\ 1 \in DOMAIN events /\ Head(events) = events[1]
    <3>1. events # <<>> /\ events' = Tail(events) /\ inHand' = inHand
      BY <1>1 DEF Dispatch, store
    <3>2. \A i \in DOMAIN events' : i \in Int
      BY EventsStep
    <3> QED
      BY <1>0, <3>1, <3>2, AfterTail
  <2>2. CASE \E i \in DOMAIN events' :
               /\ events'[i].type \in {"unprov", "reset"} /\ events'[i].node = n
               /\ inHand # None /\ inHand.node = n =>
                    \A j \in DOMAIN events' : events'[j].type = "complete" => j < i
    <3>1. PICK i \in DOMAIN events' :
            /\ events'[i].type \in {"unprov", "reset"} /\ events'[i].node = n
            /\ inHand # None /\ inHand.node = n =>
                 \A j \in DOMAIN events' : events'[j].type = "complete" => j < i
      BY <2>2
    <3>2. /\ i + 1 \in DOMAIN events /\ events[i + 1] = events'[i] /\ i \in Int
          /\ 1 < i + 1
      <4>1. i >= 1
        BY EventsStep
      <4> QED
        BY <2>1, <4>1
    <3>3. inHand # None /\ inHand.node = n =>
            \A j \in DOMAIN events : events[j].type = "complete" => j < i + 1
      <4> SUFFICES ASSUME inHand # None, inHand.node = n,
                          NEW j \in DOMAIN events, events[j].type = "complete"
                   PROVE  j < i + 1
        OBVIOUS
      <4>1. j \in Int /\ (j = 1 \/ (j - 1 \in DOMAIN events' /\ events'[j - 1] = events[j]))
        BY <2>1
      <4>2. j = 1 \/ j - 1 < i
        BY <3>1, <4>1
      <4> QED
        BY <3>2, <4>1, <4>2
    <3> QED
      BY <3>1, <3>2, <3>3 DEF Forgets
  <2>3. CASE /\ pc'["ev"] \in {"found", "reset"} /\ current'.node = n
             /\ inHand # None /\ inHand.node = n => ~Completed'
    <3>1. /\ Head(events).type \in {"unprov", "reset"} /\ current' = Head(events)
      BY <1>0, <1>1, <2>3 DEF Dispatch, Goto, PlacesOK, Idle, Places
    <3>2. Completed => Completed'
      BY <2>1, <3>1 DEF Completed
    <3> QED
      BY <2>1, <2>3, <3>1, <3>2 DEF Forgets, Completed
  <2> QED
    BY <2>1, <2>2, <2>3 DEF Forgets
<1>2. CASE ~Dispatch
  <2>1. /\ \A i \in DOMAIN events : i \in DOMAIN events' /\ events'[i] = events[i]
        /\ \A i \in DOMAIN events' :
             events'[i].type \in {"unprov", "reset"} /\ events'[i].node = n =>
               i \in DOMAIN events /\ events'[i] = events[i]
        /\ Completed => Completed'
    <3>1. \/ events' = events
          \/ \E e \in Known : Brings(e) /\ events' = Append(events, e)
      BY <1>2, EventsGrow
    <3>2. \A e \in Known : Brings(e) => ~(e.type \in {"unprov", "reset"} /\ e.node = n)
      BY DEF Brings
    <3>3. \A i \in DOMAIN events : i \in DOMAIN events' /\ events'[i] = events[i]
      BY <1>0, <3>1, AfterAppend
    <3> QED
      BY <1>0, <3>1, <3>2, <3>3, AfterAppend DEF Completed
  <2>2. pc'["ev"] \in {"found", "reset"} => pc'["ev"] = pc["ev"] /\ current' = current
    BY <1>2, Woken
  <2>3. CASE inHand' = inHand
    BY <2>1, <2>2, <2>3 DEF Forgets
  \* The node in hand changes when there is no link.
  <2>4. CASE inHand' # inHand
    <3>1. ~Reported /\ events' = events /\ pc'["ev"] = "idle"
      BY <1>0, <2>4, Frame DEF BeginProvision, ForgetNode, Session, Closing, EndPlaces,
         channels, Return, Goto, PlacesOK
    <3>2. \A i \in DOMAIN events : events[i].type # "complete"
      BY <3>1 DEF Reported, LinkTypes
    <3> QED
      BY <3>1, <3>2 DEF Forgets
  <2> QED
    BY <2>3, <2>4
<1> QED
  BY <1>1, <1>2

LEMMA CompletingStep ==
  ASSUME Typed, Session, [Next]_vars, NEW n \in Nodes, Completing(n)
  PROVE  Completing(n)' \/ db'[n] # None
<1>0. PlacesOK /\ events \in Seq(Known)
      /\ db \in [Nodes -> [addr : Addrs, key : {0, 1}] \union {None}]
  BY StoreTypes
<1>1. Reported \/ Taken
  BY DEF Completing, Completed, Reported, Taken, LinkTypes
<1>2. /\ inHand' = inHand /\ "prov_handler" \in handlers
      /\ inHand # None /\ inHand.node = n
  BY <1>1, Frame DEF BeginProvision, ForgetNode, Session, Closing, EndPlaces, Completing
<1>3. CASE pc["ev"] = "complete"
  <2>1. CASE ProvComplete
    <3> DEFINE x == [addr |-> inHand.addr, key |-> current.key]
    <3>1. db' = [db EXCEPT ![n] = x]
      BY <1>2, <2>1 DEF ProvComplete
    <3>2. x \in [addr : Addrs, key : {0, 1}]
      BY <1>2, StoreTypes DEF Known, Events
    <3>3. x # None
      BY <3>2, RecordsNotNone
    <3> HIDE DEF x
    <3> QED
      BY <1>0, <3>1, <3>3
  <2>2. CASE ~ProvComplete
    <3>1. ~(StopScan("ev") \/ SendScanStart("ev")) /\ ~(EventThread /\ ~Dispatch)
      BY <1>3, <2>2 DEF StopScan, StopCheck, StopUnset, SendScanStop, Unhook, SendScanStart,
         EventThread, Found, BeginProvision, Answer, ProvEnd, OnlyOne, Resume, ForgetNode,
         UnhookTimeout, NodeIsReset, ResetExpires, Idle
    <3> QED
      BY <1>0, <1>2, <1>3, <3>1, EventIdle DEF Completing, Idle
  <2> QED
    BY <2>1, <2>2
<1>4. CASE Completed
  <2>1. PICK i \in DOMAIN events : events[i].type = "complete"
    BY <1>4 DEF Completed
  <2>2. CASE Dispatch
    <3>1. CASE i = 1
      <4>1. Head(events).type = "complete"
        BY <1>0, <2>1, <2>2, <3>1, AfterTail DEF Dispatch
      <4>2. pc'["ev"] = "complete"
        BY <1>0, <1>2, <2>2, <4>1 DEF Dispatch, Handler, Places, Goto, PlacesOK
      <4> QED
        BY <1>2, <4>2 DEF Completing
    <3>2. CASE i # 1
      <4>1. i - 1 \in DOMAIN events' /\ events'[i - 1] = events[i]
        BY <1>0, <2>1, <2>2, <3>2, AfterTail DEF Dispatch
      <4> QED
        BY <1>2, <2>1, <4>1 DEF Completing, Completed
    <3> QED
      BY <3>1, <3>2
  <2>3. CASE ~Dispatch
    <3>1. i \in DOMAIN events' /\ events'[i] = events[i]
      BY <1>0, <2>1, <2>3, EventsGrow, AfterAppend
    <3> QED
      BY <1>2, <2>1, <3>1 DEF Completing, Completed
  <2> QED
    BY <2>2, <2>3
<1> QED
  BY <1>3, <1>4 DEF Completing

\* A node keeps its place until an event that removes it is on its way.
LEMMA PlacedStep ==
  ASSUME Typed, Session, Stored, [Next]_vars, ~LinkCompletes, ~Expires,
         NEW n \in Nodes, ~Beacon(n), ~LeaveMesh(n), Placed(n)
  PROVE  Placed(n)'
<1>0. /\ mesh \in [Nodes -> Membership]
      /\ db \in [Nodes -> [addr : Addrs, key : {0, 1}] \union {None}]
  BY StoreTypes
<1>2. ~Forgets(n)'
  BY ForgetsStep DEF Placed
<1>3. db'[n] # None \/ Completing(n)'
  <2>1. CASE Completing(n)
    BY <2>1, CompletingStep
  <2>2. CASE ~Completing(n) /\ db'[n] = None
    <3>1. db[n] # None
      BY <2>2 DEF Placed
    <3>2. current.node = n /\ pc["ev"] \in {"found", "reset"}
      <4>1. Found \/ NodeIsReset
        <5>1. ProvComplete => \A m \in Nodes : db'[m] = db[m] \/ m = inHand.node
          BY <1>0, StoreTypes DEF ProvComplete
        <5>2. ProvComplete => Completing(inHand.node)
          BY StoreTypes DEF ProvComplete, Completing
        <5> QED
          BY <2>2, <3>1, <5>1, <5>2, Frame
      <4> QED
        BY <1>0, <2>2, <3>1, <4>1 DEF Found, NodeIsReset
    <3>3. Forgets(n)
      BY <2>2, <3>2 DEF Forgets, Completing
    <3> QED
      BY <3>3 DEF Placed
  <2> QED
    BY <2>1, <2>2
<1> QED
  BY <1>2, <1>3 DEF Placed

\* The node that has completed owns its address.
LEMMA PlacedCompletes ==
  ASSUME Typed, Session, Stored, [Next]_vars, LinkCompletes, pc["rx"] # "dead",
         NEW n \in Nodes
  PROVE  /\ n = inHand.node => Placed(n)' /\ mesh'[n].addr = inHand.addr
         /\ n # inHand.node => mesh'[n] = mesh[n] /\ (Placed(n) => Placed(n)')
<1> DEFINE key == 1 - mesh[dev.node].key
           e == [Event("complete", None) EXCEPT !.key = key]
<1>0. /\ mesh \in [Nodes -> Membership] /\ events \in Seq(Known)
      /\ \A i \in DOMAIN events : i \in Int
  BY StoreTypes
<1>1. Fresh /\ dev.node = inHand.node /\ dev.addr = inHand.addr /\ inHand # None
      /\ dev.node \in Nodes
  <2>1. Open /\ dev.stage = "keyed"
    BY DEF LinkCompletes, Open, Typed, Shape
  <2> QED
    BY <2>1, LinkNode DEF Session, Fresh
<1>2. UNCHANGED <<pc, current, db, inHand>> /\ events' = Append(events, e)
  BY DEF LinkCompletes, store, Arrives
<1>3. e \in Known /\ e.type = "complete"
  <2>1. key \in {0, 1}
    BY <1>0, <1>1 DEF Membership
  <2> HIDE DEF key
  <2> QED
    BY <2>1, KnownEvents DEF Event
<1>4. mesh' = [mesh EXCEPT ![inHand.node] = [member |-> TRUE, addr |-> inHand.addr,
                                            key |-> key, seq |-> 0]]
  BY <1>1 DEF LinkCompletes
<1> HIDE DEF key, e
<1>5. /\ Len(events) + 1 \in DOMAIN events' /\ events'[Len(events) + 1] = e
      /\ \A i \in DOMAIN events' :
           \/ i \in DOMAIN events /\ i < Len(events) + 1 /\ events'[i] = events[i]
           \/ i = Len(events) + 1 /\ events'[i] = e
      /\ \A i \in DOMAIN events : i \in DOMAIN events' /\ events'[i] = events[i]
  BY <1>0, <1>2, <1>3, AfterAppend
<1>6. Completed'
  BY <1>3, <1>5 DEF Completed
<1>7. CASE n = inHand.node
  <2>1. mesh'[n].addr = inHand.addr
    BY <1>0, <1>1, <1>4, <1>7
  <2>2. Completing(n)'
    BY <1>1, <1>2, <1>6, <1>7 DEF Completing
  <2>3. ~Forgets(n)'
    <3>1. \A i \in DOMAIN events' :
            events'[i].type \in {"unprov", "reset"} => ~(Len(events) + 1 < i)
      BY <1>0, <1>3, <1>5
    <3> QED
      BY <1>1, <1>2, <1>3, <1>5, <1>6, <1>7, <3>1 DEF Forgets
  <2> QED
    BY <1>7, <2>1, <2>2, <2>3, <1>2 DEF Placed
<1>8. CASE n # inHand.node
  <2>1. mesh'[n] = mesh[n]
    BY <1>0, <1>4, <1>8
  <2>2. ~Completing(n)
    BY <1>8 DEF Completing
  <2>3. Forgets(n)' => Forgets(n)
    BY <1>2, <1>3, <1>5, <1>8 DEF Forgets
  <2> QED
    BY <1>2, <1>8, <2>1, <2>2, <2>3 DEF Placed
<1> QED
  BY <1>7, <1>8

\* A step that gives the cache no number and the network no node.
LEMMA QuietReceived ==
  ASSUME Typed, Received, ~strays, [Next]_vars,
         \A n \in Nodes : Placed(n) => Placed(n)',
         mesh' = mesh, packet' \in {packet, None}, pc'["rx"] # "dead",
         pc'["rx"] = "compare" => cache'[packet'.addr] # None,
         \A a \in Addrs : cache'[a] # None => cache'[a] = cache[a],
         Fresh' => cache'[inHand'.addr] = None
  PROVE  Received'
<1>1. \A n \in Nodes : mesh[n].member => mesh[n].addr \in Addrs /\ Placed(n)
  BY StoreTypes DEF Received
<1>2. packet' # None =>
        \E n \in Nodes : /\ Placed(n)' /\ mesh'[n].addr = packet'.addr
                         /\ mesh'[n].member => packet'.seq < mesh'[n].seq
  BY DEF Received
<1>3. \A n \in Nodes : mesh'[n].member /\ cache'[mesh'[n].addr] # None =>
        cache'[mesh'[n].addr] < mesh'[n].seq
  BY <1>1 DEF Received
<1> QED
  BY <1>1, <1>2, <1>3 DEF Received

LEMMA PlacesKept ==
  ASSUME Typed, Session, Stored, [Next]_vars, ~LinkCompletes, ~Expires, ~Beacons, ~Leaves
  PROVE  \A n \in Nodes : Placed(n) => Placed(n)'
BY PlacedStep DEF Beacons, Leaves

\* What Received rests on.
All == Typed /\ Session /\ Stored /\ StoredRight /\ AddressesDistinct

\* The entry that a handler removes is not the one the receive thread has looked up.
LEMMA ReceivedForgets ==
  ASSUME All, Received, ~strays, [Next]_vars, BeginProvision \/ NodeIsReset
  PROVE  Received'
<1> USE DEF All
<1>0. /\ PlacesOK /\ cache \in [Addrs -> 0..MaxSeq \union {None}]
      /\ packet \in [addr : Addrs, seq : 0..MaxSeq] \union {None}
      /\ db \in [Nodes -> [addr : Addrs, key : {0, 1}] \union {None}]
      /\ current.node \in Nodes
      /\ pc["rx"] = "compare" => packet # None
  BY StoreTypes DEF BeginProvision, NodeIsReset, Typed, Threads
<1>1. UNCHANGED <<mesh, packet, strays>> /\ pc'["rx"] = pc["rx"]
  BY <1>0 DEF BeginProvision, NodeIsReset, channels, external, Return, Goto, PlacesOK
<1>2. /\ ~LinkCompletes /\ ~Expires /\ ~Beacons /\ ~Leaves
  BY <1>0 DEF BeginProvision, NodeIsReset, LinkCompletes, Expires, ResetExpires, Beacons,
     Beacon, Leaves, LeaveMesh, Idle, Return, Goto, PlacesOK
<1>3. \A n \in Nodes : Placed(n) => Placed(n)'
  BY <1>2, PlacesKept
<1>4. \A a \in Addrs : cache'[a] # None => cache'[a] = cache[a]
  BY <1>0 DEF BeginProvision, NodeIsReset, ForgetEntry
<1>5. pc["rx"] = "compare" => cache'[packet.addr] # None
  <2> SUFFICES ASSUME pc["rx"] = "compare"
               PROVE  cache'[packet.addr] # None
    OBVIOUS
  <2>1. packet # None /\ packet.addr \in Addrs /\ cache[packet.addr] # None
    BY <1>0 DEF Received
  <2>2. PICK m \in Nodes : Placed(m) /\ mesh[m].addr = packet.addr
    BY <2>1 DEF Received
  <2>3. CASE BeginProvision
    <3>1. \A a \in ObtainUnicastAddr : a # packet.addr
      BY <2>2, <2>3, NoPlace DEF BeginProvision
    <3> QED
      BY <1>0, <2>1, <2>3, <3>1, FreeAddr DEF BeginProvision, ForgetEntry
  <2>4. CASE NodeIsReset
    <3> DEFINE n == current.node
    <3>1. SUFFICES ASSUME db[n] # None, db[n].addr = packet.addr
                   PROVE  FALSE
      BY <1>0, <2>1, <2>4 DEF NodeIsReset, ForgetEntry
    <3>2. inHand # None /\ inHand.node = n => ~Completed /\ pc["ev"] # "complete"
      BY <2>4, <3>1 DEF NodeIsReset, Stored, Completed
    <3>3. Forgets(n)
      BY <2>4, <3>2 DEF NodeIsReset, Forgets
    <3>4. ~Completing(n) /\ m # n
      BY <2>2, <3>2, <3>3 DEF Completing, Placed
    <3>5. db[m] # None \/ Completing(m)
      BY <2>2 DEF Placed
    <3>6. CASE db[m] # None
      BY <1>0, <2>2, <3>1, <3>4, <3>6 DEF StoredRight, AddressesDistinct
    <3>7. CASE Completing(m)
      <4>1. inHand # None /\ inHand.node = m /\ inHand.addr = packet.addr
        BY <2>2, <3>7 DEF Completing, Completed, Stored
      <4> QED
        BY <1>0, <3>1, <3>4, <4>1 DEF AddressesDistinct
    <3> QED
      BY <3>5, <3>6, <3>7
  <2> QED
    BY <2>3, <2>4
<1>6. Fresh' => cache'[inHand'.addr] = None
  <2>1. CASE BeginProvision
    <3>1. Fresh' => \E a \in ObtainUnicastAddr : inHand' = [node |-> current.node, addr |-> a]
                                                   /\ cache' = ForgetEntry(a)
      <4>1. ~Asked /\ ~Open /\ dev' = dev
        BY <2>1 DEF BeginProvision, Session, external
      <4> QED
        BY <2>1, <4>1 DEF BeginProvision, Fresh, Asked, Open
    <3> QED
      BY <1>0, <3>1, FreeAddr DEF ForgetEntry
  <2>2. CASE NodeIsReset
    <3>1. Fresh' => Fresh
      BY <2>2, FreshStep DEF NodeIsReset, BeginProvision
    <3>2. inHand' = inHand
      BY <2>2 DEF NodeIsReset
    <3>3. Fresh => cache[inHand.addr] = None /\ inHand.addr \in Addrs
      BY LinkNode DEF Received, Fresh
    <3> QED
      BY <1>4, <3>1, <3>2, <3>3
  <2> QED
    BY <2>1, <2>2
<1> QED
  BY <1>1, <1>3, <1>4, <1>5, <1>6, QuietReceived DEF Received

LEMMA ReceivedRx ==
  ASSUME All, Received, ~strays, [Next]_vars, RxThread
  PROVE  Received'
<1> USE DEF All
<1>0. /\ PlacesOK /\ cache \in [Addrs -> 0..MaxSeq \union {None}]
      /\ packet \in [addr : Addrs, seq : 0..MaxSeq] \union {None}
      /\ pc["rx"] \in {"compare", "accept"} => packet # None
  BY StoreTypes DEF Typed, Threads
<1>1. UNCHANGED <<mesh, strays, dev, toDevice, inHand, events>>
  BY DEF RxThread, RxLook, RxCompare, RxAccept, external, store
<1>2. packet # None /\ packet.addr \in Addrs /\ packet.seq \in 0..MaxSeq
  BY <1>0 DEF RxThread, RxLook, RxCompare, RxAccept
<1>3. \A n \in Nodes : Placed(n) => Placed(n)'
  <2>1. ~LinkCompletes /\ ~Beacons
    BY <1>2 DEF LinkCompletes, Beacons, Beacon, Arrives
  <2>2. ~Expires
    BY <1>1 DEF Expires, ResetExpires
  <2>3. ~Leaves
    BY <1>0, <1>1, MeshLeft, StoreTypes DEF Leaves, LeaveMesh
  <2> QED
    BY <2>1, <2>2, <2>3, PlacesKept
<1>4. Fresh' => Fresh
  BY <1>1 DEF Fresh, Asked, Open
<1>5. Fresh => cache[inHand.addr] = None /\ inHand.addr \in Addrs
  BY LinkNode DEF Received, Fresh
<1>6. CASE RxLook \/ RxCompare
  <2>1. pc'["rx"] # "dead" /\ packet' \in {packet, None} /\ cache' = cache
        /\ (pc'["rx"] = "compare" => cache[packet.addr] # None /\ packet' = packet)
    BY <1>0, <1>6 DEF RxLook, RxCompare, RxDone, Goto, PlacesOK, Received
  <2> QED
    BY <1>1, <1>3, <1>4, <1>5, <2>1, QuietReceived
\* The packet is younger than what its node sends next.
<1>7. CASE RxAccept
  <2> DEFINE a == packet.addr
  <2>1. packet' = None /\ pc'["rx"] = "idle" /\ cache' = [cache EXCEPT ![a] = packet.seq]
    BY <1>0, <1>7 DEF RxAccept, RxDone, Goto, PlacesOK
  <2>2. PICK m \in Nodes : /\ Placed(m) /\ mesh[m].addr = a
                           /\ (mesh[m].member => packet.seq < mesh[m].seq)
    BY <1>2 DEF Received
  <2>3. \A n \in Nodes : mesh[n].member => Placed(n) /\ mesh[n].addr \in Addrs
    BY StoreTypes DEF Received
  <2>4. \A n \in Nodes : mesh[n].member /\ mesh[n].addr = a => packet.seq < mesh[n].seq
    BY <2>2, <2>3, PlacesDistinct
  <2>5. Fresh => inHand.addr # a
    BY <2>2, NoPlace
  <2> HIDE DEF a
  <2>6. \A n \in Nodes : mesh[n].member /\ cache'[mesh[n].addr] # None =>
          cache'[mesh[n].addr] < mesh[n].seq
    BY <1>0, <2>1, <2>3, <2>4 DEF Received
  <2>7. Fresh => cache'[inHand.addr] = None
    BY <1>0, <1>5, <2>1, <2>5
  <2>8. \A n \in Nodes : mesh[n].member => Placed(n)'
    BY <1>3, <2>3
  <2> QED
    BY <1>1, <1>4, <2>1, <2>6, <2>7, <2>8 DEF Received
<1> QED
  BY <1>6, <1>7 DEF RxThread

LEMMA ReceivedSends ==
  ASSUME All, Received, ~strays, [Next]_vars, Sends
  PROVE  Received'
<1> USE DEF All
<1>0. PlacesOK /\ mesh \in [Nodes -> Membership]
  BY StoreTypes
<1>1. PICK n \in Nodes : NodeSends(n)
  BY DEF Sends
<1>2. /\ UNCHANGED <<cache, pc, dev, toDevice, inHand, events, strays>>
      /\ pc["rx"] = "idle" /\ packet' = [addr |-> mesh[n].addr, seq |-> mesh[n].seq]
      /\ mesh[n].member
  BY <1>1 DEF NodeSends, PacketArrives, Idle, store
<1>3. PICK x \in Membership :
        /\ mesh' = [mesh EXCEPT ![n] = x] /\ x.member
        /\ x.addr = mesh[n].addr /\ x.seq = mesh[n].seq + 1
  BY <1>0, <1>1, MeshSent
<1>4. \A m \in Nodes : Placed(m) => Placed(m)'
  <2>1. ~LinkCompletes /\ ~Expires /\ ~Beacons
    BY <1>1, <1>2 DEF NodeSends, PacketArrives, Arrives, LinkCompletes, Expires,
       ResetExpires, Beacons, Beacon
  <2>2. ~Leaves
    <3>1. packet = None /\ packet' # None
      <4>1. packet' \in [addr : Addrs, seq : 0..MaxSeq]
        BY <1>0, <1>2, StoreTypes DEF Membership
      <4> QED
        BY <1>1, <4>1, RecordsNotNone DEF NodeSends, PacketArrives
    <3> QED
      BY <3>1 DEF Leaves, LeaveMesh
  <2> QED
    BY <2>1, <2>2, PlacesKept
<1>5. mesh[n].seq \in Int /\ \A a \in Addrs : cache[a] # None => cache[a] \in Int
  BY <1>0, StoreTypes, ProvisioningAssumption DEF Membership
<1>6. mesh'[n] = x /\ \A m \in Nodes : m # n => mesh'[m] = mesh[m]
  BY <1>0, <1>3
<1>7. \A m \in Nodes : mesh'[m].member => mesh[m].member /\ mesh'[m].addr = mesh[m].addr
  BY <1>2, <1>3, <1>6
<1>8. packet'.addr = mesh'[n].addr /\ packet'.seq < mesh'[n].seq /\ Placed(n)'
  BY <1>2, <1>3, <1>4, <1>5, <1>6 DEF Received
<1>9. \A m \in Nodes : mesh'[m].member /\ cache'[mesh'[m].addr] # None =>
        cache'[mesh'[m].addr] < mesh'[m].seq
  <2> SUFFICES ASSUME NEW m \in Nodes, mesh'[m].member, cache[mesh[m].addr] # None
               PROVE  cache[mesh[m].addr] < mesh'[m].seq
    BY <1>2, <1>7
  <2>1. cache[mesh[m].addr] < mesh[m].seq /\ cache[mesh[m].addr] \in Int
    BY <1>5, <1>7, StoreTypes DEF Received
  <2>2. mesh[m].seq \in Int /\ (mesh'[m].seq = mesh[m].seq \/ mesh'[m].seq = mesh[m].seq + 1)
    BY <1>0, <1>3, <1>6, ProvisioningAssumption DEF Membership
  <2> QED
    BY <2>1, <2>2
<1>10. Fresh' = Fresh
  BY <1>2 DEF Fresh, Asked, Open
<1> QED
  BY <1>2, <1>4, <1>7, <1>8, <1>9, <1>10 DEF Received

\* A node that is out of the network has no packet on its way any more when the event
\* that removes it is.
LEMMA ReceivedLeaves ==
  ASSUME All, Received, ~strays, [Next]_vars, Leaves \/ Beacons
  PROVE  Received'
<1> USE DEF All
<1>0. PlacesOK /\ mesh \in [Nodes -> Membership]
  BY StoreTypes
<1>1. PICK n \in Nodes : LeaveMesh(n) \/ Beacon(n)
  BY DEF Leaves, Beacons
<1>2. /\ UNCHANGED <<cache, pc, dev, toDevice, inHand, packet, strays, current, db>>
      /\ events' = events \/ packet = None
  BY <1>1 DEF LeaveMesh, Beacon, Arrives, store, external
<1>3. /\ ~mesh'[n].member
      /\ \A m \in Nodes : m # n => mesh'[m] = mesh[m]
      /\ \A m \in Nodes : mesh'[m].addr = mesh[m].addr
      /\ \A m \in Nodes : mesh'[m].member => mesh'[m] = mesh[m]
  <2>1. CASE LeaveMesh(n)
    <3>1. PICK x \in Membership : /\ mesh' = [mesh EXCEPT ![n] = x] /\ ~x.member
                                  /\ x.addr = mesh[n].addr
      BY <1>0, <2>1, MeshLeft
    <3> QED
      BY <1>0, <3>1
  <2>2. CASE Beacon(n)
    BY <2>2 DEF Beacon, external
  <2> QED
    BY <1>1, <2>1, <2>2
<1>4. \A m \in Nodes : m # n \/ events' = events => (Placed(m) => Placed(m)')
  <2>1. ~LinkCompletes
    BY <1>2 DEF LinkCompletes, Typed, Shape
  <2>2. ~Expires
    BY <1>2 DEF Expires, ResetExpires
  <2>3. ASSUME NEW m \in Nodes, m # n
        PROVE  ~LeaveMesh(m)
    <3> SUFFICES ASSUME LeaveMesh(m) PROVE FALSE
      OBVIOUS
    <3>1. ~mesh'[m].member
      BY <1>0, MeshLeft
    <3> QED
      BY <1>3, <2>3, <3>1 DEF LeaveMesh
  <2>4. ASSUME NEW m \in Nodes, m # n, Beacon(m)
        PROVE  FALSE
    <3>1. Beacon(n)
      BY <1>1, <1>3, <2>4 DEF LeaveMesh, Beacon, external
    <3>2. \A k \in {m, n} : events' = Append(events, Event("unprov", k))
      BY <3>1, <2>4 DEF Beacon, Arrives, Received
    <3>3. events \in Seq(Known) /\ \A k \in {m, n} : Event("unprov", k) \in Known
      BY StoreTypes, KnownEvents
    <3>4. \A k \in {m, n} : events'[Len(events) + 1] = Event("unprov", k)
      BY <3>2, <3>3, AfterAppend
    <3> QED
      BY <2>4, <3>4 DEF Event
  <2>5. events' = events => \A m \in Nodes : Placed(m) => Placed(m)'
    BY <1>2 DEF Placed, Completing, Forgets, Completed
  <2> QED
    BY <2>1, <2>2, <2>3, <2>4, <2>5, PlacedStep
<1>5. \A m \in Nodes : mesh'[m].member => Placed(m)'
  BY <1>3, <1>4 DEF Received
<1>6. packet' # None =>
        \E m \in Nodes : /\ Placed(m)' /\ mesh'[m].addr = packet'.addr
                         /\ mesh'[m].member => packet'.seq < mesh'[m].seq
  BY <1>2, <1>3, <1>4 DEF Received
<1>7. \A m \in Nodes : mesh'[m].member /\ cache'[mesh'[m].addr] # None =>
        cache'[mesh'[m].addr] < mesh'[m].seq
  BY <1>2, <1>3 DEF Received
<1>8. Fresh' = Fresh
  BY <1>2 DEF Fresh, Asked, Open
<1> QED
  BY <1>2, <1>5, <1>6, <1>7, <1>8 DEF Received

LEMMA ReceivedCompletes ==
  ASSUME All, Received, ~strays, [Next]_vars, LinkCompletes
  PROVE  Received'
<1> USE DEF All
<1> DEFINE n == inHand.node
<1>0. PlacesOK /\ mesh \in [Nodes -> Membership]
  BY StoreTypes
<1>1. /\ UNCHANGED <<cache, pc, toDevice, inHand, packet, strays>> /\ packet = None
  BY DEF LinkCompletes, Arrives, store
<1>2. Fresh /\ dev.node = n /\ dev.addr = inHand.addr /\ n \in Nodes /\ ~Asked
  <2>1. Open /\ dev.stage = "keyed"
    BY DEF LinkCompletes, Open, Typed, Shape
  <2> QED
    BY <2>1, LinkNode DEF Session, Fresh
<1>3. cache[inHand.addr] = None /\ pc["rx"] # "dead"
  BY <1>2 DEF Received
<1>4. \A m \in Nodes : mesh'[m].member => Placed(m)'
  BY <1>3, PlacedCompletes DEF Received
<1>5. \A m \in Nodes : mesh'[m].member /\ cache[mesh'[m].addr] # None =>
        cache[mesh'[m].addr] < mesh'[m].seq
  BY <1>3, PlacedCompletes DEF Received
<1>6. ~Fresh'
  <2>1. ~Asked'
    BY <1>1, <1>2 DEF Asked
  <2> QED
    BY <2>1 DEF LinkCompletes, Fresh, Typed, Shape
<1> QED
  BY <1>0, <1>1, <1>3, <1>4, <1>5, <1>6 DEF Received

LEMMA ReceivedStep ==
  ASSUME All, Received, [Next]_vars
  PROVE  Received'
<1> USE DEF All
<1>1. CASE strays'
  BY <1>1 DEF Received
<1>2. CASE ~strays'
  <2>0. ~Expires /\ ~Late
    BY <1>2 DEF Expires, ResetExpires, Late, LatePacket
  <2>1. ~strays /\ ~Expires /\ ~Late
    BY <1>2, <2>0, Frame
  <2>2. CASE BeginProvision \/ NodeIsReset \/ RxThread \/ Sends \/ Leaves \/ Beacons
             \/ LinkCompletes
    BY <2>1, <2>2, ReceivedForgets, ReceivedRx, ReceivedSends, ReceivedLeaves,
       ReceivedCompletes
  <2>3. CASE ~(BeginProvision \/ NodeIsReset \/ RxThread \/ Sends \/ Leaves \/ Beacons
                \/ LinkCompletes)
    <3>1. UNCHANGED <<mesh, packet, cache>> /\ pc'["rx"] = pc["rx"]
      BY <2>1, <2>3, Frame, RxMoves, StoreTypes DEF RxThread
    <3>2. \A n \in Nodes : Placed(n) => Placed(n)'
      BY <2>1, <2>3, PlacesKept
    <3>3. Fresh' => cache'[inHand'.addr] = None
      <4>1. Fresh' => Fresh
        BY <2>3, FreshStep
      <4>2. Fresh => inHand' = inHand
        BY <2>3, Frame DEF ForgetNode, Session, Closing, EndPlaces, Fresh
      <4> QED
        BY <2>1, <3>1, <4>1, <4>2 DEF Received
    <3> QED
      BY <2>1, <3>1, <3>2, <3>3, QuietReceived DEF Received
  <2> QED
    BY <2>2, <2>3
<1> QED
  BY <1>1, <1>2

LEMMA AllStep ==
  ASSUME All, [Next]_vars
  PROVE  All'
BY TypedStep, SessionStep, StoredStep, StoredRightStep, AddressesStep DEF All

LEMMA AllInit ==
  ASSUME Init
  PROVE  All /\ Received
<1>1. All
  BY TypedInit, SessionInit, StoredInit DEF All, Init, AddressesDistinct
<1>2. Received
  BY DEF Init, Received, Unprovisioned, Fresh, Asked, Open, Off
<1> QED
  BY <1>1, <1>2

\* The receive thread outlives the removal of cache entries by the event thread, on
\* its own look-up: check_seq_number looks an entry up twice with nothing held.  As
\* long as no address has been given up that its node still uses.
THEOREM ReceiveThreadLives == Spec => []RxAlive
<1>1. Init => All /\ Received
  BY AllInit
<1>2. All /\ Received /\ [Next]_vars => (All /\ Received)'
  BY AllStep, ReceivedStep
<1>3. All /\ Received => RxAlive
  BY DEF Received, RxAlive
<1> QED
  BY <1>1, <1>2, <1>3, PTL DEF Spec

\* No stored node is deaf: the replay cache never holds against a node what another
\* node has sent from its address, or it has sent itself before it was provisioned
\* again.  Same exception.
THEOREM NodesAreHeard == Spec => []Heard
<1>1. Init => All /\ Received
  BY AllInit
<1>2. All /\ Received /\ [Next]_vars => (All /\ Received)'
  BY AllStep, ReceivedStep
<1>3. All /\ Received => Heard
  BY DEF All, Received, Heard, StoredRight
<1> QED
  BY <1>1, <1>2, <1>3, PTL DEF Spec

-----------------------------------------------------------------------------
(* Library and device agree on the scan. *)

ScanOps == {"scan_start", "scan_stop"}
\* What the device comes to when it has carried out the commands on their way.
NoneLeft == \A i \in DOMAIN toDevice : toDevice[i].op \notin ScanOps
LastIs(op) ==
  \E i \in DOMAIN toDevice :
    toDevice[i].op = op /\ \A j \in DOMAIN toDevice : i < j => toDevice[j].op \notin ScanOps
WillScan == LastIs("scan_start") \/ (NoneLeft /\ dev.scan)
WillRest == LastIs("scan_stop") \/ (NoneLeft /\ ~dev.scan)

\* start_scan has set the flag; the end of a link has not yet resumed the scan.
Begins == pc["api"] \in {"timer", "hook_timeout", "hook"}
Resuming ==
  \/ pc["ev"] \in {"one", "resume", "scan_start"}
  \/ pc["ev"] \in {"stop", "unset"} /\ current.type # "timeout"

Agreed ==
  /\ Idle("api") \/ ~OnScan
  /\ Begins \/ pc["api"] \in {"unset", "scan_start"} \/ pc["ev"] \in {"unset", "scan_start"}
       => scanning
  /\ pc["api"] \in {"scan_stop", "unhook"} \/ pc["ev"] \in {"scan_stop", "unhook"}
       => ~scanning
  /\ scanning /\ ~Begins => "unprov_handler" \in handlers
  /\ ~scanning => WillRest \/ pc["api"] = "scan_stop" \/ pc["ev"] = "scan_stop"
  /\ scanning /\ ~provisioning =>
       \/ WillScan \/ Begins \/ pc["api"] = "scan_start"
       \/ Resuming \/ pc["ev"] = "provision"
Agreeing == ~crossed /\ restarts = 0 => Agreed

LEMMA OrderOps ==
  ASSUME Typed
  PROVE  /\ toDevice \in Seq(Orders) /\ dev.scan \in BOOLEAN
         /\ \A op \in Commands : Cmd(op) \in Orders /\ Cmd(op).op = op
         /\ \A n \in Nodes, a \in Addrs :
              Provision(n, a) \in Orders /\ Provision(n, a).op \notin ScanOps
<1>1. toDevice \in Seq(Orders) /\ dev.scan \in BOOLEAN
  BY DEF Typed, TypeOK, Shape
<1>2. \A op \in Commands : Cmd(op) \in Orders /\ Cmd(op).op = op
  BY DEF Orders, Cmd
<1>3. \A n \in Nodes, a \in Addrs :
        Provision(n, a) \in Orders /\ Provision(n, a).op \notin ScanOps
  BY DEF Orders, Provision, ScanOps
<1> QED BY <1>1, <1>2, <1>3

\* A command that is put in the queue is the last.
LEMMA ScanOrdered ==
  ASSUME Typed, NEW c \in Orders, toDevice' = Append(toDevice, c), dev' = dev
  PROVE  /\ c.op = "scan_start" => WillScan'
         /\ c.op = "scan_stop" => WillRest'
         /\ c.op \notin ScanOps => (WillScan => WillScan') /\ (WillRest => WillRest')
<1> DEFINE L == Len(toDevice)
<1>0. /\ DOMAIN toDevice = 1..L /\ L \in Nat /\ DOMAIN toDevice' = 1..(L + 1)
      /\ toDevice'[L + 1] = c /\ \A i \in 1..L : toDevice'[i] = toDevice[i]
  BY OrderOps
<1> HIDE DEF L
<1>1. c.op \in ScanOps => LastIs(c.op)'
  BY <1>0 DEF LastIs
<1>2. ASSUME c.op \notin ScanOps PROVE NoneLeft => NoneLeft'
  BY <1>0, <1>2 DEF NoneLeft
<1>3. ASSUME c.op \notin ScanOps, NEW op, LastIs(op) PROVE LastIs(op)'
  <2>1. PICK i \in 1..L : toDevice[i].op = op
                          /\ \A j \in 1..L : i < j => toDevice[j].op \notin ScanOps
    BY <1>0, <1>3 DEF LastIs
  <2>2. i \in DOMAIN toDevice' /\ toDevice'[i].op = op
    BY <1>0, <2>1
  <2>3. \A j \in DOMAIN toDevice' : i < j => toDevice'[j].op \notin ScanOps
    BY <1>0, <1>3, <2>1
  <2> QED BY <2>2, <2>3 DEF LastIs
<1>4. c.op \in ScanOps <=> c.op = "scan_start" \/ c.op = "scan_stop"
  BY DEF ScanOps
<1> QED BY <1>1, <1>2, <1>3, <1>4 DEF WillScan, WillRest

\* The device carries out the first command.
LEMMA ScanCarriedOut ==
  ASSUME Typed, DeviceCommand
  PROVE  (WillScan => WillScan') /\ (WillRest => WillRest')
<1> DEFINE L == Len(toDevice)
           c == Head(toDevice)
<1>0. /\ DOMAIN toDevice = 1..L /\ L \in Nat \ {0} /\ DOMAIN toDevice' = 1..(L - 1)
      /\ c = toDevice[1] /\ \A i \in 1..(L - 1) : toDevice'[i] = toDevice[i + 1]
  BY OrderOps DEF DeviceCommand
<1>1. /\ c.op = "scan_start" => dev'.scan = TRUE
      /\ c.op = "scan_stop" => dev'.scan = FALSE
      /\ c.op \notin ScanOps => dev'.scan = dev.scan
  BY DEF DeviceCommand, Typed, Shape, ScanOps
<1> HIDE DEF L, c
<1>2. NoneLeft => NoneLeft' /\ c.op \notin ScanOps
  BY <1>0 DEF NoneLeft
<1>3. ASSUME NEW op \in ScanOps, LastIs(op)
      PROVE  LastIs(op)' \/ (NoneLeft' /\ c.op = op)
  <2>1. PICK i \in 1..L : toDevice[i].op = op
                          /\ \A j \in 1..L : i < j => toDevice[j].op \notin ScanOps
    BY <1>0, <1>3 DEF LastIs
  <2>2. \A j \in 1..(L - 1) : j + 1 \in 1..L /\ (i < j + 1 => toDevice'[j].op \notin ScanOps)
    BY <1>0, <2>1
  <2>3. CASE i = 1
    <3>1. c.op = op
      BY <1>0, <2>1, <2>3
    <3>2. \A j \in 1..(L - 1) : i < j + 1
      BY <1>0, <2>3
    <3> QED BY <1>0, <2>2, <3>1, <3>2 DEF NoneLeft
  <2>4. CASE i # 1
    <3>1. i - 1 \in 1..(L - 1) /\ toDevice'[i - 1] = toDevice[i]
      BY <1>0, <2>4
    <3>2. \A j \in 1..(L - 1) : i - 1 < j => i < j + 1
      BY <1>0
    <3> QED BY <1>0, <2>1, <2>2, <3>1, <3>2 DEF LastIs
  <2> QED BY <2>3, <2>4
<1>4. WillScan => WillScan'
  <2>1. CASE LastIs("scan_start")
    <3>1. "scan_start" \in ScanOps
      BY DEF ScanOps
    <3> QED BY <1>1, <1>3, <2>1, <3>1 DEF WillScan
  <2>2. CASE NoneLeft /\ dev.scan
    BY <1>1, <1>2, <2>2 DEF WillScan
  <2> QED BY <2>1, <2>2 DEF WillScan
<1>5. WillRest => WillRest'
  <2>1. CASE LastIs("scan_stop")
    <3>1. "scan_stop" \in ScanOps
      BY DEF ScanOps
    <3> QED BY <1>1, <1>3, <2>1, <3>1 DEF WillRest
  <2>2. CASE NoneLeft /\ ~dev.scan
    BY <1>1, <1>2, <2>2 DEF WillRest
  <2> QED BY <2>1, <2>2 DEF WillRest
<1> QED BY <1>4, <1>5

\* Who changes what the device comes to.
LEMMA WillStep ==
  ASSUME Typed, [Next]_vars, ~Restart
  PROVE  /\ WillScan => \/ WillScan' \/ pc'["ev"] = "provision"
                        \/ \E t \in Turns : SendScanStop(t)
         /\ WillRest => WillRest' \/ \E t \in Turns : SendScanStart(t)
         /\ (\E t \in Turns : SendScanStart(t)) => WillScan'
         /\ (\E t \in Turns : SendScanStop(t)) => WillRest'
<1> DEFINE P == /\ WillScan => WillScan'
                /\ WillRest => WillRest'
<1>0. PlacesOK
  BY StoreTypes
<1>1. ASSUME NEW t \in Turns, SendScanStart(t) PROVE WillScan'
  <2>1. toDevice' = Append(toDevice, Cmd("scan_start")) /\ dev' = dev
    BY <1>1 DEF SendScanStart, Put, external
  <2> QED BY <2>1, OrderOps, ScanOrdered DEF Commands
<1>2. ASSUME NEW t \in Turns, SendScanStop(t) PROVE WillRest'
  <2>1. toDevice' = Append(toDevice, Cmd("scan_stop")) /\ dev' = dev
    BY <1>2 DEF SendScanStop, Put, external
  <2> QED BY <2>1, OrderOps, ScanOrdered DEF Commands
<1>3. ASSUME NEW c \in Orders, c.op \notin ScanOps, Put(c), dev' = dev PROVE P
  BY <1>3, ScanOrdered DEF Put
<1>4. ASSUME toDevice' = toDevice, dev'.scan = dev.scan PROVE P
  BY <1>4 DEF WillScan, WillRest, LastIs, NoneLeft
<1> HIDE DEF P
<1>5. CASE Found
  <2>1. dev' = dev
    BY <1>5 DEF Found, external
  <2>2. CASE Takes(current.node)
    <3>1. toDevice' = Append(toDevice, Cmd("scan_stop")) /\ pc'["ev"] = "provision"
      BY <1>0, <1>5, <2>2 DEF Found, Put, Goto, PlacesOK
    <3>2. WillRest'
      BY <2>1, <3>1, OrderOps, ScanOrdered DEF Commands
    <3>3. \A t \in Turns : ~SendScanStart(t) /\ ~SendScanStop(t)
      <4>1. ASSUME NEW t \in Turns PROVE ~SendScanStart(t)
        BY <1>0, <1>5, <3>1, <2>2 DEF SendScanStart, Goto, Found, PlacesOK, Turns
      <4>2. ASSUME NEW t \in Turns PROVE ~SendScanStop(t)
        BY <1>0, <1>5, <3>1, <2>2 DEF SendScanStop, Goto, Found, PlacesOK, Turns
      <4> QED BY <4>1, <4>2
    <3> QED BY <3>1, <3>2, <3>3
  <2>3. CASE ~Takes(current.node)
    <3>1. toDevice' = toDevice
      BY <1>5, <2>3 DEF Found
    <3> QED BY <1>1, <1>2, <1>4, <2>1, <3>1 DEF P
  <2> QED BY <2>2, <2>3
<1>6. CASE BeginProvision
  <2>1. current.node \in Nodes
    BY <1>6 DEF BeginProvision, Known, Typed, Shape, Threads
  <2>2. \/ UNCHANGED toDevice
        \/ \E a \in ObtainUnicastAddr : Put(Provision(current.node, a))
    BY <1>6 DEF BeginProvision
  <2>3. dev' = dev
    BY <1>6 DEF BeginProvision, external
  <2>4. P
    BY <1>3, <1>4, <2>1, <2>2, <2>3, FreeAddr, OrderOps
  <2> QED BY <1>1, <1>2, <2>4 DEF P
<1>7. CASE Answer
  <2>1. \/ UNCHANGED toDevice
        \/ \E op \in {"oob_use", "ecdh_secret"} : Put(Cmd(op))
    BY <1>7 DEF Answer
  <2>2. dev' = dev
    BY <1>7 DEF Answer, external
  <2>3. \A op \in {"oob_use", "ecdh_secret"} : Cmd(op) \in Orders /\ Cmd(op).op \notin ScanOps
    BY OrderOps DEF Commands, ScanOps
  <2>4. P
    BY <1>3, <1>4, <2>1, <2>2, <2>3
  <2> QED BY <1>1, <1>2, <2>4 DEF P
<1>8. CASE DeviceCommand
  BY <1>1, <1>2, <1>8, ScanCarriedOut
<1>9. CASE /\ toDevice' = toDevice
           /\ dev' = dev \/ LinkAsks \/ LinkCompletes \/ LinkCloses
  <2>1. dev'.scan = dev.scan
    BY <1>9 DEF LinkAsks, LinkCompletes, LinkCloses, Off, Typed, Shape
  <2> QED BY <1>1, <1>2, <1>4, <1>9, <2>1 DEF P
<1>10. CASE \E t \in Turns : SendScanStart(t) \/ SendScanStop(t)
  <2>1. ASSUME NEW t \in Turns, SendScanStart(t) PROVE \A u \in Turns : ~SendScanStop(u)
    <3>1. toDevice' = Append(toDevice, Cmd("scan_start"))
      BY <2>1 DEF SendScanStart, Put
    <3>2. ASSUME NEW u \in Turns, SendScanStop(u) PROVE FALSE
      <4>1. toDevice' = Append(toDevice, Cmd("scan_stop"))
        BY <3>2 DEF SendScanStop, Put
      <4>2. /\ Cmd("scan_start") \in Orders /\ Cmd("scan_start").op = "scan_start"
            /\ Cmd("scan_stop") \in Orders /\ Cmd("scan_stop").op = "scan_stop"
            /\ toDevice \in Seq(Orders)
        BY OrderOps DEF Commands
      <4> QED BY <3>1, <4>1, <4>2
    <3> QED BY <3>2
  <2> QED BY <1>1, <1>2, <1>10, <2>1
<1> QED BY <1>5, <1>6, <1>7, <1>8, <1>9, <1>10, Frame

\* A call of the application and a handler that works on the scan exclude one another.
LEMMA AloneStep ==
  ASSUME Typed, Idle("api") \/ ~OnScan, [Next]_vars, ~crossed'
  PROVE  (Idle("api") \/ ~OnScan)'
<1>0. PlacesOK /\ EventPlaces
  BY StoreTypes
<1> USE DEF PlacesOK, Goto, Idle, OnScan
<1>1. CASE Asks \/ CallStop
  BY <1>0, <1>1 DEF Asks, StartScan, CallStop
<1>2. CASE Dispatch
  BY <1>0, <1>2 DEF Dispatch
<1>3. CASE StartCheck \/ StartTimer \/ HookTimeout \/ Hook \/ StopScan("api")
           \/ SendScanStart("api")
  BY <1>0, <1>3 DEF StartCheck, StartTimer, HookTimeout, Hook, StopScan, StopCheck, StopUnset,
     SendScanStop, Unhook, SendScanStart
<1>4. CASE EventThread /\ ~Dispatch
  BY <1>0, <1>4 DEF EventThread, Found, BeginProvision, Answer, ProvComplete, ProvEnd,
     OnlyOne, Resume, ForgetNode, UnhookTimeout, NodeIsReset, ResetExpires, Return
<1>5. CASE StopScan("ev") \/ SendScanStart("ev")
  BY <1>0, <1>5 DEF StopScan, StopCheck, StopUnset, SendScanStop, Unhook, SendScanStart,
     StopPlaces, EndPlaces, EventPlaces
<1>6. CASE RxThread \/ ScanTimeout \/ Device \/ Mesh \/ UNCHANGED vars
  BY <1>0, <1>6 DEF RxThread, RxLook, RxCompare, RxAccept, RxDone, ScanTimeout, Device, Mesh,
     DeviceCommand, LinkAsks, LinkCompletes, LinkCloses, Restart, Beacon, LeaveMesh, NodeSends,
     LatePacket, vars
<1> QED BY <1>1, <1>2, <1>3, <1>4, <1>5, <1>6 DEF Next, Application, Asks, Turns

LEMMA WillSame ==
  ASSUME toDevice' = toDevice, dev' = dev
  PROVE  WillScan' = WillScan /\ WillRest' = WillRest
BY DEF WillScan, WillRest, LastIs, NoneLeft

\* The steps of start_scan and stop_scan in the thread of the application.
LEMMA AgreedApi ==
  ASSUME Typed, Agreed, (Idle("api") \/ ~OnScan)', [Next]_vars, ~Restart,
         Application \/ StopScan("api") \/ SendScanStart("api")
  PROVE  Agreed'
<1>0. PlacesOK /\ EventPlaces
  BY StoreTypes
<1>1. pc'["ev"] = pc["ev"] /\ current' = current /\ provisioning' = provisioning
  BY <1>0 DEF Application, StartScan, StartCheck, StartTimer, HookTimeout, Hook, CallStop,
     StopScan, StopCheck, StopUnset, SendScanStop, Unhook, SendScanStart, Goto, PlacesOK, scan, manager
<1> USE DEF Agreed, PlacesOK, Goto, Idle, Begins, Resuming, scan, manager, external
<1>2. CASE Asks \/ CallStop
  <2>1. WillScan' = WillScan /\ WillRest' = WillRest
    BY <1>2, WillSame DEF Asks, StartScan, CallStop, channels
  <2>2. scanning' = scanning /\ handlers' = handlers /\ pc["api"] = "idle"
        /\ pc'["api"] \in {"start", "stop"}
    BY <1>0, <1>2 DEF Asks, StartScan, CallStop
  <2> QED BY <1>1, <2>1, <2>2
<1>3. pc["api"] # "idle" => pc["ev"] \notin {"unset", "scan_start", "scan_stop", "unhook"}
                            /\ ~Resuming /\ pc["ev"] # "provision"
  BY <1>0 DEF OnScan, EventPlaces, EndPlaces, StopPlaces
<1>4. CASE StartCheck
  <2>1. WillScan' = WillScan /\ WillRest' = WillRest
    BY <1>4, WillSame DEF StartCheck, channels
  <2>2. /\ handlers' = handlers /\ pc["api"] = "start"
        /\ \/ pc'["api"] = "idle" /\ scanning' = scanning
           \/ pc'["api"] \in {"timer", "hook"} /\ scanning' = TRUE
    BY <1>0, <1>4 DEF StartCheck
  <2> QED BY <1>1, <1>3, <2>1, <2>2
<1>5. CASE StartTimer \/ HookTimeout \/ Hook
  <2>1. WillScan' = WillScan /\ WillRest' = WillRest
    BY <1>5, WillSame DEF StartTimer, HookTimeout, Hook, channels
  <2>2. /\ scanning' = scanning /\ handlers \subseteq handlers' /\ Begins
        /\ Begins' \/ (pc'["api"] = "scan_start" /\ "unprov_handler" \in handlers')
    BY <1>0, <1>5 DEF StartTimer, HookTimeout, Hook, AddHandler
  <2> QED BY <1>1, <1>3, <2>1, <2>2
<1>6. CASE SendScanStart("api")
  <2>1. WillScan'
    BY <1>6, WillStep DEF Turns
  <2>2. /\ scanning' = scanning /\ handlers' = handlers
        /\ pc["api"] = "scan_start" /\ pc'["api"] = "idle"
    BY <1>0, <1>6 DEF SendScanStart
  <2> QED BY <1>1, <1>3, <2>1, <2>2
<1>7. CASE StopCheck("api") \/ StopUnset("api")
  <2>1. WillScan' = WillScan /\ WillRest' = WillRest
    BY <1>7, WillSame DEF StopCheck, StopUnset, channels
  <2>2. /\ handlers' = handlers
        /\ \/ /\ scanning' = scanning /\ pc["api"] = "stop"
              /\ (pc'["api"] = "unset" /\ scanning) \/ pc'["api"] = "idle"
           \/ scanning' = FALSE /\ pc'["api"] = "scan_stop"
    BY <1>0, <1>7 DEF StopCheck, StopUnset, AfterStop
  <2> QED BY <1>1, <1>3, <2>1, <2>2, <1>7 DEF StopCheck, StopUnset
<1>8. CASE SendScanStop("api")
  <2>1. WillRest'
    BY <1>8, WillStep DEF Turns
  <2>2. scanning' = scanning /\ handlers' = handlers
        /\ pc["api"] = "scan_stop" /\ pc'["api"] = "unhook"
    BY <1>0, <1>8 DEF SendScanStop
  <2> QED BY <1>1, <1>3, <2>1, <2>2
<1>9. CASE Unhook("api")
  <2>1. WillScan' = WillScan /\ WillRest' = WillRest
    BY <1>9, WillSame DEF Unhook, channels
  <2>2. scanning' = scanning /\ pc["api"] = "unhook" /\ pc'["api"] = "idle"
    BY <1>0, <1>9 DEF Unhook, AfterStop
  <2> QED BY <1>1, <1>3, <2>1, <2>2
<1> QED BY <1>2, <1>4, <1>5, <1>6, <1>7, <1>8, <1>9 DEF Application, Asks, StopScan

\* The steps of the event thread.
LEMMA AgreedEvent ==
  ASSUME Typed, Agreed, (Idle("api") \/ ~OnScan)', [Next]_vars, ~Restart,
         EventThread \/ StopScan("ev") \/ SendScanStart("ev")
  PROVE  Agreed'
<1>0. PlacesOK /\ EventPlaces
  BY StoreTypes
<1>1. pc'["api"] = pc["api"]
  BY <1>0 DEF EventThread, Dispatch, Found, BeginProvision, Answer, ProvComplete, ProvEnd, OnlyOne,
     Resume, ForgetNode, UnhookTimeout, NodeIsReset, ResetExpires, Return,
     StopScan, StopCheck, StopUnset, SendScanStop, Unhook, SendScanStart, Goto, PlacesOK
<1>2. ~Idle("ev") /\ current.type \in {"unprov", "closed", "timeout"} => pc["api"] = "idle"
  BY DEF Agreed, OnScan, Idle
<1> USE DEF Agreed, PlacesOK, EventPlaces, EndPlaces, StopPlaces, Goto, Idle, Begins, Resuming,
      scan, manager, external
<1>3. CASE Dispatch
  <2>1. WillScan' = WillScan /\ WillRest' = WillRest
    BY <1>3, WillSame DEF Dispatch
  <2>2. /\ UNCHANGED <<scanning, provisioning, handlers>> /\ pc["ev"] = "idle"
        /\ pc'["ev"] \in {"idle", "found", "stop", "end", "complete", "reset", "answer"}
    BY <1>0, <1>3 DEF Dispatch, Places
  <2> QED BY <1>1, <2>1, <2>2
<1>4. CASE Found
  <2>1. UNCHANGED <<scanning, provisioning, handlers>> /\ pc["ev"] = "found" /\ pc["api"] = "idle"
        /\ pc'["ev"] \in {"provision", "idle"}
    BY <1>0, <1>2, <1>4 DEF Found, Return
  <2>2. (WillScan => WillScan' \/ pc'["ev"] = "provision") /\ (WillRest => WillRest')
    <3>1. ~SendScanStop("ev") /\ ~SendScanStop("api") /\ ~SendScanStart("ev") /\ ~SendScanStart("api")
      BY <2>1 DEF SendScanStop, SendScanStart
    <3> QED BY <3>1, WillStep DEF Turns
  <2> QED BY <1>1, <2>1, <2>2
<1>5. CASE BeginProvision
  <2>1. /\ scanning' = scanning /\ provisioning' = TRUE /\ handlers \subseteq handlers'
        /\ pc["ev"] = "provision" /\ pc["api"] = "idle" /\ pc'["ev"] = "idle"
    BY <1>0, <1>2, <1>5 DEF BeginProvision, Return
  <2>2. WillRest => WillRest'
    <3>1. ~SendScanStart("ev") /\ ~SendScanStart("api")
      BY <2>1 DEF SendScanStart
    <3> QED BY <3>1, WillStep DEF Turns
  <2> QED BY <1>1, <2>1, <2>2
<1>6. CASE Answer
  <2>1. UNCHANGED <<scanning, provisioning, handlers>> /\ pc["ev"] = "answer" /\ pc'["ev"] = "idle"
    BY <1>0, <1>6 DEF Answer, Return
  <2>2. (WillScan => WillScan') /\ (WillRest => WillRest')
    <3>1. toDevice' = toDevice \/ Put(Cmd("oob_use")) \/ Put(Cmd("ecdh_secret"))
      BY <1>6 DEF Answer
    <3>2. \A op \in {"oob_use", "ecdh_secret"} : Cmd(op) \in Orders /\ Cmd(op).op \notin ScanOps
      BY OrderOps DEF Commands, ScanOps
    <3>3. dev' = dev
      BY <1>6 DEF Answer
    <3> QED BY <3>1, <3>2, <3>3, ScanOrdered, WillSame DEF Put
  <2> QED BY <1>1, <2>1, <2>2
<1>7. CASE ProvEnd \/ OnlyOne \/ Resume
  <2>1. WillScan' = WillScan /\ WillRest' = WillRest
    BY <1>7, WillSame DEF ProvEnd, OnlyOne, Resume, channels
  <2>2. /\ scanning' = scanning /\ pc["api"] = "idle"
        /\ "unprov_handler" \in handlers => "unprov_handler" \in handlers'
        /\ pc["ev"] \in {"end", "one", "resume"} /\ current' = current /\ current.type = "closed"
        /\ pc'["ev"] \in {"one", "stop", "resume"}
           \/ (scanning /\ pc'["ev"] = "scan_start") \/ (~scanning /\ pc'["ev"] = "forget")
    BY <1>0, <1>2, <1>7 DEF ProvEnd, OnlyOne, Resume, Resumes
  <2> QED BY <1>1, <2>1, <2>2
<1>8. CASE ProvComplete \/ ForgetNode \/ UnhookTimeout \/ NodeIsReset
  <2>1. WillScan' = WillScan /\ WillRest' = WillRest
    BY <1>8, WillSame DEF ProvComplete, ForgetNode, UnhookTimeout, NodeIsReset, channels
  <2>2. /\ UNCHANGED <<scanning, provisioning>>
        /\ "unprov_handler" \in handlers => "unprov_handler" \in handlers'
        /\ pc["ev"] \in {"complete", "forget", "unhook_timeout", "reset"} /\ pc'["ev"] = "idle"
    BY <1>0, <1>8 DEF ProvComplete, ForgetNode, UnhookTimeout, NodeIsReset, Return
  <2> QED BY <1>1, <2>1, <2>2
<1>9. CASE Expires
  <2>1. WillScan' = WillScan /\ WillRest' = WillRest
    BY <1>9, WillSame DEF Expires, ResetExpires, channels
  <2>2. UNCHANGED <<scanning, provisioning, handlers, pc, current>>
    BY <1>9 DEF Expires, ResetExpires
  <2> QED BY <2>1, <2>2
<1>10. CASE SendScanStart("ev")
  <2>1. WillScan'
    BY <1>10, WillStep DEF Turns
  <2>2. /\ UNCHANGED <<scanning, handlers, current>>
        /\ pc["ev"] = "scan_start" /\ pc'["ev"] = "forget"
    BY <1>0, <1>10 DEF SendScanStart
  <2> QED BY <1>0, <1>1, <1>2, <2>1, <2>2
<1>11. CASE StopCheck("ev") \/ StopUnset("ev")
  <2>1. WillScan' = WillScan /\ WillRest' = WillRest
    BY <1>11, WillSame DEF StopCheck, StopUnset, channels
  <2>2. UNCHANGED <<provisioning, handlers, current>> /\ pc["api"] = "idle"
    BY <1>0, <1>2, <1>11 DEF StopCheck, StopUnset
  <2>3. \/ /\ scanning' = scanning /\ pc["ev"] = "stop"
           /\ \/ pc'["ev"] = "unset" /\ scanning
              \/ ~scanning /\ pc'["ev"] \in {"resume", "unhook_timeout"}
        \/ scanning' = FALSE /\ pc["ev"] = "unset" /\ pc'["ev"] = "scan_stop"
    BY <1>0, <1>11 DEF StopCheck, StopUnset, AfterStop
  <2> QED BY <1>1, <2>1, <2>2, <2>3
<1>12. CASE SendScanStop("ev")
  <2>1. WillRest'
    BY <1>12, WillStep DEF Turns
  <2>2. UNCHANGED <<scanning, handlers, current>> /\ pc["ev"] = "scan_stop" /\ pc'["ev"] = "unhook"
    BY <1>0, <1>12 DEF SendScanStop
  <2> QED BY <1>0, <1>1, <1>2, <2>1, <2>2
<1>13. CASE Unhook("ev")
  <2>1. WillScan' = WillScan /\ WillRest' = WillRest
    BY <1>13, WillSame DEF Unhook, channels
  <2>2. /\ UNCHANGED <<scanning, current>> /\ pc["ev"] = "unhook"
        /\ pc'["ev"] \in {"resume", "unhook_timeout"}
    BY <1>0, <1>13 DEF Unhook, AfterStop
  <2> QED BY <1>0, <1>1, <1>2, <2>1, <2>2
<1> QED BY <1>3, <1>4, <1>5, <1>6, <1>7, <1>8, <1>9, <1>10, <1>11, <1>12, <1>13
        DEF EventThread, Expires, StopScan

LEMMA AgreedOthers ==
  ASSUME Typed, Agreed, [Next]_vars, ~Restart,
         RxThread \/ ScanTimeout \/ Device \/ Mesh \/ UNCHANGED vars
  PROVE  Agreed'
<1>0. PlacesOK
  BY StoreTypes
<1>1. /\ UNCHANGED <<scanning, provisioning, handlers, current>>
      /\ pc'["ev"] = pc["ev"] /\ pc'["api"] = pc["api"]
  BY <1>0 DEF RxThread, RxLook, RxCompare, RxAccept, RxDone, ScanTimeout, Device, Mesh,
     DeviceCommand, LinkAsks, LinkCompletes, LinkCloses, Restart, Beacon, LeaveMesh, NodeSends,
     LatePacket, vars, scan, manager, Goto, PlacesOK
<1>2. ASSUME NEW t \in Turns PROVE ~SendScanStart(t) /\ ~SendScanStop(t)
  BY <1>0, <1>1 DEF SendScanStart, SendScanStop, Goto, PlacesOK, Turns
<1>3. /\ WillScan => WillScan' \/ pc["ev"] = "provision"
      /\ WillRest => WillRest'
  BY <1>1, <1>2, WillStep
<1> QED BY <1>1, <1>3 DEF Agreed, Idle, OnScan, Begins, Resuming

LEMMA AgreeingStep ==
  ASSUME Typed, Agreeing, [Next]_vars
  PROVE  Agreeing'
<1> SUFFICES ASSUME ~crossed', restarts' = 0 PROVE Agreed'
  BY DEF Agreeing
<1>1. ~crossed /\ restarts = 0 /\ ~Restart
  BY Frame DEF Asks, StartScan, CallStop, Dispatch, Restart, Typed, TypeOK
<1>2. Agreed
  BY <1>1 DEF Agreeing
<1>3. (Idle("api") \/ ~OnScan)'
  BY <1>2, AloneStep DEF Agreed
<1> QED BY <1>1, <1>2, <1>3, AgreedApi, AgreedEvent, AgreedOthers DEF Next

\* When all is at rest the device scans exactly when the library thinks so, and the handler
\* of unprovisioned nodes is there: a scan that a provisioning has stopped at the device goes
\* on at the end of the link, or has been stopped meanwhile, by the application, by its timer
\* or because one node was wanted.  Unless a call overlapped with such a handler.
THEOREM ScanAlwaysAgrees == Spec => []ScanAgrees
<1>1. Init => Typed /\ Agreeing
  <2>1. Init => Typed
    BY TypedInit
  <2>2. Init => Agreed
    BY DEF Init, Agreed, Idle, Begins, Resuming, WillRest, NoneLeft, Off
  <2> QED BY <2>1, <2>2 DEF Agreeing
<1>2. Typed /\ Agreeing /\ [Next]_vars => (Typed /\ Agreeing)'
  BY TypedStep, AgreeingStep
<1>3. Typed /\ Agreeing => ScanAgrees
  <2> SUFFICES ASSUME Typed, Agreeing, ~crossed, restarts = 0, ~provisioning,
                      Idle("api"), Idle("ev"),
                      \A c \in Range(toDevice) : c.op \notin {"scan_start", "scan_stop"}
               PROVE  dev.scan = scanning /\ (scanning => "unprov_handler" \in handlers)
    BY DEF ScanAgrees
  <2>1. NoneLeft /\ ~LastIs("scan_start") /\ ~LastIs("scan_stop")
    BY DEF NoneLeft, LastIs, ScanOps, Range
  <2>2. Agreed /\ scanning \in BOOLEAN /\ dev.scan \in BOOLEAN
    BY DEF Agreeing, Typed, TypeOK
  <2> QED BY <2>1, <2>2 DEF Agreed, Idle, Begins, Resuming, WillScan, WillRest
<1> QED BY <1>1, <1>2, <1>3, PTL DEF Spec
====
