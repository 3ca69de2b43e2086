---------------------------- MODULE LifecycleProofs ----------------------------
(***************************************************************************)
(* Lifecycle: its types, and its six safety invariants, for any number of  *)
(* commands of config_device and of calls of the application.              *)
(*                                                                         *)
(* Phases says which threads run in each mode and at each place of an      *)
(* operation; with it, a stop or a hw_check that returns leaves nothing,   *)
(* and the received bytes have one reader.  The other parts follow the     *)
(* messages through the four queues between the gateway and the device     *)
(* and back, which keep their order: Session the one reset of a start and  *)
(* the commands it brings about, Left the reset of a stop, Tested the      *)
(* reset and the echo of a self test.                                      *)
(***************************************************************************)
EXTENDS Lifecycle, SequenceTheorems, FiniteSetTheorems, TLAPS

-----------------------------------------------------------------------------
(* The inductive invariant, in parts. *)

\* What the commands and answers are.
Message ==
  {m \in [type : {"reset", "echo", "config", "rsp", "remove", "send", "part",
                  "disconnected"},
          n : 0..Steps] :
     /\ m.type = "config" => m.n # 0
     /\ m.type \notin {"config", "rsp"} => m.n = 0}

Queue == Seq(Message)

List == {hs \in Seq(Handlers) : IsInjective(hs)}

\* What the variables hold: TypeOK and more.
LinkTyped ==
  /\ remote \in BOOLEAN /\ running \in BOOLEAN /\ connected \in BOOLEAN
  /\ reader \in BOOLEAN /\ writer \in BOOLEAN /\ broken \in BOOLEAN
  /\ readQ \in Queue /\ writeQ \in Queue /\ devIn \in Queue
  /\ applied \subseteq 1..Steps
PtTyped ==
  /\ conn \in {"none", "top", "dial", "clean", "relay", "reset", "watch", "unreset", "done"}
  /\ ptRunning \in BOOLEAN /\ ptConnected \in BOOLEAN /\ startEvent \in BOOLEAN
  /\ announced \in BOOLEAN
  /\ relayRx \in {"new", "run", "off"} /\ relayTx \in {"new", "run", "off"}
CallerTyped ==
  /\ call \in {"none", "hw_check", "start", "start_passthrough", "stop"}
  /\ started \in BOOLEAN /\ devManager \in BOOLEAN /\ devStarted \in BOOLEAN
  /\ failed \in BOOLEAN /\ shared \in BOOLEAN /\ stale \in BOOLEAN
  /\ again \in BOOLEAN /\ relayed \in BOOLEAN
  /\ told \in BOOLEAN /\ echoed \in BOOLEAN
ThreadsTyped ==
  /\ evRunning \in BOOLEAN /\ rxRunning \in BOOLEAN
  /\ resetFlag \in BOOLEAN /\ echoFlag \in BOOLEAN
  /\ ev \in {"off", "run", "echo"}
  /\ parsers \in [{"last", "former"} -> {"off", "sync", "packets", "part"}]
  /\ config \in [at : {"none", "send", "wait", "end", "done", "dead"}, step : 1..Steps,
                 complete : BOOLEAN]
  /\ config.at = "none" => config.step = 1
  /\ tx \in {"off", "run", "wait"}
  /\ events \in Queue /\ handlers \in List
Typed == LinkTyped /\ PtTyped /\ CallerTyped /\ ThreadsTyped

\* The places of each operation.
Places ==
  at \in CASE call = "none" -> {"none"}
           [] call = "hw_check" -> {"run", "testing", "parser", "events", "link"}
           [] call = "start" -> {"manager", "reset", "device"}
           [] call = "start_passthrough" -> {"dial"}
           [] call = "stop" -> {"relays", "connection", "port", "parser", "events",
                                     "link", "tx"}

\* The threads of passthrough mode: the relays live no longer than the connection,
\* unless the programmer raised, and socket_thd is joined before it is forgotten.
Connections ==
  /\ relayRx = "run" \/ relayTx = "run" =>
       \/ shared \/ conn \in {"reset", "watch", "unreset"}
       \/ conn = "done" /\ at \notin {"connection", "port"}
  /\ at = "port" => conn = "done"
  /\ remote => conn = "none" /\ relayRx # "run" /\ relayTx # "run"
  /\ ptRunning => conn # "none" /\ at \notin {"relays", "connection", "port"}

\* Which mode the gateway is in.
Modes ==
  /\ call = "none" => (IF started THEN devManager <=> conn = "none"
                                  ELSE ~devManager /\ conn = "none")
  /\ call = "hw_check" =>
       /\ ~remote
       /\ IF started THEN shared /\ (devManager <=> conn = "none")
                     ELSE ~devManager /\ conn = "none"
       /\ devManager => at \in {"run", "testing"} /\ ~(resetFlag /\ at = "testing")
  /\ call = "start" => ~started /\ conn = "none" /\ (devManager <=> at # "manager")
  /\ at \in {"reset", "device"} => ~remote
  /\ call = "start_passthrough" => ~started /\ ~devManager /\ conn # "none"
  /\ call = "stop" =>
       /\ started /\ ~devManager
       /\ conn # "none" <=> at \in {"relays", "connection", "port"}
       /\ at = "parser" => conn = "none"

\* The link: in a gateway that is started the threads run until the line is cut,
\* otherwise they are joined.
LinkUp ==
  /\ connected => running
  /\ running /\ ~remote => connected
  /\ running /\ ~broken => reader /\ writer
  /\ ~running /\ at \notin {"link", "port"} => LinkStopped
  /\ devManager \/ call \in {"start", "start_passthrough"} => running
  /\ at \in {"run", "testing", "parser"} => running
  /\ call = "hw_check" /\ at = "events" => running
  /\ call = "none" /\ ~started => ~running
  /\ at \in {"link", "port", "tx"} => ~running
  /\ call = "none" /\ started /\ ~running => shared

\* The event thread.
EventsUp ==
  /\ evRunning => ev # "off"
  /\ at # "events" /\ ~evRunning => ev = "off"
  /\ devManager \/ call \in {"start", "start_passthrough"} => evRunning
  /\ at \in {"run", "testing", "parser"} => evRunning
  /\ at \in {"events", "link", "tx"} => ~evRunning
  /\ call = "none" /\ conn # "none" /\ running => evRunning
  /\ call = "none" /\ ~running => ~evRunning
  /\ at \in {"relays", "connection"} /\ ~running => ~evRunning

\* The receive threads: a second one only while a started gateway is tested.
ParsersUp ==
  /\ call \in {"none", "hw_check"} /\ devManager => rxRunning
  /\ call = "start" => rxRunning
  /\ call = "hw_check" => (rxRunning <=> at \in {"run", "testing"})
  /\ call = "none" /\ ~devManager => ~rxRunning
  /\ call \in {"start_passthrough", "stop"} => ~rxRunning
  /\ parsers.last # "off" => rxRunning \/ at = "parser"
  /\ parsers.former # "off" => call = "hw_check" /\ devManager

\* The list of handlers: that of the DeviceManager is first.
Listed ==
  /\ Contains(handlers, "dev_event_handler") <=> devManager
  /\ devManager => handlers[1] = "dev_event_handler"
  /\ call # "hw_check" =>
       ~Contains(handlers, "reset_handler") /\ ~Contains(handlers, "echo_handler")
  /\ at = "run" \/ (at = "testing" /\ resetFlag) => ~Contains(handlers, "reset_handler")
  /\ at \in {"manager", "dial", "link", "tx"} \/ (call = "none" /\ ~devManager) =>
       handlers = <<>>

\* The DeviceManager: its thread lives only under it, and start waits for its end; stop
\* waits for that of the TxManager.
Managing ==
  /\ ConfigAlive => devManager
  /\ devStarted => devManager /\ config.at \in {"end", "done"}
  /\ started /\ ~remote /\ devManager => config.at \in {"end", "done"}
  /\ tx = "run" => devManager \/ call = "stop"

Running ==
  ~failed => Modes /\ LinkUp /\ EventsUp /\ ParsersUp /\ Listed /\ Managing

\* A self test or a start_passthrough that failed leaves everything as it is; only a
\* self test may follow it.
Stuck ==
  failed /\ ~shared =>
    /\ call = "none" /\ ~started /\ ~remote /\ running /\ connected
    /\ conn \in {"none", "done"} /\ relayRx # "run" /\ relayTx # "run"
    /\ parsers.former = "off"

Phases == Places /\ Connections /\ Running /\ Stuck

\* Contents of a queue.
Has(q, type) == \E i \in DOMAIN q : q[i].type = type
\* In q, nothing of one of the types comes behind a reset.
Behind(q, types) ==
  \A i, j \in DOMAIN q : i < j /\ q[i].type = "reset" => q[j].type \notin types
\* The same along the line: q is closer to the handlers than r.
Across(q, r, types) == Has(q, "reset") => \A t \in types : ~Has(r, t)
Line(types) ==
  /\ Behind(events, types) /\ Behind(readQ, types)
  /\ Behind(devIn, types) /\ Behind(writeQ, types)
  /\ Across(events, readQ, types) /\ Across(events, devIn, types)
  /\ Across(events, writeQ, types) /\ Across(readQ, devIn, types)
  /\ Across(readQ, writeQ, types) /\ Across(devIn, writeQ, types)
\* The commands that are answered in q are among these.
Within(q, S) == \A i \in DOMAIN q : q[i].type = "rsp" => q[i].n \in S
Nowhere(type) ==
  ~Has(events, type) /\ ~Has(readQ, type) /\ ~Has(devIn, type) /\ ~Has(writeQ, type)

\* One reset, its event, the configuration: while the gateway is up and the device has
\* not been reset again by a stop that raised or by Gateway.reset.
Covered ==
  /\ ~failed /\ ~again
  /\ \/ remote
     \/ /\ ~shared /\ ~stale
        /\ call = "start" \/ (started /\ devManager /\ devStarted)
Applied ==
  /\ \A k \in 1..Steps :
       k < config.step \/ (config.at = "wait" /\ config.complete)
         \/ config.at \in {"end", "done"} => k \in applied \/ k > config.step
  /\ config.at \in {"end", "done"} => config.step = Steps
  /\ Within(events, applied \union {0}) /\ Within(readQ, applied \union {0})
OneReset ==
  /\ ~remote /\ at \in {"manager", "reset"} => Nowhere("reset")
  /\ ~remote /\ at = "reset" => config.at = "none"
  /\ config.at = "none" => Line({"reset", "config", "remove", "rsp"})
  /\ config.at # "none" /\ (remote \/ at # "manager") => Nowhere("reset") /\ Applied
Commands == ~Has(devIn, "rsp") /\ ~Has(writeQ, "rsp")
Session == Commands /\ (Covered => OneReset)

\* A device that has been configured is going to be reset.
Resetting(q) ==
  \A i \in DOMAIN q : q[i].type = "config" => \E j \in DOMAIN q : i < j /\ q[j].type = "reset"
Left ==
  ~failed /\ ~remote /\ ~broken /\ ~relayed =>
    /\ ~running /\ ~writer => ~Has(writeQ, "reset") /\ ~Has(writeQ, "config")
    /\ call # "start" /\ ~devManager =>
         /\ applied = {} \/ Has(devIn, "reset") \/ Has(writeQ, "reset")
         /\ Resetting(devIn) \/ Has(writeQ, "reset")
         /\ Resetting(writeQ)

\* In a self test the reset comes first, then the echo it lets the event thread send.
TestBegins ==
  Nowhere("reset") /\ ~Has(events, "echo") /\ ev = "run" /\ parsers.last = "sync"
TestResets ==
  /\ ~Has(events, "echo") /\ ~echoFlag /\ ev = "run" /\ Line({"echo"})
  /\ parsers.last # "sync" =>
       ~Has(readQ, "echo") /\ ~Has(devIn, "echo") /\ ~Has(writeQ, "echo")
TestEchoes ==
  IF ev = "echo" THEN Nowhere("echo") /\ ~echoFlag
                 ELSE Has(events, "echo") \/ Has(readQ, "echo") \/ echoFlag => echoed
Tested ==
  ~failed /\ ~shared /\ ~stale /\ call = "hw_check" =>
    /\ at = "run" => TestBegins
    /\ at = "testing" => IF resetFlag THEN TestEchoes ELSE TestResets

IInv == Typed /\ Phases /\ Session /\ Left /\ Tested
-----------------------------------------------------------------------------
(* The list of handlers. *)

LEMMA ListElements ==
  ASSUME NEW hs \in List
  PROVE  /\ Len(hs) \in Nat /\ DOMAIN hs = 1..Len(hs)
         /\ \A i \in 1..Len(hs) : hs[i] \in Handlers
         /\ \A i, j \in 1..Len(hs) : hs[i] = hs[j] => i = j
         /\ \A h : Contains(hs, h) <=> \E i \in 1..Len(hs) : hs[i] = h
  BY LenProperties DEF List, IsInjective, Contains

LEMMA ListEmpty == <<>> \in List /\ \A h : ~Contains(<<>>, h)
  BY EmptySeq DEF List, IsInjective, Contains

LEMMA ListAdd ==
  ASSUME NEW hs \in List, NEW h \in Handlers
  PROVE  /\ AddHandler(hs, h) \in List
         /\ \A g : Contains(AddHandler(hs, h), g) <=> Contains(hs, g) \/ g = h
         /\ hs # <<>> => AddHandler(hs, h)[1] = hs[1]
         /\ hs = <<>> => AddHandler(hs, h)[1] = h
<1>1. CASE Contains(hs, h)
  <2>1. AddHandler(hs, h) = hs
    BY <1>1 DEF AddHandler
  <2>2. hs # <<>>
    BY <1>1 DEF Contains
  <2> QED
    BY <1>1, <2>1, <2>2
<1>2. CASE ~Contains(hs, h)
  <2> DEFINE a == Append(hs, h)
  <2>1. AddHandler(hs, h) = a
    BY <1>2 DEF AddHandler
  <2>0. hs \in Seq(Handlers)
    BY DEF List
  <2>2. /\ a \in Seq(Handlers) /\ Len(a) = Len(hs) + 1 /\ Len(hs) \in Nat
        /\ \A i \in 1..Len(hs) : a[i] = hs[i]
        /\ a[Len(hs) + 1] = h
    BY <2>0, AppendProperties, LenProperties
  <2>3. DOMAIN a = 1..(Len(hs) + 1)
    BY <2>2, LenProperties
  <2>4. hs # <<>> => Len(hs) > 0
    BY <2>0, EmptySeq
  <2>5. hs = <<>> => Len(hs) = 0
    OBVIOUS
  <2> HIDE DEF a
  <2>6. \A g : Contains(a, g) <=> Contains(hs, g) \/ g = h
    BY <2>2 DEF Contains
  <2>7. IsInjective(a)
    <3> SUFFICES ASSUME NEW i \in 1..(Len(hs) + 1), NEW j \in 1..(Len(hs) + 1), a[i] = a[j]
                 PROVE  i = j
      BY <2>3 DEF IsInjective
    <3>1. \A k \in 1..Len(hs) : a[k] # h
      BY <1>2, <2>2 DEF Contains
    <3>2. i \in 1..Len(hs) \/ i = Len(hs) + 1
      BY <2>2
    <3>3. j \in 1..Len(hs) \/ j = Len(hs) + 1
      BY <2>2
    <3>4. \A x, y \in 1..Len(hs) : hs[x] = hs[y] => x = y
      BY ListElements
    <3> QED
      BY <3>1, <3>2, <3>3, <3>4, <2>2
  <2>8. a \in List
    BY <2>2, <2>7 DEF List
  <2>9. (hs # <<>> => a[1] = hs[1]) /\ (hs = <<>> => a[1] = h)
    BY <2>2, <2>4, <2>5
  <2> QED
    BY <2>1, <2>6, <2>8, <2>9
<1> QED
  BY <1>1, <1>2

\* What leaves the list leaves the others as they were.
LEMMA ListRemove ==
  ASSUME NEW hs \in List, NEW h
  PROVE  /\ RemoveHandler(hs, h) \in List
         /\ \A g : Contains(RemoveHandler(hs, h), g) <=> Contains(hs, g) /\ g # h
         /\ hs # <<>> /\ hs[1] # h => RemoveHandler(hs, h)[1] = hs[1]
<1>0. hs \in Seq(Handlers) /\ Len(hs) \in Nat
  BY LenProperties DEF List
<1>1. CASE ~Contains(hs, h)
  BY <1>1 DEF RemoveHandler, RemoveFirst, Contains
<1>2. CASE Contains(hs, h)
  <2>1. PICK k \in 1..Len(hs) : hs[k] = h
    BY <1>2 DEF Contains
  <2>2. \A i \in 1..Len(hs) : hs[i] = h => i = k
    BY <2>1, ListElements
  <2>3. SelectInSeq(hs, LAMBDA v : v = h) = k
    <3>1. {i \in 1..Len(hs) : hs[i] = h} = {k}
      BY <2>1, <2>2
    <3>2. (CHOOSE x \in {k} : \A y \in {k} : x <= y) = k
      OBVIOUS
    <3> QED
      BY <3>1, <3>2 DEF SelectInSeq, Min
  <2> DEFINE s == SubSeq(hs, 1, k - 1)
             t == SubSeq(hs, k + 1, Len(hs))
             r == s \o t
  <2>4. RemoveHandler(hs, h) = r
    BY <1>2, <2>3 DEF RemoveHandler, RemoveFirst, RemoveAt, Contains
  <2>5. k \in Int /\ Len(hs) \in Int /\ 1 <= k /\ k <= Len(hs)
    BY <1>0
  <2>6. \A i \in 1..Len(hs) : hs[i] \in Handlers
    BY ListElements
  <2>7. /\ s \in Seq(Handlers) /\ Len(s) = k - 1
        /\ \A i \in 1..(k - 1) : s[i] = hs[i]
    <3>1. \A i \in 1..(k - 1) : hs[i] \in Handlers
      BY <2>5, <2>6
    <3>2. k - 1 \in Int
      BY <2>5
    <3> HIDE DEF s
    <3>3. /\ s \in Seq(Handlers) /\ Len(s) = IF 1 <= k - 1 THEN k - 1 - 1 + 1 ELSE 0
          /\ \A i \in 1..(k - 1 - 1 + 1) : s[i] = hs[1 + i - 1]
      BY <3>1, <3>2, SubSeqProperties DEF s
    <3>4. Len(s) = k - 1
      BY <3>3, <2>5
    <3>5. \A i \in 1..(k - 1) : 1 + i - 1 = i /\ i \in 1..(k - 1 - 1 + 1)
      BY <2>5
    <3> QED
      BY <3>3, <3>4, <3>5
  <2>8. /\ t \in Seq(Handlers) /\ Len(t) = Len(hs) - k
        /\ \A i \in 1..(Len(hs) - k) : t[i] = hs[k + i]
    <3>1. \A i \in (k + 1)..Len(hs) : hs[i] \in Handlers
      BY <2>5, <2>6
    <3>2. k + 1 \in Int
      BY <2>5
    <3> HIDE DEF t
    <3>3. /\ t \in Seq(Handlers)
          /\ Len(t) = IF k + 1 <= Len(hs) THEN Len(hs) - (k + 1) + 1 ELSE 0
          /\ \A i \in 1..(Len(hs) - (k + 1) + 1) : t[i] = hs[k + 1 + i - 1]
      BY <3>1, <3>2, <2>5, SubSeqProperties DEF t
    <3>4. Len(t) = Len(hs) - k
      BY <3>3, <2>5
    <3>5. \A i \in 1..(Len(hs) - k) : k + 1 + i - 1 = k + i /\ i \in 1..(Len(hs) - (k + 1) + 1)
      BY <2>5
    <3> QED
      BY <3>3, <3>4, <3>5
  <2> HIDE DEF s, t
  <2>9. /\ r \in Seq(Handlers) /\ Len(r) = Len(s) + Len(t)
        /\ \A i \in 1..(Len(s) + Len(t)) :
             r[i] = IF i <= Len(s) THEN s[i] ELSE t[i - Len(s)]
    BY <2>7, <2>8, ConcatProperties
  <2> HIDE DEF r
  <2>10. Len(r) = Len(hs) - 1
    BY <2>9, <2>7, <2>8, <2>5
  <2>11. \A i \in 1..(Len(hs) - 1) : r[i] = IF i < k THEN hs[i] ELSE hs[i + 1]
    <3> SUFFICES ASSUME NEW i \in 1..(Len(hs) - 1)
                 PROVE  r[i] = IF i < k THEN hs[i] ELSE hs[i + 1]
      OBVIOUS
    <3>1. r[i] = IF i <= k - 1 THEN s[i] ELSE t[i - (k - 1)]
      BY <2>7, <2>8, <2>9, <2>5
    <3>2. CASE i < k
      BY <3>1, <3>2, <2>7, <2>5
    <3>3. CASE ~(i < k)
      <4>1. i - (k - 1) \in 1..(Len(hs) - k) /\ k + (i - (k - 1)) = i + 1
        BY <3>3, <2>5
      <4>2. t[i - (k - 1)] = hs[k + (i - (k - 1))]
        BY <4>1, <2>8
      <4>3. r[i] = t[i - (k - 1)]
        BY <3>1, <3>3, <2>5
      <4> QED
        BY <4>1, <4>2, <4>3, <3>3
    <3> QED
      BY <3>2, <3>3
  <2>12. DOMAIN r = 1..(Len(hs) - 1)
    BY <2>9, <2>10, LenProperties
  <2>13. \A g : Contains(r, g) <=> Contains(hs, g) /\ g # h
    <3> SUFFICES ASSUME NEW g PROVE Contains(r, g) <=> Contains(hs, g) /\ g # h
      OBVIOUS
    <3>1. ASSUME NEW i \in 1..(Len(hs) - 1), r[i] = g
          PROVE  Contains(hs, g) /\ g # h
      <4>1. CASE i < k
        BY <3>1, <4>1, <2>11, <2>2, <2>5 DEF Contains
      <4>2. CASE ~(i < k)
        <5>1. i + 1 \in 1..Len(hs) /\ i + 1 # k
          BY <4>2, <2>5
        <5>2. hs[i + 1] = g
          BY <3>1, <4>2, <2>11
        <5> QED
          BY <5>1, <5>2, <2>2 DEF Contains
      <4> QED
        BY <4>1, <4>2
    <3>2. ASSUME NEW i \in 1..Len(hs), hs[i] = g, g # h
          PROVE  \E j \in 1..(Len(hs) - 1) : r[j] = g
      <4>1. CASE i < k
        <5>1. i \in 1..(Len(hs) - 1)
          BY <4>1, <2>5
        <5> QED
          BY <5>1, <4>1, <3>2, <2>11
      <4>2. CASE ~(i < k)
        <5>1. i # k
          BY <3>2, <2>1
        <5>2. i - 1 \in 1..(Len(hs) - 1) /\ ~(i - 1 < k) /\ (i - 1) + 1 = i
          BY <4>2, <5>1, <2>5
        <5>3. r[i - 1] = hs[i]
          BY <5>2, <2>11
        <5> QED
          BY <5>2, <5>3, <3>2
      <4> QED
        BY <4>1, <4>2
    <3> QED
      BY <3>1, <3>2, <2>10 DEF Contains
  <2>14. IsInjective(r)
    <3> SUFFICES ASSUME NEW i \in 1..(Len(hs) - 1), NEW j \in 1..(Len(hs) - 1),
                        r[i] = r[j]
                 PROVE  i = j
      BY <2>12 DEF IsInjective
    <3>1. \A x, y \in 1..Len(hs) : hs[x] = hs[y] => x = y
      BY ListElements
    <3> DEFINE pi == IF i < k THEN i ELSE i + 1
               pj == IF j < k THEN j ELSE j + 1
    <3>2. pi \in 1..Len(hs) /\ pj \in 1..Len(hs)
      BY <2>5
    <3>3. hs[pi] = r[i] /\ hs[pj] = r[j]
      BY <2>11
    <3>4. pi = pj
      <4> HIDE DEF pi, pj
      <4> QED
        BY <3>1, <3>2, <3>3
    <3> QED
      BY <3>4, <2>5
  <2>15. hs[1] # h => r[1] = hs[1]
    <3> SUFFICES ASSUME hs[1] # h PROVE r[1] = hs[1]
      OBVIOUS
    <3>1. 1 < k /\ 1 \in 1..(Len(hs) - 1)
      BY <2>1, <2>5
    <3> QED
      BY <3>1, <2>11
  <2> QED
    BY <2>4, <2>9, <2>13, <2>14, <2>15 DEF List
<1> QED
  BY <1>1, <1>2
-----------------------------------------------------------------------------
(* The queues: what is in one is told by Has, Behind, Resetting and Within. *)

LEMMA MessageTypes ==
  ASSUME NEW m \in Message
  PROVE  /\ m.type \in {"reset", "echo", "config", "rsp", "remove", "send", "part",
                       "disconnected"}
         /\ m.n \in 0..Steps
         /\ m.type = "reset" <=> m = Reset
         /\ m.type = "echo" <=> m = Echo
         /\ m.type = "config" => m.n \in 1..Steps
         /\ m.type = "config" => m = ConfigCommand(m.n)
         /\ m.type \notin {"config", "rsp"} => m.n = 0
  BY LifecycleAssumption DEF Message, Reset, Echo, Msg, ConfigCommand

LEMMA Messages ==
  /\ Reset \in Message /\ Reset.type = "reset"
  /\ Echo \in Message /\ Echo.type = "echo"
  /\ \A t \in {"remove", "send", "part", "disconnected"} :
       Msg(t) \in Message /\ Msg(t).type = t
  /\ \A k \in 1..Steps : ConfigCommand(k) \in Message /\ ConfigCommand(k).type = "config"
  BY LifecycleAssumption DEF Message, Reset, Echo, Msg, ConfigCommand

LEMMA Answers ==
  ASSUME NEW m \in Message
  PROVE  /\ Answer(m) \in Message /\ Answer(m).n = m.n
         /\ Answer(m).type = IF m.type \in {"config", "remove"} THEN "rsp" ELSE m.type
  BY DEF Message, Answer

LEMMA QueueEmpty ==
  /\ <<>> \in Queue
  /\ \A t : ~Has(<<>>, t)
  /\ \A T : Behind(<<>>, T)
  /\ \A S : Within(<<>>, S)
  /\ Resetting(<<>>)
<1>1. <<>> \in Queue
  BY EmptySeq DEF Queue
<1>2. \A i : i \notin DOMAIN <<>>
  OBVIOUS
<1> QED
  BY <1>1, <1>2 DEF Has, Behind, Within, Resetting

LEMMA QueueAppend ==
  ASSUME NEW q \in Queue, NEW m \in Message
  PROVE  /\ Append(q, m) \in Queue
         /\ \A t : Has(Append(q, m), t) <=> Has(q, t) \/ m.type = t
         /\ \A T : Behind(Append(q, m), T) <=> Behind(q, T) /\ (Has(q, "reset") => m.type \notin T)
         /\ \A S : Within(Append(q, m), S) <=> Within(q, S) /\ (m.type = "rsp" => m.n \in S)
         /\ m.type = "reset" => Resetting(Append(q, m))
         /\ m.type # "config" /\ Resetting(q) => Resetting(Append(q, m))
<1> DEFINE a == Append(q, m)
<1>1. q \in Seq(Message)
  BY DEF Queue
<1>2. /\ a \in Seq(Message) /\ Len(a) = Len(q) + 1 /\ Len(q) \in Nat
      /\ \A i \in 1..Len(q) : a[i] = q[i]
      /\ a[Len(q) + 1] = m
  BY <1>1, AppendProperties, LenProperties
<1>3. DOMAIN q = 1..Len(q) /\ DOMAIN a = 1..(Len(q) + 1)
  BY <1>1, <1>2, LenProperties
<1> HIDE DEF a
<1>4. \A i \in DOMAIN a : i \in DOMAIN q \/ i = Len(q) + 1
  BY <1>2, <1>3
<1>5. /\ Len(q) + 1 \in DOMAIN a
      /\ \A i \in DOMAIN q : i \in DOMAIN a /\ a[i] = q[i] /\ i < Len(q) + 1 /\ ~(Len(q) + 1 < i)
  BY <1>2, <1>3
<1>6. \A t : Has(a, t) <=> Has(q, t) \/ m.type = t
  BY <1>2, <1>4, <1>5 DEF Has
<1>7. ASSUME NEW T
      PROVE  Behind(a, T) <=> Behind(q, T) /\ (Has(q, "reset") => m.type \notin T)
  <2>1. ~(Len(q) + 1 < Len(q) + 1)
    BY <1>2
  <2>2. ASSUME Behind(a, T)
        PROVE  Behind(q, T) /\ (Has(q, "reset") => m.type \notin T)
    BY <2>2, <1>2, <1>5 DEF Behind, Has
  <2>3. ASSUME Behind(q, T), Has(q, "reset") => m.type \notin T
        PROVE  Behind(a, T)
    <3> SUFFICES ASSUME NEW i \in DOMAIN a, NEW j \in DOMAIN a,
                        i < j, a[i].type = "reset"
                 PROVE  a[j].type \notin T
      BY DEF Behind
    <3>1. i \in DOMAIN q
      BY <1>4, <1>5, <2>1
    <3>2. a[i] = q[i]
      BY <3>1, <1>5
    <3>3. CASE j \in DOMAIN q
      BY <3>1, <3>2, <3>3, <1>5, <2>3 DEF Behind
    <3>4. CASE j = Len(q) + 1
      BY <3>1, <3>2, <3>4, <1>2, <2>3 DEF Has
    <3> QED
      BY <3>3, <3>4, <1>4
  <2> QED
    BY <2>2, <2>3
<1>8. \A S : Within(a, S) <=> Within(q, S) /\ (m.type = "rsp" => m.n \in S)
  BY <1>2, <1>4, <1>5 DEF Within
<1>9. m.type = "reset" => Resetting(a)
  <2> SUFFICES ASSUME m.type = "reset", NEW i \in DOMAIN a, a[i].type = "config"
               PROVE  \E j \in DOMAIN a : i < j /\ a[j].type = "reset"
    BY DEF Resetting
  <2>1. i \in DOMAIN q
    BY <1>2, <1>4
  <2> QED
    BY <2>1, <1>2, <1>5
<1>10. m.type # "config" /\ Resetting(q) => Resetting(a)
  <2> SUFFICES ASSUME m.type # "config", Resetting(q), NEW i \in DOMAIN a, a[i].type = "config"
               PROVE  \E j \in DOMAIN a : i < j /\ a[j].type = "reset"
    BY DEF Resetting
  <2>1. i \in DOMAIN q /\ q[i].type = "config"
    BY <1>2, <1>4, <1>5
  <2>2. PICK j \in DOMAIN q : i < j /\ q[j].type = "reset"
    BY <2>1 DEF Resetting
  <2> QED
    BY <2>2, <1>5
<1>11. a \in Queue
  BY <1>2 DEF Queue
<1> QED
  BY <1>6, <1>7, <1>8, <1>9, <1>10, <1>11 DEF a

LEMMA QueueTail ==
  ASSUME NEW q \in Queue, q # <<>>
  PROVE  /\ Head(q) \in Message /\ Tail(q) \in Queue
         /\ \A t : Has(q, t) <=> Has(Tail(q), t) \/ Head(q).type = t
         /\ \A T : Behind(q, T) =>
              /\ Behind(Tail(q), T)
              /\ Head(q).type = "reset" => \A t \in T : ~Has(Tail(q), t)
         /\ \A S : Within(q, S) =>
              Within(Tail(q), S) /\ (Head(q).type = "rsp" => Head(q).n \in S)
         /\ Resetting(q) =>
              Resetting(Tail(q)) /\ (Head(q).type = "config" => Has(Tail(q), "reset"))
<1> DEFINE h == Head(q)
           a == Tail(q)
<1>1. q \in Seq(Message)
  BY DEF Queue
<1>2. /\ h \in Message /\ a \in Seq(Message) /\ Len(a) = Len(q) - 1 /\ Len(q) \in Nat \ {0}
      /\ \A i \in 1..Len(a) : a[i] = q[i + 1]
  BY <1>1, HeadTailProperties, LenProperties, EmptySeq
<1>3. DOMAIN q = 1..Len(q) /\ DOMAIN a = 1..(Len(q) - 1)
  BY <1>1, <1>2, LenProperties
<1>4. h = q[1]
  BY <1>1
<1> HIDE DEF a, h
<1>5. \A i \in DOMAIN a : /\ i + 1 \in DOMAIN q /\ a[i] = q[i + 1] /\ 1 < i + 1
                         /\ \A j \in DOMAIN a : i < j <=> i + 1 < j + 1
  BY <1>2, <1>3
<1>6. \A i \in DOMAIN q : i = 1 \/ (i - 1 \in DOMAIN a /\ (i - 1) + 1 = i /\ a[i - 1] = q[i])
  <2> SUFFICES ASSUME NEW i \in DOMAIN q, i # 1
               PROVE  i - 1 \in DOMAIN a /\ (i - 1) + 1 = i /\ a[i - 1] = q[i]
    OBVIOUS
  <2>1. i - 1 \in DOMAIN a /\ (i - 1) + 1 = i
    BY <1>2, <1>3
  <2> QED
    BY <2>1, <1>5
<1>7. 1 \in DOMAIN q
  BY <1>2, <1>3
<1>8. \A t : Has(q, t) <=> Has(a, t) \/ h.type = t
  <2> SUFFICES ASSUME NEW t PROVE Has(q, t) <=> Has(a, t) \/ h.type = t
    OBVIOUS
  <2>1. Has(q, t) => Has(a, t) \/ h.type = t
    BY <1>4, <1>6 DEF Has
  <2>2. Has(a, t) \/ h.type = t => Has(q, t)
    BY <1>4, <1>5, <1>7 DEF Has
  <2> QED
    BY <2>1, <2>2
<1>9. \A T : Behind(q, T) =>
        Behind(a, T) /\ (h.type = "reset" => \A t \in T : ~Has(a, t))
  <2> SUFFICES ASSUME NEW T, Behind(q, T)
               PROVE  Behind(a, T) /\ (h.type = "reset" => \A t \in T : ~Has(a, t))
    OBVIOUS
  <2>1. \A i, j \in DOMAIN q : i < j /\ q[i].type = "reset" => q[j].type \notin T
    BY DEF Behind
  <2>2. Behind(a, T)
    BY <2>1, <1>5 DEF Behind
  <2>3. h.type = "reset" => \A t \in T : ~Has(a, t)
    BY <2>1, <1>4, <1>5, <1>7 DEF Has
  <2> QED
    BY <2>2, <2>3
<1>10. \A S : Within(q, S) => Within(a, S) /\ (h.type = "rsp" => h.n \in S)
  BY <1>4, <1>5, <1>7 DEF Within
<1>11. Resetting(q) => Resetting(a) /\ (h.type = "config" => Has(a, "reset"))
  <2> SUFFICES ASSUME Resetting(q)
               PROVE  Resetting(a) /\ (h.type = "config" => Has(a, "reset"))
    OBVIOUS
  <2>1. ASSUME NEW i \in DOMAIN a, a[i].type = "config"
        PROVE  \E j \in DOMAIN a : i < j /\ a[j].type = "reset"
    <3>1. i + 1 \in DOMAIN q /\ q[i + 1].type = "config" /\ 1 < i + 1
      BY <2>1, <1>5
    <3>2. PICK j \in DOMAIN q : i + 1 < j /\ q[j].type = "reset"
      BY <3>1 DEF Resetting
    <3>3. j # 1 /\ i < j - 1
      BY <3>1, <3>2, <1>2, <1>3
    <3> QED
      BY <3>2, <3>3, <1>6
  <2>2. ASSUME h.type = "config"
        PROVE  Has(a, "reset")
    <3>1. PICK j \in DOMAIN q : 1 < j /\ q[j].type = "reset"
      BY <2>2, <1>4, <1>7 DEF Resetting
    <3>2. j # 1
      BY <3>1, <1>2, <1>3
    <3> QED
      BY <3>1, <3>2, <1>6 DEF Has
  <2> QED
    BY <2>1, <2>2 DEF Resetting
<1>12. a \in Queue
  BY <1>2 DEF Queue
<1> QED
  BY <1>2, <1>8, <1>9, <1>10, <1>11, <1>12 DEF a, h

LEMMA QueueTypes ==
  ASSUME NEW q \in Queue
  PROVE  /\ Reset \in ToSet(q) <=> Has(q, "reset")
         /\ Echo \in ToSet(q) <=> Has(q, "echo")
<1>1. \A i \in DOMAIN q : q[i] \in Message
  BY LenProperties DEF Queue
<1> QED
  BY <1>1, MessageTypes DEF ToSet, Has

LEMMA QueueReset ==
  /\ <<Reset>> \in Queue
  /\ \A t : Has(<<Reset>>, t) <=> t = "reset"
  /\ \A T : Behind(<<Reset>>, T)
  /\ Resetting(<<Reset>>)
<1>1. Append(<<>>, Reset) = <<Reset>>
  OBVIOUS
<1>2. /\ Append(<<>>, Reset) \in Queue
      /\ \A t : Has(Append(<<>>, Reset), t) <=> Has(<<>>, t) \/ Reset.type = t
      /\ \A T : Behind(Append(<<>>, Reset), T) <=>
                Behind(<<>>, T) /\ (Has(<<>>, "reset") => Reset.type \notin T)
      /\ Resetting(Append(<<>>, Reset))
  BY QueueEmpty, QueueAppend, Messages
<1> QED
  BY <1>1, <1>2, QueueEmpty, Messages

\* The commands of stop_device.
LEMMA QueueStop ==
  ASSUME NEW q \in Queue
  PROVE  LET a == q \o <<Msg("remove"), Reset>> IN
           /\ a \in Queue
           /\ \A t : Has(a, t) <=> Has(q, t) \/ t \in {"remove", "reset"}
           /\ Resetting(a)
<1> DEFINE b == Append(q, Msg("remove"))
<1>1. q \o <<Msg("remove"), Reset>> = Append(b, Reset)
  <2>1. q \in Seq(Message)
    BY DEF Queue
  <2>2. Msg("remove") \in Message /\ Reset \in Message
    BY Messages
  <2>3. <<Msg("remove")>> \in Seq(Message) /\ <<Reset>> \in Seq(Message)
    BY <2>2
  <2>4. b = q \o <<Msg("remove")>>
    BY <2>1, <2>2, AppendIsConcat
  <2>5. b \in Seq(Message)
    BY <2>1, <2>2, AppendProperties
  <2>6. Append(b, Reset) = b \o <<Reset>>
    BY <2>2, <2>5, AppendIsConcat
  <2>7. (q \o <<Msg("remove")>>) \o <<Reset>> = q \o (<<Msg("remove")>> \o <<Reset>>)
    BY <2>1, <2>3, ConcatAssociative
  <2>8. <<Msg("remove")>> \o <<Reset>> = <<Msg("remove"), Reset>>
    <3> DEFINE s == <<Msg("remove")>> \o <<Reset>>
               t == <<Msg("remove"), Reset>>
    <3>1. /\ s \in Seq(Message) /\ Len(s) = 2
          /\ s[1] = Msg("remove") /\ s[2] = Reset
      <4>1. Len(<<Msg("remove")>>) = 1 /\ Len(<<Reset>>) = 1
        OBVIOUS
      <4>2. /\ s \in Seq(Message) /\ Len(s) = 1 + 1
            /\ \A i \in 1..(1 + 1) :
                 s[i] = IF i <= 1 THEN <<Msg("remove")>>[i] ELSE <<Reset>>[i - 1]
        BY <2>3, <4>1, ConcatProperties
      <4> QED
        BY <4>2
    <3>2. t \in Seq(Message) /\ Len(t) = 2 /\ t[1] = Msg("remove") /\ t[2] = Reset
      BY <2>2
    <3> HIDE DEF s, t
    <3>3. \A i \in 1..2 : s[i] = t[i]
      <4>1. \A i \in 1..2 : i = 1 \/ i = 2
        OBVIOUS
      <4> QED
        BY <4>1, <3>1, <3>2
    <3>4. s = t
      BY <3>1, <3>2, <3>3, SeqEqual
    <3> QED
      BY <3>4 DEF s, t
  <2> QED
    BY <2>4, <2>6, <2>7, <2>8
<1>2. b \in Queue /\ \A t : Has(b, t) <=> Has(q, t) \/ t = "remove"
  <2>1. Msg("remove") \in Message /\ Msg("remove").type = "remove"
    BY Messages
  <2> QED
    BY <2>1, QueueAppend
<1> HIDE DEF b
<1>3. /\ Append(b, Reset) \in Queue
      /\ \A t : Has(Append(b, Reset), t) <=> Has(b, t) \/ t = "reset"
      /\ Resetting(Append(b, Reset))
  BY <1>2, QueueAppend, Messages
<1> QED
  BY <1>1, <1>2, <1>3

LEMMA QueueClear ==
  ASSUME NEW q, ~Has(q, "reset")
  PROVE  \A T : Behind(q, T)
  BY DEF Has, Behind

\* How the queues change: m is sent, or m is taken.
Sent(q, r, m) ==
  /\ \A t : Has(r, t) <=> Has(q, t) \/ m.type = t
  /\ \A T : Behind(r, T) <=> Behind(q, T) /\ (Has(q, "reset") => m.type \notin T)
  /\ \A S : Within(r, S) <=> Within(q, S) /\ (m.type = "rsp" => m.n \in S)
  /\ m.type = "reset" => Resetting(r)
  /\ m.type # "config" /\ Resetting(q) => Resetting(r)
Taken(q, r, m) ==
  /\ \A t : Has(q, t) <=> Has(r, t) \/ m.type = t
  /\ \A T : Behind(q, T) =>
       Behind(r, T) /\ (m.type = "reset" => \A t \in T : ~Has(r, t))
  /\ \A S : Within(q, S) => Within(r, S) /\ (m.type = "rsp" => m.n \in S)
  /\ Resetting(q) => Resetting(r) /\ (m.type = "config" => Has(r, "reset"))

LEMMA QueueSent ==
  ASSUME NEW q \in Queue, NEW m \in Message
  PROVE  Sent(q, Append(q, m), m)
  BY QueueAppend DEF Sent

LEMMA QueueTaken ==
  ASSUME NEW q \in Queue, q # <<>>
  PROVE  Head(q) \in Message /\ Taken(q, Tail(q), Head(q))
  BY QueueTail DEF Taken

-----------------------------------------------------------------------------
(* The steps. *)

\* What the programmer's step and the server's leave alone.
ResetFrame ==
  /\ shared' = (shared \/ (at = "connection" /\ conn = "reset" /\ conn' = "done"))
  /\ UNCHANGED <<caller, manager, parsing, handling, test, failed, stale, again,
                 relayed, told, echoed>>
RelayFrame(c) ==
  /\ relayed' = (relayed \/ c.type \in {"reset", "config"})
  /\ UNCHANGED <<caller, manager, parsing, handling, test, failed, shared, stale,
                 again, told, echoed>>

LEMMA StepCases ==
  ASSUME Typed, Next
  PROVE  \/ HwCheck \/ StartGateway \/ StartPassthrough \/ StartPassthroughFails
         \/ StopGateway \/ StopPassthrough \/ ResetGateway
         \/ RunTest \/ TestPasses \/ TestTimesOut
         \/ CreateDevManager \/ StartDevice \/ StartReturns \/ PassthroughStarted
         \/ RelaysEnded \/ PassthroughEnded \/ PortClosed
         \/ ParserEnded \/ EventsEnded \/ OperationEnds \/ StopEnds
         \/ \E p \in {"last", "former"} : ParserEnds(p) \/ ParserTakes(p) \/ ParserSeesLoss(p)
         \/ Dispatch \/ SendEcho \/ EventsEnd
         \/ ConfigSend \/ ConfigNext \/ ConfigFails \/ ConfigEnds
         \/ TxSend \/ TxEnds
         \/ (ReaderEnds \/ Write \/ WriterEnds) /\ UNCHANGED <<ptVars, gateway>>
         \/ DeviceAnswers
         \/ (ConnTop \/ DialFails \/ DialSucceeds \/ Clean \/ StartRelays
               \/ ConnectionEnds \/ RelayRx \/ RelayTxEnds) /\ UNCHANGED gateway
         \/ HardReset /\ ResetFrame
         \/ (\E c \in RemoteCommands : RelayTx(c) /\ RelayFrame(c))
         \/ ServerDrops /\ UNCHANGED gateway
         \/ LinkBreaks
<1>1. DOMAIN parsers = {"last", "former"}
  BY DEF Typed, ThreadsTyped
<1>2. ASSUME PassthroughRuns
      PROVE  \/ (ConnTop \/ DialFails \/ DialSucceeds \/ Clean \/ StartRelays
                  \/ ConnectionEnds \/ RelayRx \/ RelayTxEnds) /\ UNCHANGED gateway
             \/ HardReset /\ ResetFrame
  <2>1. CASE HardReset
    BY <1>2, <2>1 DEF PassthroughRuns, ResetFrame
  <2>2. CASE ~HardReset
    <3>1. \/ ConnTop \/ DialFails \/ DialSucceeds \/ Clean \/ StartRelays
          \/ ConnectionEnds \/ RelayRx \/ RelayTxEnds
      BY <1>2, <2>2 DEF PassthroughRuns, KeepConnected
    <3>2. ~(conn = "reset" /\ conn' = "done")
      BY <3>1 DEF ConnTop, DialFails, DialSucceeds, Clean, StartRelays, ConnectionEnds,
             RelayRx, RelayTxEnds
    <3>3. UNCHANGED gateway
      BY <1>2, <3>2 DEF PassthroughRuns, gateway, history, Typed, CallerTyped
    <3> QED
      BY <3>1, <3>3
  <2> QED
    BY <2>1, <2>2
<1>3. ASSUME ServerActs
      PROVE  \/ \E c \in RemoteCommands : RelayTx(c) /\ RelayFrame(c)
             \/ ServerDrops /\ UNCHANGED gateway
  BY <1>3 DEF ServerActs, RelayFrame
<1> QED
  BY <1>1, <1>2, <1>3 DEF Next, Application, Caller, Threads, Parser, EventThread,
         ConfigThread, LinkRuns, LinkThreads

\* The commands of the server are messages, and none is an answer.
LEMMA RemoteTypes ==
  ASSUME NEW c \in RemoteCommands
  PROVE  c \in Message /\ c.type \in {"echo", "reset", "remove", "send", "config"}
  BY Messages DEF RemoteCommands

-----------------------------------------------------------------------------
(* What the variables hold. *)

LEMMA TypedInit == Init => Typed
<1> SUFFICES ASSUME Init PROVE Typed
  OBVIOUS
<1>1. LinkTyped
  BY QueueEmpty, QueueReset DEF Init, LinkInit, LinkTyped
<1>2. PtTyped
  BY DEF Init, PtInit, PtTyped
<1>3. CallerTyped
  BY DEF Init, CallerTyped
<1>4. ThreadsTyped
  <2>1. parsers \in [{"last", "former"} -> {"off", "sync", "packets", "part"}]
    BY DEF Init
  <2>2. /\ events \in Queue /\ handlers \in List /\ evRunning \in BOOLEAN
        /\ rxRunning \in BOOLEAN /\ resetFlag \in BOOLEAN /\ echoFlag \in BOOLEAN
        /\ ev \in {"off", "run", "echo"}
    BY QueueEmpty, ListEmpty DEF Init
  <2>3. /\ config \in [at : {"none", "send", "wait", "end", "done", "dead"}, step : 1..Steps,
                      complete : BOOLEAN]
        /\ config.at = "none" => config.step = 1
        /\ tx \in {"off", "run", "wait"}
    BY LifecycleAssumption DEF Init, NoThread
  <2> QED
    BY <2>1, <2>2, <2>3 DEF ThreadsTyped
<1> QED
  BY <1>1, <1>2, <1>3, <1>4 DEF Typed

LEMMA TypedStep ==
  ASSUME Typed, Next
  PROVE  Typed'
<1> USE LifecycleAssumption DEF Typed
<1>1. ASSUME HwCheck
      PROVE  Typed'
  <2>1. LinkTyped'
    BY <1>1, QueueEmpty DEF LinkTyped, HwCheck, Begin, LinkStart, EventHandlerStart,
      EventParserStart, linkVars, ptVars, gateway, caller, manager, parsing, handling,
      test, history
  <2>2. PtTyped'
    BY <1>1 DEF PtTyped, HwCheck, Begin, LinkStart, EventHandlerStart, EventParserStart,
      linkVars, ptVars, gateway, caller, manager, parsing, handling, test, history
  <2>3. CallerTyped'
    BY <1>1 DEF CallerTyped, HwCheck, Begin, LinkStart, EventHandlerStart, EventParserStart,
      linkVars, ptVars, gateway, caller, manager, parsing, handling, test, history
  <2>4. ThreadsTyped'
    BY <1>1, QueueEmpty DEF ThreadsTyped, HwCheck, Begin, LinkStart, EventHandlerStart,
      EventParserStart, linkVars, ptVars, gateway, caller, manager, parsing, handling,
      test, history
  <2> QED
    BY <2>1, <2>2, <2>3, <2>4 DEF Typed
<1>2. ASSUME StartGateway
      PROVE  Typed'
  <2>1. LinkTyped'
    BY <1>2, QueueEmpty DEF LinkTyped, StartGateway, CheckStop, Begin, LinkStart,
      EventHandlerStart, EventParserStart, ResetUnderway, linkVars, ptVars, gateway,
      caller, manager, parsing, handling, test, history
  <2>2. PtTyped'
    BY <1>2 DEF PtTyped, StartGateway, CheckStop, Begin, LinkStart, EventHandlerStart,
      EventParserStart, ResetUnderway, linkVars, ptVars, gateway, caller, manager,
      parsing, handling, test, history
  <2>3. CallerTyped'
    BY <1>2 DEF CallerTyped, StartGateway, CheckStop, Begin, LinkStart, EventHandlerStart,
      EventParserStart, ResetUnderway, linkVars, ptVars, gateway, caller, manager,
      parsing, handling, test, history
  <2>4. ThreadsTyped'
    BY <1>2, QueueEmpty DEF ThreadsTyped, StartGateway, CheckStop, Begin, LinkStart,
      EventHandlerStart, EventParserStart, ResetUnderway, linkVars, ptVars, gateway,
      caller, manager, parsing, handling, test, history
  <2> QED
    BY <2>1, <2>2, <2>3, <2>4 DEF Typed
<1>3. ASSUME StartPassthrough
      PROVE  Typed'
  <2>1. LinkTyped'
    BY <1>3, QueueEmpty DEF LinkTyped, StartPassthrough, CheckStop, Begin, LinkStart,
      EventHandlerStart, PtStart, linkVars, ptVars, gateway, caller, manager, parsing,
      handling, test, history
  <2>2. PtTyped'
    BY <1>3 DEF PtTyped, StartPassthrough, CheckStop, Begin, LinkStart, EventHandlerStart,
      PtStart, linkVars, ptVars, gateway, caller, manager, parsing, handling, test,
      history
  <2>3. CallerTyped'
    BY <1>3 DEF CallerTyped, StartPassthrough, CheckStop, Begin, LinkStart,
      EventHandlerStart, PtStart, linkVars, ptVars, gateway, caller, manager, parsing,
      handling, test, history
  <2>4. ThreadsTyped'
    BY <1>3, QueueEmpty DEF ThreadsTyped, StartPassthrough, CheckStop, Begin, LinkStart,
      EventHandlerStart, PtStart, linkVars, ptVars, gateway, caller, manager, parsing,
      handling, test, history
  <2> QED
    BY <2>1, <2>2, <2>3, <2>4 DEF Typed
<1>4. ASSUME StopGateway
      PROVE  Typed'
  <2>1. LinkTyped'
    BY <1>4, QueueStop, ListRemove DEF LinkTyped, StopGateway, Begin, linkVars, ptVars,
      gateway, caller, manager, parsing, handling, test, history
  <2>2. PtTyped'
    BY <1>4 DEF PtTyped, StopGateway, Begin, linkVars, ptVars, gateway, caller, manager,
      parsing, handling, test, history
  <2>3. CallerTyped'
    BY <1>4 DEF CallerTyped, StopGateway, Begin, linkVars, ptVars, gateway, caller, manager,
      parsing, handling, test, history
  <2>4. ThreadsTyped'
    <3>1. handlers' \in List
      BY <1>4, ListRemove DEF ThreadsTyped, StopGateway
    <3> QED
      BY <1>4, <3>1 DEF ThreadsTyped, StopGateway, test
  <2> QED
    BY <2>1, <2>2, <2>3, <2>4 DEF Typed
<1>5. ASSUME StopPassthrough
      PROVE  Typed'
  <2>1. LinkTyped'
    BY <1>5 DEF LinkTyped, StopPassthrough, Begin, PtStop, linkVars, ptVars, gateway,
      caller, manager, parsing, handling, test, history
  <2>2. PtTyped'
    BY <1>5 DEF PtTyped, StopPassthrough, Begin, PtStop, linkVars, ptVars, gateway, caller,
      manager, parsing, handling, test, history
  <2>3. CallerTyped'
    BY <1>5 DEF CallerTyped, StopPassthrough, Begin, PtStop, linkVars, ptVars, gateway,
      caller, manager, parsing, handling, test, history
  <2>4. ThreadsTyped'
    BY <1>5 DEF ThreadsTyped, StopPassthrough, Begin, PtStop, linkVars, ptVars, gateway,
      caller, manager, parsing, handling, test, history
  <2> QED
    BY <2>1, <2>2, <2>3, <2>4 DEF Typed
<1>6. ASSUME RunTest
      PROVE  Typed'
  <2>1. LinkTyped'
    BY <1>6, QueueAppend, Messages, ListAdd DEF LinkTyped, RunTest, AddTestHandlers,
      SendMsg, Handlers, linkVars, ptVars, gateway, caller, manager, parsing, handling,
      test, history
  <2>2. PtTyped'
    BY <1>6 DEF PtTyped, RunTest, AddTestHandlers, SendMsg, Handlers, linkVars, ptVars,
      gateway, caller, manager, parsing, handling, test, history
  <2>3. CallerTyped'
    BY <1>6 DEF CallerTyped, RunTest, AddTestHandlers, SendMsg, Handlers, linkVars, ptVars,
      gateway, caller, manager, parsing, handling, test, history
  <2>4. ThreadsTyped'
    BY <1>6, QueueAppend, Messages, ListAdd DEF ThreadsTyped, RunTest, AddTestHandlers,
      SendMsg, Handlers, linkVars, ptVars, gateway, caller, manager, parsing, handling,
      test, history
  <2> QED
    BY <2>1, <2>2, <2>3, <2>4 DEF Typed
<1>7. ASSUME TestPasses
      PROVE  Typed'
  <2>1. LinkTyped'
    BY <1>7 DEF LinkTyped, TestPasses, linkVars, ptVars, gateway, caller, manager, parsing,
      handling, test, history
  <2>2. PtTyped'
    BY <1>7 DEF PtTyped, TestPasses, linkVars, ptVars, gateway, caller, manager, parsing,
      handling, test, history
  <2>3. CallerTyped'
    BY <1>7 DEF CallerTyped, TestPasses, linkVars, ptVars, gateway, caller, manager,
      parsing, handling, test, history
  <2>4. ThreadsTyped'
    BY <1>7 DEF ThreadsTyped, TestPasses, linkVars, ptVars, gateway, caller, manager,
      parsing, handling, test, history
  <2> QED
    BY <2>1, <2>2, <2>3, <2>4 DEF Typed
<1>8. ASSUME TestTimesOut
      PROVE  Typed'
  <2>1. LinkTyped'
    BY <1>8 DEF LinkTyped, TestTimesOut, linkVars, ptVars, gateway, caller, manager,
      parsing, handling, test, history
  <2>2. PtTyped'
    BY <1>8 DEF PtTyped, TestTimesOut, linkVars, ptVars, gateway, caller, manager, parsing,
      handling, test, history
  <2>3. CallerTyped'
    BY <1>8 DEF CallerTyped, TestTimesOut, linkVars, ptVars, gateway, caller, manager,
      parsing, handling, test, history
  <2>4. ThreadsTyped'
    BY <1>8 DEF ThreadsTyped, TestTimesOut, linkVars, ptVars, gateway, caller, manager,
      parsing, handling, test, history
  <2> QED
    BY <2>1, <2>2, <2>3, <2>4 DEF Typed
<1>9. ASSUME CreateDevManager
      PROVE  Typed'
  <2>1. LinkTyped'
    BY <1>9, ListAdd DEF LinkTyped, CreateDevManager, NoThread, Handlers, linkVars, ptVars,
      gateway, caller, manager, parsing, handling, test, history
  <2>2. PtTyped'
    BY <1>9 DEF PtTyped, CreateDevManager, NoThread, Handlers, linkVars, ptVars, gateway,
      caller, manager, parsing, handling, test, history
  <2>3. CallerTyped'
    BY <1>9 DEF CallerTyped, CreateDevManager, NoThread, Handlers, linkVars, ptVars,
      gateway, caller, manager, parsing, handling, test, history
  <2>4. ThreadsTyped'
    BY <1>9, ListAdd DEF ThreadsTyped, CreateDevManager, NoThread, Handlers, linkVars,
      ptVars, gateway, caller, manager, parsing, handling, test, history
  <2> QED
    BY <2>1, <2>2, <2>3, <2>4 DEF Typed
<1>10. ASSUME StartDevice
      PROVE  Typed'
  <2>1. LinkTyped'
    BY <1>10, QueueAppend, Messages DEF LinkTyped, StartDevice, SendMsg, linkVars, ptVars,
      gateway, caller, manager, parsing, handling, test, history
  <2>2. PtTyped'
    BY <1>10 DEF PtTyped, StartDevice, SendMsg, linkVars, ptVars, gateway, caller, manager,
      parsing, handling, test, history
  <2>3. CallerTyped'
    BY <1>10 DEF CallerTyped, StartDevice, SendMsg, linkVars, ptVars, gateway, caller,
      manager, parsing, handling, test, history
  <2>4. ThreadsTyped'
    BY <1>10, QueueAppend, Messages DEF ThreadsTyped, StartDevice, SendMsg, linkVars, ptVars,
      gateway, caller, manager, parsing, handling, test, history
  <2> QED
    BY <2>1, <2>2, <2>3, <2>4 DEF Typed
<1>11. ASSUME StartReturns
      PROVE  Typed'
  <2>1. LinkTyped'
    BY <1>11 DEF LinkTyped, StartReturns, linkVars, ptVars, gateway, caller, manager,
      parsing, handling, test, history
  <2>2. PtTyped'
    BY <1>11 DEF PtTyped, StartReturns, linkVars, ptVars, gateway, caller, manager, parsing,
      handling, test, history
  <2>3. CallerTyped'
    BY <1>11 DEF CallerTyped, StartReturns, linkVars, ptVars, gateway, caller, manager,
      parsing, handling, test, history
  <2>4. ThreadsTyped'
    BY <1>11 DEF ThreadsTyped, StartReturns, linkVars, ptVars, gateway, caller, manager,
      parsing, handling, test, history
  <2> QED
    BY <2>1, <2>2, <2>3, <2>4 DEF Typed
<1>12. ASSUME PassthroughStarted
      PROVE  Typed'
  <2>1. LinkTyped'
    BY <1>12 DEF LinkTyped, PassthroughStarted, linkVars, ptVars, gateway, caller, manager,
      parsing, handling, test, history
  <2>2. PtTyped'
    BY <1>12 DEF PtTyped, PassthroughStarted, linkVars, ptVars, gateway, caller, manager,
      parsing, handling, test, history
  <2>3. CallerTyped'
    BY <1>12 DEF CallerTyped, PassthroughStarted, linkVars, ptVars, gateway, caller, manager,
      parsing, handling, test, history
  <2>4. ThreadsTyped'
    BY <1>12 DEF ThreadsTyped, PassthroughStarted, linkVars, ptVars, gateway, caller,
      manager, parsing, handling, test, history
  <2> QED
    BY <2>1, <2>2, <2>3, <2>4 DEF Typed
<1>13. ASSUME RelaysEnded
      PROVE  Typed'
  <2>1. LinkTyped'
    BY <1>13 DEF LinkTyped, RelaysEnded, RelaysJoined, linkVars, ptVars, gateway, caller,
      manager, parsing, handling, test, history
  <2>2. PtTyped'
    BY <1>13 DEF PtTyped, RelaysEnded, RelaysJoined, linkVars, ptVars, gateway, caller,
      manager, parsing, handling, test, history
  <2>3. CallerTyped'
    BY <1>13 DEF CallerTyped, RelaysEnded, RelaysJoined, linkVars, ptVars, gateway, caller,
      manager, parsing, handling, test, history
  <2>4. ThreadsTyped'
    BY <1>13 DEF ThreadsTyped, RelaysEnded, RelaysJoined, linkVars, ptVars, gateway, caller,
      manager, parsing, handling, test, history
  <2> QED
    BY <2>1, <2>2, <2>3, <2>4 DEF Typed
<1>14. ASSUME PassthroughEnded
      PROVE  Typed'
  <2>1. LinkTyped'
    BY <1>14 DEF LinkTyped, PassthroughEnded, LinkStop, linkVars, ptVars, gateway, caller,
      manager, parsing, handling, test, history
  <2>2. PtTyped'
    BY <1>14 DEF PtTyped, PassthroughEnded, LinkStop, linkVars, ptVars, gateway, caller,
      manager, parsing, handling, test, history
  <2>3. CallerTyped'
    BY <1>14 DEF CallerTyped, PassthroughEnded, LinkStop, linkVars, ptVars, gateway, caller,
      manager, parsing, handling, test, history
  <2>4. ThreadsTyped'
    BY <1>14 DEF ThreadsTyped, PassthroughEnded, LinkStop, linkVars, ptVars, gateway, caller,
      manager, parsing, handling, test, history
  <2> QED
    BY <2>1, <2>2, <2>3, <2>4 DEF Typed
<1>15. ASSUME PortClosed
      PROVE  Typed'
  <2>1. LinkTyped'
    BY <1>15 DEF LinkTyped, PortClosed, LinkStopped, linkVars, ptVars, gateway, caller,
      manager, parsing, handling, test, history
  <2>2. PtTyped'
    BY <1>15 DEF PtTyped, PortClosed, LinkStopped, linkVars, ptVars, gateway, caller,
      manager, parsing, handling, test, history
  <2>3. CallerTyped'
    BY <1>15 DEF CallerTyped, PortClosed, LinkStopped, linkVars, ptVars, gateway, caller,
      manager, parsing, handling, test, history
  <2>4. ThreadsTyped'
    BY <1>15 DEF ThreadsTyped, PortClosed, LinkStopped, linkVars, ptVars, gateway, caller,
      manager, parsing, handling, test, history
  <2> QED
    BY <2>1, <2>2, <2>3, <2>4 DEF Typed
<1>16. ASSUME ParserEnded
      PROVE  Typed'
  <2>1. LinkTyped'
    BY <1>16 DEF LinkTyped, ParserEnded, ParserJoined, linkVars, ptVars, gateway, caller,
      manager, parsing, handling, test, history
  <2>2. PtTyped'
    BY <1>16 DEF PtTyped, ParserEnded, ParserJoined, linkVars, ptVars, gateway, caller,
      manager, parsing, handling, test, history
  <2>3. CallerTyped'
    BY <1>16 DEF CallerTyped, ParserEnded, ParserJoined, linkVars, ptVars, gateway, caller,
      manager, parsing, handling, test, history
  <2>4. ThreadsTyped'
    BY <1>16 DEF ThreadsTyped, ParserEnded, ParserJoined, linkVars, ptVars, gateway, caller,
      manager, parsing, handling, test, history
  <2> QED
    BY <2>1, <2>2, <2>3, <2>4 DEF Typed
<1>17. ASSUME EventsEnded
      PROVE  Typed'
  <2>1. LinkTyped'
    BY <1>17, ListEmpty DEF LinkTyped, EventsEnded, LinkStop, linkVars, ptVars, gateway,
      caller, manager, parsing, handling, test, history
  <2>2. PtTyped'
    BY <1>17 DEF PtTyped, EventsEnded, LinkStop, linkVars, ptVars, gateway, caller, manager,
      parsing, handling, test, history
  <2>3. CallerTyped'
    BY <1>17 DEF CallerTyped, EventsEnded, LinkStop, linkVars, ptVars, gateway, caller,
      manager, parsing, handling, test, history
  <2>4. ThreadsTyped'
    BY <1>17, ListEmpty DEF ThreadsTyped, EventsEnded, LinkStop, linkVars, ptVars, gateway,
      caller, manager, parsing, handling, test, history
  <2> QED
    BY <2>1, <2>2, <2>3, <2>4 DEF Typed
<1>18. ASSUME OperationEnds
      PROVE  Typed'
  <2>1. LinkTyped'
    BY <1>18 DEF LinkTyped, OperationEnds, LinkStopped, linkVars, ptVars, gateway, caller,
      manager, parsing, handling, test, history
  <2>2. PtTyped'
    BY <1>18 DEF PtTyped, OperationEnds, LinkStopped, linkVars, ptVars, gateway, caller,
      manager, parsing, handling, test, history
  <2>3. CallerTyped'
    BY <1>18 DEF CallerTyped, OperationEnds, LinkStopped, linkVars, ptVars, gateway, caller,
      manager, parsing, handling, test, history
  <2>4. ThreadsTyped'
    BY <1>18 DEF ThreadsTyped, OperationEnds, LinkStopped, linkVars, ptVars, gateway, caller,
      manager, parsing, handling, test, history
  <2> QED
    BY <2>1, <2>2, <2>3, <2>4 DEF Typed
<1>19. ASSUME NEW p \in {"last", "former"}, ParserEnds(p)
      PROVE  Typed'
  <2>1. LinkTyped'
    BY <1>19 DEF LinkTyped, ParserEnds, linkVars, ptVars, gateway, caller, manager, parsing,
      handling, test, history
  <2>2. PtTyped'
    BY <1>19 DEF PtTyped, ParserEnds, linkVars, ptVars, gateway, caller, manager, parsing,
      handling, test, history
  <2>3. CallerTyped'
    BY <1>19 DEF CallerTyped, ParserEnds, linkVars, ptVars, gateway, caller, manager,
      parsing, handling, test, history
  <2>4. ThreadsTyped'
    BY <1>19 DEF ThreadsTyped, ParserEnds, linkVars, ptVars, gateway, caller, manager,
      parsing, handling, test, history
  <2> QED
    BY <2>1, <2>2, <2>3, <2>4 DEF Typed
<1>20. ASSUME NEW p \in {"last", "former"}, ParserTakes(p)
      PROVE  Typed'
  <2>1. LinkTyped'
    BY <1>20, QueueTail, QueueAppend DEF LinkTyped, ParserTakes, linkVars, ptVars, gateway,
      caller, manager, parsing, handling, test, history
  <2>2. PtTyped'
    BY <1>20 DEF PtTyped, ParserTakes, linkVars, ptVars, gateway, caller, manager, parsing,
      handling, test, history
  <2>3. CallerTyped'
    BY <1>20 DEF CallerTyped, ParserTakes, linkVars, ptVars, gateway, caller, manager,
      parsing, handling, test, history
  <2>4. ThreadsTyped'
    <3>1. Head(readQ) \in Message /\ parsers[p] \in {"sync", "packets"}
      BY <1>20, QueueTail DEF LinkTyped, ParserTakes
    <3>2. Append(events, Head(readQ)) \in Queue
      BY <3>1, QueueAppend DEF ThreadsTyped
    <3>3. events' \in Queue
      BY <1>20, <3>2 DEF ThreadsTyped, ParserTakes
    <3>4. parsers' \in [{"last", "former"} -> {"off", "sync", "packets", "part"}]
      BY <1>20 DEF ThreadsTyped, ParserTakes
    <3> QED
      BY <1>20, <3>3, <3>4 DEF ThreadsTyped, ParserTakes, manager, test
  <2> QED
    BY <2>1, <2>2, <2>3, <2>4 DEF Typed
<1>21. ASSUME NEW p \in {"last", "former"}, ParserSeesLoss(p)
      PROVE  Typed'
  <2>1. LinkTyped'
    BY <1>21, QueueAppend, Messages DEF LinkTyped, ParserSeesLoss, linkVars, ptVars, gateway,
      caller, manager, parsing, handling, test, history
  <2>2. PtTyped'
    BY <1>21 DEF PtTyped, ParserSeesLoss, linkVars, ptVars, gateway, caller, manager,
      parsing, handling, test, history
  <2>3. CallerTyped'
    BY <1>21 DEF CallerTyped, ParserSeesLoss, linkVars, ptVars, gateway, caller, manager,
      parsing, handling, test, history
  <2>4. ThreadsTyped'
    BY <1>21, QueueAppend, Messages DEF ThreadsTyped, ParserSeesLoss, linkVars, ptVars,
      gateway, caller, manager, parsing, handling, test, history
  <2> QED
    BY <2>1, <2>2, <2>3, <2>4 DEF Typed
<1>22. ASSUME Dispatch
      PROVE  Typed'
  <2>1. LinkTyped'
    BY <1>22, QueueTail, ListRemove DEF LinkTyped, Dispatch, Managed, Handlers, linkVars,
      ptVars, gateway, caller, manager, parsing, handling, test, history
  <2>2. PtTyped'
    BY <1>22 DEF PtTyped, Dispatch, Managed, Handlers, linkVars, ptVars, gateway, caller,
      manager, parsing, handling, test, history
  <2>3. CallerTyped'
    BY <1>22 DEF CallerTyped, Dispatch, Managed, Handlers, linkVars, ptVars, gateway, caller,
      manager, parsing, handling, test, history
  <2>4. ThreadsTyped'
    <3>1. events' \in Queue
      BY <1>22, QueueTail DEF ThreadsTyped, Dispatch
    <3>2. handlers' \in List
      BY <1>22, ListRemove DEF ThreadsTyped, Dispatch
    <3>3. /\ config' \in [at : {"none", "send", "wait", "end", "done", "dead"}, step : 1..Steps,
                         complete : BOOLEAN]
          /\ config'.at = "none" => config'.step = 1
      <4> USE DEF ThreadsTyped
      <4>1. PICK m : Managed(m)
        BY <1>22 DEF Dispatch
      <4>2. \/ config' = config
            \/ config' = [config EXCEPT !.at = "send"]
            \/ config' = [config EXCEPT !.complete = TRUE] /\ config.at = "wait"
        BY <4>1 DEF Managed
      <4> QED
        BY <4>2
    <3>4. evRunning' = evRunning /\ rxRunning' = rxRunning /\ parsers' = parsers
      BY <1>22 DEF Dispatch, parsing
    <3>5. resetFlag' \in BOOLEAN /\ echoFlag' \in BOOLEAN /\ ev' \in {"off", "run", "echo"}
      BY <1>22 DEF Dispatch
    <3>6. tx' \in {"off", "run", "wait"}
      BY <1>22 DEF ThreadsTyped, Dispatch, Transmits
    <3> QED
      BY <3>1, <3>2, <3>3, <3>4, <3>5, <3>6 DEF ThreadsTyped
  <2> QED
    BY <2>1, <2>2, <2>3, <2>4 DEF Typed
<1>23. ASSUME SendEcho
      PROVE  Typed'
  <2>1. LinkTyped'
    BY <1>23, QueueAppend, Messages DEF LinkTyped, SendEcho, SendMsg, linkVars, ptVars,
      gateway, caller, manager, parsing, handling, test, history
  <2>2. PtTyped'
    BY <1>23 DEF PtTyped, SendEcho, SendMsg, linkVars, ptVars, gateway, caller, manager,
      parsing, handling, test, history
  <2>3. CallerTyped'
    BY <1>23 DEF CallerTyped, SendEcho, SendMsg, linkVars, ptVars, gateway, caller, manager,
      parsing, handling, test, history
  <2>4. ThreadsTyped'
    BY <1>23, QueueAppend, Messages DEF ThreadsTyped, SendEcho, SendMsg, linkVars, ptVars,
      gateway, caller, manager, parsing, handling, test, history
  <2> QED
    BY <2>1, <2>2, <2>3, <2>4 DEF Typed
<1>24. ASSUME EventsEnd
      PROVE  Typed'
  <2>1. LinkTyped'
    BY <1>24 DEF LinkTyped, EventsEnd, linkVars, ptVars, gateway, caller, manager, parsing,
      handling, test, history
  <2>2. PtTyped'
    BY <1>24 DEF PtTyped, EventsEnd, linkVars, ptVars, gateway, caller, manager, parsing,
      handling, test, history
  <2>3. CallerTyped'
    BY <1>24 DEF CallerTyped, EventsEnd, linkVars, ptVars, gateway, caller, manager, parsing,
      handling, test, history
  <2>4. ThreadsTyped'
    BY <1>24 DEF ThreadsTyped, EventsEnd, linkVars, ptVars, gateway, caller, manager,
      parsing, handling, test, history
  <2> QED
    BY <2>1, <2>2, <2>3, <2>4 DEF Typed
<1>25. ASSUME ConfigSend
      PROVE  Typed'
  <2>1. LinkTyped'
    <3>1. ConfigCommand(config.step) \in Message
      BY Messages DEF ThreadsTyped
    <3>2. writeQ' \in Queue
      BY <1>25, <3>1, QueueAppend DEF LinkTyped, ConfigSend, SendMsg
    <3> QED
      BY <1>25, <3>2 DEF LinkTyped, ConfigSend
  <2>2. PtTyped'
    BY <1>25 DEF PtTyped, ConfigSend, SendMsg, linkVars, ptVars, gateway, caller, manager,
      parsing, handling, test, history
  <2>3. CallerTyped'
    BY <1>25 DEF CallerTyped, ConfigSend, SendMsg, linkVars, ptVars, gateway, caller,
      manager, parsing, handling, test, history
  <2>4. ThreadsTyped'
    BY <1>25, QueueAppend, Messages DEF ThreadsTyped, ConfigSend, SendMsg, linkVars, ptVars,
      gateway, caller, manager, parsing, handling, test, history
  <2> QED
    BY <2>1, <2>2, <2>3, <2>4 DEF Typed
<1>26. ASSUME ConfigNext
      PROVE  Typed'
  <2>1. LinkTyped'
    BY <1>26 DEF LinkTyped, ConfigNext, Answered, linkVars, ptVars, gateway, caller, manager,
      parsing, handling, test, history
  <2>2. PtTyped'
    BY <1>26 DEF PtTyped, ConfigNext, Answered, linkVars, ptVars, gateway, caller, manager,
      parsing, handling, test, history
  <2>3. CallerTyped'
    BY <1>26 DEF CallerTyped, ConfigNext, Answered, linkVars, ptVars, gateway, caller,
      manager, parsing, handling, test, history
  <2>4. ThreadsTyped'
    <3>1. /\ config' \in [at : {"none", "send", "wait", "end", "done", "dead"}, step : 1..Steps,
                         complete : BOOLEAN]
          /\ config'.at # "none"
      <4>1. CASE config.step < Steps
        <5>1. config' = [config EXCEPT !.at = "send", !.step = @ + 1]
          BY <1>26, <4>1 DEF ConfigNext
        <5>2. config.step + 1 \in 1..Steps
          BY <4>1 DEF ThreadsTyped
        <5> QED
          BY <5>1, <5>2 DEF ThreadsTyped
      <4>2. CASE ~(config.step < Steps)
        BY <1>26, <4>2 DEF ConfigNext, ThreadsTyped
      <4> QED
        BY <4>1, <4>2
    <3> QED
      BY <1>26, <3>1 DEF ThreadsTyped, ConfigNext, parsing, handling, test
  <2> QED
    BY <2>1, <2>2, <2>3, <2>4 DEF Typed
<1>27. ASSUME ConfigEnds
      PROVE  Typed'
  <2>1. LinkTyped'
    BY <1>27 DEF LinkTyped, ConfigEnds, linkVars, ptVars, gateway, caller, manager, parsing,
      handling, test, history
  <2>2. PtTyped'
    BY <1>27 DEF PtTyped, ConfigEnds, linkVars, ptVars, gateway, caller, manager, parsing,
      handling, test, history
  <2>3. CallerTyped'
    BY <1>27 DEF CallerTyped, ConfigEnds, linkVars, ptVars, gateway, caller, manager,
      parsing, handling, test, history
  <2>4. ThreadsTyped'
    BY <1>27 DEF ThreadsTyped, ConfigEnds, linkVars, ptVars, gateway, caller, manager,
      parsing, handling, test, history
  <2> QED
    BY <2>1, <2>2, <2>3, <2>4 DEF Typed
<1>28. ASSUME ReaderEnds, UNCHANGED <<ptVars, gateway>>
      PROVE  Typed'
  <2>1. LinkTyped'
    BY <1>28 DEF LinkTyped, ReaderEnds, linkVars, ptVars, gateway, caller, manager, parsing,
      handling, test, history
  <2>2. PtTyped'
    BY <1>28 DEF PtTyped, ReaderEnds, linkVars, ptVars, gateway, caller, manager, parsing,
      handling, test, history
  <2>3. CallerTyped'
    BY <1>28 DEF CallerTyped, ReaderEnds, linkVars, ptVars, gateway, caller, manager,
      parsing, handling, test, history
  <2>4. ThreadsTyped'
    BY <1>28 DEF ThreadsTyped, ReaderEnds, linkVars, ptVars, gateway, caller, manager,
      parsing, handling, test, history
  <2> QED
    BY <2>1, <2>2, <2>3, <2>4 DEF Typed
<1>29. ASSUME Write, UNCHANGED <<ptVars, gateway>>
      PROVE  Typed'
  <2>1. LinkTyped'
    BY <1>29, QueueTail, QueueAppend DEF LinkTyped, Write, linkVars, ptVars, gateway, caller,
      manager, parsing, handling, test, history
  <2>2. PtTyped'
    BY <1>29 DEF PtTyped, Write, linkVars, ptVars, gateway, caller, manager, parsing,
      handling, test, history
  <2>3. CallerTyped'
    BY <1>29 DEF CallerTyped, Write, linkVars, ptVars, gateway, caller, manager, parsing,
      handling, test, history
  <2>4. ThreadsTyped'
    BY <1>29, QueueTail, QueueAppend DEF ThreadsTyped, Write, linkVars, ptVars, gateway,
      caller, manager, parsing, handling, test, history
  <2> QED
    BY <2>1, <2>2, <2>3, <2>4 DEF Typed
<1>30. ASSUME WriterEnds, UNCHANGED <<ptVars, gateway>>
      PROVE  Typed'
  <2>1. LinkTyped'
    BY <1>30 DEF LinkTyped, WriterEnds, Drained, linkVars, ptVars, gateway, caller, manager,
      parsing, handling, test, history
  <2>2. PtTyped'
    BY <1>30 DEF PtTyped, WriterEnds, Drained, linkVars, ptVars, gateway, caller, manager,
      parsing, handling, test, history
  <2>3. CallerTyped'
    BY <1>30 DEF CallerTyped, WriterEnds, Drained, linkVars, ptVars, gateway, caller,
      manager, parsing, handling, test, history
  <2>4. ThreadsTyped'
    BY <1>30 DEF ThreadsTyped, WriterEnds, Drained, linkVars, ptVars, gateway, caller,
      manager, parsing, handling, test, history
  <2> QED
    BY <2>1, <2>2, <2>3, <2>4 DEF Typed
<1>31. ASSUME DeviceAnswers
      PROVE  Typed'
  <2>1. LinkTyped'
    <3> USE DEF LinkTyped, DeviceAnswers, Device
    <3>1. Head(devIn) \in Message /\ Tail(devIn) \in Queue
      BY <1>31, QueueTail
    <3>2. readQ' \in Queue
      BY <1>31, <3>1, Answers, QueueAppend DEF Arrives
    <3>3. devIn' \in Queue
      BY <1>31, <3>1, QueueEmpty
    <3>4. applied' \subseteq 1..Steps
      BY <1>31, <3>1, MessageTypes
    <3> QED
      BY <1>31, <3>2, <3>3, <3>4
  <2>2. PtTyped'
    BY <1>31 DEF PtTyped, DeviceAnswers, Device, Arrives, linkVars, ptVars, gateway, caller,
      manager, parsing, handling, test, history
  <2>3. CallerTyped'
    BY <1>31 DEF CallerTyped, DeviceAnswers, Device, Arrives, linkVars, ptVars, gateway,
      caller, manager, parsing, handling, test, history
  <2>4. ThreadsTyped'
    BY <1>31, QueueTail, QueueAppend, QueueEmpty, Answers, MessageTypes DEF ThreadsTyped,
      DeviceAnswers, Device, Arrives, linkVars, ptVars, gateway, caller, manager,
      parsing, handling, test, history
  <2> QED
    BY <2>1, <2>2, <2>3, <2>4 DEF Typed
<1>32. ASSUME ConnTop, UNCHANGED gateway
      PROVE  Typed'
  <2>1. LinkTyped'
    BY <1>32 DEF LinkTyped, ConnTop, linkVars, ptVars, gateway, caller, manager, parsing,
      handling, test, history
  <2>2. PtTyped'
    BY <1>32 DEF PtTyped, ConnTop, linkVars, ptVars, gateway, caller, manager, parsing,
      handling, test, history
  <2>3. CallerTyped'
    BY <1>32 DEF CallerTyped, ConnTop, linkVars, ptVars, gateway, caller, manager, parsing,
      handling, test, history
  <2>4. ThreadsTyped'
    BY <1>32 DEF ThreadsTyped, ConnTop, linkVars, ptVars, gateway, caller, manager, parsing,
      handling, test, history
  <2> QED
    BY <2>1, <2>2, <2>3, <2>4 DEF Typed
<1>33. ASSUME DialFails, UNCHANGED gateway
      PROVE  Typed'
  <2>1. LinkTyped'
    BY <1>33 DEF LinkTyped, DialFails, linkVars, ptVars, gateway, caller, manager, parsing,
      handling, test, history
  <2>2. PtTyped'
    BY <1>33 DEF PtTyped, DialFails, linkVars, ptVars, gateway, caller, manager, parsing,
      handling, test, history
  <2>3. CallerTyped'
    BY <1>33 DEF CallerTyped, DialFails, linkVars, ptVars, gateway, caller, manager, parsing,
      handling, test, history
  <2>4. ThreadsTyped'
    BY <1>33 DEF ThreadsTyped, DialFails, linkVars, ptVars, gateway, caller, manager,
      parsing, handling, test, history
  <2> QED
    BY <2>1, <2>2, <2>3, <2>4 DEF Typed
<1>34. ASSUME DialSucceeds, UNCHANGED gateway
      PROVE  Typed'
  <2>1. LinkTyped'
    BY <1>34 DEF LinkTyped, DialSucceeds, linkVars, ptVars, gateway, caller, manager,
      parsing, handling, test, history
  <2>2. PtTyped'
    BY <1>34 DEF PtTyped, DialSucceeds, linkVars, ptVars, gateway, caller, manager, parsing,
      handling, test, history
  <2>3. CallerTyped'
    BY <1>34 DEF CallerTyped, DialSucceeds, linkVars, ptVars, gateway, caller, manager,
      parsing, handling, test, history
  <2>4. ThreadsTyped'
    BY <1>34 DEF ThreadsTyped, DialSucceeds, linkVars, ptVars, gateway, caller, manager,
      parsing, handling, test, history
  <2> QED
    BY <2>1, <2>2, <2>3, <2>4 DEF Typed
<1>35. ASSUME Clean, UNCHANGED gateway
      PROVE  Typed'
  <2>1. LinkTyped'
    BY <1>35, QueueEmpty DEF LinkTyped, Clean, linkVars, ptVars, gateway, caller, manager,
      parsing, handling, test, history
  <2>2. PtTyped'
    BY <1>35 DEF PtTyped, Clean, linkVars, ptVars, gateway, caller, manager, parsing,
      handling, test, history
  <2>3. CallerTyped'
    BY <1>35 DEF CallerTyped, Clean, linkVars, ptVars, gateway, caller, manager, parsing,
      handling, test, history
  <2>4. ThreadsTyped'
    BY <1>35, QueueEmpty DEF ThreadsTyped, Clean, linkVars, ptVars, gateway, caller, manager,
      parsing, handling, test, history
  <2> QED
    BY <2>1, <2>2, <2>3, <2>4 DEF Typed
<1>36. ASSUME StartRelays, UNCHANGED gateway
      PROVE  Typed'
  <2>1. LinkTyped'
    BY <1>36 DEF LinkTyped, StartRelays, linkVars, ptVars, gateway, caller, manager, parsing,
      handling, test, history
  <2>2. PtTyped'
    BY <1>36 DEF PtTyped, StartRelays, linkVars, ptVars, gateway, caller, manager, parsing,
      handling, test, history
  <2>3. CallerTyped'
    BY <1>36 DEF CallerTyped, StartRelays, linkVars, ptVars, gateway, caller, manager,
      parsing, handling, test, history
  <2>4. ThreadsTyped'
    BY <1>36 DEF ThreadsTyped, StartRelays, linkVars, ptVars, gateway, caller, manager,
      parsing, handling, test, history
  <2> QED
    BY <2>1, <2>2, <2>3, <2>4 DEF Typed
<1>37. ASSUME HardReset, ResetFrame
      PROVE  Typed'
  <2>1. LinkTyped'
    BY <1>37, QueueReset DEF LinkTyped, HardReset, ResetFrame, linkVars, ptVars, gateway, caller,
      manager, parsing, handling, test, history
  <2>2. PtTyped'
    BY <1>37 DEF PtTyped, HardReset, ResetFrame, linkVars, ptVars, gateway, caller, manager, parsing,
      handling, test, history
  <2>3. CallerTyped'
    BY <1>37 DEF CallerTyped, HardReset, ResetFrame, linkVars, ptVars, gateway, caller, manager, parsing,
      handling, test, history
  <2>4. ThreadsTyped'
    BY <1>37, QueueReset DEF ThreadsTyped, HardReset, ResetFrame, linkVars, ptVars, gateway, caller,
      manager, parsing, handling, test, history
  <2> QED
    BY <2>1, <2>2, <2>3, <2>4 DEF Typed
<1>38. ASSUME ConnectionEnds, UNCHANGED gateway
      PROVE  Typed'
  <2>1. LinkTyped'
    BY <1>38 DEF LinkTyped, ConnectionEnds, RelaysJoined, Relaying, linkVars, ptVars,
      gateway, caller, manager, parsing, handling, test, history
  <2>2. PtTyped'
    BY <1>38 DEF PtTyped, ConnectionEnds, RelaysJoined, Relaying, linkVars, ptVars, gateway,
      caller, manager, parsing, handling, test, history
  <2>3. CallerTyped'
    BY <1>38 DEF CallerTyped, ConnectionEnds, RelaysJoined, Relaying, linkVars, ptVars,
      gateway, caller, manager, parsing, handling, test, history
  <2>4. ThreadsTyped'
    BY <1>38 DEF ThreadsTyped, ConnectionEnds, RelaysJoined, Relaying, linkVars, ptVars,
      gateway, caller, manager, parsing, handling, test, history
  <2> QED
    BY <2>1, <2>2, <2>3, <2>4 DEF Typed
<1>39. ASSUME RelayRx, UNCHANGED gateway
      PROVE  Typed'
  <2>1. LinkTyped'
    BY <1>39, QueueTail DEF LinkTyped, RelayRx, Relaying, linkVars, ptVars, gateway, caller,
      manager, parsing, handling, test, history
  <2>2. PtTyped'
    BY <1>39 DEF PtTyped, RelayRx, Relaying, linkVars, ptVars, gateway, caller, manager,
      parsing, handling, test, history
  <2>3. CallerTyped'
    BY <1>39 DEF CallerTyped, RelayRx, Relaying, linkVars, ptVars, gateway, caller, manager,
      parsing, handling, test, history
  <2>4. ThreadsTyped'
    BY <1>39, QueueTail DEF ThreadsTyped, RelayRx, Relaying, linkVars, ptVars, gateway,
      caller, manager, parsing, handling, test, history
  <2> QED
    BY <2>1, <2>2, <2>3, <2>4 DEF Typed
<1>40. ASSUME RelayTxEnds, UNCHANGED gateway
      PROVE  Typed'
  <2>1. LinkTyped'
    BY <1>40 DEF LinkTyped, RelayTxEnds, Relaying, linkVars, ptVars, gateway, caller,
      manager, parsing, handling, test, history
  <2>2. PtTyped'
    BY <1>40 DEF PtTyped, RelayTxEnds, Relaying, linkVars, ptVars, gateway, caller, manager,
      parsing, handling, test, history
  <2>3. CallerTyped'
    BY <1>40 DEF CallerTyped, RelayTxEnds, Relaying, linkVars, ptVars, gateway, caller,
      manager, parsing, handling, test, history
  <2>4. ThreadsTyped'
    BY <1>40 DEF ThreadsTyped, RelayTxEnds, Relaying, linkVars, ptVars, gateway, caller,
      manager, parsing, handling, test, history
  <2> QED
    BY <2>1, <2>2, <2>3, <2>4 DEF Typed
<1>41. ASSUME NEW c \in RemoteCommands, RelayTx(c), RelayFrame(c)
      PROVE  Typed'
  <2>1. LinkTyped'
    BY <1>41, QueueAppend, RemoteTypes DEF LinkTyped, RelayTx, RelayFrame, SendMsg, linkVars, ptVars,
      gateway, caller, manager, parsing, handling, test, history
  <2>2. PtTyped'
    BY <1>41 DEF PtTyped, RelayTx, RelayFrame, SendMsg, linkVars, ptVars, gateway, caller, manager,
      parsing, handling, test, history
  <2>3. CallerTyped'
    BY <1>41 DEF CallerTyped, RelayTx, RelayFrame, SendMsg, linkVars, ptVars, gateway, caller, manager,
      parsing, handling, test, history
  <2>4. ThreadsTyped'
    BY <1>41, QueueAppend, RemoteTypes DEF ThreadsTyped, RelayTx, RelayFrame, SendMsg, linkVars, ptVars,
      gateway, caller, manager, parsing, handling, test, history
  <2> QED
    BY <2>1, <2>2, <2>3, <2>4 DEF Typed
<1>42. ASSUME ServerDrops, UNCHANGED gateway
      PROVE  Typed'
  <2>1. LinkTyped'
    BY <1>42 DEF LinkTyped, ServerDrops, linkVars, ptVars, gateway, caller, manager, parsing,
      handling, test, history
  <2>2. PtTyped'
    BY <1>42 DEF PtTyped, ServerDrops, linkVars, ptVars, gateway, caller, manager, parsing,
      handling, test, history
  <2>3. CallerTyped'
    BY <1>42 DEF CallerTyped, ServerDrops, linkVars, ptVars, gateway, caller, manager,
      parsing, handling, test, history
  <2>4. ThreadsTyped'
    BY <1>42 DEF ThreadsTyped, ServerDrops, linkVars, ptVars, gateway, caller, manager,
      parsing, handling, test, history
  <2> QED
    BY <2>1, <2>2, <2>3, <2>4 DEF Typed
<1>43. ASSUME LinkBreaks
      PROVE  Typed'
  <2>1. LinkTyped'
    <3>1. Append(readQ, Msg("part")) \in Queue
      BY QueueAppend, Messages DEF LinkTyped
    <3> QED
      BY <1>43, <3>1 DEF LinkTyped, LinkBreaks, Break
  <2>2. PtTyped'
    BY <1>43 DEF PtTyped, LinkBreaks, Break, linkVars, ptVars, gateway, caller, manager,
      parsing, handling, test, history
  <2>3. CallerTyped'
    BY <1>43 DEF CallerTyped, LinkBreaks, Break, linkVars, ptVars, gateway, caller, manager,
      parsing, handling, test, history
  <2>4. ThreadsTyped'
    BY <1>43, QueueAppend, Messages DEF ThreadsTyped, LinkBreaks, Break, linkVars, ptVars,
      gateway, caller, manager, parsing, handling, test, history
  <2> QED
    BY <2>1, <2>2, <2>3, <2>4 DEF Typed
<1>44. ASSUME StartPassthroughFails
      PROVE  Typed'
  <2>1. LinkTyped'
    BY <1>44, QueueEmpty DEF LinkTyped, StartPassthroughFails, CheckStop, LinkStart,
      EventHandlerStart, PtUnstarted, linkVars, ptVars, gateway, caller, manager,
      parsing, handling, test, history
  <2>2. PtTyped'
    BY <1>44 DEF PtTyped, StartPassthroughFails, CheckStop, LinkStart,
      EventHandlerStart, PtUnstarted, linkVars, ptVars, gateway, caller, manager,
      parsing, handling, test, history
  <2>3. CallerTyped'
    BY <1>44 DEF CallerTyped, StartPassthroughFails, CheckStop, LinkStart,
      EventHandlerStart, PtUnstarted, linkVars, ptVars, gateway, caller, manager,
      parsing, handling, test, history
  <2>4. ThreadsTyped'
    BY <1>44, QueueEmpty DEF ThreadsTyped, StartPassthroughFails, CheckStop, LinkStart,
      EventHandlerStart, PtUnstarted, linkVars, ptVars, gateway, caller, manager,
      parsing, handling, test, history
  <2> QED
    BY <2>1, <2>2, <2>3, <2>4 DEF Typed
<1>45. ASSUME ResetGateway
      PROVE  Typed'
  <2>1. LinkTyped'
    BY <1>45, QueueAppend, Messages DEF LinkTyped, ResetGateway, SendMsg, linkVars,
      ptVars, gateway, caller, manager, parsing, handling, test, history
  <2>2. PtTyped'
    BY <1>45 DEF PtTyped, ResetGateway, SendMsg, linkVars, ptVars, gateway, caller,
      manager, parsing, handling, test, history
  <2>3. CallerTyped'
    BY <1>45 DEF CallerTyped, ResetGateway, SendMsg, linkVars, ptVars, gateway, caller,
      manager, parsing, handling, test, history
  <2>4. ThreadsTyped'
    BY <1>45, QueueAppend, Messages DEF ThreadsTyped, ResetGateway, SendMsg, linkVars,
      ptVars, gateway, caller, manager, parsing, handling, test, history
  <2> QED
    BY <2>1, <2>2, <2>3, <2>4 DEF Typed
<1>46. ASSUME StopEnds
      PROVE  Typed'
  <2>1. LinkTyped'
    BY <1>46 DEF LinkTyped, StopEnds, linkVars, ptVars, gateway, caller, manager,
      parsing, handling, test, history
  <2>2. PtTyped'
    BY <1>46 DEF PtTyped, StopEnds, linkVars, ptVars, gateway, caller, manager, parsing,
      handling, test, history
  <2>3. CallerTyped'
    BY <1>46 DEF CallerTyped, StopEnds, linkVars, ptVars, gateway, caller, manager,
      parsing, handling, test, history
  <2>4. ThreadsTyped'
    BY <1>46 DEF ThreadsTyped, StopEnds, linkVars, ptVars, gateway, caller, manager,
      parsing, handling, test, history
  <2> QED
    BY <2>1, <2>2, <2>3, <2>4 DEF Typed
<1>47. ASSUME ConfigFails
      PROVE  Typed'
  <2>1. LinkTyped'
    BY <1>47 DEF LinkTyped, ConfigFails, Answered, linkVars, ptVars, gateway, caller,
      manager, parsing, handling, test, history
  <2>2. PtTyped'
    BY <1>47 DEF PtTyped, ConfigFails, Answered, linkVars, ptVars, gateway, caller,
      manager, parsing, handling, test, history
  <2>3. CallerTyped'
    BY <1>47 DEF CallerTyped, ConfigFails, Answered, linkVars, ptVars, gateway, caller,
      manager, parsing, handling, test, history
  <2>4. ThreadsTyped'
    BY <1>47 DEF ThreadsTyped, ConfigFails, Answered, linkVars, ptVars, gateway, caller,
      manager, parsing, handling, test, history
  <2> QED
    BY <2>1, <2>2, <2>3, <2>4 DEF Typed
<1>48. ASSUME TxSend
      PROVE  Typed'
  <2>1. LinkTyped'
    BY <1>48, QueueAppend, Messages DEF LinkTyped, TxSend, SendMsg, linkVars, ptVars,
      gateway, caller, manager, parsing, handling, test, history
  <2>2. PtTyped'
    BY <1>48 DEF PtTyped, TxSend, SendMsg, linkVars, ptVars, gateway, caller, manager,
      parsing, handling, test, history
  <2>3. CallerTyped'
    BY <1>48 DEF CallerTyped, TxSend, SendMsg, linkVars, ptVars, gateway, caller,
      manager, parsing, handling, test, history
  <2>4. ThreadsTyped'
    BY <1>48, QueueAppend, Messages DEF ThreadsTyped, TxSend, SendMsg, linkVars, ptVars,
      gateway, caller, manager, parsing, handling, test, history
  <2> QED
    BY <2>1, <2>2, <2>3, <2>4 DEF Typed
<1>49. ASSUME TxEnds
      PROVE  Typed'
  <2>1. LinkTyped'
    BY <1>49 DEF LinkTyped, TxEnds, linkVars, ptVars, gateway, caller, manager, parsing,
      handling, test, history
  <2>2. PtTyped'
    BY <1>49 DEF PtTyped, TxEnds, linkVars, ptVars, gateway, caller, manager, parsing,
      handling, test, history
  <2>3. CallerTyped'
    BY <1>49 DEF CallerTyped, TxEnds, linkVars, ptVars, gateway, caller, manager,
      parsing, handling, test, history
  <2>4. ThreadsTyped'
    BY <1>49 DEF ThreadsTyped, TxEnds, linkVars, ptVars, gateway, caller, manager,
      parsing, handling, test, history
  <2> QED
    BY <2>1, <2>2, <2>3, <2>4 DEF Typed
<1> QED
  BY <1>1, <1>2, <1>3, <1>4, <1>5, <1>6, <1>7, <1>8, <1>9, <1>10, <1>11, <1>12, <1>13,
    <1>14, <1>15, <1>16, <1>17, <1>18, <1>19, <1>20, <1>21, <1>22, <1>23, <1>24, <1>25,
    <1>26, <1>27, <1>28, <1>29, <1>30, <1>31, <1>32, <1>33, <1>34, <1>35, <1>36, <1>37,
    <1>38, <1>39, <1>40, <1>41, <1>42, <1>43, <1>44, <1>45, <1>46, <1>47, <1>48, <1>49,
    StepCases

-----------------------------------------------------------------------------
(* The threads: each step leaves every part of Phases true.  The steps that *)
(* change the list of handlers say first what they make of it.              *)

LEMMA PhasesStep ==
  ASSUME Typed, Phases, Next
  PROVE  Phases'
<1> USE DEF linkVars, ptVars, gateway, caller, manager, parsing, handling, test,
               history, Typed, LinkTyped, PtTyped, CallerTyped, ThreadsTyped, Phases,
               Places, Connections, Running, Modes, LinkUp, EventsUp, ParsersUp,
               Listed, Managing, Stuck, ConfigAlive, LinkStopped
<1>1. ASSUME HwCheck
      PROVE  Phases'
  BY <1>1 DEF HwCheck, Begin, LinkStart, EventHandlerStart, EventParserStart
<1>2. ASSUME StartGateway
      PROVE  Phases'
  BY <1>2 DEF StartGateway, CheckStop, Begin, LinkStart, EventHandlerStart,
    EventParserStart
<1>3. ASSUME StartPassthrough
      PROVE  Phases'
  BY <1>3 DEF StartPassthrough, CheckStop, Begin, LinkStart, EventHandlerStart,
    PtStart
<1>4. ASSUME StopGateway
      PROVE  Phases'
  <2>1. CASE ConfigAlive
    BY <1>4, <2>1 DEF StopGateway
  <2>2. CASE ~ConfigAlive
    <3>1. /\ \A g : Contains(handlers', g) <=> Contains(handlers, g) /\ g # "dev_event_handler"
          /\ call' = "stop" /\ at' = "parser" /\ ~devManager' /\ ~rxRunning'
      BY <1>4, <2>2, ListRemove DEF StopGateway
    <3> QED
      BY <1>4, <2>2, <3>1 DEF StopGateway
  <2> QED
    BY <2>1, <2>2
<1>5. ASSUME StopPassthrough
      PROVE  Phases'
  BY <1>5 DEF StopPassthrough, Begin, PtStop
<1>6. ASSUME RunTest
      PROVE  Phases'
  <2>1. /\ \A g : Contains(handlers', g) <=>
              Contains(handlers, g) \/ g \in {"reset_handler", "echo_handler"}
        /\ handlers # <<>> => handlers'[1] = handlers[1]
    <3> DEFINE hs == AddHandler(handlers, "reset_handler")
    <3>1. /\ hs \in List
          /\ \A g : Contains(hs, g) <=> Contains(handlers, g) \/ g = "reset_handler"
          /\ handlers # <<>> => hs[1] = handlers[1]
      BY ListAdd DEF Handlers
    <3>2. handlers' = AddHandler(hs, "echo_handler")
      BY <1>6 DEF RunTest, AddTestHandlers
    <3>3. handlers # <<>> => hs # <<>>
      <4>1. Contains(hs, "reset_handler")
        BY <3>1
      <4> HIDE DEF hs
      <4> QED
        BY <4>1, ListEmpty
    <3> HIDE DEF hs
    <3> QED
      BY <3>1, <3>2, <3>3, ListAdd DEF Handlers
  <2>2. Contains(handlers, "dev_event_handler") => handlers # <<>>
    BY ListEmpty
  <2> QED
    BY <1>6, <2>1, <2>2 DEF RunTest, SendMsg
<1>7. ASSUME TestPasses
      PROVE  Phases'
  BY <1>7 DEF TestPasses
<1>8. ASSUME TestTimesOut
      PROVE  Phases'
  BY <1>8 DEF TestTimesOut
<1>9. ASSUME CreateDevManager
      PROVE  Phases'
  <2>1. /\ \A g : Contains(handlers', g) <=> Contains(handlers, g) \/ g = "dev_event_handler"
        /\ handlers = <<>> => handlers'[1] = "dev_event_handler"
    BY <1>9, ListAdd DEF CreateDevManager, Handlers
  <2>2. ~failed => handlers = <<>>
    BY <1>9 DEF CreateDevManager
  <2> QED
    BY <1>9, <2>1, <2>2 DEF CreateDevManager, NoThread
<1>10. ASSUME StartDevice
      PROVE  Phases'
  BY <1>10 DEF StartDevice, SendMsg
<1>11. ASSUME StartReturns
      PROVE  Phases'
  BY <1>11 DEF StartReturns
<1>12. ASSUME PassthroughStarted
      PROVE  Phases'
  BY <1>12 DEF PassthroughStarted
<1>13. ASSUME RelaysEnded
      PROVE  Phases'
  BY <1>13 DEF RelaysEnded, RelaysJoined
<1>14. ASSUME PassthroughEnded
      PROVE  Phases'
  BY <1>14 DEF PassthroughEnded, LinkStop
<1>15. ASSUME PortClosed
      PROVE  Phases'
  <2>1. Places' /\ Connections' /\ Stuck'
    BY <1>15 DEF PortClosed
  <2>2. (~failed => Modes /\ LinkUp)'
    BY <1>15 DEF PortClosed
  <2>3. (~failed => EventsUp /\ ParsersUp)'
    BY <1>15 DEF PortClosed
  <2>4. (~failed => Listed /\ Managing)'
    BY <1>15 DEF PortClosed
  <2> HIDE DEF Places, Connections, Modes, LinkUp, EventsUp, ParsersUp, Listed, Managing,
               Stuck
  <2> QED
    BY <2>1, <2>2, <2>3, <2>4
<1>16. ASSUME ParserEnded
      PROVE  Phases'
  BY <1>16 DEF ParserEnded, ParserJoined
<1>17. ASSUME EventsEnded
      PROVE  Phases'
  BY <1>17, ListEmpty DEF EventsEnded, LinkStop
<1>18. ASSUME OperationEnds
      PROVE  Phases'
  <2>1. handlers' = <<>> \/ failed
    BY <1>18 DEF OperationEnds
  <2>2. (~failed => Listed)'
    BY <1>18, <2>1, ListEmpty DEF OperationEnds
  <2>3. Places' /\ Connections' /\ Stuck'
    BY <1>18 DEF OperationEnds
  <2>4. (~failed => Modes /\ LinkUp)'
    BY <1>18 DEF OperationEnds
  <2>5. (~failed => EventsUp /\ ParsersUp /\ Managing)'
    BY <1>18 DEF OperationEnds
  <2> HIDE DEF Places, Connections, Modes, LinkUp, EventsUp, ParsersUp, Listed, Managing,
               Stuck
  <2> QED
    BY <2>2, <2>3, <2>4, <2>5
<1>19. ASSUME NEW p \in {"last", "former"}, ParserEnds(p)
      PROVE  Phases'
  BY <1>19 DEF ParserEnds
<1>20. ASSUME NEW p \in {"last", "former"}, ParserTakes(p)
      PROVE  Phases'
  BY <1>20 DEF ParserTakes
<1>21. ASSUME NEW p \in {"last", "former"}, ParserSeesLoss(p)
      PROVE  Phases'
  BY <1>21 DEF ParserSeesLoss
<1>22. ASSUME Dispatch
      PROVE  Phases'
  <2> DEFINE m == Head(events)
             left == {h \in Handlers : Leaves(h, m) /\ Reached(h, m)}
  <2>1. /\ \/ left = {} /\ handlers' = handlers
           \/ \E h \in left : handlers' = RemoveHandler(handlers, h)
        /\ Managed(m)
        /\ resetFlag' = (resetFlag \/ "reset_handler" \in left)
        /\ ev' = IF "reset_handler" \in left THEN "echo" ELSE "run"
    BY <1>22 DEF Dispatch
  <2>2. \A h \in left : h # "dev_event_handler"
    BY DEF Leaves
  <2>3. \A g : Contains(handlers', g) => Contains(handlers, g)
    <3> HIDE DEF left
    <3> QED
      BY <2>1, ListRemove
  <2>4. Contains(handlers, "dev_event_handler") /\ handlers[1] = "dev_event_handler" =>
          Contains(handlers', "dev_event_handler") /\ handlers'[1] = "dev_event_handler"
    <3>1. Contains(handlers, "dev_event_handler") => handlers # <<>>
      BY ListEmpty
    <3> HIDE DEF left
    <3> QED
      BY <2>1, <2>2, <3>1, ListRemove
  <2>5. handlers = <<>> => handlers' = <<>>
    <3>1. handlers = <<>> => \A h \in left : Contains(handlers, h)
      BY DEF Reached, Contains
    <3> HIDE DEF left
    <3> QED
      BY <2>1, <3>1, ListEmpty
  <2>6. "reset_handler" \in left =>
          ~(handlers[1] = "dev_event_handler" /\ config.at # "none")
    BY ListElements DEF Leaves, Reached, Raises
  <2>8. "reset_handler" \in left => ~Contains(handlers', "reset_handler")
    <3>1. "reset_handler" \in left => \A h \in left : h = "reset_handler"
      BY DEF Leaves
    <3> HIDE DEF left
    <3> QED
      BY <2>1, <3>1, ListRemove
  <2>7. config'.at = config.at \/ (config'.at = "send" /\ config.at = "none"
                                    /\ Contains(handlers, "dev_event_handler"))
    <3>1. Reached("dev_event_handler", m) => Contains(handlers, "dev_event_handler")
      BY ListElements DEF Reached
    <3> QED
      BY <2>1, <3>1 DEF Managed
  <2>9. tx' = "run" => tx = "run" \/ Contains(handlers, "dev_event_handler")
    <3>1. Reached("dev_event_handler", m) => Contains(handlers, "dev_event_handler")
      BY ListElements DEF Reached
    <3> QED
      BY <1>22, <3>1 DEF Dispatch, Transmits
  <2> HIDE DEF left, m
  <2> QED
    BY <1>22, <2>1, <2>3, <2>4, <2>5, <2>6, <2>7, <2>8, <2>9 DEF Dispatch
<1>23. ASSUME SendEcho
      PROVE  Phases'
  BY <1>23 DEF SendEcho, SendMsg
<1>24. ASSUME EventsEnd
      PROVE  Phases'
  BY <1>24 DEF EventsEnd
<1>25. ASSUME ConfigSend
      PROVE  Phases'
  BY <1>25 DEF ConfigSend, SendMsg
<1>26. ASSUME ConfigNext
      PROVE  Phases'
  BY <1>26 DEF ConfigNext, Answered
<1>27. ASSUME ConfigEnds
      PROVE  Phases'
  BY <1>27 DEF ConfigEnds
<1>28. ASSUME ReaderEnds, UNCHANGED <<ptVars, gateway>>
      PROVE  Phases'
  BY <1>28 DEF ReaderEnds
<1>29. ASSUME Write, UNCHANGED <<ptVars, gateway>>
      PROVE  Phases'
  BY <1>29 DEF Write
<1>30. ASSUME WriterEnds, UNCHANGED <<ptVars, gateway>>
      PROVE  Phases'
  BY <1>30 DEF WriterEnds, Drained
<1>31. ASSUME DeviceAnswers
      PROVE  Phases'
  BY <1>31 DEF DeviceAnswers, Device, Arrives
<1>32. ASSUME ConnTop, UNCHANGED gateway
      PROVE  Phases'
  BY <1>32 DEF ConnTop
<1>33. ASSUME DialFails, UNCHANGED gateway
      PROVE  Phases'
  BY <1>33 DEF DialFails
<1>34. ASSUME DialSucceeds, UNCHANGED gateway
      PROVE  Phases'
  BY <1>34 DEF DialSucceeds
<1>35. ASSUME Clean, UNCHANGED gateway
      PROVE  Phases'
  BY <1>35 DEF Clean
<1>36. ASSUME StartRelays, UNCHANGED gateway
      PROVE  Phases'
  BY <1>36 DEF StartRelays
<1>37. ASSUME HardReset, ResetFrame
      PROVE  Phases'
  BY <1>37 DEF HardReset, ResetFrame
<1>38. ASSUME ConnectionEnds, UNCHANGED gateway
      PROVE  Phases'
  BY <1>38 DEF ConnectionEnds, RelaysJoined, Relaying
<1>39. ASSUME RelayRx, UNCHANGED gateway
      PROVE  Phases'
  BY <1>39 DEF RelayRx, Relaying
<1>40. ASSUME RelayTxEnds, UNCHANGED gateway
      PROVE  Phases'
  BY <1>40 DEF RelayTxEnds, Relaying
<1>41. ASSUME NEW c \in RemoteCommands, RelayTx(c), RelayFrame(c)
      PROVE  Phases'
  BY <1>41 DEF RelayTx, RelayFrame, SendMsg
<1>42. ASSUME ServerDrops, UNCHANGED gateway
      PROVE  Phases'
  BY <1>42 DEF ServerDrops
<1>43. ASSUME LinkBreaks
      PROVE  Phases'
  BY <1>43 DEF LinkBreaks, Break
<1>44. ASSUME StartPassthroughFails
      PROVE  Phases'
  BY <1>44 DEF StartPassthroughFails, CheckStop, LinkStart, EventHandlerStart,
    PtUnstarted
<1>45. ASSUME ResetGateway
      PROVE  Phases'
  BY <1>45 DEF ResetGateway, SendMsg
<1>46. ASSUME StopEnds
      PROVE  Phases'
  BY <1>46 DEF StopEnds
<1>47. ASSUME ConfigFails
      PROVE  Phases'
  BY <1>47 DEF ConfigFails, Answered
<1>48. ASSUME TxSend
      PROVE  Phases'
  BY <1>48 DEF TxSend, SendMsg
<1>49. ASSUME TxEnds
      PROVE  Phases'
  BY <1>49 DEF TxEnds
<1> HIDE DEF linkVars, ptVars, gateway, caller, manager, parsing, handling, test,
               history, Typed, LinkTyped, PtTyped, CallerTyped, ThreadsTyped, Phases,
               Places, Connections, Running, Modes, LinkUp, EventsUp, ParsersUp,
               Listed, Managing, Stuck, ConfigAlive, LinkStopped
<1> QED
  BY <1>1, <1>2, <1>3, <1>4, <1>5, <1>6, <1>7, <1>8, <1>9, <1>10, <1>11, <1>12, <1>13,
    <1>14, <1>15, <1>16, <1>17, <1>18, <1>19, <1>20, <1>21, <1>22, <1>23, <1>24, <1>25,
    <1>26, <1>27, <1>28, <1>29, <1>30, <1>31, <1>32, <1>33, <1>34, <1>35, <1>36, <1>37,
    <1>38, <1>39, <1>40, <1>41, <1>42, <1>43, <1>44, <1>45, <1>46, <1>47, <1>48, <1>49,
    StepCases

LEMMA PhasesInit == Init => Phases
<1> SUFFICES ASSUME Init PROVE Phases
  OBVIOUS
<1>1. Places /\ Connections /\ Stuck
  BY DEF Init, LinkInit, PtInit, Places, Connections, Stuck
<1>2. Modes /\ LinkUp
  BY DEF Init, LinkInit, PtInit, Modes, LinkUp, LinkStopped
<1>3. EventsUp /\ ParsersUp /\ Managing
  BY DEF Init, LinkInit, PtInit, EventsUp, ParsersUp, Managing, ConfigAlive, NoThread
<1>4. Listed
  BY ListEmpty DEF Init, LinkInit, PtInit, Listed
<1> QED
  BY <1>1, <1>2, <1>3, <1>4 DEF Phases, Running

-----------------------------------------------------------------------------
(* What the phases say. *)

LEMMA TypedOK == Typed => TypeOK
<1> SUFFICES ASSUME Typed PROVE TypeOK
  OBVIOUS
<1>1. {remote, running, connected, reader, writer, broken, ptRunning, ptConnected,
       startEvent, announced, started, devManager, devStarted, evRunning, rxRunning,
       resetFlag, echoFlag, failed, shared, stale, again, relayed, told, echoed}
        \subseteq BOOLEAN
  BY DEF Typed, LinkTyped, PtTyped, CallerTyped, ThreadsTyped
<1>2. ToSet(handlers) \subseteq Handlers /\ IsInjective(handlers)
  BY ListElements DEF Typed, ThreadsTyped, List, ToSet
<1> QED
  BY <1>1, <1>2 DEF Typed, LinkTyped, ThreadsTyped, TypeOK

LEMMA PhasesAllStopped == Typed /\ Phases => AllStopped
<1> SUFFICES ASSUME Typed, Phases, call = "none", ~started, ~failed
             PROVE  /\ LinkStopped /\ ev = "off" /\ Takers \subseteq {"relay"} /\ ~ConfigAlive
                    /\ tx \in {"off", "wait"} /\ (PtAlive => shared)
                    /\ CheckStop /\ handlers = <<>>
  BY DEF AllStopped
<1>1. at = "none" /\ ~devManager /\ conn = "none"
  BY DEF Phases, Places, Running, Modes
<1>2. LinkStopped /\ ~connected
  BY <1>1 DEF Phases, Running, LinkUp
<1>3. ev = "off"
  BY <1>1, <1>2 DEF Phases, Running, LinkUp, EventsUp
<1>4. relayRx = "run" \/ relayTx = "run" => shared
  BY <1>1 DEF Phases, Connections
<1>5. parsers.last = "off" /\ parsers.former = "off"
  BY <1>1 DEF Phases, Running, ParsersUp
<1>6. Takers \subseteq {"relay"}
  BY <1>5 DEF Takers, Typed, ThreadsTyped
<1>7. ~ConfigAlive /\ tx \in {"off", "wait"}
  BY <1>1 DEF Phases, Running, Managing, Typed, ThreadsTyped
<1>8. handlers = <<>>
  BY <1>1 DEF Phases, Running, Listed
<1> QED
  BY <1>1, <1>2, <1>3, <1>4, <1>6, <1>7, <1>8 DEF PtAlive, CheckStop

LEMMA PhasesOneReader == Typed /\ Phases => OneReader
<1> SUFFICES ASSUME Typed, Phases, ~shared PROVE ~(Cardinality(Takers) > 1)
  BY DEF OneReader, Typed, CallerTyped
<1>1. parsers.former = "off"
  BY DEF Phases, Running, ParsersUp, Stuck, Modes, Typed, CallerTyped
<1>2. relayRx = "run" => parsers.last = "off"
  <2> SUFFICES ASSUME relayRx = "run" PROVE parsers.last = "off"
    OBVIOUS
  <2>1. conn # "none"
    BY DEF Phases, Connections
  <2>2. ~failed
    BY <2>1 DEF Phases, Stuck
  <2> USE <2>2 DEF Phases, Running
  <2>3. call # "hw_check"
    BY <2>1 DEF Modes
  <2>4. ~rxRunning /\ at # "parser"
    BY <2>1, <2>3 DEF Modes, ParsersUp, Places, Typed, CallerTyped
  <2> QED
    BY <2>4 DEF ParsersUp
<1>3. Takers \subseteq {"last"} \/ Takers \subseteq {"relay"}
  BY <1>1, <1>2 DEF Takers, Typed, ThreadsTyped
<1>4. Cardinality(Takers) \in {0, 1}
  <2>1. Takers = {} \/ Takers = {"last"} \/ Takers = {"relay"}
    BY <1>3
  <2> QED
    BY <2>1, FS_EmptySet, FS_Singleton
<1> QED
  BY <1>4

-----------------------------------------------------------------------------
(* The device takes a command and answers it. *)

LEMMA DeviceMoves ==
  ASSUME Typed, DeviceAnswers
  PROVE  /\ Head(devIn) \in Message /\ Has(devIn, Head(devIn).type)
         /\ Taken(devIn, Tail(devIn), Head(devIn))
         /\ devIn' = Tail(devIn) \/ (devIn' = <<>> /\ Head(devIn).type = "reset")
         /\ readQ' = readQ \/ Sent(readQ, readQ', Answer(Head(devIn)))
         /\ \A t : Has(devIn', t) => Has(devIn, t)
         /\ \A t : Has(readQ', t) => Has(readQ, t) \/ Answer(Head(devIn)).type = t
<1> DEFINE c == Head(devIn)
           m == Answer(c)
<1>1. c \in Message /\ Taken(devIn, Tail(devIn), c)
  BY QueueTaken DEF DeviceAnswers, Device, Typed, LinkTyped
<1>2. devIn' = Tail(devIn) \/ (devIn' = <<>> /\ c.type = "reset")
  BY DEF DeviceAnswers, Device
<1>3. readQ' = readQ \/ readQ' = Append(readQ, m)
  BY DEF DeviceAnswers, Device, Arrives
<1>4. m \in Message
  BY <1>1, Answers
<1> HIDE DEF c, m
<1>5. Sent(readQ, Append(readQ, m), m)
  BY <1>4, QueueSent DEF Typed, LinkTyped
<1>6. readQ' = readQ \/ Sent(readQ, readQ', m)
  BY <1>3, <1>5
<1>7. \A t : ~Has(<<>>, t) /\ (Has(Tail(devIn), t) => Has(devIn, t))
  BY <1>1, QueueEmpty DEF Taken
<1>8. \A t : Has(devIn', t) => Has(devIn, t)
  BY <1>2, <1>7
<1>9. \A t : Has(readQ', t) => Has(readQ, t) \/ m.type = t
  BY <1>6 DEF Sent
<1>10. Has(devIn, c.type)
  BY <1>1 DEF Taken
<1> QED
  BY <1>1, <1>2, <1>6, <1>8, <1>9, <1>10 DEF c, m

LEMMA DeviceLine ==
  ASSUME Typed, DeviceAnswers, NEW T, "rsp" \in T => {"config", "remove"} \subseteq T, Line(T)
  PROVE  Line(T)'
<1> DEFINE c == Head(devIn)
           m == Answer(c)
<1>1. /\ c \in Message /\ Has(devIn, c.type)
      /\ devIn' = Tail(devIn) \/ (devIn' = <<>> /\ c.type = "reset")
      /\ readQ' = readQ \/ Sent(readQ, readQ', m)
      /\ \A t : Has(devIn', t) => Has(devIn, t)
      /\ \A t : Has(readQ', t) => Has(readQ, t) \/ m.type = t
  BY DeviceMoves
<1>2. writeQ' = writeQ /\ events' = events
  BY DEF DeviceAnswers, Device, handling
<1>3. m.type = (IF c.type \in {"config", "remove"} THEN "rsp" ELSE c.type)
  BY <1>1, Answers
<1>4. /\ Behind(Tail(devIn), T)
      /\ c.type = "reset" => \A t \in T : ~Has(Tail(devIn), t)
  BY DeviceMoves DEF Taken, Line
<1> HIDE DEF c, m
<1>5. Behind(devIn', T)
  BY <1>1, <1>4, QueueEmpty
<1>6. c.type = "reset" => \A t \in T : ~Has(devIn', t)
  <2>1. \A t : ~Has(<<>>, t)
    BY QueueEmpty
  <2> QED
    BY <1>1, <1>4, <2>1
<1>7. m.type \in T => c.type \in T
  BY <1>3
<1>8. Has(readQ, "reset") => m.type \notin T
  BY <1>1, <1>7 DEF Line, Across
<1>9. Behind(readQ', T)
  BY <1>1, <1>8 DEF Sent, Line
<1>10. Across(events, readQ, T)'
  BY <1>1, <1>2, <1>7 DEF Line, Across
<1>11. Across(readQ, devIn, T)'
  BY <1>1, <1>3, <1>6 DEF Line, Across
<1>12. Across(readQ, writeQ, T)'
  BY <1>1, <1>2, <1>3 DEF Line, Across
<1>13. Across(events, devIn, T)' /\ Across(events, writeQ, T)' /\ Across(devIn, writeQ, T)'
  BY <1>1, <1>2 DEF Line, Across
<1> QED
  BY <1>2, <1>5, <1>9, <1>10, <1>11, <1>12, <1>13 DEF Line

-----------------------------------------------------------------------------
(* The session.  A step that moves a message says first what it does to its *)
(* queues; the others leave them as they are.                               *)

LEMMA SessionStep ==
  ASSUME Typed, Phases, Session, Next
  PROVE  Session'
<1> USE DEF linkVars, ptVars, gateway, caller, manager, parsing, handling, test,
               history, Typed, LinkTyped, PtTyped, CallerTyped, ThreadsTyped, Phases,
               Places, Connections, Running, Modes, LinkUp, Managing, ConfigAlive,
               LinkStopped, Session, Commands, OneReset, Covered, Applied, Line,
               Across, Nowhere
<1>1. ASSUME HwCheck
      PROVE  Session'
  BY <1>1, QueueEmpty DEF HwCheck, Begin, LinkStart, EventHandlerStart,
    EventParserStart
<1>2. ASSUME StartGateway
      PROVE  Session'
  <2>1. /\ at' = "manager" /\ call' = "start" /\ config' = config /\ remote' = remote
        /\ started' = started /\ devManager' = devManager /\ applied' = applied
        /\ devIn' = devIn /\ events' = events /\ failed' = failed
        /\ shared' = shared /\ stale' = ResetUnderway /\ ~connected
        /\ again' = (again /\ remote) /\ again \in BOOLEAN
        /\ readQ' = readQ \/ readQ' = <<>>
        /\ writeQ' = writeQ \/ writeQ' = <<>>
        /\ remote => readQ' = readQ /\ writeQ' = writeQ
    BY <1>2 DEF StartGateway, CheckStop, Begin, LinkStart
  <2>2. Commands'
    BY <2>1, QueueEmpty DEF Commands
  <2>3. ASSUME remote, ~failed, ~again
        PROVE  OneReset'
    BY <2>1, <2>3 DEF Covered, OneReset, Line, Across, Nowhere, Applied
  <2>4. ASSUME ~remote, ~failed, ~stale'
        PROVE  OneReset'
    <3>1. ~Has(devIn', "reset") /\ ~Has(events', "reset")
      BY <2>1, <2>4, QueueTypes DEF ResetUnderway
    <3>2. readQ' = <<>> /\ writeQ' = <<>>
      <4>1. ~running
        BY <2>1, <2>4 DEF Running, LinkUp
      <4> QED
        BY <1>2, <2>4, <4>1 DEF StartGateway, LinkStart
    <3>3. Nowhere("reset")'
      BY <3>1, <3>2, QueueEmpty DEF Nowhere
    <3>4. Line({"reset", "config", "remove", "rsp"})'
      BY <3>3, QueueClear DEF Nowhere, Line, Across
    <3> QED
      BY <2>1, <2>4, <3>3, <3>4 DEF OneReset
  <2> QED
    BY <2>1, <2>2, <2>3, <2>4 DEF Covered
<1>3. ASSUME StartPassthrough
      PROVE  Session'
  BY <1>3, QueueEmpty DEF StartPassthrough, CheckStop, Begin, LinkStart,
    EventHandlerStart, PtStart
<1>4. ASSUME StopGateway
      PROVE  Session'
  <2>1. /\ started /\ devManager /\ call = "none"
        /\ ~devStarted' /\ call' \in {"none", "stop"} /\ remote' = remote /\ config' = config
        /\ failed' = failed /\ again' = again /\ applied' = applied /\ at' # "manager"
        /\ devIn' = devIn /\ events' = events /\ readQ' = readQ
        /\ writeQ' = IF remote THEN writeQ ELSE writeQ \o <<Msg("remove"), Reset>>
    BY <1>4 DEF StopGateway
  <2>2. Commands'
    <3>1. ~Has(writeQ, "rsp") => ~Has(writeQ \o <<Msg("remove"), Reset>>, "rsp")
      BY QueueStop
    <3> QED
      BY <2>1, <3>1 DEF Commands
  <2>3. ASSUME remote, ~failed, ~again
        PROVE  OneReset'
    BY <2>1, <2>3 DEF Covered, OneReset, Line, Across, Nowhere, Applied
  <2> QED
    BY <2>1, <2>2, <2>3 DEF Covered
<1>5. ASSUME StopPassthrough
      PROVE  Session'
  BY <1>5 DEF StopPassthrough, Begin, PtStop
<1>6. ASSUME RunTest
      PROVE  Session'
  BY <1>6, QueueAppend, Messages DEF RunTest, AddTestHandlers, SendMsg
<1>7. ASSUME TestPasses
      PROVE  Session'
  BY <1>7 DEF TestPasses
<1>8. ASSUME TestTimesOut
      PROVE  Session'
  BY <1>8 DEF TestTimesOut
<1>9. ASSUME CreateDevManager
      PROVE  Session'
  BY <1>9, QueueClear DEF CreateDevManager, NoThread
<1>10. ASSUME StartDevice
      PROVE  Session'
  <2>1. Sent(writeQ, writeQ', Reset) /\ Reset.type = "reset"
    BY <1>10, QueueSent, Messages DEF StartDevice, SendMsg
  <2>2. \A T : Behind(writeQ', T) <=> Behind(writeQ, T) /\ (Has(writeQ, "reset") => "reset" \notin T)
    BY <2>1 DEF Sent
  <2>3. \A t : Has(writeQ', t) <=> Has(writeQ, t) \/ t = "reset"
    BY <2>1 DEF Sent
  <2> QED
    BY <1>10, <2>2, <2>3, QueueClear DEF StartDevice
<1>11. ASSUME StartReturns
      PROVE  Session'
  BY <1>11 DEF StartReturns
<1>12. ASSUME PassthroughStarted
      PROVE  Session'
  BY <1>12 DEF PassthroughStarted
<1>13. ASSUME RelaysEnded
      PROVE  Session'
  BY <1>13 DEF RelaysEnded, RelaysJoined
<1>14. ASSUME PassthroughEnded
      PROVE  Session'
  BY <1>14 DEF PassthroughEnded, LinkStop
<1>15. ASSUME PortClosed
      PROVE  Session'
  BY <1>15 DEF PortClosed, LinkStopped
<1>16. ASSUME ParserEnded
      PROVE  Session'
  BY <1>16 DEF ParserEnded, ParserJoined
<1>17. ASSUME EventsEnded
      PROVE  Session'
  BY <1>17 DEF EventsEnded, LinkStop
<1>18. ASSUME OperationEnds
      PROVE  Session'
  BY <1>18 DEF OperationEnds, LinkStopped
<1>19. ASSUME NEW p \in {"last", "former"}, ParserEnds(p)
      PROVE  Session'
  BY <1>19 DEF ParserEnds
<1>20. ASSUME NEW p \in {"last", "former"}, ParserTakes(p)
      PROVE  Session'
  <2> DEFINE m == Head(readQ)
  <2>1. m \in Message /\ Taken(readQ, readQ', m)
    BY <1>20, QueueTaken DEF ParserTakes
  <2>2. events' = events \/ Sent(events, events', m)
    <3>1. events' = events \/ events' = Append(events, m)
      BY <1>20 DEF ParserTakes
    <3> HIDE DEF m
    <3>2. Sent(events, Append(events, m), m)
      BY <2>1, QueueSent
    <3> QED
      BY <3>1, <3>2
  <2> HIDE DEF m
  <2> QED
    BY <1>20, <2>1, <2>2, QueueClear DEF ParserTakes, Taken, Sent
<1>21. ASSUME NEW p \in {"last", "former"}, ParserSeesLoss(p)
      PROVE  Session'
  <2>1. Sent(events, events', Msg("disconnected")) /\ Msg("disconnected").type = "disconnected"
    BY <1>21, QueueSent, Messages DEF ParserSeesLoss
  <2> QED
    BY <1>21, <2>1 DEF ParserSeesLoss, Sent
<1>22. ASSUME Dispatch
      PROVE  Session'
  <2> DEFINE m == Head(events)
  <2>1. m \in Message /\ Taken(events, events', m)
    BY <1>22, QueueTaken DEF Dispatch
  <2>2. \/ config' = config
        \/ config' = [config EXCEPT !.at = "send"] /\ config.at = "none" /\ m.type = "reset"
        \/ /\ config' = [config EXCEPT !.complete = TRUE]
           /\ config.at = "wait" /\ m.type = "rsp" /\ m.n = config.step
    BY <1>22 DEF Dispatch, Managed
  <2>3. /\ readQ' = readQ /\ devIn' = devIn /\ writeQ' = writeQ /\ applied' = applied
        /\ at' = at /\ remote' = remote /\ Covered' = Covered
    BY <1>22 DEF Dispatch, Covered
  <2> HIDE DEF m
  <2>4. CASE config' = config
    BY <2>1, <2>3, <2>4 DEF Taken
  <2>5. CASE config' = [config EXCEPT !.at = "send"] /\ config.at = "none" /\ m.type = "reset"
    <3>1. config'.at = "send" /\ config'.step = 1
      BY <2>5
    <3>2. ASSUME OneReset, ~(~remote /\ at = "reset")
          PROVE  OneReset'
      <4>1. \A t \in {"reset", "config", "remove", "rsp"} : ~Has(events', t) /\ ~Has(readQ, t)
        BY <2>1, <2>5, <3>2 DEF Taken
      <4>2. Nowhere("reset")'
        BY <2>1, <2>3, <2>5, <3>2, <4>1 DEF Taken
      <4>3. Applied'
        BY <2>3, <3>1, <4>1 DEF Has, Within
      <4> QED
        BY <2>3, <3>1, <3>2, <4>2, <4>3
    <3>3. ASSUME Covered, ~remote, at = "reset"
          PROVE  FALSE
      BY <2>1, <2>5, <3>3 DEF Taken
    <3> QED
      BY <2>3, <3>2, <3>3
  <2>6. CASE /\ config' = [config EXCEPT !.complete = TRUE]
             /\ config.at = "wait" /\ m.type = "rsp" /\ m.n = config.step
    BY <2>1, <2>3, <2>6 DEF Taken
  <2> QED
    BY <2>2, <2>4, <2>5, <2>6
<1>23. ASSUME SendEcho
      PROVE  Session'
  <2>1. Sent(writeQ, writeQ', Echo) /\ Echo.type = "echo"
    BY <1>23, QueueSent, Messages DEF SendEcho, SendMsg
  <2> QED
    BY <1>23, <2>1 DEF SendEcho, Sent
<1>24. ASSUME EventsEnd
      PROVE  Session'
  BY <1>24 DEF EventsEnd
<1>25. ASSUME ConfigSend
      PROVE  Session'
  <2> DEFINE m == ConfigCommand(config.step)
  <2>1. Sent(writeQ, writeQ', m) /\ m.type = "config"
    BY <1>25, QueueSent, Messages DEF ConfigSend, SendMsg
  <2> HIDE DEF m
  <2> QED
    BY <1>25, <2>1 DEF ConfigSend, Sent
<1>26. ASSUME ConfigNext
      PROVE  Session'
  <2>0. config.at = "wait" /\ config.complete
    BY <1>26 DEF ConfigNext, Answered
  <2>3. /\ readQ' = readQ /\ devIn' = devIn /\ writeQ' = writeQ /\ events' = events
        /\ applied' = applied /\ at' = at /\ remote' = remote
    BY <1>26 DEF ConfigNext
  <2>4. Covered' => Covered
    BY <1>26, <2>0 DEF ConfigNext
  <2>1. CASE config.step < Steps
    <3>1. config' = [config EXCEPT !.at = "send", !.step = config.step + 1]
      BY <1>26, <2>1 DEF ConfigNext
    <3>2. \A k \in 1..Steps : k < config.step + 1 => k < config.step \/ k = config.step
      OBVIOUS
    <3>3. config'.at = "send" /\ config'.step = config.step + 1
      BY <3>1
    <3>4. Applied => Applied'
      BY <2>0, <2>3, <3>2, <3>3
    <3> QED
      BY <2>0, <2>3, <2>4, <3>3, <3>4
  <2>2. CASE ~(config.step < Steps)
    <3>1. config' = [config EXCEPT !.at = "end"]
      BY <1>26, <2>2 DEF ConfigNext
    <3>2. config.step = Steps
      BY <2>2, LifecycleAssumption
    <3>3. config'.at = "end" /\ config'.step = config.step
      BY <3>1
    <3>4. Applied => Applied'
      BY <2>0, <2>3, <3>2, <3>3
    <3> QED
      BY <2>0, <2>3, <2>4, <3>3, <3>4
  <2> QED
    BY <2>1, <2>2
<1>27. ASSUME ConfigEnds
      PROVE  Session'
  BY <1>27 DEF ConfigEnds
<1>28. ASSUME ReaderEnds, UNCHANGED <<ptVars, gateway>>
      PROVE  Session'
  BY <1>28 DEF ReaderEnds
<1>29. ASSUME Write, UNCHANGED <<ptVars, gateway>>
      PROVE  Session'
  BY <1>29, QueueTail, QueueAppend DEF Write
<1>30. ASSUME WriterEnds, UNCHANGED <<ptVars, gateway>>
      PROVE  Session'
  BY <1>30 DEF WriterEnds, Drained
<1>31. ASSUME DeviceAnswers
      PROVE  Session'
  <2> DEFINE c == Head(devIn)
  <2>1. /\ c \in Message /\ writeQ' = writeQ /\ events' = events /\ config' = config
        /\ at' = at /\ remote' = remote /\ Covered' = Covered
        /\ applied' = CASE c.type = "reset" -> {}
                        [] c.type = "config" -> applied \union {c.n}
                        [] OTHER -> applied
    BY <1>31, DeviceMoves DEF DeviceAnswers, Device
  <2>2. /\ \A t : Has(devIn', t) => Has(devIn, t)
        /\ \A t : Has(readQ', t) => Has(readQ, t) \/ Answer(c).type = t
        /\ Has(devIn, c.type)
    BY <1>31, DeviceMoves
  <2>3. Commands'
    BY <2>1, <2>2 DEF Commands
  <2>4. ASSUME Line({"reset", "config", "remove", "rsp"})
        PROVE  Line({"reset", "config", "remove", "rsp"})'
    BY <1>31, <2>4, DeviceLine
  <2> HIDE DEF c
  <2>5. ASSUME Nowhere("reset")
        PROVE  Nowhere("reset")' /\ c.type # "reset"
    BY <2>1, <2>2, <2>5, Answers
  <2>6. ASSUME Nowhere("reset"), Applied
        PROVE  Applied'
    <3>1. applied \subseteq applied' /\ (c.type = "config" => c.n \in applied')
      BY <2>1, <2>5, <2>6
    <3>2. Within(events, applied' \union {0}) /\ Within(readQ, applied' \union {0})
      BY <2>6, <3>1 DEF Within
    <3>3. Answer(c).type = "rsp" => Answer(c).n \in applied' \union {0}
      BY <2>1, <2>2, <3>1, Answers, MessageTypes DEF Commands
    <3>4. Within(readQ', applied' \union {0})
      BY <1>31, <3>2, <3>3, DeviceMoves DEF c, Sent
    <3> QED
      BY <2>1, <2>6, <3>1, <3>2, <3>4
  <2> HIDE DEF Line, Nowhere, Applied, Covered
  <2> QED
    BY <2>1, <2>3, <2>4, <2>5, <2>6
<1>32. ASSUME ConnTop, UNCHANGED gateway
      PROVE  Session'
  BY <1>32 DEF ConnTop
<1>33. ASSUME DialFails, UNCHANGED gateway
      PROVE  Session'
  BY <1>33 DEF DialFails
<1>34. ASSUME DialSucceeds, UNCHANGED gateway
      PROVE  Session'
  BY <1>34 DEF DialSucceeds
<1>35. ASSUME Clean, UNCHANGED gateway
      PROVE  Session'
  BY <1>35, QueueEmpty DEF Clean
<1>36. ASSUME StartRelays, UNCHANGED gateway
      PROVE  Session'
  BY <1>36 DEF StartRelays
<1>37. ASSUME HardReset, ResetFrame
      PROVE  Session'
  BY <1>37, QueueReset DEF HardReset, ResetFrame
<1>38. ASSUME ConnectionEnds, UNCHANGED gateway
      PROVE  Session'
  BY <1>38 DEF ConnectionEnds, RelaysJoined, Relaying
<1>39. ASSUME RelayRx, UNCHANGED gateway
      PROVE  Session'
  BY <1>39, QueueTail DEF RelayRx, Relaying
<1>40. ASSUME RelayTxEnds, UNCHANGED gateway
      PROVE  Session'
  BY <1>40 DEF RelayTxEnds, Relaying
<1>41. ASSUME NEW c \in RemoteCommands, RelayTx(c), RelayFrame(c)
      PROVE  Session'
  BY <1>41, QueueAppend, RemoteTypes DEF RelayTx, RelayFrame, SendMsg
<1>42. ASSUME ServerDrops, UNCHANGED gateway
      PROVE  Session'
  BY <1>42 DEF ServerDrops
<1>43. ASSUME LinkBreaks
      PROVE  Session'
  <2>1. readQ' = readQ \/ (Sent(readQ, readQ', Msg("part")) /\ Msg("part").type = "part")
    <3>1. readQ' = readQ \/ readQ' = Append(readQ, Msg("part"))
      BY <1>43 DEF LinkBreaks, Break
    <3>2. Sent(readQ, Append(readQ, Msg("part")), Msg("part")) /\ Msg("part").type = "part"
      BY QueueSent, Messages
    <3> QED
      BY <3>1, <3>2
  <2> QED
    BY <1>43, <2>1 DEF LinkBreaks, Break, Sent
<1>44. ASSUME StartPassthroughFails
      PROVE  Session'
  BY <1>44, QueueEmpty DEF StartPassthroughFails, CheckStop, LinkStart,
    EventHandlerStart, PtUnstarted
<1>45. ASSUME ResetGateway
      PROVE  Session'
  <2>1. Sent(writeQ, writeQ', Reset) /\ Reset.type = "reset"
    BY <1>45, QueueSent, Messages DEF ResetGateway, SendMsg
  <2> QED
    BY <1>45, <2>1 DEF ResetGateway, Sent
<1>46. ASSUME StopEnds
      PROVE  Session'
  BY <1>46 DEF StopEnds
<1>47. ASSUME ConfigFails
      PROVE  Session'
  BY <1>47 DEF ConfigFails, Answered
<1>48. ASSUME TxSend
      PROVE  Session'
  <2>1. Sent(writeQ, writeQ', Msg("send")) /\ Msg("send").type = "send"
    BY <1>48, QueueSent, Messages DEF TxSend, SendMsg
  <2> QED
    BY <1>48, <2>1 DEF TxSend, Sent
<1>49. ASSUME TxEnds
      PROVE  Session'
  BY <1>49 DEF TxEnds
<1> HIDE DEF linkVars, ptVars, gateway, caller, manager, parsing, handling, test,
               history, Typed, LinkTyped, PtTyped, CallerTyped, ThreadsTyped, Phases,
               Places, Connections, Running, Modes, LinkUp, Managing, ConfigAlive,
               LinkStopped, Session, Commands, OneReset, Covered, Applied, Line,
               Across, Nowhere
<1> QED
  BY <1>1, <1>2, <1>3, <1>4, <1>5, <1>6, <1>7, <1>8, <1>9, <1>10, <1>11, <1>12, <1>13,
    <1>14, <1>15, <1>16, <1>17, <1>18, <1>19, <1>20, <1>21, <1>22, <1>23, <1>24, <1>25,
    <1>26, <1>27, <1>28, <1>29, <1>30, <1>31, <1>32, <1>33, <1>34, <1>35, <1>36, <1>37,
    <1>38, <1>39, <1>40, <1>41, <1>42, <1>43, <1>44, <1>45, <1>46, <1>47, <1>48, <1>49,
    StepCases

-----------------------------------------------------------------------------
(* The reset of a stop. *)

LEMMA LeftStep ==
  ASSUME Typed, Phases, Left, Next
  PROVE  Left'
<1> USE DEF linkVars, ptVars, gateway, caller, manager, parsing, handling, test,
               history, Typed, LinkTyped, PtTyped, CallerTyped, ThreadsTyped, Phases,
               Places, Connections, Running, Modes, LinkUp, Managing, ConfigAlive,
               LinkStopped, Left
<1>1. ASSUME HwCheck
      PROVE  Left'
  BY <1>1, QueueEmpty DEF HwCheck, Begin, LinkStart, EventHandlerStart,
    EventParserStart
<1>2. ASSUME StartGateway
      PROVE  Left'
  BY <1>2, QueueEmpty, QueueTypes DEF StartGateway, CheckStop, Begin, LinkStart,
    EventHandlerStart, EventParserStart, ResetUnderway
<1>3. ASSUME StartPassthrough
      PROVE  Left'
  BY <1>3, QueueEmpty DEF StartPassthrough, CheckStop, Begin, LinkStart,
    EventHandlerStart, PtStart
<1>4. ASSUME StopGateway
      PROVE  Left'
  <2>1. LET a == writeQ \o <<Msg("remove"), Reset>> IN Has(a, "reset") /\ Resetting(a)
    BY QueueStop
  <2> QED
    BY <1>4, <2>1 DEF StopGateway
<1>5. ASSUME StopPassthrough
      PROVE  Left'
  BY <1>5 DEF StopPassthrough, Begin, PtStop
<1>6. ASSUME RunTest
      PROVE  Left'
  <2>1. Sent(writeQ, writeQ', Reset) /\ Reset.type = "reset"
    BY <1>6, QueueSent, Messages DEF RunTest, SendMsg
  <2> QED
    BY <1>6, <2>1 DEF RunTest, Sent
<1>7. ASSUME TestPasses
      PROVE  Left'
  BY <1>7 DEF TestPasses
<1>8. ASSUME TestTimesOut
      PROVE  Left'
  BY <1>8 DEF TestTimesOut
<1>9. ASSUME CreateDevManager
      PROVE  Left'
  BY <1>9 DEF CreateDevManager, NoThread
<1>10. ASSUME StartDevice
      PROVE  Left'
  <2>1. Sent(writeQ, writeQ', Reset) /\ Reset.type = "reset"
    BY <1>10, QueueSent, Messages DEF StartDevice, SendMsg
  <2> QED
    BY <1>10, <2>1 DEF StartDevice, Sent
<1>11. ASSUME StartReturns
      PROVE  Left'
  BY <1>11 DEF StartReturns
<1>12. ASSUME PassthroughStarted
      PROVE  Left'
  BY <1>12 DEF PassthroughStarted
<1>13. ASSUME RelaysEnded
      PROVE  Left'
  BY <1>13 DEF RelaysEnded, RelaysJoined
<1>14. ASSUME PassthroughEnded
      PROVE  Left'
  BY <1>14 DEF PassthroughEnded, LinkStop
<1>15. ASSUME PortClosed
      PROVE  Left'
  BY <1>15 DEF PortClosed, LinkStopped
<1>16. ASSUME ParserEnded
      PROVE  Left'
  BY <1>16 DEF ParserEnded, ParserJoined
<1>17. ASSUME EventsEnded
      PROVE  Left'
  BY <1>17 DEF EventsEnded, LinkStop
<1>18. ASSUME OperationEnds
      PROVE  Left'
  BY <1>18 DEF OperationEnds, LinkStopped
<1>19. ASSUME NEW p \in {"last", "former"}, ParserEnds(p)
      PROVE  Left'
  BY <1>19 DEF ParserEnds
<1>20. ASSUME NEW p \in {"last", "former"}, ParserTakes(p)
      PROVE  Left'
  <2>1. UNCHANGED <<remote, running, writer, writeQ, devIn, applied, broken, caller, failed,
                    relayed>>
    BY <1>20 DEF ParserTakes
  <2> QED
    BY <2>1
<1>21. ASSUME NEW p \in {"last", "former"}, ParserSeesLoss(p)
      PROVE  Left'
  BY <1>21, QueueAppend, Messages DEF ParserSeesLoss
<1>22. ASSUME Dispatch
      PROVE  Left'
  <2>1. UNCHANGED <<linkVars, caller, failed, relayed>>
    BY <1>22 DEF Dispatch
  <2> QED
    BY <2>1
<1>23. ASSUME SendEcho
      PROVE  Left'
  <2>1. Sent(writeQ, writeQ', Echo) /\ Echo.type = "echo"
    BY <1>23, QueueSent, Messages DEF SendEcho, SendMsg
  <2> QED
    BY <1>23, <2>1 DEF SendEcho, Sent
<1>24. ASSUME EventsEnd
      PROVE  Left'
  BY <1>24 DEF EventsEnd
<1>25. ASSUME ConfigSend
      PROVE  Left'
  <2>1. ConfigAlive
    BY <1>25 DEF ConfigSend
  <2> QED
    BY <1>25, <2>1 DEF ConfigSend
<1>26. ASSUME ConfigNext
      PROVE  Left'
  BY <1>26 DEF ConfigNext, Answered
<1>27. ASSUME ConfigEnds
      PROVE  Left'
  BY <1>27 DEF ConfigEnds
<1>28. ASSUME ReaderEnds, UNCHANGED <<ptVars, gateway>>
      PROVE  Left'
  BY <1>28 DEF ReaderEnds
<1>29. ASSUME Write, UNCHANGED <<ptVars, gateway>>
      PROVE  Left'
  <2> DEFINE m == Head(writeQ)
  <2>1. Taken(writeQ, writeQ', m)
    BY <1>29, QueueTaken DEF Write
  <2>2. broken \/ (Sent(devIn, devIn', m) /\ writer')
    <3>1. m \in Message
      BY <1>29, QueueTaken DEF Write
    <3>2. Sent(devIn, Append(devIn, m), m)
      BY <3>1, QueueSent
    <3> QED
      BY <1>29, <3>2 DEF Write
  <2>3. UNCHANGED <<remote, running, applied, broken, caller, failed, relayed>>
    BY <1>29 DEF Write
  <2> HIDE DEF m
  <2> QED
    BY <2>1, <2>2, <2>3 DEF Taken, Sent
<1>30. ASSUME WriterEnds, UNCHANGED <<ptVars, gateway>>
      PROVE  Left'
  BY <1>30, QueueEmpty DEF WriterEnds, Drained
<1>31. ASSUME DeviceAnswers
      PROVE  Left'
  <2> DEFINE c == Head(devIn)
  <2>1. Taken(devIn, Tail(devIn), c)
    BY <1>31, QueueTaken DEF DeviceAnswers, Device
  <2>2. /\ c.type = "reset" => applied' = {}
        /\ c.type \notin {"reset", "config"} => applied' = applied
        /\ devIn' = Tail(devIn) \/ (devIn' = <<>> /\ c.type = "reset")
    BY <1>31 DEF DeviceAnswers, Device
  <2>3. UNCHANGED <<remote, running, writer, writeQ, broken, caller, failed, relayed>>
    BY <1>31 DEF DeviceAnswers, Device
  <2>4. Resetting(devIn) => Resetting(devIn') /\ (c.type = "config" => Has(devIn', "reset"))
    BY <2>1, <2>2, QueueEmpty DEF Taken
  <2>5. Has(devIn, "reset") => Has(devIn', "reset") \/ c.type = "reset"
    BY <2>1, <2>2 DEF Taken
  <2> HIDE DEF c
  <2> QED
    BY <2>2, <2>3, <2>4, <2>5
<1>32. ASSUME ConnTop, UNCHANGED gateway
      PROVE  Left'
  BY <1>32 DEF ConnTop
<1>33. ASSUME DialFails, UNCHANGED gateway
      PROVE  Left'
  BY <1>33 DEF DialFails
<1>34. ASSUME DialSucceeds, UNCHANGED gateway
      PROVE  Left'
  BY <1>34 DEF DialSucceeds
<1>35. ASSUME Clean, UNCHANGED gateway
      PROVE  Left'
  BY <1>35, QueueEmpty DEF Clean
<1>36. ASSUME StartRelays, UNCHANGED gateway
      PROVE  Left'
  BY <1>36 DEF StartRelays
<1>37. ASSUME HardReset, ResetFrame
      PROVE  Left'
  BY <1>37, QueueReset DEF HardReset, ResetFrame
<1>38. ASSUME ConnectionEnds, UNCHANGED gateway
      PROVE  Left'
  BY <1>38 DEF ConnectionEnds, RelaysJoined, Relaying
<1>39. ASSUME RelayRx, UNCHANGED gateway
      PROVE  Left'
  BY <1>39, QueueTail DEF RelayRx, Relaying
<1>40. ASSUME RelayTxEnds, UNCHANGED gateway
      PROVE  Left'
  BY <1>40 DEF RelayTxEnds, Relaying
<1>41. ASSUME NEW c \in RemoteCommands, RelayTx(c), RelayFrame(c)
      PROVE  Left'
  <2>1. Sent(writeQ, writeQ', c) /\ c.type # "rsp"
    BY <1>41, QueueSent, RemoteTypes DEF RelayTx, SendMsg
  <2> QED
    BY <1>41, <2>1 DEF RelayTx, RelayFrame, Sent
<1>42. ASSUME ServerDrops, UNCHANGED gateway
      PROVE  Left'
  BY <1>42 DEF ServerDrops
<1>43. ASSUME LinkBreaks
      PROVE  Left'
  BY <1>43, QueueAppend, Messages DEF LinkBreaks, Break
<1>44. ASSUME StartPassthroughFails
      PROVE  Left'
  BY <1>44, QueueEmpty DEF StartPassthroughFails, CheckStop, LinkStart,
    EventHandlerStart, PtUnstarted
<1>45. ASSUME ResetGateway
      PROVE  Left'
  <2>1. Sent(writeQ, writeQ', Reset) /\ Reset.type = "reset"
    BY <1>45, QueueSent, Messages DEF ResetGateway, SendMsg
  <2> QED
    BY <1>45, <2>1 DEF ResetGateway, Sent
<1>46. ASSUME StopEnds
      PROVE  Left'
  BY <1>46 DEF StopEnds
<1>47. ASSUME ConfigFails
      PROVE  Left'
  BY <1>47 DEF ConfigFails, Answered
<1>48. ASSUME TxSend
      PROVE  Left'
  <2>1. Sent(writeQ, writeQ', Msg("send")) /\ Msg("send").type = "send"
    BY <1>48, QueueSent, Messages DEF TxSend, SendMsg
  <2> QED
    BY <1>48, <2>1 DEF TxSend, Sent
<1>49. ASSUME TxEnds
      PROVE  Left'
  BY <1>49 DEF TxEnds
<1> HIDE DEF linkVars, ptVars, gateway, caller, manager, parsing, handling, test,
               history, Typed, LinkTyped, PtTyped, CallerTyped, ThreadsTyped, Phases,
               Places, Connections, Running, Modes, LinkUp, Managing, ConfigAlive,
               LinkStopped, Left
<1> QED
  BY <1>1, <1>2, <1>3, <1>4, <1>5, <1>6, <1>7, <1>8, <1>9, <1>10, <1>11, <1>12, <1>13,
    <1>14, <1>15, <1>16, <1>17, <1>18, <1>19, <1>20, <1>21, <1>22, <1>23, <1>24, <1>25,
    <1>26, <1>27, <1>28, <1>29, <1>30, <1>31, <1>32, <1>33, <1>34, <1>35, <1>36, <1>37,
    <1>38, <1>39, <1>40, <1>41, <1>42, <1>43, <1>44, <1>45, <1>46, <1>47, <1>48, <1>49,
    StepCases

-----------------------------------------------------------------------------
(* The self test. *)

LEMMA TestedStep ==
  ASSUME Typed, Phases, Tested, Next
  PROVE  Tested'
<1> USE DEF linkVars, ptVars, gateway, caller, manager, parsing, handling, test,
               history, Typed, LinkTyped, PtTyped, CallerTyped, ThreadsTyped, Phases,
               Places, Connections, Running, Modes, LinkUp, EventsUp, ParsersUp,
               Listed, Managing, Stuck, ConfigAlive, LinkStopped, Tested, TestBegins,
               TestResets, TestEchoes, Line, Across, Nowhere
<1>1. ASSUME HwCheck
      PROVE  Tested'
  <2>1. /\ at' = "run" /\ call' = "hw_check" /\ call = "none" /\ ~remote
        /\ shared' = (shared \/ running) /\ failed' = failed
        /\ stale' = (ResetUnderway \/ Echo \in ToSet(events))
        /\ devIn' = devIn /\ events' = events
    BY <1>1 DEF HwCheck, Begin
  <2> SUFFICES ASSUME ~failed, ~running, ~stale' PROVE TestBegins'
    BY <2>1 DEF Tested
  <2>2. ~Has(devIn', "reset") /\ ~Has(events', "reset") /\ ~Has(events', "echo")
    BY <2>1, QueueTypes DEF ResetUnderway
  <2>3. readQ' = <<>> /\ writeQ' = <<>>
    BY <1>1 DEF HwCheck, LinkStart
  <2>4. ev' = "run"
    <3>1. ~evRunning
      BY <2>1 DEF EventsUp
    <3> QED
      BY <1>1, <3>1 DEF HwCheck, EventHandlerStart
  <2>5. parsers'.last = "sync"
    BY <1>1 DEF HwCheck, EventParserStart
  <2> QED
    BY <2>2, <2>3, <2>4, <2>5, QueueEmpty DEF TestBegins, Nowhere
<1>2. ASSUME StartGateway
      PROVE  Tested'
  BY <1>2, QueueEmpty, QueueTypes DEF StartGateway, CheckStop, Begin, LinkStart,
    EventHandlerStart, EventParserStart, ResetUnderway
<1>3. ASSUME StartPassthrough
      PROVE  Tested'
  BY <1>3, QueueEmpty DEF StartPassthrough, CheckStop, Begin, LinkStart,
    EventHandlerStart, PtStart
<1>4. ASSUME StopGateway
      PROVE  Tested'
  BY <1>4, QueueStop DEF StopGateway, Begin
<1>5. ASSUME StopPassthrough
      PROVE  Tested'
  BY <1>5 DEF StopPassthrough, Begin, PtStop
<1>6. ASSUME RunTest
      PROVE  Tested'
  <2>1. Sent(writeQ, writeQ', Reset) /\ Reset.type = "reset"
    BY <1>6, QueueSent, Messages DEF RunTest, SendMsg
  <2>2. \A T : Behind(writeQ', T) <=> Behind(writeQ, T) /\ (Has(writeQ, "reset") => "reset" \notin T)
    BY <2>1 DEF Sent
  <2>3. \A t : Has(writeQ', t) <=> Has(writeQ, t) \/ t = "reset"
    BY <2>1 DEF Sent
  <2> QED
    BY <1>6, <2>2, <2>3, QueueClear DEF RunTest
<1>7. ASSUME TestPasses
      PROVE  Tested'
  BY <1>7 DEF TestPasses
<1>8. ASSUME TestTimesOut
      PROVE  Tested'
  BY <1>8 DEF TestTimesOut
<1>9. ASSUME CreateDevManager
      PROVE  Tested'
  BY <1>9 DEF CreateDevManager, NoThread
<1>10. ASSUME StartDevice
      PROVE  Tested'
  BY <1>10, QueueAppend, Messages DEF StartDevice, SendMsg
<1>11. ASSUME StartReturns
      PROVE  Tested'
  BY <1>11 DEF StartReturns
<1>12. ASSUME PassthroughStarted
      PROVE  Tested'
  BY <1>12 DEF PassthroughStarted
<1>13. ASSUME RelaysEnded
      PROVE  Tested'
  BY <1>13 DEF RelaysEnded, RelaysJoined
<1>14. ASSUME PassthroughEnded
      PROVE  Tested'
  BY <1>14 DEF PassthroughEnded, LinkStop
<1>15. ASSUME PortClosed
      PROVE  Tested'
  BY <1>15 DEF PortClosed, LinkStopped
<1>16. ASSUME ParserEnded
      PROVE  Tested'
  BY <1>16 DEF ParserEnded, ParserJoined
<1>17. ASSUME EventsEnded
      PROVE  Tested'
  BY <1>17 DEF EventsEnded, LinkStop
<1>18. ASSUME OperationEnds
      PROVE  Tested'
  BY <1>18 DEF OperationEnds, LinkStopped
<1>19. ASSUME NEW p \in {"last", "former"}, ParserEnds(p)
      PROVE  Tested'
  BY <1>19 DEF ParserEnds
<1>20. ASSUME NEW p \in {"last", "former"}, ParserTakes(p)
      PROVE  Tested'
  <2> DEFINE m == Head(readQ)
  <2>1. m \in Message /\ Taken(readQ, readQ', m)
    BY <1>20, QueueTaken DEF ParserTakes
  <2>2. events' = events \/ Sent(events, events', m)
    <3>1. events' = events \/ events' = Append(events, m)
      BY <1>20 DEF ParserTakes
    <3> HIDE DEF m
    <3>2. Sent(events, Append(events, m), m)
      BY <2>1, QueueSent
    <3> QED
      BY <3>1, <3>2
  <2>3. /\ parsers'[p] = "sync" => events' = events
        /\ parsers[p] = "sync" => parsers'[p] = "sync" \/ m.type = "reset"
        /\ \A r \in {"last", "former"} : r # p => parsers'[r] = parsers[r]
        /\ parsers[p] # "off"
    BY <1>20, Messages DEF ParserTakes
  <2>4. UNCHANGED <<devIn, writeQ, caller, handlers, ev, test, history>>
    BY <1>20 DEF ParserTakes
  <2> HIDE DEF m
  <2> SUFFICES ASSUME ~failed, ~shared, ~stale, call = "hw_check", at \in {"run", "testing"}
               PROVE  Tested'
    BY <2>4
  <2>5. p = "last"
    BY <2>3
  <2>6. CASE at = "run"
    BY <2>1, <2>2, <2>3, <2>4, <2>5, <2>6 DEF Taken
  <2>7. CASE at = "testing" /\ resetFlag
    BY <2>1, <2>2, <2>3, <2>4, <2>5, <2>7 DEF Taken, Sent
  <2>8. CASE at = "testing" /\ ~resetFlag
    BY <2>1, <2>2, <2>3, <2>4, <2>5, <2>8 DEF Taken, Sent
  <2> QED
    BY <2>6, <2>7, <2>8
<1>21. ASSUME NEW p \in {"last", "former"}, ParserSeesLoss(p)
      PROVE  Tested'
  <2>1. Sent(events, events', Msg("disconnected")) /\ Msg("disconnected").type = "disconnected"
    BY <1>21, QueueSent, Messages DEF ParserSeesLoss
  <2> QED
    BY <1>21, <2>1 DEF ParserSeesLoss, Sent
<1>22. ASSUME Dispatch
      PROVE  Tested'
  <2> DEFINE m == Head(events)
             left == {h \in Handlers : Leaves(h, m) /\ Reached(h, m)}
  <2>1. m \in Message /\ Taken(events, events', m)
    BY <1>22, QueueTaken DEF Dispatch
  <2>2. /\ resetFlag' = (resetFlag \/ "reset_handler" \in left)
        /\ echoFlag' = (echoFlag \/ "echo_handler" \in left)
        /\ ev' = IF "reset_handler" \in left THEN "echo" ELSE "run"
        /\ ev = "run"
        /\ UNCHANGED <<readQ, devIn, writeQ, caller, parsers, failed, shared, stale, echoed>>
    BY <1>22 DEF Dispatch
  <2>3. /\ "reset_handler" \in left => m.type = "reset" /\ Contains(handlers, "reset_handler")
        /\ "echo_handler" \in left => m.type = "echo"
    BY ListElements DEF Leaves, Reached
  <2> HIDE DEF m, left
  <2>4. CASE at = "run"
    BY <2>1, <2>2, <2>3, <2>4 DEF Taken
  <2>5. CASE at = "testing" /\ resetFlag
    BY <2>1, <2>2, <2>3, <2>5 DEF Taken
  <2>6. CASE at = "testing" /\ ~resetFlag
    BY <2>1, <2>2, <2>3, <2>6 DEF Taken
  <2> QED
    BY <2>2, <2>4, <2>5, <2>6
<1>23. ASSUME SendEcho
      PROVE  Tested'
  <2>1. Sent(writeQ, writeQ', Echo) /\ Echo.type = "echo"
    BY <1>23, QueueSent, Messages DEF SendEcho, SendMsg
  <2> QED
    BY <1>23, <2>1 DEF SendEcho, Sent
<1>24. ASSUME EventsEnd
      PROVE  Tested'
  BY <1>24 DEF EventsEnd
<1>25. ASSUME ConfigSend
      PROVE  Tested'
  <2>1. ConfigAlive
    BY <1>25 DEF ConfigSend
  <2> QED
    BY <1>25, <2>1 DEF ConfigSend
<1>26. ASSUME ConfigNext
      PROVE  Tested'
  BY <1>26 DEF ConfigNext, Answered
<1>27. ASSUME ConfigEnds
      PROVE  Tested'
  BY <1>27 DEF ConfigEnds
<1>28. ASSUME ReaderEnds, UNCHANGED <<ptVars, gateway>>
      PROVE  Tested'
  BY <1>28 DEF ReaderEnds
<1>29. ASSUME Write, UNCHANGED <<ptVars, gateway>>
      PROVE  Tested'
  BY <1>29, QueueTail, QueueAppend DEF Write
<1>30. ASSUME WriterEnds, UNCHANGED <<ptVars, gateway>>
      PROVE  Tested'
  BY <1>30 DEF WriterEnds, Drained
<1>31. ASSUME DeviceAnswers
      PROVE  Tested'
  <2> DEFINE c == Head(devIn)
  <2>1. /\ c \in Message /\ Has(devIn, c.type)
        /\ \A t : Has(devIn', t) => Has(devIn, t)
        /\ \A t : Has(readQ', t) => Has(readQ, t) \/ Answer(c).type = t
    BY <1>31, DeviceMoves
  <2>2. /\ writeQ' = writeQ /\ echoed' = (echoed \/ c = Echo)
        /\ UNCHANGED <<caller, parsing, handling, test, failed, shared, stale>>
    BY <1>31 DEF DeviceAnswers, Device
  <2>3. Answer(c).type = (IF c.type \in {"config", "remove"} THEN "rsp" ELSE c.type)
    BY <2>1, Answers
  <2>4. c.type = "echo" => c = Echo
    BY <2>1, MessageTypes
  <2>5. ASSUME Line({"echo"})
        PROVE  Line({"echo"})'
    BY <1>31, <2>5, DeviceLine
  <2> HIDE DEF c
  <2>6. CASE at = "run"
    BY <2>1, <2>2, <2>3, <2>6
  <2>7. CASE at = "testing" /\ resetFlag
    BY <2>1, <2>2, <2>3, <2>4, <2>7
  <2>8. CASE at = "testing" /\ ~resetFlag
    <3> HIDE DEF Line
    <3> QED
      BY <2>1, <2>2, <2>3, <2>5, <2>8
  <2> QED
    BY <2>2, <2>6, <2>7, <2>8
<1>32. ASSUME ConnTop, UNCHANGED gateway
      PROVE  Tested'
  BY <1>32 DEF ConnTop
<1>33. ASSUME DialFails, UNCHANGED gateway
      PROVE  Tested'
  BY <1>33 DEF DialFails
<1>34. ASSUME DialSucceeds, UNCHANGED gateway
      PROVE  Tested'
  BY <1>34 DEF DialSucceeds
<1>35. ASSUME Clean, UNCHANGED gateway
      PROVE  Tested'
  BY <1>35, QueueEmpty DEF Clean
<1>36. ASSUME StartRelays, UNCHANGED gateway
      PROVE  Tested'
  BY <1>36 DEF StartRelays
<1>37. ASSUME HardReset, ResetFrame
      PROVE  Tested'
  BY <1>37, QueueReset DEF HardReset, ResetFrame
<1>38. ASSUME ConnectionEnds, UNCHANGED gateway
      PROVE  Tested'
  BY <1>38 DEF ConnectionEnds, RelaysJoined, Relaying
<1>39. ASSUME RelayRx, UNCHANGED gateway
      PROVE  Tested'
  BY <1>39, QueueTail DEF RelayRx, Relaying
<1>40. ASSUME RelayTxEnds, UNCHANGED gateway
      PROVE  Tested'
  BY <1>40 DEF RelayTxEnds, Relaying
<1>41. ASSUME NEW c \in RemoteCommands, RelayTx(c), RelayFrame(c)
      PROVE  Tested'
  BY <1>41, QueueAppend, RemoteTypes DEF RelayTx, RelayFrame, SendMsg
<1>42. ASSUME ServerDrops, UNCHANGED gateway
      PROVE  Tested'
  BY <1>42 DEF ServerDrops
<1>43. ASSUME LinkBreaks
      PROVE  Tested'
  <2>1. readQ' = readQ \/ (Sent(readQ, readQ', Msg("part")) /\ Msg("part").type = "part")
    <3>1. readQ' = readQ \/ readQ' = Append(readQ, Msg("part"))
      BY <1>43 DEF LinkBreaks, Break
    <3>2. Sent(readQ, Append(readQ, Msg("part")), Msg("part")) /\ Msg("part").type = "part"
      BY QueueSent, Messages
    <3> QED
      BY <3>1, <3>2
  <2> QED
    BY <1>43, <2>1 DEF LinkBreaks, Break, Sent
<1>44. ASSUME StartPassthroughFails
      PROVE  Tested'
  BY <1>44, QueueEmpty DEF StartPassthroughFails, CheckStop, LinkStart,
    EventHandlerStart, PtUnstarted
<1>45. ASSUME ResetGateway
      PROVE  Tested'
  <2>1. Sent(writeQ, writeQ', Reset) /\ Reset.type = "reset"
    BY <1>45, QueueSent, Messages DEF ResetGateway, SendMsg
  <2> QED
    BY <1>45, <2>1 DEF ResetGateway, Sent
<1>46. ASSUME StopEnds
      PROVE  Tested'
  BY <1>46 DEF StopEnds
<1>47. ASSUME ConfigFails
      PROVE  Tested'
  BY <1>47 DEF ConfigFails, Answered
<1>48. ASSUME TxSend
      PROVE  Tested'
  <2>1. Sent(writeQ, writeQ', Msg("send")) /\ Msg("send").type = "send"
    BY <1>48, QueueSent, Messages DEF TxSend, SendMsg
  <2> QED
    BY <1>48, <2>1 DEF TxSend, Sent
<1>49. ASSUME TxEnds
      PROVE  Tested'
  BY <1>49 DEF TxEnds
<1> HIDE DEF linkVars, ptVars, gateway, caller, manager, parsing, handling, test,
               history, Typed, LinkTyped, PtTyped, CallerTyped, ThreadsTyped, Phases,
               Places, Connections, Running, Modes, LinkUp, EventsUp, ParsersUp,
               Listed, Managing, Stuck, ConfigAlive, LinkStopped, Tested, TestBegins,
               TestResets, TestEchoes, Line, Across, Nowhere
<1> QED
  BY <1>1, <1>2, <1>3, <1>4, <1>5, <1>6, <1>7, <1>8, <1>9, <1>10, <1>11, <1>12, <1>13,
    <1>14, <1>15, <1>16, <1>17, <1>18, <1>19, <1>20, <1>21, <1>22, <1>23, <1>24, <1>25,
    <1>26, <1>27, <1>28, <1>29, <1>30, <1>31, <1>32, <1>33, <1>34, <1>35, <1>36, <1>37,
    <1>38, <1>39, <1>40, <1>41, <1>42, <1>43, <1>44, <1>45, <1>46, <1>47, <1>48, <1>49,
    StepCases

LEMMA Unchanged ==
  ASSUME IInv, UNCHANGED vars
  PROVE  IInv'
<1> USE DEF vars, linkVars, ptVars, gateway, caller, manager, parsing, handling, test,
            history, IInv
<1>1. Typed'
  <2>1. LinkTyped'
    BY DEF Typed, LinkTyped
  <2>2. PtTyped'
    BY DEF Typed, PtTyped
  <2>3. CallerTyped'
    BY DEF Typed, CallerTyped
  <2>4. ThreadsTyped'
    BY DEF Typed, ThreadsTyped
  <2> QED
    BY <2>1, <2>2, <2>3, <2>4 DEF Typed
<1>2. Phases'
  <2>1. Places' /\ Connections' /\ Stuck'
    BY DEF Phases, Places, Connections, Stuck
  <2>2. Running'
    BY DEF Phases, Running, Modes, LinkUp, EventsUp, ParsersUp, Listed, Managing,
           ConfigAlive, LinkStopped
  <2> QED
    BY <2>1, <2>2 DEF Phases
<1>3. Session'
  BY DEF Session, Commands, OneReset, Covered, Applied, Line, Across, Nowhere
<1>4. Left'
  BY DEF Left
<1>5. Tested'
  BY DEF Tested, TestBegins, TestResets, TestEchoes, Line, Across, Nowhere
<1> QED
  BY <1>1, <1>2, <1>3, <1>4, <1>5

-----------------------------------------------------------------------------
(* The whole. *)

LEMMA QueuesInit == Init => Session /\ Left /\ Tested
<1> SUFFICES ASSUME Init PROVE Session /\ Left /\ Tested
  OBVIOUS
<1>1. /\ events = <<>> /\ readQ = <<>> /\ writeQ = <<>>
      /\ devIn = (IF remote THEN <<Reset>> ELSE <<>>)
  BY DEF Init, LinkInit
<1>2. /\ call = "none" /\ at = "none" /\ ~started /\ ~devStarted /\ ~running
      /\ config = NoThread /\ applied = {}
  BY DEF Init, LinkInit
<1>3. Commands /\ Line({"reset", "config", "remove", "rsp"})
  BY <1>1, QueueEmpty, QueueReset DEF Commands, Line, Across
<1>4. Session
  BY <1>2, <1>3 DEF Session, OneReset, NoThread
<1>5. Left
  BY <1>1, <1>2, QueueEmpty DEF Left
<1>6. Tested
  BY <1>2 DEF Tested
<1> QED
  BY <1>4, <1>5, <1>6

LEMMA Inductive == Spec => []IInv
<1>1. Init => IInv
  BY TypedInit, PhasesInit, QueuesInit DEF IInv
<1>2. IInv /\ [Next]_vars => IInv'
  <2> SUFFICES ASSUME IInv, [Next]_vars PROVE IInv'
    OBVIOUS
  <2>1. CASE Next
    BY <2>1, TypedStep, PhasesStep, SessionStep, LeftStep, TestedStep DEF IInv
  <2>2. CASE UNCHANGED vars
    BY <2>2, Unchanged
  <2> QED
    BY <2>1, <2>2
<1> QED
  BY <1>1, <1>2, PTL DEF Spec

\* Each variable holds what the code may put into it, and the list of handlers, which
\* event_handler.py keeps by hand, never has one twice.
THEOREM TypeCorrect == Spec => []TypeOK
  BY Inductive, TypedOK, PTL DEF IInv

\* gateway.py stop and hw_check: when they return, none of their threads is left.
THEOREM GatewayStops == Spec => []AllStopped
<1>1. IInv => AllStopped
  BY PhasesAllStopped DEF IInv
<1> QED
  BY <1>1, Inductive, PTL

\* event_parser.py and passthrough.py never read the bytes of the same link.
THEOREM BytesHaveOneReader == Spec => []OneReader
<1>1. IInv => OneReader
  BY PhasesOneReader DEF IInv
<1> QED
  BY <1>1, Inductive, PTL

\* dev_manager.py: start returns when the device has carried out every command of
\* config_device, and it keeps them while the gateway is up.
THEOREM DeviceConfigured == Spec => []Configured
<1>1. IInv => Configured
  <2> SUFFICES ASSUME IInv, started, devStarted, ~stale, ~shared, ~again
               PROVE  applied = 1..Steps
    BY DEF Configured, IInv, Typed, CallerTyped
  <2> USE DEF IInv
  <2>1. ~failed
    BY DEF Phases, Stuck
  <2>2. devManager /\ config.at \in {"end", "done"}
    BY <2>1 DEF Phases, Running, Managing
  <2>3. call # "start"
    BY <2>1 DEF Phases, Running, Modes
  <2>4. at # "manager"
    BY <2>3 DEF Phases, Places, Typed, CallerTyped
  <2>5. Covered
    BY <2>1, <2>2 DEF Covered
  <2>6. Applied
    BY <2>2, <2>4, <2>5 DEF Session, OneReset
  <2>7. \A k \in 1..Steps : k \in applied
    <3> SUFFICES ASSUME NEW k \in 1..Steps PROVE k \in applied
      OBVIOUS
    <3>1. (k \in applied \/ k > config.step) /\ config.step = Steps
      BY <2>2, <2>6 DEF Applied
    <3>2. ~(k > Steps)
      BY LifecycleAssumption
    <3> QED
      BY <3>1, <3>2
  <2> QED
    BY <2>7 DEF Typed, LinkTyped
<1> QED
  BY <1>1, Inductive, PTL

\* dev_manager.py stop_device, uart.py stop: the reset that stop sends has reached the
\* device, or will, when the port is closed.
THEOREM DeviceLeftReset == Spec => []LeftReset
<1>1. IInv => LeftReset
  <2> SUFFICES ASSUME IInv, call = "none", ~started, ~failed, ~remote, ~broken, ~relayed
               PROVE  applied = {} \/ Reset \in ToSet(devIn)
    BY DEF LeftReset
  <2> USE DEF IInv
  <2>1. at = "none" /\ ~devManager
    BY DEF Phases, Places, Running, Modes
  <2>2. ~running /\ ~writer
    BY <2>1 DEF Phases, Running, LinkUp, LinkStopped
  <2>3. applied = {} \/ Has(devIn, "reset")
    BY <2>1, <2>2 DEF Left
  <2> QED
    BY <2>3, QueueTypes DEF Typed, LinkTyped
<1> QED
  BY <1>1, Inductive, PTL

\* hw_self_test.py run: an echo that was asked for before the test does not pass it.
THEOREM TestIsTrue == Spec => []Verdict
<1>1. IInv => Verdict
  <2> SUFFICES ASSUME IInv, at = "testing", resetFlag, echoFlag, ~failed, ~shared, ~stale
               PROVE  echoed
    BY DEF Verdict, IInv, Typed, CallerTyped
  <2> USE DEF IInv
  <2>1. call = "hw_check"
    BY DEF Phases, Places, Typed, CallerTyped
  <2>2. TestEchoes
    BY <2>1 DEF Tested
  <2> QED
    BY <2>2 DEF TestEchoes
<1> QED
  BY <1>1, Inductive, PTL
================================================================================
