------------------------------ MODULE AliveProofs ------------------------------
(***************************************************************************)
(* No refusal of the device ends the transmission thread, when the device  *)
(* has a row for each entry the caches may hold, one for the application   *)
(* key and two for the subscriptions.                                      *)
(*                                                                         *)
(* Beyond HandleProofs, where a cached handle has a row, this takes the    *)
(* converse: a row that holds a device key or an address is cached, but    *)
(* for the one a command on its way gives back, or an answer on its way    *)
(* brings (Room).  So a table that is full has as many rows as the cache   *)
(* has entries, with those of the configuration.                           *)
(***************************************************************************)
EXTENDS HandleProofs
-----------------------------------------------------------------------------
(* The rows of the device's tables. *)

\* The rows that hold a device key, or an address, are cached, but for extra.
OwnKeys(extra) ==
  \A h \in KeyHandles : dev.keys[h] \in Keys =>
    h \in extra \/ \E i \in DOMAIN devkeys : devkeys[i].handle = h
OwnAddrs(extra) ==
  \A h \in AddrHandles : dev.addrs[h] \in Addrs =>
    h \in extra \/ \E i \in DOMAIN addresses : addresses[i].handle = h

\* The device has not read the command of thread t yet.
Unmade(t) == pc[t] \in {"clear", "expect", "put"} \/ Order(cmd[t])

KeyRoom ==
  /\ pc["tx"] \notin Sending => OwnKeys({})
  /\ pc["tx"] \in Sending =>
       /\ cmd["tx"].op = "devkey_del" => OwnKeys({cmd["tx"].handle})
       /\ cmd["tx"].op = "devkey_add" /\ Unmade("tx") => OwnKeys({})
       /\ cmd["tx"].op \notin {"devkey_del", "devkey_add"} => OwnKeys({})
  /\ \A e \in Events : Answer(e) =>
       /\ e.op = "devkey_add" => HasHandle(e) /\ OwnKeys({e.handle})
       /\ e.op = "devkey_del" => OwnKeys({})
  /\ Len(devkeys) <= MaxDevkeys
  /\ pc["tx"] \in Sending /\ cmd["tx"].op \in {"devkey_del", "devkey_add"} =>
       Len(devkeys) < MaxDevkeys
AddrRoom ==
  /\ pc["tx"] \notin Sending => OwnAddrs({})
  /\ pc["tx"] \in Sending =>
       /\ cmd["tx"].op = "addr_del" => OwnAddrs({cmd["tx"].handle})
       /\ cmd["tx"].op = "addr_add" /\ Unmade("tx") => OwnAddrs({})
       /\ cmd["tx"].op \notin {"addr_del", "addr_add"} => OwnAddrs({})
  /\ \A e \in Events : Answer(e) =>
       /\ e.op = "addr_add" => HasHandle(e) /\ OwnAddrs({e.handle})
       /\ e.op = "addr_del" => OwnAddrs({})
  /\ Len(addresses) <= MaxAddresses
  /\ pc["tx"] \in Sending /\ cmd["tx"].op \in {"addr_del", "addr_add"} =>
       Len(addresses) < MaxAddresses

\* The rows of the application key and of the subscriptions.
Apps == {h \in KeyHandles : dev.keys[h] = "app"}
Groups == {h \in AddrHandles : dev.addrs[h] = "group"}
OneApp == \A h, i \in Apps : h = i
OneGroup == \A h, i \in Groups : h = i
TwoGroups == \A h, i, j \in Groups : h = i \/ h = j \/ i = j
ConfigRoom ==
  /\ OneApp /\ TwoGroups
  /\ pc["cfg"] = "none" => Apps = {} /\ Groups = {}
  /\ pc["cfg"] \in Sending =>
       LET i == cmd["cfg"].step IN
       /\ i < 5 \/ (i = 5 /\ Unmade("cfg")) => Apps = {}
       /\ i < 6 \/ (i = 6 /\ Unmade("cfg")) => Groups = {}
       /\ i = 6 \/ (i = 7 /\ Unmade("cfg")) => OneGroup

Room == quiet => pc["tx"] # "dead" /\ KeyRoom /\ AddrRoom /\ ConfigRoom

-----------------------------------------------------------------------------
(* Counting rows. *)

LEMMA Covers ==
  ASSUME NEW S, NEW n \in Nat, NEW f, \A x \in S : \E i \in 1..n : f[i] = x
  PROVE  Cardinality(S) <= n
<1>1. CASE S = {}
  BY <1>1, FS_EmptySet
<1>2. CASE S # {}
  <2>1. PICK y : y \in S
    BY <1>2
  <2> DEFINE g == [i \in 1..n |-> IF f[i] \in S THEN f[i] ELSE y]
  <2>2. g \in [1..n -> S]
    BY <2>1
  <2>3. \A x \in S : \E i \in 1..n : g[i] = x
    OBVIOUS
  <2> HIDE DEF g
  <2>4. ExistsSurjection(1..n, S)
    BY <2>2, <2>3 DEF ExistsSurjection, Surjection
  <2> QED BY <2>4, FS_SurjCardinalityBound
<1> QED BY <1>1, <1>2

LEMMA KeysFull ==
  ASSUME Shape, OwnKeys({}), OneApp, FreeRows(dev.keys) = {}
  PROVE  Cardinality(KeyHandles) <= Len(devkeys) + 1
<1> DEFINE n == Len(devkeys)
<1>1. n \in Nat /\ DOMAIN devkeys = 1..n
  BY DEF Shape
<1>2. \E a : \A h \in Apps : h = a
  BY DEF OneApp
<1>3. PICK a : \A h \in Apps : h = a
  BY <1>2
<1> DEFINE f == [i \in 1..(n + 1) |-> IF i <= n THEN devkeys[i].handle ELSE a]
<1>4. ASSUME NEW h \in KeyHandles
      PROVE  \E i \in 1..(n + 1) : f[i] = h
  <2>1. dev.keys[h] \in Keys \/ dev.keys[h] = "app"
    BY DEF FreeRows, Shape, Tables, KeyTable
  <2>2. CASE dev.keys[h] \in Keys
    <3>1. PICK i \in 1..n : devkeys[i].handle = h
      BY <1>1, <2>2 DEF OwnKeys
    <3>2. i \in 1..(n + 1) /\ i <= n
      BY <1>1
    <3> QED BY <3>1, <3>2
  <2>3. CASE dev.keys[h] = "app"
    <3>1. h = a
      BY <1>3, <2>3 DEF Apps
    <3>2. n + 1 \in 1..(n + 1) /\ ~(n + 1 <= n)
      BY <1>1
    <3> QED BY <3>1, <3>2
  <2> QED BY <2>1, <2>2, <2>3
<1>5. n + 1 \in Nat
  BY <1>1
<1> HIDE DEF f
<1> QED BY <1>4, <1>5, Covers

LEMMA AddrsFull ==
  ASSUME Shape, OwnAddrs({}), TwoGroups, FreeRows(dev.addrs) = {}
  PROVE  Cardinality(AddrHandles) <= Len(addresses) + 2
<1> DEFINE n == Len(addresses)
<1>1. n \in Nat /\ DOMAIN addresses = 1..n
  BY DEF Shape
<1>2. \E a, b : \A h \in Groups : h = a \/ h = b
  BY DEF TwoGroups
<1>3. PICK a, b : \A h \in Groups : h = a \/ h = b
  BY <1>2
<1> DEFINE f == [i \in 1..(n + 2) |->
                   IF i <= n THEN addresses[i].handle ELSE IF i = n + 1 THEN a ELSE b]
<1>4. ASSUME NEW h \in AddrHandles
      PROVE  \E i \in 1..(n + 2) : f[i] = h
  <2>1. dev.addrs[h] \in Addrs \/ dev.addrs[h] = "group"
    BY DEF FreeRows, Shape, Tables, AddrTable
  <2>2. CASE dev.addrs[h] \in Addrs
    <3>1. PICK i \in 1..n : addresses[i].handle = h
      BY <1>1, <2>2 DEF OwnAddrs
    <3>2. i \in 1..(n + 2) /\ i <= n
      BY <1>1
    <3> QED BY <3>1, <3>2
  <2>3. CASE dev.addrs[h] = "group"
    <3>1. h = a \/ h = b
      BY <1>3, <2>3 DEF Groups
    <3>2. /\ n + 1 \in 1..(n + 2) /\ ~(n + 1 <= n)
          /\ n + 2 \in 1..(n + 2) /\ ~(n + 2 <= n) /\ n + 2 # n + 1
      BY <1>1
    <3>3. f[n + 1] = a /\ f[n + 2] = b
      BY <3>2
    <3> QED BY <3>1, <3>2, <3>3
  <2> QED BY <2>1, <2>2, <2>3
<1>5. n + 2 \in Nat
  BY <1>1
<1> HIDE DEF f
<1> QED BY <1>4, <1>5, Covers

\* The device has room for what the caches may hold, the application key and the
\* two subscriptions: what MAX_DEVKEYS and MAX_ADDRESSES are for.
RoomEnough ==
  /\ IsFiniteSet(KeyHandles) /\ MaxDevkeys + 1 <= Cardinality(KeyHandles)
  /\ IsFiniteSet(AddrHandles) /\ MaxAddresses + 2 <= Cardinality(AddrHandles)

LEMMA FreeKey ==
  ASSUME RoomEnough, Shape, OwnKeys({}), OneApp, Len(devkeys) < MaxDevkeys
  PROVE  FreeRows(dev.keys) # {}
<1> SUFFICES ASSUME FreeRows(dev.keys) = {} PROVE FALSE
  OBVIOUS
<1>1. Cardinality(KeyHandles) <= Len(devkeys) + 1
  BY KeysFull
<1>2. Len(devkeys) \in Nat /\ MaxDevkeys \in Nat
  BY TransmissionAssumption DEF Shape
<1>3. Cardinality(KeyHandles) \in Nat
  BY FS_CardinalityType DEF RoomEnough
<1> QED BY <1>1, <1>2, <1>3 DEF RoomEnough

LEMMA FreeAddr ==
  ASSUME RoomEnough, Shape, OwnAddrs({}), TwoGroups, Len(addresses) < MaxAddresses
  PROVE  FreeRows(dev.addrs) # {}
<1> SUFFICES ASSUME FreeRows(dev.addrs) = {} PROVE FALSE
  OBVIOUS
<1>1. Cardinality(AddrHandles) <= Len(addresses) + 2
  BY AddrsFull
<1>2. Len(addresses) \in Nat /\ MaxAddresses \in Nat
  BY TransmissionAssumption DEF Shape
<1>3. Cardinality(AddrHandles) \in Nat
  BY FS_CardinalityType DEF RoomEnough
<1> QED BY <1>1, <1>2, <1>3 DEF RoomEnough

-----------------------------------------------------------------------------
(* Steps that leave the tables and the caches alone. *)

LEMMA RoomInit == Init => Room
<1> SUFFICES ASSUME Init PROVE Room
  OBVIOUS
<1>1. pc["tx"] = "get" /\ pc["cfg"] = "none" /\ pc["ev"] = "idle" /\ DOMAIN events = {}
  BY DEF Init, Senders
<1>2. \A e \in Events : ~Answer(e)
  BY <1>1 DEF Answer, Coming, Handled, InSlot, Sees, Senders
<1>3. /\ devkeys = <<>> /\ addresses = <<>>
      /\ \A h \in KeyHandles : dev.keys[h] = "free"
      /\ \A h \in AddrHandles : dev.addrs[h] = "free"
  BY DEF Init, Empty
<1>4. OwnKeys({}) /\ OwnAddrs({})
  BY <1>3, TransmissionAssumption DEF OwnKeys, OwnAddrs
<1>5. Apps = {} /\ Groups = {}
  BY <1>3 DEF Apps, Groups
<1>6. ConfigRoom
  BY <1>1, <1>5 DEF ConfigRoom, OneApp, TwoGroups, Sending
<1>7. Len(devkeys) <= MaxDevkeys /\ Len(addresses) <= MaxAddresses
  BY <1>3, TransmissionAssumption
<1>8. KeyRoom /\ AddrRoom
  BY <1>1, <1>2, <1>4, <1>7 DEF KeyRoom, AddrRoom, Sending
<1> QED BY <1>1, <1>6, <1>8 DEF Room

\* The command of thread t is where it was, or further.
Onward(t) ==
  pc'[t] \in Sending => /\ pc[t] \in Sending /\ cmd'[t] = cmd[t]
                        /\ Unmade(t)' => Unmade(t)

LEMMA RoomStill ==
  ASSUME Room, quiet' => quiet, Fewer, UNCHANGED caches,
         dev'.keys = dev.keys, dev'.addrs = dev.addrs,
         Onward("tx"), pc'["tx"] # "dead", pc'["tx"] \notin Sending => pc["tx"] \notin Sending,
         Onward("cfg") \/ (pc["cfg"] = "none" /\ cmd'["cfg"].step = 1),
         pc'["cfg"] = "none" => pc["cfg"] = "none"
  PROVE  Room'
<1> SUFFICES ASSUME quiet' PROVE Room'
  BY DEF Room
<1>1. KeyRoom /\ AddrRoom /\ ConfigRoom
  BY DEF Room
<1>2. /\ \A x : OwnKeys(x)' <=> OwnKeys(x)
      /\ \A x : OwnAddrs(x)' <=> OwnAddrs(x)
      /\ Apps' = Apps /\ Groups' = Groups
      /\ UNCHANGED <<devkeys, addresses>>
  BY DEF caches, OwnKeys, OwnAddrs, Apps, Groups
<1>3. \A e \in Events : Answer(e)' => Answer(e)
  BY DEF Fewer
<1>4. KeyRoom'
  <2>1. pc'["tx"] \notin Sending => OwnKeys({})'
    BY <1>1, <1>2 DEF KeyRoom
  <2>2. pc'["tx"] \in Sending =>
          /\ cmd'["tx"].op = "devkey_del" => OwnKeys({cmd["tx"].handle})'
          /\ cmd'["tx"].op = "devkey_add" /\ Unmade("tx")' => OwnKeys({})'
          /\ cmd'["tx"].op \notin {"devkey_del", "devkey_add"} => OwnKeys({})'
    BY <1>1, <1>2 DEF KeyRoom, Onward, OwnKeys
  <2>3. ASSUME NEW e \in Events, Answer(e)'
        PROVE  /\ e.op = "devkey_add" => HasHandle(e) /\ OwnKeys({e.handle})'
               /\ e.op = "devkey_del" => OwnKeys({})'
    <3>1. Answer(e)
      BY <1>3, <2>3
    <3> QED BY <1>1, <1>2, <3>1 DEF KeyRoom, OwnKeys
  <2>4. /\ Len(devkeys') <= MaxDevkeys
        /\ pc'["tx"] \in Sending /\ cmd'["tx"].op \in {"devkey_del", "devkey_add"} =>
             Len(devkeys') < MaxDevkeys
    BY <1>1, <1>2 DEF KeyRoom, Onward
  <2> QED BY <2>1, <2>2, <2>3, <2>4 DEF KeyRoom, HasHandle
<1>5. AddrRoom'
  <2>1. pc'["tx"] \notin Sending => OwnAddrs({})'
    BY <1>1, <1>2 DEF AddrRoom
  <2>2. pc'["tx"] \in Sending =>
          /\ cmd'["tx"].op = "addr_del" => OwnAddrs({cmd["tx"].handle})'
          /\ cmd'["tx"].op = "addr_add" /\ Unmade("tx")' => OwnAddrs({})'
          /\ cmd'["tx"].op \notin {"addr_del", "addr_add"} => OwnAddrs({})'
    BY <1>1, <1>2 DEF AddrRoom, Onward, OwnAddrs
  <2>3. ASSUME NEW e \in Events, Answer(e)'
        PROVE  /\ e.op = "addr_add" => HasHandle(e) /\ OwnAddrs({e.handle})'
               /\ e.op = "addr_del" => OwnAddrs({})'
    <3>1. Answer(e)
      BY <1>3, <2>3
    <3> QED BY <1>1, <1>2, <3>1 DEF AddrRoom, OwnAddrs
  <2>4. /\ Len(addresses') <= MaxAddresses
        /\ pc'["tx"] \in Sending /\ cmd'["tx"].op \in {"addr_del", "addr_add"} =>
             Len(addresses') < MaxAddresses
    BY <1>1, <1>2 DEF AddrRoom, Onward
  <2> QED BY <2>1, <2>2, <2>3, <2>4 DEF AddrRoom, HasHandle
<1>6. ConfigRoom'
  <2>1. OneApp' /\ TwoGroups' /\ (OneGroup' <=> OneGroup)
    BY <1>1, <1>2 DEF ConfigRoom, OneApp, TwoGroups, OneGroup
  <2>2. pc'["cfg"] = "none" => Apps' = {} /\ Groups' = {}
    BY <1>1, <1>2 DEF ConfigRoom
  <2>3. CASE Onward("cfg")
    BY <1>1, <1>2, <2>1, <2>2, <2>3 DEF ConfigRoom, Onward
  <2>4. CASE pc["cfg"] = "none" /\ cmd'["cfg"].step = 1
    BY <1>1, <1>2, <2>1, <2>2, <2>4 DEF ConfigRoom
  <2> QED BY <2>3, <2>4
<1> QED BY <1>4, <1>5, <1>6 DEF Room

LEMMA RoomOthers ==
  ASSUME Typed, Typed', Deaf, Once, Exchange, Room,
         \/ \E m \in Messages : Submit(m)
         \/ TakeHigh \/ TryLow \/ TakeLow \/ EndRun
         \/ \E t \in Senders : SendCommand(t)
         \/ EvThread \/ ApiThread \/ Transmitted \/ UNCHANGED vars
  PROVE  Room'
<1> SUFFICES ASSUME quiet' PROVE Room'
  BY DEF Room
<1>0. quiet => pc["tx"] # "dead"
  BY DEF Room
<1>1. CASE \/ \E m \in Messages : Submit(m)
           \/ TakeHigh \/ TryLow \/ TakeLow \/ EndRun
  <2>1. UNCHANGED <<caches, dev, toDevice, cmd>> /\ quiet
    BY <1>1 DEF Submit, TakeHigh, TryLow, TakeLow, EndRun, device
  <2>2. UNCHANGED pc \/ (/\ pc'["tx"] \in {"permit", "low", "get", "ended"}
                         /\ pc["tx"] \in {"low", "get"} /\ pc'["cfg"] = pc["cfg"])
    BY <1>1 DEF Submit, TakeHigh, TryLow, TakeLow, EndRun, Goto, Typed, Shape, Threads, Senders
  <2>3. Fewer
    BY <1>1, ExchangeTx
  <2>4. \A c : Order(c)' <=> Order(c)
    BY <2>1 DEF Order
  <2>5. Onward("tx") /\ Onward("cfg")
    BY <2>1, <2>2, <2>4 DEF Onward, Unmade, Sending
  <2> QED BY <1>0, <2>1, <2>2, <2>3, <2>5, RoomStill DEF Sending
<1>2. ASSUME NEW t \in Senders, SendCommand(t)
      PROVE  Room'
  <2>1. /\ UNCHANGED <<cmd, caches, device, quiet>>
        /\ pc[t] \in Sending /\ \A s \in Senders : s # t => pc'[s] = pc[s]
        /\ pc'[t] \in Sending /\ quiet
    BY <1>2, SendFrame DEF SendCommand, Sending
  <2>2. UNCHANGED <<caches, dev>>
    BY <2>1 DEF device
  <2>3. Fewer
    BY <1>2, ExchangeSend
  <2>4. \A s \in Senders : s # t => pc[s] \notin Sending /\ pc'[s] \notin Sending
    BY <2>1, OneActive
  <2>5. Unmade(t)' => Unmade(t)
    <3>1. CASE pc[t] \in {"clear", "expect", "put"}
      BY <3>1 DEF Unmade
    <3>2. CASE pc[t] \notin {"clear", "expect", "put"}
      <4>1. SeeComplete(t)
        BY <1>2, <3>2 DEF SendCommand, ClearComplete, ExpectOpcode, PutCommand
      <4>2. UNCHANGED toDevice /\ pc'[t] = "take"
        BY <4>1, <1>2, SendFrame DEF SeeComplete
      <4> QED BY <2>1, <4>2 DEF Unmade, Order
    <3> QED BY <3>1, <3>2
  <2>6. \A s \in Senders : Onward(s)
    BY <2>1, <2>4, <2>5 DEF Onward
  <2>7. /\ pc'["tx"] # "dead" /\ (pc'["tx"] \notin Sending => pc["tx"] \notin Sending)
        /\ pc'["cfg"] = "none" => pc["cfg"] = "none"
    BY <1>0, <2>1 DEF Senders, Sending
  <2> QED BY <2>1, <2>2, <2>3, <2>6, <2>7, RoomStill DEF Senders
<1>3. CASE HandleEvent
  <2>1. UNCHANGED <<caches, dev, quiet, toDevice>> /\ quiet
    BY <1>3 DEF HandleEvent, device
  <2>2. \/ Goto("ev", "answer") /\ UNCHANGED cmd
        \/ pc["cfg"] = "none" /\ Issue("cfg", Configure(1))
        \/ UNCHANGED <<pc, cmd>>
    BY <1>3 DEF HandleEvent
  <2>3. Configure(1).step = 1
    BY ConfigureTyped
  <2>4. /\ pc'["tx"] = pc["tx"] /\ cmd'["tx"] = cmd["tx"]
        /\ \/ pc'["cfg"] = pc["cfg"] /\ cmd'["cfg"] = cmd["cfg"]
           \/ pc["cfg"] = "none" /\ pc'["cfg"] = "clear" /\ cmd'["cfg"].step = 1
    BY <2>2, <2>3 DEF Goto, Issue, Typed, Shape, Threads, Senders
  <2>5. Fewer
    BY <1>3, ExchangeHandle
  <2>6. \A c : Order(c)' <=> Order(c)
    BY <2>1 DEF Order
  <2>7. Onward("tx") /\ (Onward("cfg") \/ (pc["cfg"] = "none" /\ cmd'["cfg"].step = 1))
    BY <2>4, <2>6 DEF Onward, Unmade
  <2> QED BY <1>0, <2>1, <2>4, <2>5, <2>7, RoomStill
<1>4. CASE StoreResponse \/ SetComplete \/ ApiThread \/ Transmitted \/ UNCHANGED vars
  <2>1. UNCHANGED <<caches, cmd, quiet>> /\ quiet
    BY <1>4 DEF StoreResponse, SetComplete, ApiThread, Start, Reset, Started, StopDevice,
       StopEvents, StopUart, StopTx, Transmitted, vars
  <2>2. pc'["tx"] = pc["tx"] /\ pc'["cfg"] = pc["cfg"]
    BY <1>4 DEF StoreResponse, SetComplete, ApiThread, Start, Reset, Started, StopDevice,
       StopEvents, StopUart, StopTx, Transmitted, vars, Goto, Typed, Shape, Threads, Senders
  <2>3. dev'.keys = dev.keys /\ dev'.addrs = dev.addrs
    <3>1. CASE Transmitted
      BY <3>1 DEF Transmitted, Typed, Shape, Tables
    <3>2. CASE ~Transmitted
      BY <1>4, <3>2 DEF StoreResponse, SetComplete, ApiThread, Start, Reset, Started, StopDevice,
         StopEvents, StopUart, StopTx, vars, device
    <3> QED BY <3>1, <3>2
  <2>4. Fewer
    BY <1>4, ExchangeComplete, ExchangeApi, ExchangeDevice
  <2>5. \A c \in Commands : Order(c)' <=> Order(c)
    <3>1. (Start \/ Reset \/ StopDevice) \/ UNCHANGED toDevice
      BY <1>4 DEF StoreResponse, SetComplete, ApiThread, Started, StopEvents, StopUart, StopTx,
         Transmitted, vars
    <3> QED BY <3>1, OrderPosted DEF Typed
  <2>6. cmd["tx"] \in Commands /\ cmd["cfg"] \in Commands
    BY DEF Typed, Shape, Senders
  <2>7. Onward("tx") /\ Onward("cfg")
    BY <2>1, <2>2, <2>5, <2>6 DEF Onward, Unmade
  <2> QED BY <1>0, <2>1, <2>2, <2>3, <2>4, <2>7, RoomStill
<1> QED BY <1>1, <1>2, <1>3, <1>4 DEF EvThread

-----------------------------------------------------------------------------
(* The transmission thread between two commands. *)

\* What it leaves behind when it sends a command, or ends its work.
KeysLeft ==
  /\ pc["tx"] \notin Sending => OwnKeys({})
  /\ pc["tx"] \in Sending =>
       /\ cmd["tx"].op = "devkey_del" => OwnKeys({cmd["tx"].handle})
       /\ cmd["tx"].op # "devkey_del" => OwnKeys({})
       /\ cmd["tx"].op \in {"devkey_del", "devkey_add"} => Len(devkeys) < MaxDevkeys
  /\ Len(devkeys) <= MaxDevkeys
AddrsLeft ==
  /\ pc["tx"] \notin Sending => OwnAddrs({})
  /\ pc["tx"] \in Sending =>
       /\ cmd["tx"].op = "addr_del" => OwnAddrs({cmd["tx"].handle})
       /\ cmd["tx"].op # "addr_del" => OwnAddrs({})
       /\ cmd["tx"].op \in {"addr_del", "addr_add"} => Len(addresses) < MaxAddresses
  /\ Len(addresses) <= MaxAddresses

LEMMA RoomAgain ==
  ASSUME Typed', Exchange', Room, quiet, UNCHANGED dev, pc["cfg"] = "done", pc'["cfg"] = "done",
         KeysLeft', AddrsLeft', pc'["tx"] \in {"clear", "get"}
  PROVE  Room'
<1> SUFFICES ASSUME quiet' PROVE Room'
  BY DEF Room
<1>1. Apps' = Apps /\ Groups' = Groups
  BY DEF Apps, Groups
<1>2. ConfigRoom'
  BY <1>1 DEF Room, ConfigRoom, OneApp, TwoGroups, Sending
<1>3. ASSUME NEW e \in Events, Answer(e)'
      PROVE  e.op \notin {"devkey_add", "devkey_del", "addr_add", "addr_del"}
  <2>1. PICK t \in Senders : pc'[t] \in {"wait", "take"} /\ e.op = cmd'[t].op
    BY <1>3, AnswerOfNext DEF AnswersOwned, AnswerHas
  <2> QED BY <2>1 DEF Senders
<1>4. KeyRoom'
  BY <1>3 DEF KeysLeft, KeyRoom
<1>5. AddrRoom'
  BY <1>3 DEF AddrsLeft, AddrRoom
<1> QED BY <1>2, <1>4, <1>5 DEF Room, Sending

LEMMA RoomFind ==
  ASSUME Shape, NEW m \in Messages, NEW key \in Handles, key # NoHandle,
         FindAddress(m, key), UNCHANGED dev, OwnAddrs({}), Len(addresses) <= MaxAddresses
  PROVE  AddrsLeft' /\ pc'["tx"] = "clear" /\ cmd'["tx"].op \in {"addr_del", "addr_add", "send"}
<1> DEFINE cached == {i \in DOMAIN addresses : addresses[i].addr = Addr(m)}
<1>1. /\ addresses \in Seq(AddrEntry) /\ Addr(m) \in Addrs
      /\ \A i \in DOMAIN addresses : addresses[i].handle \in Handles
      /\ Len(addresses) \in Nat /\ MaxAddresses \in Nat \ {0}
  BY TransmissionAssumption, AddrTyped, ElementsTyped DEF Shape
<1>2. CASE \E i \in cached : SendPacket(m, key, addresses[i].handle) /\ UNCHANGED addresses
  <2>1. PICK i \in cached : SendPacket(m, key, addresses[i].handle)
    BY <1>2
  <2>2. Issue("tx", PacketSend(key, addresses[i].handle, m))
    BY <2>1 DEF SendPacket
  <2>3. pc'["tx"] = "clear" /\ cmd'["tx"].op = "send"
    BY <1>1, <2>2, SendTyped, IssueTyped DEF Senders
  <2>4. OwnAddrs({})'
    BY <1>2 DEF OwnAddrs
  <2> QED BY <1>2, <2>3, <2>4 DEF AddrsLeft, Sending
<1>3. CASE /\ cached = {} /\ Len(addresses) >= MaxAddresses
           /\ Issue("tx", Delete("addr_del", addresses[1].handle))
           /\ addresses' = Tail(addresses)
  <2>1. Len(addresses) >= 1 /\ addresses # <<>> /\ 1 \in DOMAIN addresses
    BY <1>1, <1>3
  <2>2. /\ pc'["tx"] = "clear" /\ cmd'["tx"].op = "addr_del"
        /\ cmd'["tx"].handle = addresses[1].handle
    BY <1>1, <1>3, <2>1, CmdTyped, IssueTyped DEF Senders
  <2>3. \A i \in DOMAIN addresses :
          i = 1 \/ (i - 1 \in DOMAIN addresses' /\ addresses'[i - 1] = addresses[i])
    BY <1>1, <1>3, <2>1, AfterTail
  <2>4. Len(addresses') = Len(addresses) - 1
    BY <1>1, <1>3, <2>1
  <2>5. Len(addresses') < MaxAddresses
    BY <1>1, <2>4
  <2>6. OwnAddrs({cmd["tx"].handle})'
    <3>1. ASSUME NEW h \in AddrHandles, dev'.addrs[h] \in Addrs
          PROVE  h = addresses[1].handle \/ \E i \in DOMAIN addresses' : addresses'[i].handle = h
      <4>1. PICK i \in DOMAIN addresses : addresses[i].handle = h
        BY <3>1 DEF OwnAddrs
      <4> QED BY <2>3, <4>1
    <3> QED BY <2>2, <3>1 DEF OwnAddrs
  <2>7. Len(addresses') <= MaxAddresses
    BY <1>1, <2>4, <2>5
  <2> QED BY <2>2, <2>5, <2>6, <2>7 DEF AddrsLeft, Sending
<1>4. CASE /\ cached = {} /\ Len(addresses) < MaxAddresses
           /\ Issue("tx", Add("addr_add", Addr(m)))
           /\ UNCHANGED addresses
  <2>1. Add("addr_add", Addr(m)) \in Commands /\ Add("addr_add", Addr(m)).op = "addr_add"
    BY <1>1, AddTyped
  <2>2. pc'["tx"] = "clear" /\ cmd'["tx"].op = "addr_add"
    BY <1>4, <2>1, IssueTyped DEF Senders
  <2>3. OwnAddrs({})'
    BY <1>4 DEF OwnAddrs
  <2> QED BY <1>4, <2>2, <2>3 DEF AddrsLeft, Sending
<1> QED BY <1>2, <1>3, <1>4 DEF FindAddress

LEMMA RoomDrop ==
  ASSUME Typed, NEW i \in DOMAIN devkeys, DropDevkey(i), UNCHANGED dev, OwnKeys({}),
         Len(devkeys) <= MaxDevkeys
  PROVE  KeysLeft' /\ pc'["tx"] = "clear" /\ cmd'["tx"].op = "devkey_del"
<1>1. /\ devkeys \in Seq(KeyEntry) /\ Len(devkeys) \in Nat /\ MaxDevkeys \in Nat /\ Shape
      /\ DOMAIN devkeys = 1..Len(devkeys) /\ devkeys[i].handle \in Handles
  BY ElementsTyped, TransmissionAssumption DEF Typed, Shape
<1>2. /\ pc'["tx"] = "clear" /\ cmd'["tx"].op = "devkey_del"
      /\ cmd'["tx"].handle = devkeys[i].handle
  BY <1>1, CmdTyped, IssueTyped DEF DropDevkey, Senders
<1>3. /\ devkeys' \in Seq(KeyEntry) /\ Len(devkeys') = Len(devkeys) - 1
      /\ \A k \in 1..(i - 1) : devkeys'[k] = devkeys[k]
      /\ \A k \in i..(Len(devkeys) - 1) : devkeys'[k] = devkeys[k + 1]
  BY <1>1, RemoveAtTyped DEF DropDevkey
<1>4. DOMAIN devkeys' = 1..(Len(devkeys) - 1)
  BY <1>3
<1>5. ASSUME NEW k \in DOMAIN devkeys, k # i
      PROVE  \E j \in DOMAIN devkeys' : devkeys'[j] = devkeys[k]
  <2>1. CASE k < i
    <3>1. k \in 1..(i - 1) /\ k \in 1..(Len(devkeys) - 1)
      BY <1>1, <2>1
    <3> QED BY <1>3, <1>4, <3>1
  <2>2. CASE ~(k < i)
    <3>1. k - 1 \in i..(Len(devkeys) - 1) /\ k - 1 \in 1..(Len(devkeys) - 1) /\ (k - 1) + 1 = k
      BY <1>1, <1>5, <2>2
    <3> QED BY <1>3, <1>4, <3>1
  <2> QED BY <2>1, <2>2
<1>6. OwnKeys({cmd["tx"].handle})'
  <2>1. ASSUME NEW h \in KeyHandles, dev'.keys[h] \in Keys
        PROVE  h = devkeys[i].handle \/ \E j \in DOMAIN devkeys' : devkeys'[j].handle = h
    <3>1. PICK k \in DOMAIN devkeys : devkeys[k].handle = h
      BY <2>1 DEF OwnKeys
    <3> QED BY <1>5, <3>1
  <2> QED BY <1>2, <2>1 DEF OwnKeys
<1>7. Len(devkeys') < MaxDevkeys /\ Len(devkeys') <= MaxDevkeys
  BY <1>1, <1>3
<1> QED BY <1>2, <1>6, <1>7 DEF KeysLeft, Sending

LEMMA RoomAcquire ==
  ASSUME Typed, Typed', Once, Exchange, Right, Room, Acquire
  PROVE  Room'
<1> DEFINE m == tx.msg
<1> SUFFICES ASSUME quiet' PROVE Room'
  BY DEF Room
<1>1. /\ Exchange' /\ quiet /\ pc["tx"] = "permit" /\ UNCHANGED <<dev, appkey>>
      /\ AppRight /\ KeysRight /\ KeyRoom /\ AddrRoom
  BY ExchangeTx DEF Acquire, device, Right, Room
<1>2. pc["cfg"] = "done" /\ appkey # NoHandle
  BY <1>1 DEF Once, AppRight
<1>3. /\ Shape /\ m \in Messages /\ appkey \in Handles
      /\ devkeys \in Seq(KeyEntry) /\ Len(devkeys) = Len(devkeysAddr)
      /\ devkeysAddr \in Seq(Addrs)
      /\ KeyHandles \subseteq Handles /\ NoHandle \notin KeyHandles
  BY <1>1, TransmissionAssumption DEF Typed, Shape, Places, Handles
<1>4. pc'["cfg"] = "done"
  <2>1. \E c, place : Die("tx") \/ Issue("tx", c) \/ Goto("tx", place)
    BY AcquireTyped
  <2> QED BY <1>2, <1>3, <2>1 DEF Die, Issue, Goto, Shape, Threads, Senders
<1>5. /\ OwnKeys({}) /\ Len(devkeys) <= MaxDevkeys
      /\ OwnAddrs({}) /\ Len(addresses) <= MaxAddresses
  BY <1>1 DEF KeyRoom, AddrRoom, Sending
<1>6. ASSUME UNCHANGED devkeys, pc'["tx"] = "clear",
             cmd'["tx"].op \in {"addr_del", "addr_add", "send"}
      PROVE  KeysLeft'
  BY <1>1, <1>5, <1>6 DEF KeysLeft, OwnKeys
<1>7. ASSUME UNCHANGED addresses, pc'["tx"] = "clear",
             cmd'["tx"].op \in {"devkey_del", "devkey_add"}
      PROVE  AddrsLeft'
  BY <1>1, <1>5, <1>7 DEF AddrsLeft, OwnAddrs
<1> SUFFICES KeysLeft' /\ AddrsLeft' /\ pc'["tx"] = "clear"
  BY <1>1, <1>2, <1>4, RoomAgain
<1>8. ASSUME NEW key \in Handles, key # NoHandle, FindAddress(m, key), UNCHANGED devkeys
      PROVE  KeysLeft' /\ AddrsLeft' /\ pc'["tx"] = "clear"
  <2>1. AddrsLeft' /\ pc'["tx"] = "clear" /\ cmd'["tx"].op \in {"addr_del", "addr_add", "send"}
    BY <1>1, <1>3, <1>5, <1>8, RoomFind
  <2> QED BY <1>6, <1>8, <2>1
<1>9. CASE Dst[m] \notin Keys
  BY <1>2, <1>3, <1>8, <1>9 DEF Acquire
<1>10. CASE Dst[m] \in Keys
  <2>0. FindDevkey(m)
    BY <1>10 DEF Acquire
  <2>1. CASE \E i \in CachedKey(m) : FindAddress(m, devkeys[i].handle) /\ UNCHANGED devkeys
    <3>1. PICK i \in DOMAIN devkeys : FindAddress(m, devkeys[i].handle)
      BY <2>1 DEF CachedKey
    <3>2. devkeys[i].handle \in KeyHandles
      BY <1>1 DEF KeysRight, KeyHeld
    <3> QED BY <1>3, <1>8, <2>1, <3>1, <3>2
  <2>2. CASE \E i \in DOMAIN devkeys : DropDevkey(i) /\ UNCHANGED addresses
    <3>1. KeysLeft' /\ pc'["tx"] = "clear" /\ cmd'["tx"].op = "devkey_del"
      BY <1>1, <1>5, <2>2, RoomDrop
    <3> QED BY <1>7, <2>2, <3>1
  <2>3. CASE /\ Len(devkeys) < MaxDevkeys /\ Issue("tx", Add("devkey_add", Dst[m]))
             /\ UNCHANGED <<devkeys, addresses>>
    <3>1. Add("devkey_add", Dst[m]) \in Commands /\ Add("devkey_add", Dst[m]).op = "devkey_add"
      BY <1>10, AddTyped
    <3>2. pc'["tx"] = "clear" /\ cmd'["tx"].op = "devkey_add"
      BY <1>3, <2>3, <3>1, IssueTyped DEF Senders
    <3>3. KeysLeft'
      BY <1>1, <1>5, <2>3, <3>2 DEF KeysLeft, OwnKeys
    <3> QED BY <1>7, <2>3, <3>2, <3>3
  <2>4. ASSUME Len(devkeys) >= MaxDevkeys PROVE 1 \in DOMAIN devkeys
    BY <1>3, <2>4, TransmissionAssumption
  <2>5. \A i \in AddrIndex(AddrOf[Dst[m]]) : i \in DOMAIN devkeys
    BY <1>3 DEF AddrIndex
  <2> QED BY <2>0, <2>1, <2>2, <2>3, <2>4, <2>5 DEF FindDevkey
<1> QED BY <1>9, <1>10

LEMMA RoomTakeTx ==
  ASSUME Typed, Typed', Once, Exchange, Right, Room, TakeTx
  PROVE  Room'
<1> DEFINE m == tx.msg
           e == slot.response
           h == e.handle
           op == cmd["tx"].op
<1> SUFFICES ASSUME quiet' PROVE Room'
  BY DEF Room
<1>1. /\ Exchange' /\ quiet /\ pc["tx"] = "take" /\ pc["tx"] \in Sending /\ UNCHANGED dev
      /\ AppRight /\ KeyRoom /\ AddrRoom /\ HandRight(cmd["tx"], m, tx.key)
  BY ExchangeTx DEF TakeTx, device, Right, Room, Sending
<1>2. pc["cfg"] = "done" /\ appkey # NoHandle
  BY <1>1 DEF Once, AppRight
<1>3. /\ Shape /\ m \in Messages /\ appkey \in Handles /\ Addr(m) \in Addrs
      /\ devkeys \in Seq(KeyEntry) /\ addresses \in Seq(AddrEntry) /\ h \in Handles
      /\ KeyHandles \subseteq Handles /\ NoHandle \notin KeyHandles
      /\ op \in {"devkey_del", "devkey_add"} => Dst[m] \in Keys
      /\ op \in TxOps
  BY <1>1, AddrTyped, TransmissionAssumption DEF Typed, Shape, Places, Handles, Events, Event
<1>4. pc'["cfg"] = "done"
  <2>1. \E c, place : Die("tx") \/ Issue("tx", c) \/ Goto("tx", place)
    BY TakeTxTyped
  <2> QED BY <1>2, <1>3, <2>1 DEF Die, Issue, Goto, Shape, Threads, Senders
<1>5. e \in Events /\ Answer(e) /\ e.op = op /\ (HasHandle(e) => HandleRight(e))
  <2>1. InSlot /\ Sees("tx")
    BY <1>1 DEF InSlot, Sees, Senders
  <2>2. e \in Events /\ Answer(e)
    BY <1>3, <2>1 DEF Answer, Shape
  <2> QED BY <1>1, <2>1, <2>2 DEF Exchange, Right, Senders
<1>6. /\ op \in {"devkey_add", "addr_add"} => HasHandle(e)
      /\ op = "devkey_add" => OwnKeys({h}) /\ Len(devkeys) < MaxDevkeys
      /\ op = "devkey_del" => OwnKeys({}) /\ Len(devkeys) < MaxDevkeys
      /\ op \notin {"devkey_add", "devkey_del"} => OwnKeys({})
      /\ op = "addr_add" => OwnAddrs({h}) /\ Len(addresses) < MaxAddresses
      /\ op = "addr_del" => OwnAddrs({}) /\ Len(addresses) < MaxAddresses
      /\ op \notin {"addr_add", "addr_del"} => OwnAddrs({})
      /\ Len(devkeys) <= MaxDevkeys /\ Len(addresses) <= MaxAddresses
  BY <1>1, <1>5 DEF KeyRoom, AddrRoom
<1> HIDE DEF h
<1>7. ASSUME UNCHANGED devkeys, op # "devkey_add",
             \/ pc'["tx"] = "get"
             \/ pc'["tx"] = "clear" /\ cmd'["tx"].op \in {"devkey_add", "addr_add", "send"},
             cmd'["tx"].op = "devkey_add" => op = "devkey_del" \/ pc'["tx"] = "get"
      PROVE  KeysLeft'
  BY <1>1, <1>6, <1>7 DEF KeysLeft, OwnKeys, Sending
<1>8. ASSUME UNCHANGED addresses, op # "addr_add",
             \/ pc'["tx"] = "get"
             \/ pc'["tx"] = "clear" /\ cmd'["tx"].op \in {"devkey_add", "addr_add"},
             cmd'["tx"].op = "addr_add" => op = "addr_del" \/ pc'["tx"] = "get"
      PROVE  AddrsLeft'
  BY <1>1, <1>6, <1>8 DEF AddrsLeft, OwnAddrs, Sending
<1> SUFFICES KeysLeft' /\ AddrsLeft' /\ pc'["tx"] \in {"clear", "get"}
  BY <1>1, <1>2, <1>4, RoomAgain
<1>9. CASE op = "devkey_del"
  <2>1. Issue("tx", Add("devkey_add", Dst[m])) /\ UNCHANGED <<devkeys, addresses>>
    BY <1>9 DEF TakeTx
  <2>2. Add("devkey_add", Dst[m]) \in Commands /\ Add("devkey_add", Dst[m]).op = "devkey_add"
    BY <1>3, <1>9, AddTyped
  <2>3. pc'["tx"] = "clear" /\ cmd'["tx"].op = "devkey_add"
    BY <1>3, <2>1, <2>2, IssueTyped DEF Senders
  <2> QED BY <1>7, <1>8, <1>9, <2>1, <2>3
<1>10. CASE op = "devkey_add"
  <2>1. /\ devkeys' = Append(devkeys, [key |-> Dst[m], handle |-> h])
        /\ FindAddress(m, h)
    BY <1>6, <1>10 DEF TakeTx, h
  <2>2. h \in KeyHandles
    BY <1>5, <1>6, <1>10 DEF HandleRight, KeyHeld, h
  <2>3. AddrsLeft' /\ pc'["tx"] = "clear" /\ cmd'["tx"].op \in {"addr_del", "addr_add", "send"}
    BY <1>1, <1>3, <1>6, <1>10, <2>1, <2>2, RoomFind
  <2>4. [key |-> Dst[m], handle |-> h] \in KeyEntry
    BY <1>3, <1>10, <2>2 DEF KeyEntry
  <2>5. /\ \A i \in DOMAIN devkeys : i \in DOMAIN devkeys' /\ devkeys'[i] = devkeys[i]
        /\ Len(devkeys) + 1 \in DOMAIN devkeys'
        /\ devkeys'[Len(devkeys) + 1] = [key |-> Dst[m], handle |-> h]
    BY <1>3, <2>1, <2>4, AfterAppend
  <2>6. OwnKeys({})'
    <3>1. devkeys'[Len(devkeys) + 1].handle = h
      BY <2>5
    <3>2. ASSUME NEW x \in KeyHandles, dev'.keys[x] \in Keys
          PROVE  \E i \in DOMAIN devkeys' : devkeys'[i].handle = x
      <4>1. x = h \/ \E i \in DOMAIN devkeys : devkeys[i].handle = x
        BY <1>1, <1>6, <1>10, <3>2 DEF OwnKeys
      <4> QED BY <2>5, <3>1, <4>1
    <3> QED BY <3>2 DEF OwnKeys
  <2>7. Len(devkeys') <= MaxDevkeys
    <3>1. Len(devkeys') = Len(devkeys) + 1 /\ Len(devkeys) \in Nat /\ MaxDevkeys \in Nat
      BY <1>3, <2>1, TransmissionAssumption
    <3> QED BY <1>6, <1>10, <3>1
  <2>8. KeysLeft'
    BY <2>3, <2>6, <2>7 DEF KeysLeft, Sending
  <2> QED BY <2>3, <2>8
<1>11. CASE op = "addr_del"
  <2>1. Issue("tx", Add("addr_add", Addr(m))) /\ UNCHANGED <<devkeys, addresses>>
    BY <1>11 DEF TakeTx
  <2>2. Add("addr_add", Addr(m)) \in Commands /\ Add("addr_add", Addr(m)).op = "addr_add"
    BY <1>3, AddTyped
  <2>3. pc'["tx"] = "clear" /\ cmd'["tx"].op = "addr_add"
    BY <1>3, <2>1, <2>2, IssueTyped DEF Senders
  <2> QED BY <1>7, <1>8, <1>11, <2>1, <2>3
<1>12. CASE op = "addr_add"
  <2> DEFINE key == IF Dst[m] \in Keys THEN tx.key ELSE appkey
  <2>1. /\ addresses' = Append(addresses, [addr |-> Addr(m), handle |-> h])
        /\ SendPacket(m, key, h) /\ UNCHANGED devkeys
    BY <1>6, <1>12 DEF TakeTx, h
  <2>2. key \in Handles /\ key # NoHandle
    BY <1>1, <1>2, <1>3, <1>12 DEF HandRight, KeyHeld
  <2>3. h \in Handles
    BY <1>3 DEF h
  <2>4. PacketSend(key, h, m) \in Commands /\ PacketSend(key, h, m).op = "send"
    BY <1>3, <2>2, <2>3, SendTyped
  <2>5. pc'["tx"] = "clear" /\ cmd'["tx"].op = "send"
    BY <1>3, <2>1, <2>2, <2>4, IssueTyped DEF SendPacket, Senders
  <2>6. [addr |-> Addr(m), handle |-> h] \in AddrEntry
    BY <1>3, <2>3 DEF AddrEntry
  <2>7. /\ \A i \in DOMAIN addresses : i \in DOMAIN addresses' /\ addresses'[i] = addresses[i]
        /\ Len(addresses) + 1 \in DOMAIN addresses'
        /\ addresses'[Len(addresses) + 1] = [addr |-> Addr(m), handle |-> h]
    BY <1>3, <2>1, <2>6, AfterAppend
  <2>8. OwnAddrs({})'
    <3>1. addresses'[Len(addresses) + 1].handle = h
      BY <2>7
    <3>2. ASSUME NEW x \in AddrHandles, dev'.addrs[x] \in Addrs
          PROVE  \E i \in DOMAIN addresses' : addresses'[i].handle = x
      <4>1. x = h \/ \E i \in DOMAIN addresses : addresses[i].handle = x
        BY <1>1, <1>6, <1>12, <3>2 DEF OwnAddrs
      <4> QED BY <2>7, <3>1, <4>1
    <3> QED BY <3>2 DEF OwnAddrs
  <2>9. Len(addresses') <= MaxAddresses
    <3>1. Len(addresses') = Len(addresses) + 1 /\ Len(addresses) \in Nat /\ MaxAddresses \in Nat
      BY <1>3, <2>1, TransmissionAssumption
    <3> QED BY <1>6, <1>12, <3>1
  <2>10. AddrsLeft'
    BY <2>5, <2>8, <2>9 DEF AddrsLeft, Sending
  <2> QED BY <1>7, <1>12, <2>1, <2>5, <2>10
<1>13. CASE op = "send"
  <2>1. Goto("tx", "get") /\ UNCHANGED <<devkeys, addresses>>
    BY <1>13 DEF TakeTx
  <2>2. pc'["tx"] = "get"
    BY <1>3, <2>1 DEF Goto, Shape, Threads, Senders
  <2> QED BY <1>7, <1>8, <1>13, <2>1, <2>2
<1> QED BY <1>3, <1>9, <1>10, <1>11, <1>12, <1>13 DEF TxOps

-----------------------------------------------------------------------------
(* The configuration of the device. *)

LEMMA RoomTakeCfg ==
  ASSUME Typed, Typed', Once, Exchange, Room, TakeCfg
  PROVE  Room'
<1> DEFINE i == cmd["cfg"].step
<1> SUFFICES ASSUME quiet' PROVE Room'
  BY DEF Room
<1>1. /\ Exchange' /\ quiet /\ pc["cfg"] = "take" /\ pc["cfg"] \in Sending /\ pc["cfg"] # "done"
      /\ UNCHANGED <<dev, devkeys, addresses>>
      /\ pc["tx"] # "dead" /\ KeyRoom /\ AddrRoom /\ ConfigRoom
  BY ExchangeTakeCfg DEF TakeCfg, device, Room, Sending
<1>2. Shape /\ i \in 1..7
  BY <1>1 DEF Typed, Places
<1>3. /\ pc["tx"] \in {"get", "low", "ended"} /\ pc'["tx"] = pc["tx"]
      /\ \/ Die("cfg") \/ (Goto("cfg", "done") /\ UNCHANGED cmd)
         \/ i < 7 /\ Issue("cfg", Configure(i + 1))
  <2>1. Len(ConfigOps) = 7
    BY OpsAre
  <2> QED BY <1>1, <1>2, <2>1 DEF Once, TakeCfg, Die, Issue, Goto, Shape, Threads, Senders
<1>4. \/ pc'["cfg"] \in {"dead", "done"}
      \/ i < 7 /\ pc'["cfg"] = "clear" /\ cmd'["cfg"].step = i + 1
  <2>1. ASSUME i < 7
        PROVE  Configure(i + 1) \in Commands /\ Configure(i + 1).step = i + 1
    BY <1>2, <2>1, ConfigureTyped
  <2> QED BY <1>2, <1>3, <2>1, IssueTyped DEF Die, Goto, Shape, Threads, Senders
<1>5. \A f \in Events : ~Answer(f)'
  <2> SUFFICES ASSUME NEW f \in Events, Answer(f)' PROVE FALSE
    OBVIOUS
  <2>1. PICK t \in Senders : pc'[t] \in {"wait", "take"}
    BY <1>1, AnswerOfNext DEF AnswersOwned, AnswerHas
  <2> QED BY <1>3, <1>4, <2>1 DEF Senders
<1>6. KeyRoom' /\ AddrRoom'
  <2>1. OwnKeys({})' /\ OwnAddrs({})'
    BY <1>1, <1>3 DEF KeyRoom, AddrRoom, OwnKeys, OwnAddrs, Sending
  <2>2. Len(devkeys') <= MaxDevkeys /\ Len(addresses') <= MaxAddresses
    BY <1>1 DEF KeyRoom, AddrRoom
  <2> QED BY <1>3, <1>5, <2>1, <2>2 DEF KeyRoom, AddrRoom, Sending
<1>7. ConfigRoom'
  <2>1. Apps' = Apps /\ Groups' = Groups
    BY <1>1 DEF Apps, Groups
  <2>2. OneApp' /\ TwoGroups' /\ (OneGroup' <=> OneGroup)
    BY <1>1, <2>1 DEF ConfigRoom, OneApp, TwoGroups, OneGroup
  <2>3. CASE pc'["cfg"] \in {"dead", "done"}
    BY <2>2, <2>3 DEF ConfigRoom, Sending
  <2>4. CASE i < 7 /\ pc'["cfg"] = "clear" /\ cmd'["cfg"].step = i + 1
    <3>1. /\ i < 5 => Apps = {}
          /\ i < 6 => Groups = {}
          /\ i = 6 => OneGroup
      BY <1>1 DEF ConfigRoom
    <3>2. Groups = {} => OneGroup
      BY DEF OneGroup
    <3>3. /\ i + 1 < 5 \/ i + 1 = 5 => i < 5
          /\ i + 1 < 6 \/ i + 1 = 6 => i < 6
          /\ i + 1 = 6 => i < 6
          /\ i + 1 = 7 => i = 6
      BY <1>2
    <3>4. /\ cmd'["cfg"].step < 5 \/ (cmd'["cfg"].step = 5 /\ Unmade("cfg")') => Apps' = {}
          /\ cmd'["cfg"].step < 6 \/ (cmd'["cfg"].step = 6 /\ Unmade("cfg")') => Groups' = {}
          /\ cmd'["cfg"].step = 6 \/ (cmd'["cfg"].step = 7 /\ Unmade("cfg")') => OneGroup'
      BY <2>1, <2>2, <2>4, <3>1, <3>2, <3>3
    <3> QED BY <2>2, <2>4, <3>4 DEF ConfigRoom
  <2> QED BY <1>4, <2>3, <2>4
<1> QED BY <1>1, <1>3, <1>6, <1>7 DEF Room

\* A command of the configuration.
LEMMA RoomForCfg ==
  ASSUME Typed, Typed', Once, Right, Room, quiet, UNCHANGED <<pc, cmd, caches, quiet>>,
         pc["cfg"] = "wait", Order(cmd["cfg"]), ~Order(cmd["cfg"])',
         NEW e \in Events, e.op = cmd["cfg"].op, Makes(cmd["cfg"], e),
         \A f \in Events : Answer(f)' => f = e
  PROVE  Room'
<1> DEFINE c == cmd["cfg"]
           i == c.step
<1>1. /\ KeyRoom /\ AddrRoom /\ ConfigRoom /\ AppRight /\ pc["tx"] # "dead"
      /\ UNCHANGED <<devkeys, addresses>> /\ pc["cfg"] \in Sending /\ pc["cfg"] # "done"
      /\ Unmade("cfg") /\ ~Unmade("cfg")'
  BY DEF Room, Right, caches, Sending, Unmade
<1>2. /\ devkeys = <<>> /\ addresses = <<>> /\ pc["tx"] \in {"get", "low", "ended"} /\ Shape
      /\ i \in 1..7 /\ c.op = ConfigOps[i]
  BY <1>1 DEF AppRight, Once, Typed, Places
<1>3. /\ c.op \in {"state_clear", "unicast", "net_state", "subnet", "appkey_add", "subscribe"}
      /\ c.op = "appkey_add" => i = 5
      /\ c.op = "subscribe" => i \in {6, 7}
  <2>1. /\ ConfigOps[5] = "appkey_add" /\ ConfigOps[1] = "state_clear"
        /\ ConfigOps[2] = "unicast" /\ ConfigOps[3] = "net_state" /\ ConfigOps[4] = "subnet"
        /\ ConfigOps[6] = "subscribe" /\ ConfigOps[7] = "subscribe"
    BY DEF ConfigOps
  <2>2. i \in {1, 2, 3, 4, 5, 6, 7}
    BY <1>2
  <2> QED BY <1>2, <2>1, <2>2
<1>4. /\ \A h \in KeyHandles : dev.keys[h] \notin Keys
      /\ \A h \in AddrHandles : dev.addrs[h] \notin Addrs
  <2>1. OwnKeys({}) /\ OwnAddrs({})
    BY <1>1, <1>2 DEF KeyRoom, AddrRoom, Sending
  <2> QED BY <1>2, <2>1 DEF OwnKeys, OwnAddrs
<1>5. /\ "app" \notin Keys /\ "free" \notin Keys /\ "group" \notin Addrs /\ "free" \notin Addrs
      /\ dev.keys \in KeyTable /\ dev.addrs \in AddrTable
  BY <1>2, TransmissionAssumption DEF Shape, Tables
<1>6. /\ i < 5 \/ i = 5 => Apps = {}
      /\ i < 6 \/ i = 6 => Groups = {}
      /\ i = 6 \/ i = 7 => OneGroup
      /\ OneApp /\ TwoGroups
  BY <1>1 DEF ConfigRoom
<1> DEFINE Rest == /\ \A h \in KeyHandles : dev'.keys[h] \notin Keys
                   /\ \A h \in AddrHandles : dev'.addrs[h] \notin Addrs
                   /\ OneApp' /\ TwoGroups'
                   /\ i < 5 => Apps' = {}
                   /\ i < 6 => Groups' = {}
                   /\ i = 6 => OneGroup'
<1>7. ASSUME Rest
      PROVE  Room'
  <2>1. OwnKeys({})' /\ OwnAddrs({})'
    BY <1>7 DEF OwnKeys, OwnAddrs
  <2>2. Len(devkeys') <= MaxDevkeys /\ Len(addresses') <= MaxAddresses
    BY <1>1 DEF KeyRoom, AddrRoom
  <2>3. \A f \in Events : Answer(f)' =>
          f.op \notin {"devkey_add", "devkey_del", "addr_add", "addr_del"}
    BY <1>3
  <2>4. KeyRoom' /\ AddrRoom'
    BY <1>2, <2>1, <2>2, <2>3 DEF KeyRoom, AddrRoom, Sending
  <2>5. ConfigRoom'
    BY <1>1, <1>7 DEF ConfigRoom
  <2> QED BY <1>1, <2>4, <2>5 DEF Room
<1> SUFFICES Rest
  BY <1>7
<1>8. CASE c.op = "state_clear"
  <2>1. /\ \A h \in KeyHandles : dev'.keys[h] = "free"
        /\ \A h \in AddrHandles : dev'.addrs[h] = "free"
    BY <1>8 DEF Makes, Empty
  <2>2. Apps' = {} /\ Groups' = {}
    BY <2>1 DEF Apps, Groups
  <2> QED BY <1>5, <2>1, <2>2 DEF OneApp, OneGroup, TwoGroups
<1>9. CASE c.op = "appkey_add"
  <2>1. dev'.addrs = dev.addrs
    BY <1>9 DEF Makes
  <2>2. \A h \in KeyHandles : dev'.keys[h] = dev.keys[h] \/ (dev'.keys[h] = "app" /\ h = e.handle)
    BY <1>5, <1>9 DEF Makes, KeyTable, KeyHeld
  <2>3. Groups' = Groups
    BY <2>1 DEF Groups
  <2>4. Apps = {} /\ i = 5
    BY <1>3, <1>6, <1>9
  <2>5. \A h \in Apps' : h = e.handle
    BY <2>2, <2>4 DEF Apps
  <2>6. OneApp' /\ TwoGroups' /\ (OneGroup' <=> OneGroup)
    BY <1>6, <2>3, <2>5 DEF OneApp, OneGroup, TwoGroups
  <2> QED BY <1>4, <1>5, <1>6, <2>1, <2>2, <2>3, <2>4, <2>6
<1>10. CASE c.op = "subscribe"
  <2>1. dev'.keys = dev.keys
    BY <1>10 DEF Makes
  <2>2. \A h \in AddrHandles :
          dev'.addrs[h] = dev.addrs[h] \/ (dev'.addrs[h] = "group" /\ h = e.handle)
    BY <1>5, <1>10 DEF Makes, AddrTable, AddrHeld
  <2>3. Apps' = Apps
    BY <2>1 DEF Apps
  <2>4. \A h \in Groups' : h \in Groups \/ h = e.handle
    BY <2>2 DEF Groups
  <2>5. OneApp'
    BY <1>6, <2>3 DEF OneApp
  <2>6. OneGroup /\ i \in {6, 7} /\ (i = 6 => Groups = {})
    BY <1>3, <1>6, <1>10
  <2>7. TwoGroups'
    BY <2>4, <2>6 DEF OneGroup, TwoGroups
  <2>8. i = 6 => OneGroup'
    BY <2>4, <2>6 DEF OneGroup
  <2> QED BY <1>4, <1>5, <2>1, <2>2, <2>5, <2>6, <2>7, <2>8
<1>11. CASE c.op \in {"unicast", "net_state", "subnet"}
  <2>1. dev'.keys = dev.keys /\ dev'.addrs = dev.addrs
    BY <1>11 DEF Makes
  <2>2. Apps' = Apps /\ Groups' = Groups
    BY <2>1 DEF Apps, Groups
  <2>3. OneApp' /\ TwoGroups' /\ (OneGroup' <=> OneGroup)
    BY <1>6, <2>2 DEF OneApp, OneGroup, TwoGroups
  <2> QED BY <1>4, <1>6, <2>1, <2>2, <2>3
<1> QED BY <1>3, <1>8, <1>9, <1>10, <1>11

-----------------------------------------------------------------------------
(* The commands of the transmission thread: none is refused a row. *)

LEMMA RoomForTx ==
  ASSUME RoomEnough, Typed, Typed', Once, Right, Room, quiet,
         UNCHANGED <<pc, cmd, caches, quiet>>,
         pc["tx"] = "wait", Order(cmd["tx"]), ~Order(cmd["tx"])',
         NEW e \in Events, e.op = cmd["tx"].op, Makes(cmd["tx"], e),
         \A f \in Events : Answer(f)' => f = e
  PROVE  Room'
<1> DEFINE c == cmd["tx"]
<1>1. /\ KeyRoom /\ AddrRoom /\ ConfigRoom /\ HandRight(c, tx.msg, tx.key)
      /\ UNCHANGED <<devkeys, addresses>> /\ pc["tx"] \in Sending
      /\ Unmade("tx") /\ ~Unmade("tx")' /\ pc["cfg"] = "done"
  BY DEF Room, Right, caches, Sending, Unmade, Once
<1>2. /\ Shape /\ c.op \in TxOps /\ tx.msg \in Messages /\ Addr(tx.msg) \in Addrs
      /\ dev.keys \in KeyTable /\ dev.addrs \in AddrTable
      /\ c.op = "devkey_add" => Dst[tx.msg] \in Keys
  BY <1>1, AddrTyped DEF Typed, Places, Sending, Shape, Tables
<1>3. /\ "app" \notin Keys /\ "free" \notin Keys /\ "group" \notin Addrs /\ "free" \notin Addrs
  BY TransmissionAssumption
<1>4. /\ c.op = "devkey_del" => OwnKeys({c.handle}) /\ Len(devkeys) < MaxDevkeys
      /\ c.op = "devkey_add" => OwnKeys({}) /\ Len(devkeys) < MaxDevkeys
      /\ c.op \notin {"devkey_del", "devkey_add"} => OwnKeys({})
      /\ c.op = "addr_del" => OwnAddrs({c.handle}) /\ Len(addresses) < MaxAddresses
      /\ c.op = "addr_add" => OwnAddrs({}) /\ Len(addresses) < MaxAddresses
      /\ c.op \notin {"addr_del", "addr_add"} => OwnAddrs({})
      /\ Len(devkeys) <= MaxDevkeys /\ Len(addresses) <= MaxAddresses
      /\ OneApp /\ TwoGroups
  BY <1>1 DEF KeyRoom, AddrRoom, ConfigRoom
<1> DEFINE KeyRest == /\ c.op = "devkey_add" => HasHandle(e) /\ OwnKeys({e.handle})'
                      /\ c.op # "devkey_add" => OwnKeys({})'
                      /\ Apps' \subseteq Apps
           AddrRest == /\ c.op = "addr_add" => HasHandle(e) /\ OwnAddrs({e.handle})'
                       /\ c.op # "addr_add" => OwnAddrs({})'
                       /\ Groups' \subseteq Groups
<1>5. ASSUME KeyRest, AddrRest
      PROVE  Room'
  <2>1. ConfigRoom'
    <3>1. OneApp' /\ TwoGroups'
      BY <1>4, <1>5 DEF OneApp, TwoGroups
    <3> QED BY <1>1, <3>1 DEF ConfigRoom, Sending
  <2>2. OwnKeys({})' => OwnKeys({cmd["tx"].handle})'
    BY DEF OwnKeys
  <2>3. OwnAddrs({})' => OwnAddrs({cmd["tx"].handle})'
    BY DEF OwnAddrs
  <2>4. KeyRoom'
    BY <1>1, <1>4, <1>5, <2>2 DEF KeyRoom, HasHandle
  <2>5. AddrRoom'
    BY <1>1, <1>4, <1>5, <2>3 DEF AddrRoom, HasHandle
  <2> QED BY <2>1, <2>4, <2>5, <1>1 DEF Room, Sending
<1>6. ASSUME dev'.keys = dev.keys, c.op \notin {"devkey_add", "devkey_del"}
      PROVE  KeyRest
  BY <1>1, <1>4, <1>6 DEF OwnKeys, Apps
<1>7. ASSUME dev'.addrs = dev.addrs, c.op \notin {"addr_add", "addr_del"}
      PROVE  AddrRest
  BY <1>1, <1>4, <1>7 DEF OwnAddrs, Groups
<1> SUFFICES KeyRest /\ AddrRest
  BY <1>5
<1>8. CASE c.op = "devkey_add"
  <2>1. FreeRows(dev.keys) # {}
    BY <1>2, <1>4, <1>8, FreeKey
  <2>2. /\ HasHandle(e) /\ KeyHeld(e.handle, "free") /\ dev'.addrs = dev.addrs
        /\ dev'.keys = [dev.keys EXCEPT ![e.handle] = c.what]
    BY <1>8, <2>1 DEF Makes
  <2>3. c.what \in Keys
    BY <1>1, <1>2, <1>8 DEF HandRight
  <2>4. \A h \in KeyHandles :
          dev'.keys[h] = dev.keys[h] \/ (h = e.handle /\ dev'.keys[h] = c.what)
    BY <1>2, <2>2 DEF KeyTable
  <2>5. OwnKeys({e.handle})'
    BY <1>1, <1>4, <1>8, <2>4 DEF OwnKeys
  <2>6. Apps' \subseteq Apps
    BY <1>3, <2>3, <2>4 DEF Apps
  <2> QED BY <1>7, <1>8, <2>2, <2>5, <2>6
<1>9. CASE c.op = "devkey_del"
  <2>1. dev'.addrs = dev.addrs /\ dev'.keys = Freed(dev.keys, c.handle, Keys)
    BY <1>9 DEF Makes
  <2>2. \A h \in KeyHandles :
          dev'.keys[h] = IF h = c.handle /\ dev.keys[h] \in Keys THEN "free" ELSE dev.keys[h]
    BY <1>2, <2>1 DEF Freed, KeyTable
  <2>3. OwnKeys({})'
    <3>1. ASSUME NEW h \in KeyHandles, dev'.keys[h] \in Keys
          PROVE  \E i \in DOMAIN devkeys' : devkeys'[i].handle = h
      <4>1. h # c.handle /\ dev.keys[h] \in Keys
        BY <1>3, <2>2, <3>1
      <4> QED BY <1>1, <1>4, <1>9, <4>1 DEF OwnKeys
    <3> QED BY <3>1 DEF OwnKeys
  <2>4. Apps' \subseteq Apps
    BY <2>2 DEF Apps
  <2> QED BY <1>7, <1>9, <2>1, <2>3, <2>4
<1>10. CASE c.op = "addr_add"
  <2>1. FreeRows(dev.addrs) # {}
    BY <1>2, <1>4, <1>10, FreeAddr
  <2>2. /\ HasHandle(e) /\ AddrHeld(e.handle, "free") /\ dev'.keys = dev.keys
        /\ dev'.addrs = [dev.addrs EXCEPT ![e.handle] = c.what]
    BY <1>10, <2>1 DEF Makes
  <2>3. c.what \in Addrs
    BY <1>1, <1>2, <1>10 DEF HandRight
  <2>4. \A h \in AddrHandles :
          dev'.addrs[h] = dev.addrs[h] \/ (h = e.handle /\ dev'.addrs[h] = c.what)
    BY <1>2, <2>2 DEF AddrTable
  <2>5. OwnAddrs({e.handle})'
    BY <1>1, <1>4, <1>10, <2>4 DEF OwnAddrs
  <2>6. Groups' \subseteq Groups
    BY <1>3, <2>3, <2>4 DEF Groups
  <2> QED BY <1>6, <1>10, <2>2, <2>5, <2>6
<1>11. CASE c.op = "addr_del"
  <2>1. dev'.keys = dev.keys /\ dev'.addrs = Freed(dev.addrs, c.handle, Addrs)
    BY <1>11 DEF Makes
  <2>2. \A h \in AddrHandles :
          dev'.addrs[h] = IF h = c.handle /\ dev.addrs[h] \in Addrs THEN "free" ELSE dev.addrs[h]
    BY <1>2, <2>1 DEF Freed, AddrTable
  <2>3. OwnAddrs({})'
    <3>1. ASSUME NEW h \in AddrHandles, dev'.addrs[h] \in Addrs
          PROVE  \E i \in DOMAIN addresses' : addresses'[i].handle = h
      <4>1. h # c.handle /\ dev.addrs[h] \in Addrs
        BY <1>3, <2>2, <3>1
      <4> QED BY <1>1, <1>4, <1>11, <4>1 DEF OwnAddrs
    <3> QED BY <3>1 DEF OwnAddrs
  <2>4. Groups' \subseteq Groups
    BY <2>2 DEF Groups
  <2> QED BY <1>6, <1>11, <2>1, <2>3, <2>4
<1>12. CASE c.op = "send"
  <2>1. dev'.keys = dev.keys /\ dev'.addrs = dev.addrs
    BY <1>12 DEF Makes
  <2> QED BY <1>6, <1>7, <1>12, <2>1
<1> QED BY <1>2, <1>8, <1>9, <1>10, <1>11, <1>12 DEF TxOps

LEMMA RoomCommand ==
  ASSUME RoomEnough, Typed, Typed', Once, Exchange, Right, Room, DeviceCommand
  PROVE  Room'
<1> DEFINE c == toDevice[1]
<1> SUFFICES ASSUME quiet' PROVE Room'
  BY DEF Room
<1>1. PICK e \in Events : e.type = "rsp" /\ e.op = c.op /\ Emit(e) /\ Makes(c, e)
  BY DeviceMakes
<1>2. /\ c \in Commands /\ toDevice # <<>> /\ toDevice \in Seq(Commands)
      /\ toDevice' = Tail(toDevice)
  BY DeviceMakes DEF DeviceCommand, Typed, Shape
<1>3. quiet /\ UNCHANGED <<pc, cmd, caches, quiet>>
  BY DEF DeviceCommand
<1>4. Exchange' /\ \A f \in Events : Answer(f)' => Answer(f) \/ (Live(c.op) /\ f = e)
  BY <1>1, <1>2, ExchangeCommand
<1>5. /\ \A d \in Commands : Order(d)' => Order(d)
      /\ Live(c.op) => \A d \in Commands : ~Order(d)'
  BY <1>2, <1>3, OrderTaken DEF Typed, Exchange
<1>6. cmd["tx"] \in Commands /\ cmd["cfg"] \in Commands
  BY DEF Typed, Shape, Senders
<1>7. CASE ~Live(c.op)
  <2>1. c.op \in {"reset", "unsubscribe"}
    BY <1>7 DEF Live
  <2>2. dev'.keys = dev.keys /\ dev'.addrs = dev.addrs
    BY <1>1, <2>1 DEF Makes
  <2>3. Fewer
    BY <1>4, <1>7 DEF Fewer
  <2>4. Onward("tx") /\ Onward("cfg")
    BY <1>3, <1>5, <1>6 DEF Onward, Unmade
  <2>5. pc["tx"] # "dead"
    BY <1>3 DEF Room
  <2> QED BY <1>3, <2>2, <2>3, <2>4, <2>5, RoomStill
<1>8. CASE Live(c.op)
  <2>1. Order(c)
    <3>1. 1 \in DOMAIN toDevice
      BY <1>2
    <3> QED BY <1>8, <3>1 DEF Order
  <2>2. PICK t \in Senders : pc[t] = "wait" /\ c = cmd[t]
    BY <1>2, <1>3, <2>1 DEF Exchange
  <2>3. \A f \in Events : ~Answer(f)
    BY <1>2, <1>3, <2>1, AnswerOf DEF AnswersOwned, AnswerHas
  <2>4. \A f \in Events : Answer(f)' => f = e
    BY <1>4, <2>3
  <2>5. CASE t = "cfg"
    <3>1. Order(cmd["cfg"]) /\ ~Order(cmd["cfg"])'
      <4>1. c = cmd["cfg"] /\ cmd'["cfg"] = cmd["cfg"]
        BY <1>3, <2>2, <2>5
      <4>2. Order(cmd["cfg"])
        BY <2>1, <4>1
      <4>3. ~Order(cmd["cfg"])'
        BY <1>5, <1>6, <1>8, <4>1
      <4> QED BY <4>2, <4>3
    <3>2. e.op = cmd["cfg"].op /\ Makes(cmd["cfg"], e)
      BY <1>1, <2>2, <2>5
    <3> QED BY <1>3, <2>2, <2>4, <2>5, <3>1, <3>2, RoomForCfg
  <2>6. CASE t = "tx"
    <3>1. Order(cmd["tx"]) /\ ~Order(cmd["tx"])'
      <4>1. c = cmd["tx"] /\ cmd'["tx"] = cmd["tx"]
        BY <1>3, <2>2, <2>6
      <4>2. Order(cmd["tx"])
        BY <2>1, <4>1
      <4>3. ~Order(cmd["tx"])'
        BY <1>5, <1>6, <1>8, <4>1
      <4> QED BY <4>2, <4>3
    <3>2. e.op = cmd["tx"].op /\ Makes(cmd["tx"], e)
      BY <1>1, <2>2, <2>6
    <3> QED BY <1>3, <2>2, <2>4, <2>6, <3>1, <3>2, RoomForTx
  <2> QED BY <2>5, <2>6 DEF Senders
<1> QED BY <1>7, <1>8

\* A restart in the quiet finds the thread that configures the device not started.
LEMMA RoomRestart ==
  ASSUME Typed, Typed', Once, Exchange, Right, Room, DeviceReset \/ PowerCycle
  PROVE  Room'
<1> SUFFICES ASSUME quiet' PROVE Room'
  BY DEF Room
<1>1. /\ UNCHANGED <<pc, caches, cmd>> /\ dev' = Empty
      /\ quiet' = (quiet /\ restarts = 0)
  BY RestartOf DEF Restart, DeviceReset, PowerCycle
<1>2. quiet /\ ~heard
  <2>1. quiet /\ restarts = 0
    BY <1>1
  <2>2. ~(restarts > 0)
    BY <2>1
  <2> QED BY <2>1, <2>2 DEF Once
<1>3. pc["cfg"] = "none" /\ pc["tx"] \in {"get", "low", "ended"} /\ KeyRoom /\ AddrRoom
  BY <1>2 DEF Once, Room
<1>4. /\ \A h \in KeyHandles : dev'.keys[h] = "free"
      /\ \A h \in AddrHandles : dev'.addrs[h] = "free"
  BY <1>1 DEF Empty
<1>5. OwnKeys({})' /\ OwnAddrs({})'
  BY <1>4, TransmissionAssumption DEF OwnKeys, OwnAddrs
<1>6. Apps' = {} /\ Groups' = {}
  BY <1>4 DEF Apps, Groups
<1>7. ConfigRoom'
  BY <1>1, <1>3, <1>6 DEF ConfigRoom, OneApp, TwoGroups, Sending
<1>8. \A f \in Events : ~Answer(f)'
  <2> SUFFICES ASSUME NEW f \in Events, Answer(f)' PROVE FALSE
    OBVIOUS
  <2>1. PICK t \in Senders : pc'[t] \in {"wait", "take"}
    BY ExchangeDevice, AnswerOfNext DEF AnswersOwned, AnswerHas
  <2> QED BY <1>1, <1>3, <2>1 DEF Senders
<1>9. Len(devkeys') <= MaxDevkeys /\ Len(addresses') <= MaxAddresses
  BY <1>1, <1>3 DEF KeyRoom, AddrRoom, caches
<1>10. KeyRoom' /\ AddrRoom'
  BY <1>1, <1>3, <1>5, <1>8, <1>9 DEF KeyRoom, AddrRoom, Sending
<1> QED BY <1>1, <1>3, <1>7, <1>10 DEF Room

LEMMA RoomNext ==
  ASSUME RoomEnough
  PROVE  Typed /\ Typed' /\ Deaf /\ Once /\ Exchange /\ Right /\ Room /\ [Next]_vars => Room'
<1> SUFFICES ASSUME Typed, Typed', Deaf, Once, Exchange, Right, Room, [Next]_vars PROVE Room'
  OBVIOUS
<1>1. CASE \/ \E m \in Messages : Submit(m)
           \/ TakeHigh \/ TryLow \/ TakeLow \/ EndRun
           \/ \E t \in Senders : SendCommand(t)
           \/ EvThread \/ ApiThread \/ Transmitted \/ UNCHANGED vars
  BY <1>1, RoomOthers
<1>2. CASE Acquire \/ TakeTx
  BY <1>2, RoomAcquire, RoomTakeTx
<1>3. CASE TakeCfg
  BY <1>3, RoomTakeCfg
<1>4. CASE DeviceCommand
  BY <1>4, RoomCommand
<1>5. CASE DeviceReset \/ PowerCycle
  BY <1>5, RoomRestart
<1> QED BY <1>1, <1>2, <1>3, <1>4, <1>5 DEF Next, TxThread, CfgThread, Device, Senders

-----------------------------------------------------------------------------
(* What follows. *)

\* The transmission thread does not die of a command the device refuses, whose
\* response holds no handle (struct.unpack in get_devkey_handle or
\* get_address_handle would raise, and nothing starts the thread again), for
\* any device with a row for each entry that MAX_DEVKEYS and MAX_ADDRESSES let
\* the caches hold and for what the configuration adds,
\* while the device has started once at most and no message was submitted
\* before it was configured.
THEOREM ThreadLives ==
  ASSUME RoomEnough
  PROVE  Spec => []TxAlive
<1> DEFINE I == QuietInv /\ Room
<1>1. Init => I
  BY InitHolds, OnceInit, ExchangeInit, RightInit, RoomInit DEF QuietInv
<1>2. I /\ [Next]_vars => I'
  <2> SUFFICES ASSUME QuietInv, Room, [Next]_vars PROVE QuietInv' /\ Room'
    OBVIOUS
  <2>1. IInv /\ Typed /\ Deaf /\ Once /\ Exchange /\ Right
    BY DEF QuietInv, IInv
  <2>2. IInv' /\ Typed'
    BY <2>1, NextHolds DEF IInv
  <2>3. Once' /\ Exchange'
    BY <2>1, OnceNext, ExchangeNext
  <2>4. Right'
    BY <2>1, <2>2, RightNext
  <2>5. Room'
    BY <2>1, <2>2, RoomNext
  <2> QED BY <2>2, <2>3, <2>4, <2>5 DEF QuietInv
<1>3. I => TxAlive
  BY DEF Room, TxAlive
<1> QED BY <1>1, <1>2, <1>3, PTL DEF Spec
====
