------------------------------- MODULE Transport -------------------------------
(***************************************************************************)
(* Messages between gateways (models/transport.py): a long one is cut into  *)
(* fragments, which the receiver puts together again.  Between the two: the *)
(* queues of the transmission manager of the sender, a mesh that loses,     *)
(* repeats and reorders packets, and the replay cache of the receiver       *)
(* (events/replay_cache.py), which takes a packet only if its sequence      *)
(* number is above all it has seen.  The numbers come from the device of    *)
(* the sender, which the library keeps from starting over after a crash by  *)
(* a file (dev_manager.py).                                                 *)
(*                                                                         *)
(* One gateway sends, one receives.  The device and the mesh are external.  *)
(***************************************************************************)
EXTENDS Integers, Sequences, FiniteSets, SequencesExt

CONSTANTS Messages,      \* what the application may send, each from its thread
          Loads,         \* sets of messages that it sends
          Size,          \* bytes of each message
          FragSize,      \* FRAG_SIZE
          ShortSize,     \* bytes that fit in one packet
          SeqBlock,      \* DeviceManager.SEQ_BLOCK
          None, Empty,   \* model values
          \* Bounds on the environment.
          MaxQueued,     \* packets in the queues of the sender
          MaxInAir,      \* packets in the mesh at a time
          MaxCrashes     \* power losses of the sender

ASSUME TransportAssumption ==
  /\ Loads \subseteq SUBSET Messages /\ Size \in [Messages -> Nat \ {0}]
  /\ FragSize \in Nat \ {0} /\ ShortSize \in Nat
  /\ SeqBlock \in Nat \ {0}
  /\ {MaxQueued, MaxInAir} \subseteq Nat \ {0} /\ MaxCrashes \in Nat
  /\ None \notin Nat \union (Messages \X Nat) /\ Empty \notin Nat /\ None # Empty
  /\ None \notin [len : Nat, packets : Seq((Messages \X Nat) \union {None})]

VARIABLES
  \* the gateway that sends
  load,        \* the messages to send
  sent,        \* per message: how many packets send_msg has submitted
  cut,         \* messages whose thread died in a power loss
  high, low,   \* send_queue, low_priority_queue
  boot,        \* config_device: at the file ("read", "write") or past it ("run")
  file,        \* the sequence-number file: None if absent, Empty if truncated
  updates,     \* SEQ_UPDATE events on their way
  writing,     \* dev_event_handler has the file open for a SEQ_UPDATE
  number,      \* external: the next sequence number of the device
  \* the mesh, external
  air,         \* packets on their way, with their numbers
  \* the gateway that receives
  cache,       \* ReplayCache.cache[src]; None without an entry
  frpkt,       \* TransportModel.frpkt[src]; None without an entry
  assembled,   \* history: what get_data has returned
  received,    \* TRANSPORT_RECV events
  \* history
  born, latest,  \* packets transmitted so far, the youngest one accepted
  startLost,   \* a FRAGMENT_START did not reach data_handler
  overlap,     \* fragments of two messages were submitted alternately
  stale,       \* power was lost while the file was empty or behind
  calm,        \* every packet transmitted reached data_handler, or may yet
  crashes

sender == <<load, sent, cut, high, low>>
numbers == <<boot, file, updates, writing, number>>
receiver == <<cache, frpkt, assembled, received>>
history == <<born, latest, startLost, overlap, stale, calm, crashes>>
vars == <<sender, numbers, air, receiver, history>>

\* math.ceil(n / FRAG_SIZE)
Fragments(n) == (n + FragSize - 1) \div FragSize

Content == Messages \X Nat
Short(m) == Size[m] <= ShortSize

Packet(kind, m, i) == [kind |-> kind, msg |-> m, seq |-> i, len |-> Size[m]]

\* What send_msg submits for a message, in order: fragments count from 0.
Packets ==
  [m \in Messages |->
     IF Short(m) THEN <<Packet("send", m, 0)>>
     ELSE <<Packet("start", m, 0)>>
          \o [i \in 1..Fragments(Size[m]) |-> Packet("data", m, i - 1)]
          \o <<Packet("end", m, 0)>>]

AllPackets == UNION {Range(Packets[m]) : m \in Messages}
\* A packet in the mesh: `at' is its place in the order of transmission, `again'
\* tells a copy of one that has been received.
InAir == [pkt : AllPackets, number : Nat, at : Nat, again : BOOLEAN]

\* What the message says, fragment by fragment.
Text ==
  [m \in Messages |-> [i \in 1..Fragments(Size[m]) |-> <<m, i - 1>>]]

Init ==
  /\ load \in Loads /\ sent = [m \in Messages |-> 0]
  /\ cut = {} /\ high = <<>> /\ low = <<>>
  /\ boot = "read" /\ file = None /\ updates = <<>> /\ writing = FALSE
  /\ number = 0
  /\ air = {}
  /\ cache = None /\ frpkt = None /\ assembled = <<>> /\ received = <<>>
  /\ born = 0 /\ latest = 0
  /\ startLost = FALSE /\ overlap = FALSE /\ stale = FALSE /\ calm = TRUE
  /\ crashes = 0

-----------------------------------------------------------------------------
(* The sender: send_msg in the thread of each message, one packet a step. *)

Begun(m) == sent[m] > 0
Underway(m) == Begun(m) /\ sent[m] < Len(Packets[m]) /\ m \notin cut

SendMsg(m) ==
  /\ boot = "run" /\ m \in load
  /\ sent[m] < Len(Packets[m]) /\ m \notin cut
  /\ Len(high) + Len(low) < MaxQueued
  /\ sent' = [sent EXCEPT ![m] = @ + 1]
  /\ LET p == Packets[m][sent[m] + 1] IN
     \/ p.kind = "send" /\ high' = Append(high, p) /\ UNCHANGED low
     \/ p.kind # "send" /\ low' = Append(low, p) /\ UNCHANGED high
  /\ overlap' = (overlap \/ (~Short(m) /\ \E o \in Messages \ {m} : Underway(o)))
  /\ UNCHANGED <<load, cut, numbers, air, receiver, born, latest, startLost, stale,
                 calm, crashes>>

-----------------------------------------------------------------------------
(* Sequence numbers: the file, config_device and SEQ_UPDATE. *)

\* Mutant: back to the start of the block.
NextBlockKept(seq) == SeqBlock * (seq \div SeqBlock)

NextBlock(seq) == SeqBlock * (seq \div SeqBlock + 1)

\* What config_device makes of the file; int("") raises ValueError.
Restored == IF file \in {None, Empty} THEN 0 ELSE NextBlock(file)

\* The file is read, and open(..., "w") truncates it.
ReadNumber ==
  /\ boot = "read"
  /\ number' = Restored
  /\ file' = Empty
  /\ boot' = "write"
  /\ UNCHANGED <<sender, updates, writing, air, receiver, history>>

\* The file is written and closed; SetNetState passes the number on.
WriteNumber ==
  /\ boot = "write"
  /\ file' = number
  /\ boot' = "run"
  /\ UNCHANGED <<sender, updates, writing, number, air, receiver, history>>

\* dev_event_handler opens the file, then writes and closes it.
OpenFile ==
  /\ updates # <<>> /\ ~writing
  /\ file' = Empty
  /\ writing' = TRUE
  /\ UNCHANGED <<sender, boot, updates, number, air, receiver, history>>

WriteUpdate ==
  /\ writing
  /\ file' = Head(updates)
  /\ updates' = Tail(updates)
  /\ writing' = FALSE
  /\ UNCHANGED <<sender, boot, number, air, receiver, history>>

\* Power is lost: process and device start over, the file stays as it is.
Crash ==
  /\ crashes < MaxCrashes
  /\ boot # "read"
  /\ crashes' = crashes + 1
  /\ cut' = cut \union {m \in Messages : Underway(m)}
  /\ high' = <<>> /\ low' = <<>>
  /\ boot' = "read" /\ updates' = <<>> /\ writing' = FALSE
  /\ number' = 0
  /\ stale' = (stale \/ file \notin Nat \/ number > file + SeqBlock)
  /\ calm' = (calm /\ high = <<>> /\ low = <<>>)
  /\ UNCHANGED <<load, sent, file, air, receiver, born, latest, startLost, overlap>>

-----------------------------------------------------------------------------
(* The device of the sender and the mesh; external. *)

\* The transmission manager takes the first queue first.  The device gives the
\* packet its number, and reports when it enters a block.
Transmit ==
  /\ boot = "run" /\ Cardinality(air) < MaxInAir
  /\ LET queue == IF high # <<>> THEN high ELSE low IN
     /\ queue # <<>>
     /\ air' = air \union {[pkt |-> Head(queue), number |-> number,
                             at |-> born + 1, again |-> FALSE]}
     /\ IF high # <<>> THEN high' = Tail(high) /\ UNCHANGED low
                       ELSE low' = Tail(low) /\ UNCHANGED high
  /\ born' = born + 1
  /\ number' = number + 1
  /\ updates' = IF (number + 1) % SeqBlock = 0 THEN Append(updates, number + 1)
                                               ELSE updates
  /\ UNCHANGED <<load, sent, cut, boot, file, writing, receiver, latest, startLost,
                 overlap, stale, calm, crashes>>

\* The packets of S do not reach data_handler any more.
Missing(S) ==
  /\ startLost' = (startLost \/ \E p \in S : p.pkt.kind = "start" /\ ~p.again)
  /\ calm' = (calm /\ \A p \in S : p.again)

Lose ==
  /\ \E p \in air : air' = air \ {p} /\ Missing({p})
  /\ UNCHANGED <<sender, numbers, receiver, born, latest, overlap, stale, crashes>>

-----------------------------------------------------------------------------
(* The receiver: check_seq_number in the receive thread, then data_handler. *)

\* Mutant: whatever comes is taken.
CheckNothing(seqNumber) == TRUE

CheckSeqNumber(seqNumber) == cache # None => seqNumber > cache

\* Mutant: no slot for a last fragment that is short.
NewFragmentedPktFloor(length) ==
  [len |-> length, packets |-> [i \in 1..(length \div FragSize) |-> None]]

NewFragmentedPkt(length) ==
  [len |-> length, packets |-> [i \in 1..Fragments(length) |-> None]]

\* Mutant: an unfinished packet is gone on with.
StartFragmentsOnce(p) ==
  /\ p.kind = "start"
  /\ frpkt' = IF frpkt = None THEN NewFragmentedPkt(p.len) ELSE frpkt
  /\ UNCHANGED <<assembled, received>>

\* FRAGMENT_START: the packet of this source starts afresh.
StartFragments(p) ==
  /\ p.kind = "start"
  /\ frpkt' = NewFragmentedPkt(p.len)
  /\ UNCHANGED <<assembled, received>>

\* FRAGMENT_DATA: add_data keeps what a slot holds; without a packet, or with a
\* number outside of it, an exception ends the dispatch.
AddData(p) ==
  /\ p.kind = "data"
  /\ frpkt' = IF /\ frpkt # None
                 /\ p.seq < frpkt.len
                 /\ p.seq + 1 \in DOMAIN frpkt.packets
                 /\ frpkt.packets[p.seq + 1] = None
              THEN [frpkt EXCEPT !.packets[p.seq + 1] = <<p.msg, p.seq>>]
              ELSE frpkt
  /\ UNCHANGED <<assembled, received>>

IsComplete == None \notin Range(frpkt.packets)

\* What data_handler puts in mesh_data, and what TransportRecv reads there: a
\* missing key raises KeyError and no event comes of it.
MeshData == {"rssi", "ttl", "src"}
RecvReads == {"rssi", "ttl", "src", "sequence_number"}

\* FRAGMENT_END: the packet is not forgotten; checksum() is always True.
EndFragments(p) ==
  /\ p.kind = "end"
  /\ IF frpkt # None /\ IsComplete
       THEN /\ assembled' = Append(assembled, frpkt.packets)
            /\ received' = IF RecvReads \subseteq MeshData
                             THEN Append(received, frpkt.packets) ELSE received
       ELSE UNCHANGED <<assembled, received>>
  /\ UNCHANGED frpkt

\* A message in one packet: the parser makes a TransportRecv of it.
ReceiveShort(p) ==
  /\ p.kind = "send"
  /\ received' = Append(received, Text[p.msg])
  /\ UNCHANGED <<frpkt, assembled>>

DataHandler(p) ==
  StartFragments(p) \/ AddData(p) \/ EndFragments(p) \/ ReceiveShort(p)

\* A packet arrives, and perhaps once more later.
Receive ==
  /\ \E p \in air :
       /\ air' \in {air \ {p}, (air \ {p}) \union {[p EXCEPT !.again = TRUE]}}
       /\ \/ /\ CheckSeqNumber(p.number)
             /\ cache' = p.number
             /\ latest' = p.at
             /\ DataHandler(p.pkt)
             /\ Missing({q \in air : q.number < p.number})
          \/ /\ ~CheckSeqNumber(p.number)
             /\ Missing({p})
             /\ UNCHANGED <<receiver, latest>>
  /\ UNCHANGED <<sender, numbers, born, overlap, stale, crashes>>

-----------------------------------------------------------------------------
Gateway == ReadNumber \/ WriteNumber \/ OpenFile \/ WriteUpdate

Next ==
  \/ \E m \in Messages : SendMsg(m)
  \/ Gateway \/ Crash
  \/ Transmit \/ Lose \/ Receive

Spec == Init /\ [][Next]_vars

-----------------------------------------------------------------------------
(* Properties *)

\* Everything has its type.
TypeOK ==
  /\ \A m \in Messages : sent[m] \in 0..Len(Packets[m])
  /\ load \in Loads /\ cut \subseteq load
  /\ high \in Seq(AllPackets) /\ low \in Seq(AllPackets)
  /\ boot \in {"read", "write", "run"}
  /\ file \in Nat \union {None, Empty}
  /\ updates \in Seq(Nat) /\ writing \in BOOLEAN /\ number \in Nat
  /\ air \subseteq InAir
  /\ cache \in Nat \union {None}
  /\ frpkt = None
       \/ /\ frpkt.packets \in [1..Fragments(frpkt.len) -> Content \union {None}]
          /\ frpkt.len \in Range(Size)
  /\ \A s \in {assembled, received} : s \in Seq(Seq(Content))
  /\ born \in Nat /\ latest \in 0..born /\ crashes \in Nat
  /\ {startLost, overlap, stale, calm} \subseteq BOOLEAN

\* What data_handler puts together is a message somebody sent, whole, and each
\* one once: fragments of two messages are never mixed, whatever the mesh loses,
\* repeats or reorders.  It takes three things the code does not see to: every
\* FRAGMENT_START arrives (the packet before is kept after its FRAGMENT_END), no
\* two threads are inside send_msg at a time, and no power loss makes the sequence
\* numbers start over (a late fragment from before may then be above the new ones).
Intact ==
  ~startLost /\ ~overlap /\ ~stale =>
    /\ \A i \in DOMAIN assembled : \E m \in Messages : assembled[i] = Text[m]
    /\ IsInjective(assembled)
    /\ IsInjective(received)

\* The replay cache takes what is younger than all it has taken, and refuses only
\* copies and what has been overtaken: sequence numbers rise with the order of
\* transmission, over power losses too, unless one came while the file was empty
\* or behind the device.
NumbersRise ==
  ~stale =>
    /\ \A p, q \in air : p.at < q.at <=> p.number < q.number
    /\ \A p \in air : p.at > latest <=> CheckSeqNumber(p.number)

\* A message whose packets have all arrived, in order and not mixed with others,
\* has been put together, or handed over in one piece: neither copies nor an
\* earlier message left half-way by a power loss get in its way.
Through(m) ==
  /\ sent[m] = Len(Packets[m])
  /\ \A p \in Range(high) \union Range(low) : p.msg # m
  /\ \A p \in air : p.pkt.msg = m => p.again
PutTogether ==
  calm /\ ~overlap =>
    \A m \in Messages : Through(m) => Text[m] \in Range(assembled) \union Range(received)

\* send_msg: "Sends the message msg to the node with the specified unicast
\* address. Use to communicate between gateways" (gateway.py:424): it arrives when
\* all its packets do.
Arrives ==
  calm /\ ~overlap => \A m \in Messages : Through(m) => Text[m] \in Range(received)
================================================================================
