---------------------------- MODULE TransportProofs ----------------------------
(***************************************************************************)
(* Transport: its types, the order of the sequence numbers, that no two     *)
(* messages are mixed, and that what arrives is put together.               *)
(*                                                                         *)
(* Numbers says that the device never starts again below a number it has    *)
(* used: what has been used is below the block that follows the file.  With *)
(* the numbers in the order of transmission, the packets that the receiver  *)
(* may still take (Ahead) are a part of what the sender submitted, in       *)
(* order.  Stream says what that order is: message by message, each from    *)
(* its FRAGMENT_START but for the one the receiver has begun.               *)
(*                                                                         *)
(* Arriving says of each message under way that the receiver has taken the  *)
(* first few of its packets and that nothing can come between the others,   *)
(* or that one of them is bound to be refused.                              *)
(***************************************************************************)
EXTENDS Transport, SequenceTheorems, TLAPS

-----------------------------------------------------------------------------
(* The inductive invariant, in parts. *)

\* The place of a packet among those of its message.
Place(k) ==
  CASE k.kind \in {"send", "start"} -> 1
    [] k.kind = "data" -> k.seq + 2
    [] OTHER -> Len(Packets[k.msg])

\* What the variables hold beyond TypeOK.
Shape ==
  /\ sent \in [Messages -> Nat] /\ \A m \in Messages : sent[m] > 0 => m \in load
  /\ \A i \in DOMAIN high : high[i].kind = "send"
  /\ \A i \in DOMAIN low : low[i].kind # "send"
  /\ frpkt = None \/ frpkt \in [len : Nat \ {0}, packets : Seq(Content \union {None})]
  /\ \A p \in air : p.at \in 1..born
  /\ \A p, q \in air : p.at = q.at => p.pkt = q.pkt
  /\ boot # "run" => high = <<>> /\ low = <<>> /\ updates = <<>>
  /\ writing => updates # <<>>
Typed == TypeOK /\ Shape

\* The sequence numbers.  Bound is above all the numbers used so far: the next one
\* of the device or, before the device has one, what the file will make it.
Bound == CASE boot # "read" -> number
           [] boot = "read" /\ file \in Nat -> file + SeqBlock
           [] OTHER -> 0
Multiple(n) == n % SeqBlock = 0
Rising == \A p, q \in air : p.at < q.at <=> p.number < q.number
Taken == \A p \in air : p.at > latest <=> CheckSeqNumber(p.number)
Used ==
  /\ \A p \in air : p.number < Bound
  /\ cache # None => cache < Bound
  /\ cache = None => latest = 0
\* A copy has been seen by the receiver.
Copies == \A p \in air : p.again => p.at <= latest
Blocks ==
  /\ file \in Nat => Multiple(file)
  /\ \A i \in DOMAIN updates : Multiple(updates[i])
  /\ boot = "write" => Multiple(number)
  /\ boot = "read" => file # Empty
Numbers == ~stale => Rising /\ Taken /\ Used /\ Copies /\ Blocks

\* The fragments that the receiver may still take, in the order of transmission.
Ahead ==
  {[pkt |-> p.pkt, at |-> p.at] :
     p \in {q \in air : q.at > latest /\ q.pkt.kind # "send"}}
  \union {[pkt |-> low[i], at |-> born + i] : i \in DOMAIN low}

\* Messages: some of the packets submitted, and of several some to come, and all.
Started == {m \in Messages : Begun(m)}
Going == {m \in Messages : Underway(m) /\ ~Short(m)}
Finished == {m \in Messages : sent[m] = Len(Packets[m])}

\* The parts of Stream: S is what is ahead, W the message whose FRAGMENT_START the
\* receiver has taken last, as a set.

\* Packets of one message in order, with none of another between them.
InOrder(S) ==
  /\ \A x, y \in S : x.at = y.at => x = y
  /\ \A x, y \in S :
       x.pkt.msg = y.pkt.msg /\ x.at < y.at => Place(x.pkt) < Place(y.pkt)
  /\ \A x, y, z \in S :
       x.pkt.msg = z.pkt.msg /\ x.at < y.at /\ y.at < z.at => y.pkt.msg = x.pkt.msg
\* A fragment comes after the FRAGMENT_START of its message, or belongs to the one
\* in W, which has no other and comes first.
FromStart(S, W) ==
  /\ \A y \in S :
       \/ y.pkt.kind = "start" \/ y.pkt.msg \in W
       \/ \E x \in S : x.pkt.msg = y.pkt.msg /\ x.pkt.kind = "start" /\ x.at < y.at
  /\ \A y, z \in S : z.pkt.msg \in W /\ y.at < z.at => y.pkt.msg \in W
  /\ \A x \in S : x.pkt.msg \in W => x.pkt.kind # "start"
\* The message in G, which is being submitted, comes last.
AtEnd(S, W, G) ==
  /\ \A m, n \in G : m = n
  /\ \A m \in G :
       \/ \E x \in S : /\ x.pkt.msg = m /\ x.pkt.kind = "start"
                       /\ \A y \in S : y.pkt.msg # m => y.at < x.at
       \/ m \in W /\ \A y \in S : y.pkt.msg = m
\* What the receiver has in f is of the message in W.
Begins(W, B, f) ==
  /\ \A m, n \in W : m = n
  /\ \A m \in W : m \in B /\ ~Short(m)
  /\ f # None =>
       \E m \in W : /\ f.len = Size[m]
                    /\ \A k \in DOMAIN f.packets : f.packets[k] \in {None, <<m, k - 1>>}
\* What it has put together in A are messages of which nothing is ahead.
Whole(S, A, D) ==
  /\ \A i \in DOMAIN A : \E m \in D : A[i] = Text[m] /\ \A x \in S : x.pkt.msg # m
  /\ IsInjective(A)
Fragmented(W) ==
  /\ InOrder(Ahead) /\ FromStart(Ahead, W) /\ AtEnd(Ahead, W, Going)
  /\ Begins(W, Started, frpkt) /\ Whole(Ahead, assembled, Finished)
Counted == \A x \in Ahead : Place(x.pkt) <= sent[x.pkt.msg]
Stream ==
  ~startLost /\ ~overlap /\ ~stale => Counted /\ \E W \in SUBSET Messages : Fragmented(W)

\* The messages of one packet.
Coming == {p \in air : p.at > latest /\ p.pkt.kind = "send"}
Once ==
  /\ \A i \in DOMAIN high : sent[high[i].msg] > 0
  /\ \A i, j \in DOMAIN high : high[i].msg = high[j].msg => i = j
  /\ \A p \in Coming : sent[p.pkt.msg] > 0
  /\ \A p \in Coming : \A i \in DOMAIN high : high[i].msg # p.pkt.msg
  /\ \A p, q \in Coming : p.pkt.msg = q.pkt.msg => p = q
  /\ \A i \in DOMAIN received :
       \E m \in Messages : /\ received[i] = Text[m] /\ sent[m] > 0
                           /\ \A j \in DOMAIN high : high[j].msg # m
                           /\ \A p \in Coming : p.pkt.msg # m
  /\ IsInjective(received)
Singles == ~stale => Once

IInv == Typed /\ Numbers /\ Stream /\ Singles
-----------------------------------------------------------------------------
(* Numbers and packets. *)

\* Division.
LEMMA Division ==
  ASSUME NEW n \in Nat, NEW d \in Nat \ {0}
  PROVE  /\ n \div d \in Nat /\ n % d \in 0..(d - 1)
         /\ n = d * (n \div d) + (n % d)
OBVIOUS

LEMMA FragmentsPositive ==
  ASSUME NEW n \in Nat \ {0}
  PROVE  Fragments(n) \in Nat \ {0}
<1> DEFINE k == n + FragSize - 1
<1>1. k \in Nat /\ k >= FragSize /\ FragSize \in Nat \ {0}
  BY TransportAssumption
<1>2. k \div FragSize \in Nat /\ k % FragSize < FragSize
      /\ k = FragSize * (k \div FragSize) + (k % FragSize)
  BY <1>1, Division
<1>3. k \div FragSize # 0
  BY <1>1, <1>2
<1> QED BY <1>2, <1>3 DEF Fragments

\* The block after a multiple of SeqBlock.
LEMMA NextBlockOf ==
  ASSUME NEW n \in Nat, Multiple(n)
  PROVE  NextBlock(n) = n + SeqBlock /\ Multiple(n + SeqBlock)
<1> DEFINE q == n \div SeqBlock
<1>0. SeqBlock \in Nat \ {0}
  BY TransportAssumption
<1>1. q \in Nat /\ n = SeqBlock * q
  BY <1>0, Division DEF Multiple
<1>2. SeqBlock * (q + 1) = n + SeqBlock
  <2> HIDE DEF q
  <2> QED BY <1>0, <1>1
<1>3. (SeqBlock * (q + 1)) % SeqBlock = 0
  <2> HIDE DEF q
  <2> QED BY <1>0, <1>1
<1> QED BY <1>2, <1>3 DEF NextBlock, Multiple

\* The packets of a message.
Slots(m) == Fragments(Size[m])

LEMMA PacketsOf ==
  ASSUME NEW m \in Messages
  PROVE  /\ Slots(m) \in Nat \ {0} /\ Size[m] \in Nat \ {0}
         /\ Packets[m] \in Seq(Range(Packets[m]))
         /\ Len(Packets[m]) = IF Short(m) THEN 1 ELSE Slots(m) + 2
         /\ Short(m) => Packets[m][1] = Packet("send", m, 0)
         /\ ~Short(m) => /\ Packets[m][1] = Packet("start", m, 0)
                         /\ \A i \in 1..Slots(m) : Packets[m][i + 1] = Packet("data", m, i - 1)
                         /\ Packets[m][Slots(m) + 2] = Packet("end", m, 0)
<1>1. Size[m] \in Nat \ {0}
  BY TransportAssumption
<1>2. Slots(m) \in Nat \ {0}
  BY <1>1, FragmentsPositive DEF Slots
<1>3. CASE Short(m)
  <2>1. Packets[m] = <<Packet("send", m, 0)>>
    BY <1>3 DEF Packets
  <2>2. Packets[m] \in Seq(Range(Packets[m]))
    BY <2>1 DEF Range
  <2> QED BY <1>1, <1>2, <1>3, <2>1, <2>2
<1>4. CASE ~Short(m)
  <2> DEFINE S == {Packet("start", m, 0), Packet("end", m, 0)}
                  \union {Packet("data", m, i - 1) : i \in 1..Slots(m)}
             a == <<Packet("start", m, 0)>>
             b == [i \in 1..Slots(m) |-> Packet("data", m, i - 1)]
             c == <<Packet("end", m, 0)>>
  <2>1. a \in Seq(S) /\ Len(a) = 1 /\ a[1] = Packet("start", m, 0)
    OBVIOUS
  <2>2. b \in Seq(S) /\ Len(b) = Slots(m)
        /\ \A i \in 1..Slots(m) : b[i] = Packet("data", m, i - 1)
    BY <1>2
  <2>3. c \in Seq(S) /\ Len(c) = 1 /\ c[1] = Packet("end", m, 0)
    OBVIOUS
  <2>4. Packets[m] = a \o b \o c
    BY <1>4 DEF Packets, Slots
  <2> HIDE DEF a, b, c, S
  <2>0. Slots(m) \in Nat \ {0}
    BY <1>2
  <2>5. a \o b \in Seq(S) /\ Len(a \o b) = Slots(m) + 1
    <3>1. a \o b \in Seq(S) /\ Len(a \o b) = Len(a) + Len(b)
      BY <2>1, <2>2, ConcatProperties
    <3> QED BY <2>0, <2>1, <2>2, <3>1
  <2>6. (a \o b)[1] = a[1] /\ \A i \in 1..Slots(m) : (a \o b)[i + 1] = b[i]
    <3>1. \A i \in 1..(Len(a) + Len(b)) :
            (a \o b)[i] = IF i <= Len(a) THEN a[i] ELSE b[i - Len(a)]
      BY <2>1, <2>2, ConcatProperties
    <3>2. \A i \in 1..(Slots(m) + 1) : (a \o b)[i] = IF i <= 1 THEN a[i] ELSE b[i - 1]
      <4>1. Len(a) + Len(b) = Slots(m) + 1 /\ Len(a) = 1
        BY <2>0, <2>1, <2>2
      <4> QED BY <3>1, <4>1
    <3>3. 1 \in 1..(Slots(m) + 1)
      BY <2>0
    <3>4. \A i \in 1..Slots(m) : i + 1 \in 1..(Slots(m) + 1) /\ ~(i + 1 <= 1) /\ (i + 1) - 1 = i
      BY <2>0
    <3>5. (a \o b)[1] = a[1]
      <4>1. (a \o b)[1] = IF 1 <= 1 THEN a[1] ELSE b[1 - 1]
        BY ONLY <3>2, <3>3
      <4> QED BY ONLY <4>1
    <3>6. \A i \in 1..Slots(m) : (a \o b)[i + 1] = b[i]
      <4> TAKE i \in 1..Slots(m)
      <4>1. (a \o b)[i + 1] = IF i + 1 <= 1 THEN a[i + 1] ELSE b[(i + 1) - 1]
        BY <3>2, <3>4
      <4> QED BY <3>4, <4>1
    <3> QED BY <3>5, <3>6
  <2>7. Packets[m] \in Seq(S) /\ Len(Packets[m]) = Slots(m) + 2
    <3>1. (a \o b) \o c \in Seq(S) /\ Len((a \o b) \o c) = Len(a \o b) + Len(c)
      BY <2>3, <2>5, ConcatProperties
    <3> QED BY <2>0, <2>3, <2>4, <2>5, <3>1
  <2>8. /\ \A i \in 1..(Slots(m) + 1) : Packets[m][i] = (a \o b)[i]
        /\ Packets[m][Slots(m) + 2] = c[1]
    <3>1. \A i \in 1..(Len(a \o b) + Len(c)) :
            ((a \o b) \o c)[i] = IF i <= Len(a \o b) THEN (a \o b)[i] ELSE c[i - Len(a \o b)]
      BY <2>3, <2>5, ConcatProperties
    <3>2. \A i \in 1..(Slots(m) + 2) :
            Packets[m][i] = IF i <= Slots(m) + 1 THEN (a \o b)[i] ELSE c[i - (Slots(m) + 1)]
      <4>1. Len(a \o b) + Len(c) = Slots(m) + 2
        BY <2>0, <2>3, <2>5
      <4> QED BY <2>4, <2>5, <3>1, <4>1
    <3>3. /\ Slots(m) + 2 \in 1..(Slots(m) + 2) /\ ~(Slots(m) + 2 <= Slots(m) + 1)
          /\ (Slots(m) + 2) - (Slots(m) + 1) = 1
          /\ \A i \in 1..(Slots(m) + 1) : i \in 1..(Slots(m) + 2) /\ i <= Slots(m) + 1
      BY <2>0
    <3> QED BY <3>2, <3>3
  <2>9. Packets[m] \in Seq(Range(Packets[m]))
    BY <2>7 DEF Range
  <2>10. Packets[m][1] = Packet("start", m, 0)
    BY <2>0, <2>1, <2>6, <2>8
  <2>11. \A i \in 1..Slots(m) : Packets[m][i + 1] = Packet("data", m, i - 1)
    <3> TAKE i \in 1..Slots(m)
    <3>1. i + 1 \in 1..(Slots(m) + 1)
      BY <2>0
    <3> QED BY <2>2, <2>6, <2>8, <3>1
  <2>12. Packets[m][Slots(m) + 2] = Packet("end", m, 0)
    BY <2>3, <2>8
  <2> QED BY <1>1, <1>2, <1>4, <2>7, <2>9, <2>10, <2>11, <2>12
<1> QED BY <1>3, <1>4

LEMMA PacketAt ==
  ASSUME NEW m \in Messages, NEW i \in 1..Len(Packets[m])
  PROVE  /\ Packets[m][i] \in AllPackets
         /\ Packets[m][i].msg = m /\ Packets[m][i].len = Size[m]
         /\ Packets[m][i].kind \in {"send", "start", "data", "end"}
         /\ Place(Packets[m][i]) = i
         /\ Packets[m][i].kind = "send" <=> Short(m)
         /\ Packets[m][i].kind = "start" => i = 1
         /\ Packets[m][i].kind = "data" => Packets[m][i].seq \in 0..(Slots(m) - 1)
         /\ Packets[m][i].kind = "end" => i = Len(Packets[m])
<1>0. Packets[m][i] \in AllPackets
  BY PacketsOf DEF AllPackets, Range
<1>1. CASE Short(m)
  <2>1. i = 1 /\ Packets[m][i] = Packet("send", m, 0)
    BY <1>1, PacketsOf
  <2> QED BY <1>0, <1>1, <2>1 DEF Packet, Place
<1>2. CASE ~Short(m)
  <2>0. Slots(m) \in Nat \ {0} /\ Len(Packets[m]) = Slots(m) + 2
    BY <1>2, PacketsOf
  <2>1. CASE i = 1
    <3>1. Packets[m][i] = Packet("start", m, 0)
      BY <1>2, <2>1, PacketsOf
    <3> QED BY <1>0, <1>2, <2>1, <3>1 DEF Packet, Place
  <2>2. CASE i = Slots(m) + 2
    <3>1. Packets[m][i] = Packet("end", m, 0)
      BY <1>2, <2>2, PacketsOf
    <3> QED BY <1>0, <1>2, <2>0, <2>2, <3>1 DEF Packet, Place
  <2>3. CASE i \in 2..(Slots(m) + 1)
    <3>0. i - 1 \in 1..Slots(m) /\ (i - 1) + 1 = i /\ (i - 1) - 1 = i - 2
      BY <2>0, <2>3
    <3>1. Packets[m][i] = Packet("data", m, i - 2)
      BY <1>2, <3>0, PacketsOf
    <3> QED BY <1>0, <1>2, <2>0, <2>3, <3>1 DEF Packet, Place
  <2> QED BY <2>0, <2>1, <2>2, <2>3
<1> QED BY <1>1, <1>2

LEMMA PacketIs ==
  ASSUME NEW k \in AllPackets
  PROVE  /\ k.msg \in Messages /\ k.len = Size[k.msg]
         /\ Place(k) \in 1..Len(Packets[k.msg])
         /\ k.kind \in {"send", "start", "data", "end"}
         /\ k.kind = "send" <=> Short(k.msg)
         /\ k.kind = "start" => Place(k) = 1
         /\ k.kind = "data" => k.seq \in 0..(Slots(k.msg) - 1)
         /\ k.kind = "end" => Place(k) = Len(Packets[k.msg])
<1>1. PICK m \in Messages : k \in Range(Packets[m])
  BY DEF AllPackets
<1>2. PICK i \in 1..Len(Packets[m]) : k = Packets[m][i]
  BY <1>1, PacketsOf DEF Range
<1> QED BY <1>2, PacketAt

LEMMA TextOf ==
  ASSUME NEW m \in Messages
  PROVE  /\ Text[m] \in Seq(Content) /\ Len(Text[m]) = Slots(m)
         /\ \A i \in 1..Slots(m) : Text[m][i] = <<m, i - 1>>
         /\ \A n \in Messages : Text[m] = Text[n] => m = n
<1>1. Text[m] = [i \in 1..Slots(m) |-> <<m, i - 1>>] /\ Slots(m) \in Nat \ {0}
  BY PacketsOf DEF Text, Slots
<1>2. Text[m] \in Seq(Content) /\ Len(Text[m]) = Slots(m)
  BY <1>1 DEF Content
<1>3. \A n \in Messages : Text[n][1] = <<n, 0>>
  <2> TAKE n \in Messages
  <2>1. Text[n] = [i \in 1..Slots(n) |-> <<n, i - 1>>] /\ 1 \in 1..Slots(n)
    BY PacketsOf DEF Text, Slots
  <2> QED BY <2>1
<1> QED BY <1>1, <1>2, <1>3
-----------------------------------------------------------------------------
(* Types. *)

SenderOK ==
  /\ sent \in [Messages -> Nat] /\ load \in Loads /\ cut \subseteq load
  /\ \A m \in Messages : sent[m] \in 0..Len(Packets[m]) /\ (sent[m] > 0 => m \in load)
  /\ high \in Seq(AllPackets) /\ low \in Seq(AllPackets)
  /\ \A i \in DOMAIN high : high[i].kind = "send"
  /\ \A i \in DOMAIN low : low[i].kind # "send"
NumberOK ==
  /\ boot \in {"read", "write", "run"}
  /\ file \in Nat \union {None, Empty}
  /\ updates \in Seq(Nat) /\ writing \in BOOLEAN /\ number \in Nat
  /\ writing => updates # <<>>
AirOK ==
  /\ air \subseteq InAir /\ born \in Nat /\ latest \in 0..born
  /\ \A p \in air : p.at \in 1..born
  /\ \A p, q \in air : p.at = q.at => p.pkt = q.pkt
Slotted(f) ==
  \/ f = None
  \/ /\ f \in [len : Nat \ {0}, packets : Seq(Content \union {None})]
     /\ f.packets \in [1..Fragments(f.len) -> Content \union {None}]
     /\ f.len \in Range(Size)
ReceiverOK ==
  /\ cache \in Nat \union {None} /\ Slotted(frpkt)
  /\ assembled \in Seq(Seq(Content)) /\ received \in Seq(Seq(Content))
HistoryOK == crashes \in Nat /\ {startLost, overlap, stale, calm} \subseteq BOOLEAN
Empties == boot # "run" => high = <<>> /\ low = <<>> /\ updates = <<>>

LEMMA TypedIs ==
  Typed <=> SenderOK /\ NumberOK /\ AirOK /\ ReceiverOK /\ HistoryOK /\ Empties
BY DEF Typed, TypeOK, Shape, SenderOK, NumberOK, AirOK, Slotted, ReceiverOK, HistoryOK,
       Empties

LEMMA TypedIsNext ==
  Typed' <=> SenderOK' /\ NumberOK' /\ AirOK' /\ ReceiverOK' /\ HistoryOK' /\ Empties'
BY TypedIs, PTL

LEMMA TypedInit == Init => Typed
<1> SUFFICES ASSUME Init PROVE Typed
  OBVIOUS
<1>1. SenderOK
  <2>1. \A m \in Messages : Len(Packets[m]) \in Nat
    BY PacketsOf
  <2> QED BY <2>1 DEF Init, SenderOK
<1>2. NumberOK /\ ReceiverOK
  <2>1. <<>> \in Seq(Nat) /\ <<>> \in Seq(Seq(Content))
    OBVIOUS
  <2>2. NumberOK
    BY <2>1 DEF Init, NumberOK
  <2>3. ReceiverOK
    BY <2>1 DEF Init, ReceiverOK, Slotted
  <2> QED BY <2>2, <2>3
<1>3. AirOK
  BY DEF Init, AirOK
<1>4. HistoryOK /\ Empties
  BY DEF Init, HistoryOK, Empties
<1> QED BY <1>1, <1>2, <1>3, <1>4, TypedIs

LEMMA AppendKeeps ==
  ASSUME NEW S, NEW s \in Seq(S), NEW e \in S
  PROVE  /\ Append(s, e) \in Seq(S) /\ DOMAIN Append(s, e) = 1..(Len(s) + 1)
         /\ DOMAIN s = 1..Len(s) /\ Len(s) \in Nat /\ Len(Append(s, e)) = Len(s) + 1
         /\ \A i \in 1..Len(s) : Append(s, e)[i] = s[i]
         /\ Append(s, e)[Len(s) + 1] = e
BY AppendProperties

LEMMA TailKeeps ==
  ASSUME NEW S, NEW s \in Seq(S), s # <<>>
  PROVE  /\ Head(s) \in S /\ Head(s) = s[1] /\ 1 \in DOMAIN s
         /\ Tail(s) \in Seq(S) /\ Len(s) \in Nat \ {0} /\ Len(Tail(s)) = Len(s) - 1
         /\ DOMAIN Tail(s) = 1..(Len(s) - 1) /\ DOMAIN s = 1..Len(s)
         /\ \A i \in 1..(Len(s) - 1) : Tail(s)[i] = s[i + 1]
BY HeadTailProperties

\* The packet that send_msg submits next.
Submitted(m) == Packets[m][sent[m] + 1]
LEMMA SubmittedIs ==
  ASSUME Typed, NEW m \in Messages, SendMsg(m)
  PROVE  /\ Submitted(m) \in AllPackets /\ Submitted(m).msg = m
         /\ Place(Submitted(m)) = sent[m] + 1
         /\ Submitted(m).kind = "send" <=> Short(m)
         /\ sent[m] \in Nat /\ sent'[m] = sent[m] + 1 /\ sent' \in [Messages -> Nat]
         /\ \A n \in Messages \ {m} : sent'[n] = sent[n]
         /\ sent'[m] \in 1..Len(Packets[m])
<1>1. sent \in [Messages -> Nat] /\ sent[m] < Len(Packets[m]) /\ Len(Packets[m]) \in Nat
  BY TypedIs, PacketsOf DEF SenderOK, SendMsg
<1>2. sent[m] + 1 \in 1..Len(Packets[m])
  BY <1>1
<1>3. sent' = [sent EXCEPT ![m] = @ + 1]
  BY DEF SendMsg
<1> QED BY <1>1, <1>2, <1>3, PacketAt DEF Submitted

LEMMA TypedSend ==
  ASSUME Typed, NEW m \in Messages, SendMsg(m)
  PROVE  Typed'
<1> DEFINE p == Submitted(m)
<1>1. /\ p \in AllPackets /\ (p.kind = "send" <=> Short(m))
      /\ sent' \in [Messages -> Nat] /\ \A n \in Messages \ {m} : sent'[n] = sent[n]
      /\ sent'[m] \in 1..Len(Packets[m])
  BY SubmittedIs
<1> HIDE DEF p
<1>2. \/ p.kind = "send" /\ high' = Append(high, p) /\ low' = low
      \/ p.kind # "send" /\ low' = Append(low, p) /\ high' = high
  BY DEF SendMsg, p, Submitted
<1>3. high \in Seq(AllPackets) /\ low \in Seq(AllPackets)
  BY TypedIs DEF SenderOK
<1>4. high' \in Seq(AllPackets) /\ low' \in Seq(AllPackets)
  <2>0. Append(high, p) \in Seq(AllPackets) /\ Append(low, p) \in Seq(AllPackets)
    BY <1>1, <1>3, AppendKeeps
  <2>1. CASE high' = Append(high, p) /\ low' = low
    BY <1>3, <2>0, <2>1
  <2>2. CASE low' = Append(low, p) /\ high' = high
    BY <1>3, <2>0, <2>2
  <2> QED BY <1>2, <2>1, <2>2
<1>5. /\ \A i \in DOMAIN high' : high'[i].kind = "send"
      /\ \A i \in DOMAIN low' : low'[i].kind # "send"
  <2>1. /\ \A i \in DOMAIN high : high[i].kind = "send"
        /\ \A i \in DOMAIN low : low[i].kind # "send"
    BY TypedIs DEF SenderOK
  <2>2. CASE p.kind = "send" /\ high' = Append(high, p) /\ low' = low
    BY <1>1, <1>3, <2>1, <2>2, AppendKeeps
  <2>3. CASE p.kind # "send" /\ low' = Append(low, p) /\ high' = high
    BY <1>1, <1>3, <2>1, <2>3, AppendKeeps
  <2> QED BY <1>2, <2>2, <2>3
<1>6. SenderOK'
  <2>1. \A n \in Messages : sent'[n] \in 0..Len(Packets[n]) /\ (sent'[n] > 0 => n \in load)
    BY <1>1, TypedIs DEF SenderOK, SendMsg
  <2> QED BY <1>1, <1>4, <1>5, <2>1, TypedIs DEF SenderOK, SendMsg
<1>7. NumberOK' /\ AirOK' /\ ReceiverOK'
  BY TypedIs DEF SendMsg, numbers, receiver, NumberOK, AirOK, ReceiverOK
<1>8. HistoryOK' /\ Empties'
  BY TypedIs DEF SendMsg, numbers, HistoryOK, Empties
<1> QED BY <1>6, <1>7, <1>8, TypedIsNext

LEMMA NextBlockIs == \A n \in Nat : NextBlock(n) \in Nat
<1> TAKE n \in Nat
<1>1. SeqBlock \in Nat /\ n \div SeqBlock \in Nat
  BY Division, TransportAssumption
<1> QED BY <1>1 DEF NextBlock

LEMMA TypedGateway ==
  ASSUME Typed, Gateway
  PROVE  Typed'
<1>1. NumberOK'
  <2>1. CASE ReadNumber
    BY <2>1, TypedIs, NextBlockIs DEF ReadNumber, NumberOK, Restored
  <2>2. CASE WriteNumber
    BY <2>2, TypedIs DEF WriteNumber, NumberOK
  <2>4. CASE OpenFile
    BY <2>4, TypedIs DEF OpenFile, NumberOK
  <2>3. CASE WriteUpdate
    <3>1. updates \in Seq(Nat) /\ updates # <<>>
      BY <2>3, TypedIs DEF WriteUpdate, NumberOK
    <3>2. Head(updates) \in Nat /\ Tail(updates) \in Seq(Nat)
      BY <3>1, TailKeeps
    <3> QED BY <2>3, <3>2, TypedIs DEF WriteUpdate, NumberOK
  <2> QED BY <2>1, <2>2, <2>3, <2>4 DEF Gateway
<1>2. SenderOK' /\ AirOK' /\ ReceiverOK' /\ HistoryOK'
  BY TypedIs DEF Gateway, ReadNumber, WriteNumber, OpenFile, WriteUpdate, sender, receiver,
                 history, SenderOK, AirOK, ReceiverOK, HistoryOK
<1>3. Empties'
  <2>1. (OpenFile \/ WriteUpdate) => boot = "run"
    BY TypedIs DEF OpenFile, WriteUpdate, NumberOK, Empties
  <2> QED BY <2>1, TypedIs
       DEF Gateway, ReadNumber, WriteNumber, OpenFile, WriteUpdate, sender, Empties
<1> QED BY <1>1, <1>2, <1>3, TypedIsNext

LEMMA TypedCrash ==
  ASSUME Typed, Crash
  PROVE  Typed'
<1>1. SenderOK'
  <2>1. \A m \in Messages : Underway(m) => m \in load
    BY TypedIs DEF SenderOK, Underway, Begun
  <2> QED BY <2>1, TypedIs DEF SenderOK, Crash
<1>2. NumberOK'
  <2>1. <<>> \in Seq(Nat)
    OBVIOUS
  <2>2. file' \in Nat \union {None, Empty}
    BY TypedIs DEF Crash, NumberOK
  <2> QED BY <2>1, <2>2 DEF Crash, NumberOK
<1>4. AirOK' /\ Empties'
  BY TypedIs DEF Crash, AirOK, Empties
<1>5. ReceiverOK'
  BY TypedIs DEF Crash, receiver, ReceiverOK
<1>3. HistoryOK'
  BY TypedIs DEF Crash, HistoryOK
<1> QED BY <1>1, <1>2, <1>3, <1>4, <1>5, TypedIsNext

\* What Transmit takes.
Foremost == IF high # <<>> THEN Head(high) ELSE Head(low)
Sent == [pkt |-> Foremost, number |-> number, at |-> born + 1, again |-> FALSE]
LEMMA TransmitIs ==
  ASSUME Typed, Transmit
  PROVE  /\ Foremost \in AllPackets /\ Sent \in InAir /\ Sent \notin air
         /\ air' = air \union {Sent} /\ born' = born + 1 /\ number' = number + 1
         /\ born \in Nat /\ number \in Nat /\ latest' = latest /\ boot = "run" /\ boot' = boot
         /\ \/ high # <<>> /\ Foremost = Head(high) /\ high' = Tail(high) /\ low' = low
            \/ high = <<>> /\ low # <<>> /\ Foremost = Head(low) /\ low' = Tail(low) /\ high' = high
         /\ UNCHANGED <<load, sent, cut, file, writing, receiver, startLost, overlap, stale,
                        calm, crashes>>
<1>0. SenderOK /\ AirOK /\ NumberOK
  BY TypedIs
<1>1. \/ high # <<>> /\ Foremost = Head(high) /\ high' = Tail(high) /\ low' = low
      \/ high = <<>> /\ low # <<>> /\ Foremost = Head(low) /\ low' = Tail(low) /\ high' = high
  BY DEF Transmit, Foremost
<1>2. Foremost \in AllPackets
  BY <1>0, <1>1, TailKeeps DEF SenderOK
<1>3. Sent \in InAir /\ Sent \notin air
  BY <1>0, <1>2 DEF Sent, InAir, AirOK, NumberOK
<1>4. air' = air \union {Sent}
  BY DEF Transmit, Sent, Foremost
<1> QED BY <1>0, <1>1, <1>2, <1>3, <1>4 DEF Transmit, AirOK, NumberOK, receiver

LEMMA TypedTransmit ==
  ASSUME Typed, Transmit
  PROVE  Typed'
<1>0. SenderOK /\ AirOK /\ NumberOK
  BY TypedIs
<1>1. SenderOK'
  <2>1. high' \in Seq(AllPackets) /\ low' \in Seq(AllPackets)
    BY <1>0, TransmitIs, TailKeeps DEF SenderOK
  <2>2. \A i \in DOMAIN high' : high'[i].kind = "send"
    <3>1. CASE high # <<>> /\ high' = Tail(high)
      <4>1. /\ Len(high) \in Nat \ {0} /\ DOMAIN Tail(high) = 1..(Len(high) - 1)
            /\ DOMAIN high = 1..Len(high)
            /\ \A i \in 1..(Len(high) - 1) : Tail(high)[i] = high[i + 1]
        BY <1>0, <3>1, TailKeeps DEF SenderOK
      <4> QED BY <1>0, <3>1, <4>1 DEF SenderOK
    <3>2. CASE high' = high
      BY <1>0, <3>2 DEF SenderOK
    <3> QED BY <3>1, <3>2, TransmitIs
  <2>3. \A i \in DOMAIN low' : low'[i].kind # "send"
    <3>1. CASE low # <<>> /\ low' = Tail(low)
      <4>1. /\ Len(low) \in Nat \ {0} /\ DOMAIN Tail(low) = 1..(Len(low) - 1)
            /\ DOMAIN low = 1..Len(low)
            /\ \A i \in 1..(Len(low) - 1) : Tail(low)[i] = low[i + 1]
        BY <1>0, <3>1, TailKeeps DEF SenderOK
      <4> QED BY <1>0, <3>1, <4>1 DEF SenderOK
    <3>2. CASE low' = low
      BY <1>0, <3>2 DEF SenderOK
    <3> QED BY <3>1, <3>2, TransmitIs
  <2> QED BY <1>0, <2>1, <2>2, <2>3, TransmitIs DEF SenderOK
<1>2. NumberOK'
  <2>1. number + 1 \in Nat /\ Append(updates, number + 1) \in Seq(Nat)
        /\ Append(updates, number + 1) # <<>>
    BY <1>0, TransmitIs, AppendProperties DEF NumberOK
  <2>2. updates' \in {updates, Append(updates, number + 1)}
    BY DEF Transmit
  <2>3. updates' \in Seq(Nat) /\ (writing => updates' # <<>>)
    BY <1>0, <2>1, <2>2 DEF NumberOK
  <2>4. number' \in Nat /\ boot' = boot /\ file' = file /\ writing' = writing
    BY <2>1, TransmitIs
  <2> QED BY <1>0, <2>3, <2>4 DEF NumberOK
<1>3. AirOK'
  <2>1. air' \subseteq InAir /\ born' \in Nat /\ latest' \in 0..born'
    BY <1>0, TransmitIs DEF AirOK
  <2>2. \A p \in air' : p.at \in 1..born'
    BY <1>0, TransmitIs DEF AirOK, Sent
  <2>3. \A p, q \in air' : p.at = q.at => p.pkt = q.pkt
    <3>1. \A p \in air : p.at # Sent.at
      BY <1>0, TransmitIs DEF AirOK, Sent
    <3> QED BY <1>0, <3>1, TransmitIs DEF AirOK
  <2> QED BY <2>1, <2>2, <2>3 DEF AirOK
<1>4. ReceiverOK' /\ HistoryOK' /\ Empties'
  <2>1. ReceiverOK'
    BY TypedIs, TransmitIs DEF ReceiverOK, receiver
  <2>2. HistoryOK'
    BY TypedIs, TransmitIs DEF HistoryOK
  <2> QED BY <2>1, <2>2, TransmitIs DEF Empties
<1> QED BY <1>1, <1>2, <1>3, <1>4, TypedIsNext

LEMMA TypedLose ==
  ASSUME Typed, Lose
  PROVE  Typed'
<1>1. AirOK'
  BY TypedIs DEF Lose, receiver, AirOK
<1>2. SenderOK' /\ NumberOK' /\ ReceiverOK' /\ Empties'
  BY TypedIs DEF Lose, sender, numbers, receiver, SenderOK, NumberOK, ReceiverOK, Empties
<1>3. HistoryOK'
  BY TypedIs DEF Lose, Missing, HistoryOK
<1> QED BY <1>1, <1>2, <1>3, TypedIsNext

\* The two ways of Receive.
Lands(p) == air' \in {air \ {p}, (air \ {p}) \union {[p EXCEPT !.again = TRUE]}}
Accepts(p) ==
  /\ CheckSeqNumber(p.number) /\ cache' = p.number /\ latest' = p.at
  /\ DataHandler(p.pkt) /\ Missing({q \in air : q.number < p.number})
Refuses(p) ==
  ~CheckSeqNumber(p.number) /\ Missing({p}) /\ UNCHANGED <<receiver, latest>>
LEMMA ReceiveIs ==
  ASSUME Receive
  PROVE  /\ UNCHANGED <<sender, numbers, born, overlap, stale, crashes>>
         /\ \E p \in air : Lands(p) /\ (Accepts(p) \/ Refuses(p))
BY DEF Receive, Lands, Accepts, Refuses

\* A packet that is kept may come again.
Back(p) == [p EXCEPT !.again = TRUE]
LEMMA LandsIs ==
  ASSUME Typed, NEW p \in air, Lands(p)
  PROVE  /\ p \in InAir /\ Back(p) \in InAir
         /\ Back(p).pkt = p.pkt /\ Back(p).number = p.number /\ Back(p).at = p.at /\ Back(p).again
         /\ \A q \in air' : q \in air \ {p} \/ q = Back(p)
         /\ \A q \in air : q # p => q \in air'
<1>1. p \in InAir
  BY TypedIs DEF AirOK
<1> QED BY <1>1 DEF Lands, Back, InAir

LEMMA SlottedNew ==
  ASSUME NEW n \in Nat \ {0}, n \in Range(Size)
  PROVE  /\ Slotted(NewFragmentedPkt(n))
         /\ NewFragmentedPkt(n).len = n
         /\ \A i \in DOMAIN NewFragmentedPkt(n).packets : NewFragmentedPkt(n).packets[i] = None
<1>1. Fragments(n) \in Nat \ {0}
  BY FragmentsPositive
<1> DEFINE c == [i \in 1..Fragments(n) |-> None]
<1>2. c \in Seq(Content \union {None}) /\ c \in [1..Fragments(n) -> Content \union {None}]
  BY <1>1
<1>3. NewFragmentedPkt(n) = [len |-> n, packets |-> c]
  BY DEF NewFragmentedPkt
<1>4. \A i \in DOMAIN c : c[i] = None
  OBVIOUS
<1> HIDE DEF c
<1> QED BY <1>2, <1>3, <1>4 DEF Slotted

\* add_data with its record.
Added(f, i, d) == [f EXCEPT !.packets[i] = d]
LEMMA SlottedAdd ==
  ASSUME NEW f, Slotted(f), f # None, NEW i \in DOMAIN f.packets, NEW d \in Content
  PROVE  /\ Slotted(Added(f, i, d)) /\ Added(f, i, d).len = f.len
         /\ Added(f, i, d) \in [len : Nat \ {0}, packets : Seq(Content \union {None})]
         /\ DOMAIN Added(f, i, d).packets = DOMAIN f.packets
         /\ Added(f, i, d).packets[i] = d
         /\ \A k \in DOMAIN f.packets \ {i} : Added(f, i, d).packets[k] = f.packets[k]
<1> DEFINE n == Fragments(f.len)
           c == [f.packets EXCEPT ![i] = d]
<1>1. /\ f \in [len : Nat \ {0}, packets : Seq(Content \union {None})]
      /\ f.packets \in [1..n -> Content \union {None}] /\ f.len \in Range(Size)
  BY DEF Slotted
<1>2. n \in Nat
  BY <1>1, FragmentsPositive
<1> HIDE DEF n
<1>3. c \in [1..n -> Content \union {None}] /\ DOMAIN c = DOMAIN f.packets
      /\ c[i] = d /\ \A k \in DOMAIN f.packets \ {i} : c[k] = f.packets[k]
  BY <1>1
<1>5. Added(f, i, d) = [len |-> f.len, packets |-> c]
  BY <1>1 DEF Added
<1> HIDE DEF c
<1>4. c \in Seq(Content \union {None})
  BY <1>2, <1>3
<1>6. Added(f, i, d) \in [len : Nat \ {0}, packets : Seq(Content \union {None})]
  BY <1>1, <1>4, <1>5
<1>7. Added(f, i, d).len = f.len /\ Added(f, i, d).packets = c
  BY <1>5
<1>8. Slotted(Added(f, i, d))
  BY <1>1, <1>3, <1>6, <1>7 DEF Slotted, n
<1> QED BY <1>3, <1>6, <1>7, <1>8

\* What data_handler makes of a packet.
LEMMA HandlerTyped ==
  ASSUME Typed, NEW k \in AllPackets, DataHandler(k)
  PROVE  /\ Slotted(frpkt')
         /\ assembled' \in Seq(Seq(Content)) /\ received' \in Seq(Seq(Content))
<1>0. /\ Slotted(frpkt) /\ assembled \in Seq(Seq(Content)) /\ received \in Seq(Seq(Content))
      /\ k.msg \in Messages /\ k.len = Size[k.msg] /\ k.len \in Nat \ {0}
      /\ k.len \in Range(Size)
  <2>1. k.msg \in Messages /\ k.len = Size[k.msg]
    BY PacketIs
  <2>2. Size[k.msg] \in Nat \ {0} /\ DOMAIN Size = Messages
    BY <2>1, PacketsOf, TransportAssumption
  <2> QED BY <2>1, <2>2, TypedIs DEF ReceiverOK, Range
<1>1. CASE StartFragments(k)
  BY <1>0, <1>1, SlottedNew DEF StartFragments
<1>2. CASE AddData(k)
  <2>1. assembled' = assembled /\ received' = received
    BY <1>2 DEF AddData
  <2>2. \/ frpkt' = frpkt
        \/ /\ frpkt # None /\ k.seq + 1 \in DOMAIN frpkt.packets
           /\ frpkt' = Added(frpkt, k.seq + 1, <<k.msg, k.seq>>)
    BY <1>2 DEF AddData, Added
  <2>3. <<k.msg, k.seq>> \in Content
    BY <1>0, <1>2, PacketIs, PacketsOf DEF AddData, Content
  <2> QED BY <1>0, <2>1, <2>2, <2>3, SlottedAdd
<1>3. CASE EndFragments(k)
  <2>1. CASE frpkt # None /\ IsComplete
    <3>1. frpkt.packets \in Seq(Content)
      <4>1. /\ frpkt.packets \in [1..Fragments(frpkt.len) -> Content \union {None}]
            /\ frpkt.len \in Nat \ {0}
        BY <1>0, <2>1 DEF Slotted
      <4>2. Fragments(frpkt.len) \in Nat
        BY <4>1, FragmentsPositive
      <4>3. frpkt.packets \in [1..Fragments(frpkt.len) -> Content]
        BY <2>1, <4>1 DEF IsComplete, Range
      <4> QED BY <4>2, <4>3
    <3>2. assembled' = Append(assembled, frpkt.packets) /\ frpkt' = frpkt
      BY <1>3, <2>1 DEF EndFragments
    <3>3. received' \in {received, Append(received, frpkt.packets)}
      BY <1>3, <2>1 DEF EndFragments
    <3>4. Append(received, frpkt.packets) \in Seq(Seq(Content))
          /\ Append(assembled, frpkt.packets) \in Seq(Seq(Content))
      BY <1>0, <3>1, AppendProperties
    <3> QED BY <1>0, <3>2, <3>3, <3>4
  <2>2. CASE ~(frpkt # None /\ IsComplete)
    BY <1>0, <1>3, <2>2 DEF EndFragments
  <2> QED BY <2>1, <2>2
<1>4. CASE ReceiveShort(k)
  <2>1. Text[k.msg] \in Seq(Content)
    BY <1>0, TextOf
  <2>2. Append(received, Text[k.msg]) \in Seq(Seq(Content))
    BY <1>0, <2>1, AppendProperties
  <2> QED BY <1>0, <1>4, <2>2 DEF ReceiveShort
<1> QED BY <1>1, <1>2, <1>3, <1>4 DEF DataHandler

LEMMA TypedReceive ==
  ASSUME Typed, Receive
  PROVE  Typed'
<1>1. UNCHANGED <<sender, numbers, born, overlap, stale, crashes>>
  BY ReceiveIs
<1>2. PICK p \in air : Lands(p) /\ (Accepts(p) \/ Refuses(p))
  BY ReceiveIs
<1>0. AirOK /\ ReceiverOK
  BY TypedIs
<1>3. AirOK'
  <2>1. p.at \in 1..born /\ born \in Nat
    BY <1>0 DEF AirOK
  <2>2. latest' \in 0..born'
    BY <1>0, <1>1, <1>2, <2>1 DEF AirOK, Accepts, Refuses
  <2>3. air' \subseteq InAir
    BY <1>0, <1>2, LandsIs DEF AirOK
  <2>4. \A q \in air' : q.at \in 1..born' /\ \E r \in air : r.at = q.at /\ r.pkt = q.pkt
    BY <1>0, <1>1, <1>2, LandsIs DEF AirOK
  <2>5. \A q, r \in air' : q.at = r.at => q.pkt = r.pkt
    BY <1>0, <2>4 DEF AirOK
  <2> QED BY <1>0, <1>1, <2>2, <2>3, <2>4, <2>5 DEF AirOK
<1>4. ReceiverOK'
  <2>1. CASE Accepts(p)
    <3>1. p.pkt \in AllPackets /\ p.number \in Nat
      BY <1>0 DEF AirOK, InAir
    <3>2. DataHandler(p.pkt) /\ cache' = p.number
      BY <2>1 DEF Accepts
    <3> QED BY <3>1, <3>2, HandlerTyped DEF ReceiverOK
  <2>2. CASE Refuses(p)
    BY <1>0, <2>2 DEF Refuses, receiver, ReceiverOK
  <2> QED BY <1>2, <2>1, <2>2
<1>5. SenderOK' /\ NumberOK' /\ Empties'
  BY <1>1, TypedIs DEF sender, numbers, SenderOK, NumberOK, Empties
<1>6. HistoryOK'
  <2>1. startLost' \in BOOLEAN /\ calm' \in BOOLEAN
    BY <1>2, TypedIs DEF Accepts, Refuses, Missing, HistoryOK
  <2> QED BY <1>1, <2>1, TypedIs DEF HistoryOK
<1> QED BY <1>3, <1>4, <1>5, <1>6, TypedIsNext

LEMMA TypedNext == Typed /\ [Next]_vars => Typed'
<1> SUFFICES ASSUME Typed, [Next]_vars PROVE Typed'
  OBVIOUS
<1>1. CASE UNCHANGED vars
  <2>1. SenderOK' /\ NumberOK' /\ Empties'
    BY <1>1, TypedIs DEF vars, sender, numbers, SenderOK, NumberOK, Empties
  <2>2. AirOK' /\ ReceiverOK' /\ HistoryOK'
    BY <1>1, TypedIs DEF vars, history, receiver, AirOK, ReceiverOK, HistoryOK
  <2> QED BY <2>1, <2>2, TypedIsNext
<1> QED BY <1>1, TypedSend, TypedGateway, TypedCrash, TypedTransmit, TypedLose, TypedReceive
     DEF Next

\* Every variable keeps its type: a FRAGMENT_DATA never makes a slot of the packet
\* anything but empty or filled, and the queues hold packets of send_msg only.
THEOREM TypeCorrect == Spec => []TypeOK
<1>1. Typed => TypeOK
  BY DEF Typed
<1> QED BY <1>1, TypedInit, TypedNext, PTL DEF Spec
-----------------------------------------------------------------------------
(* Sequence numbers. *)

LEMMA Kinds ==
  /\ None \notin Nat /\ Empty \notin Nat /\ None # Empty /\ SeqBlock \in Nat \ {0}
  /\ Multiple(0)
<1>1. SeqBlock \in Nat \ {0}
  BY TransportAssumption
<1>2. 0 % SeqBlock = 0
  BY <1>1
<1> QED BY <1>1, <1>2, TransportAssumption DEF Multiple

LEMMA StaleStays ==
  ASSUME Typed, [Next]_vars
  PROVE  stale => stale'
BY TypedIs DEF Next, Gateway, SendMsg, ReadNumber, WriteNumber, OpenFile, WriteUpdate, Crash,
      Transmit, Lose, Receive, vars, history, HistoryOK

LEMMA NumbersInit == Init => Numbers
BY Kinds DEF Init, Numbers, Rising, Taken, Used, Copies, Blocks, CheckSeqNumber

\* What the steps that leave the mesh and the cache alone keep.
LEMMA NumbersKept ==
  ASSUME Rising, Taken, Used, Copies, UNCHANGED <<air, cache, latest>>,
         Bound \in Nat, Bound' \in Nat, Bound' >= Bound, air \subseteq InAir,
         cache \in Nat \union {None}
  PROVE  Rising' /\ Taken' /\ Used' /\ Copies'
<1>1. Rising' /\ Taken' /\ Copies'
  BY DEF Rising, Taken, Copies, CheckSeqNumber
<1>2. Used'
  <2>1. \A p \in air : p.number < Bound'
    BY DEF Used, InAir
  <2>2. cache' # None => cache' < Bound'
    BY DEF Used
  <2>3. cache' = None => latest' = 0
    BY DEF Used
  <2> QED BY <2>1, <2>2, <2>3 DEF Used
<1> QED BY <1>1, <1>2

LEMMA NumbersGateway ==
  ASSUME Typed, Typed', Numbers, ~stale, Gateway
  PROVE  Rising' /\ Taken' /\ Used' /\ Copies' /\ Blocks'
<1>0. NumberOK /\ NumberOK' /\ Empties /\ AirOK /\ ReceiverOK
  BY TypedIs, TypedIsNext
<1>1. UNCHANGED <<air, cache, latest>>
  BY DEF Gateway, ReadNumber, WriteNumber, OpenFile, WriteUpdate, receiver, history
<1>2. Rising /\ Taken /\ Used /\ Copies /\ Blocks
  BY DEF Numbers
<1>3. Bound \in Nat /\ Bound' = Bound /\ Blocks'
  <2>1. CASE ReadNumber
    <3>1. boot = "read" /\ boot' = "write" /\ number' = Restored /\ file' = Empty
          /\ updates' = updates
      BY <2>1 DEF ReadNumber
    <3>2. CASE file \in Nat
      <4>1. Restored = file + SeqBlock /\ Multiple(file + SeqBlock)
        BY <1>2, <3>2, Kinds, NextBlockOf DEF Restored, Blocks
      <4>2. Bound = file + SeqBlock /\ Bound' = number'
        BY <3>1, <3>2 DEF Bound
      <4> QED BY <1>0, <1>2, <3>1, <4>1, <4>2, Kinds DEF Blocks, NumberOK
    <3>3. CASE file = None
      <4>1. Restored = 0 /\ Bound = 0 /\ Bound' = number'
        BY <3>1, <3>3, Kinds DEF Restored, Bound
      <4> QED BY <1>0, <1>2, <3>1, <4>1, Kinds DEF Blocks, NumberOK
    <3> QED BY <1>0, <1>2, <3>1, <3>2, <3>3 DEF Blocks, NumberOK
  <2>2. CASE WriteNumber
    BY <1>0, <1>2, <2>2 DEF WriteNumber, Blocks, NumberOK, Bound
  <2>3. CASE OpenFile
    <3>1. boot = "run"
      BY <1>0, <2>3 DEF Empties, OpenFile
    <3> QED BY <1>0, <1>2, <2>3, <3>1, Kinds DEF OpenFile, Blocks, NumberOK, Bound
  <2>4. CASE WriteUpdate
    <3>1. boot = "run" /\ updates # <<>>
      BY <1>0, <2>4 DEF Empties, NumberOK, WriteUpdate
    <3>2. /\ Head(updates) = updates[1] /\ 1 \in DOMAIN updates /\ DOMAIN updates = 1..Len(updates)
          /\ Len(updates) \in Nat \ {0} /\ DOMAIN Tail(updates) = 1..(Len(updates) - 1)
          /\ \A i \in 1..(Len(updates) - 1) : Tail(updates)[i] = updates[i + 1]
      BY <1>0, <3>1, TailKeeps DEF NumberOK
    <3>3. \A i \in DOMAIN updates' : Multiple(updates'[i])
      BY <1>2, <2>4, <3>2 DEF WriteUpdate, Blocks
    <3>4. Multiple(file')
      BY <1>2, <2>4, <3>2 DEF WriteUpdate, Blocks
    <3> QED BY <1>0, <2>4, <3>1, <3>3, <3>4 DEF WriteUpdate, Blocks, NumberOK, Bound
  <2> QED BY <2>1, <2>2, <2>3, <2>4 DEF Gateway
<1> QED BY <1>0, <1>1, <1>2, <1>3, NumbersKept DEF AirOK, ReceiverOK

LEMMA NumbersCrash ==
  ASSUME Typed, Numbers, ~stale', Crash
  PROVE  Rising' /\ Taken' /\ Used' /\ Copies' /\ Blocks'
<1>0. NumberOK /\ AirOK /\ ReceiverOK /\ HistoryOK
  BY TypedIs
<1>1. /\ ~stale /\ file \in Nat /\ number <= file + SeqBlock /\ boot # "read"
      /\ boot' = "read" /\ file' = file /\ updates' = <<>>
      /\ UNCHANGED <<air, cache, latest>>
  <2>1. ~(stale \/ file \notin Nat \/ number > file + SeqBlock)
    BY <1>0 DEF Crash, HistoryOK
  <2>2. file \in Nat /\ number <= file + SeqBlock
    BY <1>0, <2>1, Kinds DEF NumberOK
  <2> QED BY <2>1, <2>2 DEF Crash, receiver
<1>2. Rising /\ Taken /\ Used /\ Copies /\ Blocks
  BY <1>1 DEF Numbers
<1>3. Bound = number /\ Bound' = file + SeqBlock
  BY <1>1 DEF Bound
<1>4. Bound \in Nat /\ Bound' \in Nat /\ Bound' >= Bound
  BY <1>0, <1>1, <1>3, Kinds DEF NumberOK
<1>5. Blocks'
  BY <1>1, <1>2, Kinds DEF Blocks
<1> QED BY <1>0, <1>1, <1>2, <1>4, <1>5, NumbersKept DEF AirOK, ReceiverOK

LEMMA NumbersTransmit ==
  ASSUME Typed, Numbers, ~stale, Transmit
  PROVE  Rising' /\ Taken' /\ Used' /\ Copies' /\ Blocks'
<1>0. NumberOK /\ AirOK /\ ReceiverOK
  BY TypedIs
<1>1. Rising /\ Taken /\ Used /\ Copies /\ Blocks
  BY DEF Numbers
<1>2. /\ Bound = number /\ Bound' = number + 1 /\ number \in Nat /\ born \in Nat
      /\ latest \in 0..born
      /\ latest' = latest /\ cache' = cache /\ air' = air \union {Sent}
  BY <1>0, TransmitIs DEF Bound, receiver, AirOK
<1>3. Sent.number = number /\ Sent.at = born + 1 /\ ~Sent.again
  BY DEF Sent
<1>4. \A p \in air : p.number \in Nat /\ p.at \in 1..born
  BY <1>0 DEF AirOK, InAir
<1>5. Rising'
  <2>1. \A p \in air : p.at < Sent.at /\ p.number < Sent.number
    BY <1>1, <1>2, <1>3, <1>4 DEF Used
  <2> QED BY <1>1, <1>2, <1>3, <1>4, <2>1 DEF Rising
<1>6. Taken'
  <2>1. Sent.at > latest
    BY <1>2, <1>3
  <2>2. CheckSeqNumber(Sent.number)
    BY <1>0, <1>1, <1>2, <1>3 DEF CheckSeqNumber, Used, ReceiverOK
  <2> QED BY <1>1, <1>2, <2>1, <2>2 DEF Taken, CheckSeqNumber
<1>7. Used'
  <2>1. \A p \in air' : p.number < Bound'
    BY <1>1, <1>2, <1>3, <1>4 DEF Used
  <2>2. cache' # None => cache' < Bound'
    BY <1>0, <1>1, <1>2 DEF Used, ReceiverOK
  <2> QED BY <1>1, <1>2, <2>1, <2>2 DEF Used
<1>8. Copies'
  BY <1>1, <1>2, <1>3 DEF Copies
<1>9. Blocks'
  <2>1. \A i \in DOMAIN updates' : Multiple(updates'[i])
    <3>1. CASE Multiple(number + 1) /\ updates' = Append(updates, number + 1)
      BY <1>0, <1>1, <1>2, <3>1, AppendKeeps DEF Blocks, NumberOK
    <3>2. CASE updates' = updates
      BY <1>1, <3>2 DEF Blocks
    <3> QED BY <3>1, <3>2 DEF Transmit, Multiple
  <2> QED BY <1>1, <2>1, TransmitIs DEF Blocks
<1> QED BY <1>5, <1>6, <1>7, <1>8, <1>9

LEMMA NumbersLose ==
  ASSUME Typed, Numbers, ~stale, Lose
  PROVE  Rising' /\ Taken' /\ Used' /\ Copies' /\ Blocks'
<1>1. Rising /\ Taken /\ Used /\ Copies /\ Blocks
  BY DEF Numbers
<1>2. air' \subseteq air /\ UNCHANGED <<cache, latest, boot, file, updates, number>>
  BY DEF Lose, receiver, numbers
<1>3. Bound' = Bound
  BY <1>2 DEF Bound
<1>4. Rising' /\ Taken' /\ Copies'
  BY <1>1, <1>2 DEF Rising, Taken, Copies, CheckSeqNumber
<1>5. Used' /\ Blocks'
  BY <1>1, <1>2, <1>3 DEF Used, Blocks
<1> QED BY <1>4, <1>5

LEMMA NumbersReceive ==
  ASSUME Typed, Numbers, ~stale, Receive
  PROVE  Rising' /\ Taken' /\ Used' /\ Copies' /\ Blocks'
<1>0. AirOK /\ ReceiverOK
  BY TypedIs
<1>1. Rising /\ Taken /\ Used /\ Copies /\ Blocks
  BY DEF Numbers
<1>2. UNCHANGED <<boot, file, updates, number>>
  BY ReceiveIs DEF numbers
<1>3. Bound' = Bound /\ Blocks'
  BY <1>1, <1>2 DEF Bound, Blocks
<1>4. PICK p \in air : Lands(p) /\ (Accepts(p) \/ Refuses(p))
  BY ReceiveIs
<1>5. \A q \in air' : \E r \in air : /\ r.at = q.at /\ r.number = q.number
                                     /\ q = r \/ (r = p /\ q.again)
  BY <1>0, <1>4, LandsIs
<1>6. Rising'
  BY <1>1, <1>5 DEF Rising
<1>7. \A q \in air : q.number \in Nat /\ q.at \in Nat
  BY <1>0 DEF AirOK, InAir
<1>8. CASE Accepts(p)
  <2>1. cache' = p.number /\ latest' = p.at /\ CheckSeqNumber(p.number)
    BY <1>8 DEF Accepts
  <2>2. p.at > latest /\ latest \in Nat
    BY <1>0, <1>1, <2>1 DEF Taken, AirOK
  <2>3. cache' # None
    BY <1>7, <2>1, Kinds
  <2>4. Taken'
    <3>1. \A q \in air' : q.at > latest' <=> q.number > cache'
      BY <1>1, <1>5, <1>7, <2>1 DEF Rising
    <3> QED BY <2>3, <3>1 DEF Taken, CheckSeqNumber
  <2>5. Used'
    BY <1>1, <1>3, <1>5, <2>1, <2>3 DEF Used
  <2>6. Copies'
    BY <1>1, <1>5, <1>7, <2>1, <2>2 DEF Copies
  <2> QED BY <1>3, <1>6, <2>4, <2>5, <2>6
<1>9. CASE Refuses(p)
  <2>1. cache' = cache /\ latest' = latest /\ ~CheckSeqNumber(p.number)
    BY <1>9 DEF Refuses, receiver
  <2>2. p.at <= latest
    BY <1>0, <1>1, <1>7, <2>1 DEF Taken, AirOK
  <2>3. Taken'
    BY <1>1, <1>5, <2>1 DEF Taken, CheckSeqNumber
  <2>4. Used'
    BY <1>1, <1>3, <1>5, <2>1 DEF Used
  <2>5. Copies'
    BY <1>1, <1>5, <2>1, <2>2 DEF Copies
  <2> QED BY <1>3, <1>6, <2>3, <2>4, <2>5
<1> QED BY <1>4, <1>8, <1>9

LEMMA NumbersNext == Typed /\ Typed' /\ Numbers /\ [Next]_vars => Numbers'
<1> SUFFICES ASSUME Typed, Typed', Numbers, [Next]_vars, ~stale'
             PROVE  Rising' /\ Taken' /\ Used' /\ Copies' /\ Blocks'
  BY DEF Numbers
<1>0. ~stale
  BY StaleStays
<1>1. CASE UNCHANGED vars \/ \E m \in Messages : SendMsg(m)
  <2>1. UNCHANGED <<air, cache, latest, boot, file, updates, number>>
    BY <1>1 DEF SendMsg, vars, numbers, receiver, history
  <2>2. Rising /\ Taken /\ Used /\ Copies /\ Blocks
    BY <1>0 DEF Numbers
  <2>3. Bound' = Bound
    BY <2>1 DEF Bound
  <2>4. Rising' /\ Taken' /\ Copies'
    BY <2>1, <2>2 DEF Rising, Taken, Copies, CheckSeqNumber
  <2>5. Used' /\ Blocks'
    BY <2>1, <2>2, <2>3 DEF Used, Blocks
  <2> QED BY <2>4, <2>5
<1> QED BY <1>0, <1>1, NumbersGateway, NumbersCrash, NumbersTransmit, NumbersLose, NumbersReceive
     DEF Next

\* Sequence numbers rise with the order of transmission over power losses, as long as
\* none comes while the file is empty or more than a block behind the device, for any
\* SEQ_BLOCK: so the replay cache refuses only copies and what was overtaken.
THEOREM NumbersAlwaysRise == Spec => []NumbersRise
<1>1. Numbers => NumbersRise
  BY DEF Numbers, NumbersRise, Rising, Taken
<1>2. Init => Typed /\ Numbers
  BY TypedInit, NumbersInit
<1>3. Typed /\ Numbers /\ [Next]_vars => (Typed /\ Numbers)'
  BY TypedNext, NumbersNext
<1> QED BY <1>1, <1>2, <1>3, PTL DEF Spec
-----------------------------------------------------------------------------
(* The packets that are ahead. *)

Entries == [pkt : AllPackets, at : Nat]

\* Where an entry is.
Flying(x) == \E p \in air : p.at > latest /\ p.pkt = x.pkt /\ p.at = x.at
Waiting(x) == \E i \in DOMAIN low : x.pkt = low[i] /\ x.at = born + i

AheadRight ==
  /\ Ahead \subseteq Entries
  /\ \A x \in Ahead : x.pkt.kind # "send" /\ x.at > latest /\ (Flying(x) \/ Waiting(x))
  /\ \A x \in Entries : x.pkt.kind # "send" /\ (Flying(x) \/ Waiting(x)) => x \in Ahead
  /\ \A x \in Ahead : Flying(x) => x.at <= born
  /\ \A x \in Ahead : Waiting(x) => x.at > born
  /\ \A x, y \in Ahead : x.at = y.at => x = y

LEMMA AheadIs == Typed => AheadRight
<1> SUFFICES ASSUME Typed PROVE AheadRight
  OBVIOUS
<1>0. SenderOK /\ AirOK
  BY TypedIs
<1>1. /\ \A p \in air : p.at \in 1..born /\ p.pkt \in AllPackets
      /\ \A p, q \in air : p.at = q.at => p.pkt = q.pkt
      /\ born \in Nat /\ latest \in 0..born
  BY <1>0 DEF AirOK, InAir
<1>2. /\ \A i \in DOMAIN low : low[i] \in AllPackets /\ low[i].kind # "send"
      /\ DOMAIN low = 1..Len(low) /\ Len(low) \in Nat
  BY <1>0 DEF SenderOK
<1>3. Ahead \subseteq Entries
  <2> SUFFICES ASSUME NEW x \in Ahead PROVE x \in Entries
    OBVIOUS
  <2>1. CASE \E p \in air : x = [pkt |-> p.pkt, at |-> p.at]
    BY <1>1, <2>1 DEF Entries
  <2>2. CASE \E i \in DOMAIN low : x = [pkt |-> low[i], at |-> born + i]
    BY <1>1, <1>2, <2>2 DEF Entries
  <2> QED BY <2>1, <2>2 DEF Ahead
<1>4. \A x \in Ahead : x.pkt.kind # "send" /\ (Flying(x) \/ Waiting(x))
  <2> SUFFICES ASSUME NEW x \in Ahead PROVE x.pkt.kind # "send" /\ (Flying(x) \/ Waiting(x))
    OBVIOUS
  <2>1. CASE \E p \in {q \in air : q.at > latest /\ q.pkt.kind # "send"} :
               x = [pkt |-> p.pkt, at |-> p.at]
    BY <2>1 DEF Flying
  <2>2. CASE \E i \in DOMAIN low : x = [pkt |-> low[i], at |-> born + i]
    BY <1>2, <2>2 DEF Waiting
  <2> QED BY <2>1, <2>2 DEF Ahead
<1>5. \A x \in Entries : x.pkt.kind # "send" /\ (Flying(x) \/ Waiting(x)) => x \in Ahead
  <2> SUFFICES ASSUME NEW x \in Entries, x.pkt.kind # "send", Flying(x) \/ Waiting(x)
               PROVE  x \in Ahead
    OBVIOUS
  <2>0. x = [pkt |-> x.pkt, at |-> x.at]
    BY DEF Entries
  <2>1. CASE Flying(x)
    BY <2>0, <2>1 DEF Flying, Ahead
  <2>2. CASE Waiting(x)
    BY <2>0, <2>2 DEF Waiting, Ahead
  <2> QED BY <2>1, <2>2
<1>6. \A x \in Ahead : Flying(x) => x.at <= born /\ x.at > latest
  BY <1>1 DEF Flying
<1>7. \A x \in Ahead : Waiting(x) => x.at > born
  BY <1>1, <1>2 DEF Waiting
<1>8. \A x \in Ahead : x.at > latest
  BY <1>1, <1>3, <1>4, <1>6, <1>7 DEF Entries
<1>9. \A x, y \in Ahead : x.at = y.at => x = y
  <2> SUFFICES ASSUME NEW x \in Ahead, NEW y \in Ahead, x.at = y.at PROVE x.pkt = y.pkt
    BY <1>3 DEF Entries
  <2>1. CASE Flying(x) /\ Flying(y)
    BY <1>1, <2>1 DEF Flying
  <2>2. CASE Waiting(x) /\ Waiting(y)
    <3>1. PICK i \in DOMAIN low : x.pkt = low[i] /\ x.at = born + i
      BY <2>2 DEF Waiting
    <3>2. PICK j \in DOMAIN low : y.pkt = low[j] /\ y.at = born + j
      BY <2>2 DEF Waiting
    <3>3. i \in Nat /\ j \in Nat
      BY <1>2
    <3>4. i = j
      <4>1. born + i = born + j
        BY <3>1, <3>2
      <4>2. born \in Nat
        BY <1>1
      <4> QED BY <3>3, <4>1, <4>2
    <3> QED BY <3>1, <3>2, <3>4
  <2>3. x.at \in Nat /\ y.at \in Nat
    BY <1>3 DEF Entries
  <2>4. ~(Flying(x) /\ Waiting(y)) /\ ~(Waiting(x) /\ Flying(y))
    BY <1>1, <1>6, <1>7, <2>3
  <2> QED BY <1>4, <2>1, <2>2, <2>4
<1> QED BY <1>3, <1>4, <1>5, <1>6, <1>7, <1>8, <1>9 DEF AheadRight

LEMMA AheadIsNext == Typed' => AheadRight'
BY AheadIs, PTL

LEMMA EntryIs ==
  ASSUME NEW x \in Entries
  PROVE  /\ x.at \in Nat /\ x.pkt \in AllPackets /\ x.pkt.msg \in Messages
         /\ Place(x.pkt) \in Nat /\ Place(x.pkt) >= 1
         /\ Place(x.pkt) <= Len(Packets[x.pkt.msg])
         /\ (x.pkt.kind = "start" => Place(x.pkt) = 1)
<1>1. x.at \in Nat /\ x.pkt \in AllPackets
  BY DEF Entries
<1>2. Len(Packets[x.pkt.msg]) \in Nat
  BY <1>1, PacketIs, PacketsOf
<1> QED BY <1>1, <1>2, PacketIs

-----------------------------------------------------------------------------
(* How the parts of Stream fare when what is ahead changes. *)

LEMMA FewerInOrder ==
  ASSUME NEW S, NEW T \in SUBSET S
  PROVE  /\ InOrder(S) => InOrder(T)
         /\ \A A, D : Whole(S, A, D) => Whole(T, A, D)
<1>1. InOrder(S) => InOrder(T)
  BY DEF InOrder
<1>2. \A A, D : Whole(S, A, D) => Whole(T, A, D)
  BY DEF Whole
<1> QED BY <1>1, <1>2

LEMMA StartsKept ==
  ASSUME NEW S, NEW T \in SUBSET S, NEW W, NEW G,
         \A x \in S : x.pkt.kind = "start" => x \in T,
         FromStart(S, W)
  PROVE  /\ FromStart(T, W)
         /\ AtEnd(S, W, G) => AtEnd(T, W, G)
<1>1. FromStart(T, W)
  <2>1. \A y \in T :
       \/ y.pkt.kind = "start" \/ y.pkt.msg \in W
       \/ \E x \in T : x.pkt.msg = y.pkt.msg /\ x.pkt.kind = "start" /\ x.at < y.at
    BY DEF FromStart
  <2>2. \A y, z \in T : z.pkt.msg \in W /\ y.at < z.at => y.pkt.msg \in W
    BY DEF FromStart
  <2>3. \A x \in T : x.pkt.msg \in W => x.pkt.kind # "start"
    BY DEF FromStart
  <2> QED BY <2>1, <2>2, <2>3 DEF FromStart
<1>2. ASSUME AtEnd(S, W, G) PROVE AtEnd(T, W, G)
  <2>1. \A m \in G :
       \/ \E x \in T : /\ x.pkt.msg = m /\ x.pkt.kind = "start"
                       /\ \A y \in T : y.pkt.msg # m => y.at < x.at
       \/ m \in W /\ \A y \in T : y.pkt.msg = m
    BY <1>2 DEF AtEnd
  <2> QED BY <1>2, <2>1 DEF AtEnd
<1> QED BY <1>1, <1>2

\* What is cut off at the end.
LEMMA CutOff ==
  ASSUME NEW S \in SUBSET Entries, NEW T \in SUBSET S, NEW W, NEW b \in Nat,
         \A x \in S : x.at <= b => x \in T, \A x \in T : x.at <= b,
         FromStart(S, W)
  PROVE  FromStart(T, W)
<1>0. \A x \in S : x.at \in Nat
  BY DEF Entries
<1>1. \A y \in T :
       \/ y.pkt.kind = "start" \/ y.pkt.msg \in W
       \/ \E x \in T : x.pkt.msg = y.pkt.msg /\ x.pkt.kind = "start" /\ x.at < y.at
  <2> SUFFICES ASSUME NEW y \in T, y.pkt.kind # "start", y.pkt.msg \notin W
               PROVE  \E x \in T : x.pkt.msg = y.pkt.msg /\ x.pkt.kind = "start" /\ x.at < y.at
    OBVIOUS
  <2>1. PICK x \in S : x.pkt.msg = y.pkt.msg /\ x.pkt.kind = "start" /\ x.at < y.at
    BY DEF FromStart
  <2>2. x.at <= b
    BY <1>0, <2>1
  <2> QED BY <2>1, <2>2
<1>2. \A y, z \in T : z.pkt.msg \in W /\ y.at < z.at => y.pkt.msg \in W
  BY DEF FromStart
<1>3. \A x \in T : x.pkt.msg \in W => x.pkt.kind # "start"
  BY DEF FromStart
<1> QED BY <1>1, <1>2, <1>3 DEF FromStart

\* Places that change, in the same order.
LEMMA SameOrder ==
  ASSUME NEW S \in SUBSET Entries, NEW T \in SUBSET Entries, NEW g \in [T -> S],
         NEW W, NEW G, NEW A, NEW D,
         \A x \in T : g[x].pkt = x.pkt,
         \A x, y \in T : x.at < y.at <=> g[x].at < g[y].at,
         \A y \in S : \E x \in T : g[x] = y,
         InOrder(S), FromStart(S, W), AtEnd(S, W, G), Whole(S, A, D)
  PROVE  InOrder(T) /\ FromStart(T, W) /\ AtEnd(T, W, G) /\ Whole(T, A, D)
<1>0. \A x \in T : g[x] \in S /\ x.at \in Nat /\ g[x].at \in Nat
  BY DEF Entries
<1>1. InOrder(T)
  <2>1. \A x, y \in T : x.at = y.at => x = y
    <3> SUFFICES ASSUME NEW x \in T, NEW y \in T, x.at = y.at PROVE x = y
      OBVIOUS
    <3>1. g[x].at = g[y].at
      BY <1>0
    <3>2. g[x] = g[y]
      BY <1>0, <3>1 DEF InOrder
    <3>3. x.pkt = y.pkt
      BY <3>2
    <3> QED BY <3>3 DEF Entries
  <2>2. \A x, y \in T :
          x.pkt.msg = y.pkt.msg /\ x.at < y.at => Place(x.pkt) < Place(y.pkt)
    <3> SUFFICES ASSUME NEW x \in T, NEW y \in T, x.pkt.msg = y.pkt.msg, x.at < y.at
                 PROVE  Place(x.pkt) < Place(y.pkt)
      OBVIOUS
    <3>1. g[x] \in S /\ g[y] \in S /\ g[x].pkt = x.pkt /\ g[y].pkt = y.pkt /\ g[x].at < g[y].at
      BY <1>0
    <3> QED BY <3>1 DEF InOrder
  <2>3. \A x, y, z \in T :
          x.pkt.msg = z.pkt.msg /\ x.at < y.at /\ y.at < z.at => y.pkt.msg = x.pkt.msg
    <3> SUFFICES ASSUME NEW x \in T, NEW y \in T, NEW z \in T,
                        x.pkt.msg = z.pkt.msg, x.at < y.at, y.at < z.at
                 PROVE  y.pkt.msg = x.pkt.msg
      OBVIOUS
    <3>1. g[x] \in S /\ g[y] \in S /\ g[z] \in S
          /\ g[x].pkt = x.pkt /\ g[y].pkt = y.pkt /\ g[z].pkt = z.pkt
          /\ g[x].at < g[y].at /\ g[y].at < g[z].at
      BY <1>0
    <3> QED BY <3>1 DEF InOrder
  <2> QED BY <2>1, <2>2, <2>3 DEF InOrder
<1>2. FromStart(T, W)
  <2>1. \A y \in T :
       \/ y.pkt.kind = "start" \/ y.pkt.msg \in W
       \/ \E x \in T : x.pkt.msg = y.pkt.msg /\ x.pkt.kind = "start" /\ x.at < y.at
    <3> SUFFICES ASSUME NEW y \in T, y.pkt.kind # "start", y.pkt.msg \notin W
                 PROVE  \E x \in T : x.pkt.msg = y.pkt.msg /\ x.pkt.kind = "start" /\ x.at < y.at
      OBVIOUS
    <3>1. PICK v \in S : v.pkt.msg = y.pkt.msg /\ v.pkt.kind = "start" /\ v.at < g[y].at
      BY <1>0 DEF FromStart
    <3>2. PICK x \in T : g[x] = v
      OBVIOUS
    <3> QED BY <3>1, <3>2
  <2>2. \A y, z \in T : z.pkt.msg \in W /\ y.at < z.at => y.pkt.msg \in W
    <3> SUFFICES ASSUME NEW y \in T, NEW z \in T, z.pkt.msg \in W, y.at < z.at
                 PROVE  y.pkt.msg \in W
      OBVIOUS
    <3>1. g[y] \in S /\ g[z] \in S /\ g[y].pkt = y.pkt /\ g[z].pkt = z.pkt /\ g[y].at < g[z].at
      BY <1>0
    <3> QED BY <3>1 DEF FromStart
  <2>3. \A x \in T : x.pkt.msg \in W => x.pkt.kind # "start"
    <3> TAKE x \in T
    <3>1. g[x] \in S /\ g[x].pkt = x.pkt
      BY <1>0
    <3> QED BY <3>1 DEF FromStart
  <2> QED BY <2>1, <2>2, <2>3 DEF FromStart
<1>3. AtEnd(T, W, G)
  <2>1. \A m, n \in G : m = n
    BY DEF AtEnd
  <2>2. \A m \in G :
       \/ \E x \in T : /\ x.pkt.msg = m /\ x.pkt.kind = "start"
                       /\ \A y \in T : y.pkt.msg # m => y.at < x.at
       \/ m \in W /\ \A y \in T : y.pkt.msg = m
    <3> TAKE m \in G
    <3>1. CASE \E v \in S : /\ v.pkt.msg = m /\ v.pkt.kind = "start"
                            /\ \A y \in S : y.pkt.msg # m => y.at < v.at
      <4>1. PICK v \in S : /\ v.pkt.msg = m /\ v.pkt.kind = "start"
                           /\ \A y \in S : y.pkt.msg # m => y.at < v.at
        BY <3>1
      <4>2. PICK x \in T : g[x] = v
        OBVIOUS
      <4>3. \A y \in T : y.pkt.msg # m => y.at < x.at
        <5> TAKE y \in T
        <5>1. g[y] \in S /\ g[y].pkt = y.pkt
          BY <1>0
        <5> QED BY <4>1, <4>2, <5>1
      <4> QED BY <4>1, <4>2, <4>3
    <3>2. CASE m \in W /\ \A y \in S : y.pkt.msg = m
      <4>1. \A y \in T : y.pkt.msg = m
        <5> TAKE y \in T
        <5>1. g[y] \in S /\ g[y].pkt = y.pkt
          BY <1>0
        <5> QED BY <3>2, <5>1
      <4> QED BY <3>2, <4>1
    <3> QED BY <3>1, <3>2 DEF AtEnd
  <2> QED BY <2>1, <2>2 DEF AtEnd
<1>4. Whole(T, A, D)
  <2>1. \A i \in DOMAIN A : \E m \in D : A[i] = Text[m] /\ \A x \in T : x.pkt.msg # m
    <3> TAKE i \in DOMAIN A
    <3>1. PICK m \in D : A[i] = Text[m] /\ \A x \in S : x.pkt.msg # m
      BY DEF Whole
    <3>2. \A x \in T : x.pkt.msg # m
      <4> TAKE x \in T
      <4>1. g[x] \in S /\ g[x].pkt = x.pkt
        BY <1>0
      <4> QED BY <3>1, <4>1
    <3> QED BY <3>1, <3>2
  <2> QED BY <2>1 DEF Whole
<1> QED BY <1>1, <1>2, <1>3, <1>4

\* A packet that is submitted, the first of its message or the next one.
LEMMA OneMore ==
  ASSUME NEW S \in SUBSET Entries, NEW e \in Entries, NEW W, NEW G, NEW B, NEW f,
         \A x \in S : x.at < e.at,
         \A x \in S : x.pkt.msg = e.pkt.msg => Place(x.pkt) < Place(e.pkt),
         e.pkt.kind = "start" => e.pkt.msg \notin B /\ \A x \in S : x.pkt.msg # e.pkt.msg,
         e.pkt.kind # "start" => e.pkt.msg \in G,
         G \subseteq {e.pkt.msg},
         InOrder(S), FromStart(S, W), AtEnd(S, W, G), Begins(W, B, f)
  PROVE  /\ InOrder(S \union {e}) /\ FromStart(S \union {e}, W)
         /\ \A H \in SUBSET {e.pkt.msg} : AtEnd(S \union {e}, W, H)
<1> DEFINE T == S \union {e}
           m == e.pkt.msg
<1>0. /\ \A x \in T : x.at \in Nat /\ Place(x.pkt) \in Nat /\ Place(x.pkt) >= 1
                      /\ (x.pkt.kind = "start" => Place(x.pkt) = 1)
  BY EntryIs
<1>1. CASE e.pkt.kind = "start"
  <2>1. \A x \in S : x.pkt.msg # m
    BY <1>1
  <2>2. m \notin W
    BY <1>1 DEF Begins
  <2>3. InOrder(T)
    <3>1. \A x, y \in T : x.at = y.at => x = y
      BY <1>0 DEF InOrder
    <3>2. \A x, y \in T : x.pkt.msg = y.pkt.msg /\ x.at < y.at => Place(x.pkt) < Place(y.pkt)
      BY <1>0, <2>1 DEF InOrder
    <3>3. \A x, y, z \in T :
            x.pkt.msg = z.pkt.msg /\ x.at < y.at /\ y.at < z.at => y.pkt.msg = x.pkt.msg
      BY <1>0, <2>1 DEF InOrder
    <3> QED BY <3>1, <3>2, <3>3 DEF InOrder
  <2>4. FromStart(T, W)
    <3>1. \A y \in T :
         \/ y.pkt.kind = "start" \/ y.pkt.msg \in W
         \/ \E x \in T : x.pkt.msg = y.pkt.msg /\ x.pkt.kind = "start" /\ x.at < y.at
      BY <1>1 DEF FromStart
    <3>2. \A y, z \in T : z.pkt.msg \in W /\ y.at < z.at => y.pkt.msg \in W
      BY <1>0, <2>2 DEF FromStart
    <3>3. \A x \in T : x.pkt.msg \in W => x.pkt.kind # "start"
      BY <2>2 DEF FromStart
    <3> QED BY <3>1, <3>2, <3>3 DEF FromStart
  <2>5. \A H \in SUBSET {m} : AtEnd(T, W, H)
    <3> TAKE H \in SUBSET {m}
    <3>1. /\ e \in T /\ e.pkt.msg = m /\ e.pkt.kind = "start"
          /\ \A y \in T : y.pkt.msg # m => y.at < e.at
      BY <1>1
    <3> QED BY <3>1 DEF AtEnd
  <2> QED BY <2>3, <2>4, <2>5
<1>2. CASE e.pkt.kind # "start"
  <2>1. \/ \E x \in S : /\ x.pkt.msg = m /\ x.pkt.kind = "start"
                        /\ \A y \in S : y.pkt.msg # m => y.at < x.at
        \/ m \in W /\ \A y \in S : y.pkt.msg = m
    BY <1>2 DEF AtEnd
  <2>2. \A x, y \in S : x.pkt.msg = m /\ x.at < y.at => y.pkt.msg = m
    <3> SUFFICES ASSUME NEW x \in S, NEW y \in S, x.pkt.msg = m, x.at < y.at, y.pkt.msg # m
                 PROVE  FALSE
      OBVIOUS
    <3>1. PICK s \in S : s.pkt.msg = m /\ s.pkt.kind = "start" /\ y.at < s.at
      BY <2>1
    <3>2. x.at < s.at
      BY <1>0, <3>1
    <3>3. Place(x.pkt) < Place(s.pkt)
      BY <3>1, <3>2 DEF InOrder
    <3> QED BY <1>0, <3>1, <3>3
  <2>3. InOrder(T)
    <3>1. \A x, y \in T : x.at = y.at => x = y
      BY <1>0 DEF InOrder
    <3>2. \A x, y \in T : x.pkt.msg = y.pkt.msg /\ x.at < y.at => Place(x.pkt) < Place(y.pkt)
      BY <1>0 DEF InOrder
    <3>3. \A x, y, z \in T :
            x.pkt.msg = z.pkt.msg /\ x.at < y.at /\ y.at < z.at => y.pkt.msg = x.pkt.msg
      BY <1>0, <2>2 DEF InOrder
    <3> QED BY <3>1, <3>2, <3>3 DEF InOrder
  <2>4. FromStart(T, W)
    <3>1. \A y \in T :
         \/ y.pkt.kind = "start" \/ y.pkt.msg \in W
         \/ \E x \in T : x.pkt.msg = y.pkt.msg /\ x.pkt.kind = "start" /\ x.at < y.at
      BY <2>1 DEF FromStart
    <3>2. m \in W => \A y \in S : y.pkt.msg = m
      BY <2>1 DEF FromStart
    <3>3. \A y, z \in T : z.pkt.msg \in W /\ y.at < z.at => y.pkt.msg \in W
      <4> SUFFICES ASSUME NEW y \in T, NEW z \in T, z.pkt.msg \in W, y.at < z.at
                   PROVE  y.pkt.msg \in W
        OBVIOUS
      <4>1. CASE z = e
        BY <3>2, <4>1
      <4>2. CASE z \in S
        BY <1>0, <4>2 DEF FromStart
      <4> QED BY <4>1, <4>2
    <3>4. \A x \in T : x.pkt.msg \in W => x.pkt.kind # "start"
      BY <1>2 DEF FromStart
    <3> QED BY <3>1, <3>3, <3>4 DEF FromStart
  <2>5. \A H \in SUBSET {m} : AtEnd(T, W, H)
    <3> TAKE H \in SUBSET {m}
    <3>1. \/ \E x \in T : /\ x.pkt.msg = m /\ x.pkt.kind = "start"
                          /\ \A y \in T : y.pkt.msg # m => y.at < x.at
          \/ m \in W /\ \A y \in T : y.pkt.msg = m
      BY <2>1
    <3> QED BY <3>1 DEF AtEnd
  <2> QED BY <2>3, <2>4, <2>5
<1> QED BY <1>1, <1>2

\* What is ahead of entry e.
After(S, e) == {x \in S : x.at > e.at}

\* The FRAGMENT_START that the receiver takes.
LEMMA StartTaken ==
  ASSUME NEW S \in SUBSET Entries, NEW e \in S, NEW W, NEW G,
         e.pkt.kind = "start", \A x \in S : x.pkt.kind = "start" => x.at >= e.at,
         InOrder(S), FromStart(S, W), AtEnd(S, W, G)
  PROVE  FromStart(After(S, e), {e.pkt.msg}) /\ AtEnd(After(S, e), {e.pkt.msg}, G)
<1> DEFINE T == After(S, e)
           m == e.pkt.msg
<1>0. /\ \A x \in S : x.at \in Nat /\ Place(x.pkt) \in Nat
                      /\ (x.pkt.kind = "start" => Place(x.pkt) = 1)
      /\ \A x \in T : x \in S /\ x.at > e.at
      /\ \A x \in S : x.at > e.at => x \in T
  BY EntryIs DEF After
<1>1. m \notin W
  BY DEF FromStart
<1>2. \A x \in S : x.at > e.at \/ x = e \/ x.pkt.kind # "start"
  BY <1>0 DEF InOrder
<1> HIDE DEF T
<1>3. FromStart(T, {m})
  <2>1. \A y \in T :
       \/ y.pkt.kind = "start" \/ y.pkt.msg \in {m}
       \/ \E x \in T : x.pkt.msg = y.pkt.msg /\ x.pkt.kind = "start" /\ x.at < y.at
    <3> SUFFICES ASSUME NEW y \in T, y.pkt.kind # "start", y.pkt.msg # m
                 PROVE  \E x \in T : x.pkt.msg = y.pkt.msg /\ x.pkt.kind = "start" /\ x.at < y.at
      OBVIOUS
    <3>1. y \in S /\ e.at < y.at
      BY <1>0
    <3>2. y.pkt.msg \notin W
      BY <1>1, <3>1 DEF FromStart
    <3>3. PICK x \in S : x.pkt.msg = y.pkt.msg /\ x.pkt.kind = "start" /\ x.at < y.at
      BY <3>1, <3>2 DEF FromStart
    <3>4. x \in T
      BY <1>0, <1>2, <3>3
    <3> QED BY <3>3, <3>4
  <2>2. \A y, z \in T : z.pkt.msg \in {m} /\ y.at < z.at => y.pkt.msg \in {m}
    BY <1>0 DEF InOrder
  <2>3. \A x \in T : x.pkt.msg \in {m} => x.pkt.kind # "start"
    <3> SUFFICES ASSUME NEW x \in T, x.pkt.msg = m, x.pkt.kind = "start" PROVE FALSE
      OBVIOUS
    <3>1. Place(e.pkt) < Place(x.pkt)
      BY <1>0 DEF InOrder
    <3> QED BY <1>0, <3>1
  <2> QED BY <2>1, <2>2, <2>3 DEF FromStart
<1>4. AtEnd(T, {m}, G)
  <2>1. \A n \in G :
       \/ \E x \in T : /\ x.pkt.msg = n /\ x.pkt.kind = "start"
                       /\ \A y \in T : y.pkt.msg # n => y.at < x.at
       \/ n \in {m} /\ \A y \in T : y.pkt.msg = n
    <3> TAKE n \in G
    <3>1. ~(n \in W /\ \A y \in S : y.pkt.msg = n)
      BY <1>1
    <3>2. PICK x \in S : /\ x.pkt.msg = n /\ x.pkt.kind = "start"
                         /\ \A y \in S : y.pkt.msg # n => y.at < x.at
      BY <3>1 DEF AtEnd
    <3>3. CASE x = e
      <4>1. \A y \in T : y.pkt.msg = n
        <5> SUFFICES ASSUME NEW y \in T, y.pkt.msg # n PROVE FALSE
          OBVIOUS
        <5>1. y.at < e.at /\ y.at > e.at /\ y.at \in Nat /\ e.at \in Nat
          BY <1>0, <3>2, <3>3
        <5> QED BY <5>1
      <4> QED BY <3>2, <3>3, <4>1
    <3>4. CASE x.at > e.at
      BY <1>0, <3>2, <3>4
    <3> QED BY <1>2, <3>2, <3>3, <3>4
  <2> QED BY <2>1 DEF AtEnd
<1> QED BY <1>3, <1>4 DEF T

\* Another fragment that the receiver takes.
LEMMA OtherTaken ==
  ASSUME NEW S \in SUBSET Entries, NEW e \in S, NEW W, NEW G,
         e.pkt.kind # "start", \A x \in S : x.pkt.kind = "start" => x.at >= e.at,
         InOrder(S), FromStart(S, W), AtEnd(S, W, G)
  PROVE  FromStart(After(S, e), W) /\ AtEnd(After(S, e), W, G) /\ e.pkt.msg \in W
<1>0. \A x \in S : x.at \in Nat
  BY DEF Entries
<1>1. \A x \in S : x.pkt.kind = "start" => x \in After(S, e)
  BY <1>0 DEF InOrder, After
<1>2. After(S, e) \in SUBSET S
  BY DEF After
<1>3. e.pkt.msg \in W
  BY <1>0 DEF FromStart
<1> QED BY <1>1, <1>2, <1>3, StartsKept

\* A packet that is complete is what was sent.
LEMMA CompleteIs ==
  ASSUME NEW f, Slotted(f), f # None, NEW W \in SUBSET Messages, NEW B, Begins(W, B, f),
         None \notin Range(f.packets)
  PROVE  \E m \in W : f.packets = Text[m]
<1>1. PICK m \in W : /\ f.len = Size[m]
                     /\ \A k \in DOMAIN f.packets : f.packets[k] \in {None, <<m, k - 1>>}
  BY DEF Begins
<1>2. f.packets \in [1..Slots(m) -> Content \union {None}]
  BY <1>1 DEF Slotted, Slots
<1>3. \A k \in 1..Slots(m) : f.packets[k] = <<m, k - 1>>
  BY <1>1, <1>2 DEF Range
<1>4. Text[m] = [k \in 1..Slots(m) |-> <<m, k - 1>>]
  BY DEF Text, Slots
<1> QED BY <1>1, <1>2, <1>3, <1>4

LEMMA BeginsAfresh ==
  ASSUME NEW B \in SUBSET Messages, NEW m \in B, ~Short(m)
  PROVE  Begins({m}, B, NewFragmentedPkt(Size[m]))
<1>1. Size[m] \in Nat \ {0} /\ Size[m] \in Range(Size)
  BY TransportAssumption DEF Range
<1> QED BY <1>1, SlottedNew DEF Begins

LEMMA BeginsAdded ==
  ASSUME NEW f, Slotted(f), f # None, NEW W \in SUBSET Messages, NEW B, Begins(W, B, f),
         NEW m \in W, NEW i \in Nat, i + 1 \in DOMAIN f.packets
  PROVE  Begins(W, B, Added(f, i + 1, <<m, i>>))
<1>1. <<m, i>> \in Content
  BY DEF Content
<1>2. /\ Added(f, i + 1, <<m, i>>).len = f.len
      /\ DOMAIN Added(f, i + 1, <<m, i>>).packets = DOMAIN f.packets
      /\ Added(f, i + 1, <<m, i>>).packets[i + 1] = <<m, i>>
      /\ \A k \in DOMAIN f.packets \ {i + 1} :
           Added(f, i + 1, <<m, i>>).packets[k] = f.packets[k]
  <2> DEFINE d == <<m, i>>
             j == i + 1
  <2>1. d \in Content /\ j \in DOMAIN f.packets
    BY <1>1
  <2> HIDE DEF d, j
  <2>2. /\ Added(f, j, d).len = f.len /\ DOMAIN Added(f, j, d).packets = DOMAIN f.packets
        /\ Added(f, j, d).packets[j] = d
        /\ \A k \in DOMAIN f.packets \ {j} : Added(f, j, d).packets[k] = f.packets[k]
    BY <2>1, SlottedAdd
  <2> QED BY <2>2 DEF d, j
<1>3. f.len = Size[m] /\ \A k \in DOMAIN f.packets : f.packets[k] \in {None, <<m, k - 1>>}
  BY DEF Begins
<1>4. (i + 1) - 1 = i
  OBVIOUS
<1>5. \A k \in DOMAIN f.packets :
        Added(f, i + 1, <<m, i>>).packets[k] \in {None, <<m, k - 1>>}
  <2> TAKE k \in DOMAIN f.packets
  <2>1. CASE k = i + 1
    BY <1>2, <1>4, <2>1
  <2>2. CASE k # i + 1
    BY <1>2, <1>3, <2>2
  <2> QED BY <2>1, <2>2
<1> QED BY <1>2, <1>3, <1>5 DEF Begins

LEMMA WholeAgain ==
  ASSUME NEW S \in SUBSET Entries, NEW e \in S, NEW A \in Seq(Seq(Content)),
         NEW D \in SUBSET Messages,
         NEW m \in D, e.pkt.msg = m, Place(e.pkt) = Len(Packets[m]), InOrder(S), Whole(S, A, D)
  PROVE  Whole(After(S, e), Append(A, Text[m]), D)
<1> DEFINE T == After(S, e)
           N == Append(A, Text[m])
<1>0. Text[m] \in Seq(Content)
  BY TextOf
<1>1. /\ DOMAIN N = 1..(Len(A) + 1) /\ DOMAIN A = 1..Len(A) /\ Len(A) \in Nat
      /\ \A i \in 1..Len(A) : N[i] = A[i]
      /\ N[Len(A) + 1] = Text[m]
  BY <1>0, AppendKeeps
<1>2. \A x \in T : x \in S /\ x.pkt.msg # m
  <2> SUFFICES ASSUME NEW x \in T, x.pkt.msg = m PROVE FALSE
    BY DEF After
  <2>1. x \in S /\ e.at < x.at
    BY DEF After, Entries
  <2>2. Place(e.pkt) < Place(x.pkt)
    BY <2>1 DEF InOrder
  <2>3. Place(x.pkt) <= Len(Packets[m]) /\ Place(x.pkt) \in Nat /\ Place(e.pkt) \in Nat
    BY <2>1, EntryIs
  <2> QED BY <2>2, <2>3
<1> HIDE DEF N, T
<1>3. \A i \in 1..Len(A) : N[i] # Text[m]
  <2> TAKE i \in 1..Len(A)
  <2>1. PICK n \in D : A[i] = Text[n] /\ \A x \in S : x.pkt.msg # n
    BY <1>1 DEF Whole
  <2>2. n # m
    BY <2>1
  <2> QED BY <1>1, <2>1, <2>2, TextOf
<1>4. \A i \in DOMAIN N : \E n \in D : N[i] = Text[n] /\ \A x \in T : x.pkt.msg # n
  <2> TAKE i \in DOMAIN N
  <2>1. CASE i = Len(A) + 1
    BY <1>1, <1>2, <2>1
  <2>2. CASE i \in 1..Len(A)
    <3>1. PICK n \in D : A[i] = Text[n] /\ \A x \in S : x.pkt.msg # n
      BY <1>1, <2>2 DEF Whole
    <3> QED BY <1>1, <1>2, <2>2, <3>1
  <2> QED BY <1>1, <2>1, <2>2
<1>5. \A i, j \in DOMAIN N : N[i] = N[j] => i = j
  <2> SUFFICES ASSUME NEW i \in DOMAIN N, NEW j \in DOMAIN N, N[i] = N[j] PROVE i = j
    OBVIOUS
  <2>1. CASE i \in 1..Len(A) /\ j \in 1..Len(A)
    BY <1>1, <2>1 DEF Whole, IsInjective
  <2>2. CASE i = Len(A) + 1 \/ j = Len(A) + 1
    BY <1>1, <1>3, <2>2
  <2> QED BY <1>1, <2>1, <2>2
<1> QED BY <1>4, <1>5 DEF Whole, IsInjective, N, T
-----------------------------------------------------------------------------
(* Fragments are not mixed. *)

LEMMA FlagsStay ==
  ASSUME Typed, [Next]_vars
  PROVE  (startLost => startLost') /\ (overlap => overlap') /\ (stale => stale')
<1>1. {startLost, overlap, stale} \subseteq BOOLEAN
  BY TypedIs DEF HistoryOK
<1>2. (startLost => startLost')
  BY <1>1 DEF Next, Gateway, SendMsg, ReadNumber, WriteNumber, OpenFile, WriteUpdate, Crash,
      Transmit, Lose, Receive, Missing, vars, history
<1>3. (overlap => overlap')
  BY <1>1 DEF Next, Gateway, SendMsg, ReadNumber, WriteNumber, OpenFile, WriteUpdate, Crash,
      Transmit, Lose, Receive, vars, history
<1> QED BY <1>2, <1>3, StaleStays

LEMMA StreamInit == Init => Stream
<1> SUFFICES ASSUME Init PROVE Counted /\ Fragmented({})
  BY DEF Stream
<1>1. Ahead = {}
  BY DEF Init, Ahead
<1>2. Going = {}
  BY DEF Init, Going, Underway, Begun
<1>3. IsInjective(<<>>)
  BY DEF IsInjective
<1> QED BY <1>1, <1>2, <1>3
     DEF Init, Counted, Fragmented, InOrder, FromStart, AtEnd, Begins, Whole

\* What the steps have to show.
StreamOn == Counted /\ \E V \in SUBSET Messages : Fragmented(V)
LEMMA StreamOnIs ==
  ASSUME NEW V \in SUBSET Messages, Counted', InOrder(Ahead'), FromStart(Ahead', V),
         AtEnd(Ahead', V, Going'), Begins(V, Started', frpkt'), Whole(Ahead', assembled', Finished')
  PROVE  StreamOn'
BY DEF StreamOn, Fragmented

\* The steps that send nothing and take nothing.
LEMMA SentSame ==
  ASSUME UNCHANGED <<sent, cut>>
  PROVE  Going' = Going /\ Started' = Started /\ Finished' = Finished
BY DEF Going, Started, Finished, Begun, Underway

LEMMA CountedFewer ==
  ASSUME Counted, Ahead' \subseteq Ahead, UNCHANGED sent
  PROVE  Counted'
BY DEF Counted

LEMMA StreamSame ==
  ASSUME NEW W \in SUBSET Messages, Counted, Fragmented(W), Ahead' = Ahead,
         UNCHANGED <<sent, cut, frpkt, assembled>>
  PROVE  StreamOn'
BY SentSame, CountedFewer, StreamOnIs DEF Fragmented

LEMMA StreamOthers ==
  ASSUME NEW W \in SUBSET Messages, Counted, Fragmented(W), Gateway \/ UNCHANGED vars
  PROVE  StreamOn'
<1>1. UNCHANGED <<sent, cut, low, frpkt, assembled, air, latest, born>>
  BY DEF Gateway, ReadNumber, WriteNumber, OpenFile, WriteUpdate, sender, receiver, history, vars
<1>2. Ahead' = Ahead
  BY <1>1 DEF Ahead
<1> QED BY <1>1, <1>2, StreamSame

\* What is ahead, from where the entries are.
LEMMA AheadSame ==
  ASSUME AheadRight, AheadRight',
         \A x \in Entries : Flying(x)' \/ Waiting(x)' <=> Flying(x) \/ Waiting(x)
  PROVE  Ahead' = Ahead
<1>1. Ahead' \subseteq Ahead
  BY DEF AheadRight
<1>2. Ahead \subseteq Ahead'
  BY DEF AheadRight
<1> QED BY <1>1, <1>2

LEMMA StreamTransmitLow ==
  ASSUME Typed, Typed', NEW W \in SUBSET Messages, Counted, Fragmented(W), Transmit, high = <<>>
  PROVE  StreamOn'
<1>0. AheadRight /\ AheadRight' /\ SenderOK
  BY AheadIs, AheadIsNext, TypedIs
<1>1. /\ low # <<>> /\ Foremost = Head(low) /\ low' = Tail(low) /\ air' = air \union {Sent}
      /\ born' = born + 1 /\ born \in Nat /\ latest' = latest /\ latest \in 0..born
      /\ UNCHANGED <<sent, cut, frpkt, assembled>>
  BY TransmitIs, TypedIs DEF receiver, AirOK
<1>2. /\ Head(low) = low[1] /\ Len(low) \in Nat \ {0} /\ DOMAIN low = 1..Len(low)
      /\ DOMAIN Tail(low) = 1..(Len(low) - 1)
      /\ \A i \in 1..(Len(low) - 1) : Tail(low)[i] = low[i + 1]
  BY <1>0, <1>1, TailKeeps DEF SenderOK
<1>3. \A x \in Entries :
        Flying(x)' <=> Flying(x) \/ (x.pkt = low[1] /\ x.at = born + 1)
  <2> TAKE x \in Entries
  <2>1. Sent.pkt = low[1] /\ Sent.at = born + 1 /\ Sent.at > latest
    BY <1>1, <1>2 DEF Sent
  <2>2. Flying(x)' <=> Flying(x) \/ (Sent.at > latest /\ Sent.pkt = x.pkt /\ Sent.at = x.at)
    BY <1>1 DEF Flying
  <2> QED BY <2>1, <2>2
<1>4. \A x \in Entries :
        Waiting(x) <=> Waiting(x)' \/ (x.pkt = low[1] /\ x.at = born + 1)
  <2> TAKE x \in Entries
  <2>1. Waiting(x)' <=> \E i \in 1..(Len(low) - 1) : x.pkt = low[i + 1] /\ x.at = born + 1 + i
    BY <1>1, <1>2 DEF Waiting
  <2>2. Waiting(x) <=> \E i \in 1..Len(low) : x.pkt = low[i] /\ x.at = born + i
    BY <1>2 DEF Waiting
  <2>3. ASSUME Waiting(x), ~(x.pkt = low[1] /\ x.at = born + 1) PROVE Waiting(x)'
    <3>1. PICK i \in 1..Len(low) : x.pkt = low[i] /\ x.at = born + i
      BY <2>2, <2>3
    <3>2. i # 1
      BY <2>3, <3>1
    <3>3. i - 1 \in 1..(Len(low) - 1) /\ (i - 1) + 1 = i /\ born + 1 + (i - 1) = born + i
      BY <1>1, <1>2, <3>2
    <3> QED BY <2>1, <3>1, <3>3
  <2>4. ASSUME Waiting(x)' PROVE Waiting(x)
    <3>1. PICK i \in 1..(Len(low) - 1) : x.pkt = low[i + 1] /\ x.at = born + 1 + i
      BY <2>1, <2>4
    <3>2. i + 1 \in 1..Len(low) /\ born + 1 + i = born + (i + 1)
      BY <1>1, <1>2
    <3> QED BY <2>2, <3>1, <3>2
  <2>5. 1 \in 1..Len(low)
    BY <1>2
  <2> QED BY <2>2, <2>3, <2>4, <2>5
<1>5. Ahead' = Ahead
  BY <1>0, <1>3, <1>4, AheadSame
<1> QED BY <1>1, <1>5, StreamSame

LEMMA StreamTransmitHigh ==
  ASSUME Typed, Typed', NEW W \in SUBSET Messages, Counted, Fragmented(W), Transmit, high # <<>>
  PROVE  StreamOn'
<1>0. AheadRight /\ AheadRight' /\ SenderOK
  BY AheadIs, AheadIsNext, TypedIs
<1>1. /\ Foremost = Head(high) /\ low' = low /\ air' = air \union {Sent}
      /\ born' = born + 1 /\ born \in Nat /\ latest' = latest
      /\ UNCHANGED <<sent, cut, frpkt, assembled>>
  BY TransmitIs, TypedIs DEF receiver
<1>2. Sent.pkt.kind = "send"
  <2>1. Head(high) = high[1] /\ 1 \in DOMAIN high
    BY <1>0, TailKeeps DEF SenderOK
  <2> QED BY <1>0, <1>1, <2>1 DEF SenderOK, Sent
<1>3. \A x \in Entries : x.pkt.kind # "send" => (Flying(x)' <=> Flying(x))
  BY <1>1, <1>2 DEF Flying
<1> DEFINE Down(x) == IF x.at <= born THEN x ELSE [pkt |-> x.pkt, at |-> x.at - 1]
           Up(x) == IF x.at <= born THEN x ELSE [pkt |-> x.pkt, at |-> x.at + 1]
<1>4. \A x \in Ahead' : /\ Down(x) \in Ahead /\ Down(x).pkt = x.pkt
                        /\ x.at <= born \/ x.at >= born + 2
  <2> TAKE x \in Ahead'
  <2>0. x \in Entries /\ x.at \in Nat /\ x.pkt \in AllPackets /\ x.pkt.kind # "send"
    BY <1>0 DEF AheadRight, Entries
  <2>1. CASE Flying(x)'
    <3>1. Flying(x) /\ x \in Ahead /\ x.at <= born
      BY <1>0, <1>3, <2>0, <2>1 DEF AheadRight
    <3> QED BY <3>1
  <2>2. CASE Waiting(x)'
    <3>1. PICK i \in DOMAIN low : x.pkt = low[i] /\ x.at = born + 1 + i
      BY <1>1, <2>2 DEF Waiting
    <3>2. i \in Nat \ {0}
      BY <1>0 DEF SenderOK
    <3>3. x.at >= born + 2 /\ x.at - 1 = born + i /\ x.at - 1 \in Nat /\ ~(x.at <= born)
      BY <1>1, <3>1, <3>2
    <3>4. Down(x) = [pkt |-> x.pkt, at |-> x.at - 1]
      BY <3>3
    <3> HIDE DEF Down
    <3>5. Down(x) \in Entries /\ Down(x).pkt = low[i] /\ Down(x).at = born + i
      BY <2>0, <3>1, <3>3, <3>4 DEF Entries
    <3>6. Waiting(Down(x))
      BY <3>5 DEF Waiting
    <3> QED BY <1>0, <2>0, <3>1, <3>3, <3>5, <3>6 DEF AheadRight
  <2> QED BY <1>0, <2>1, <2>2 DEF AheadRight
<1>5. \A y \in Ahead : Up(y) \in Ahead' /\ Down(Up(y)) = y
  <2> TAKE y \in Ahead
  <2>0. y \in Entries /\ y.at \in Nat /\ y.pkt \in AllPackets /\ y.pkt.kind # "send"
        /\ y = [pkt |-> y.pkt, at |-> y.at]
    BY <1>0 DEF AheadRight, Entries
  <2>1. CASE Flying(y)
    <3>1. y.at <= born /\ Flying(y)'
      BY <1>0, <1>3, <2>0, <2>1 DEF AheadRight
    <3>2. y \in Ahead'
      BY <1>0, <2>0, <3>1 DEF AheadRight
    <3> QED BY <3>1, <3>2
  <2>2. CASE Waiting(y)
    <3>1. PICK i \in DOMAIN low : y.pkt = low[i] /\ y.at = born + i
      BY <2>2 DEF Waiting
    <3>2. i \in Nat \ {0}
      BY <1>0 DEF SenderOK
    <3>3. ~(y.at <= born) /\ y.at + 1 = born + 1 + i /\ y.at + 1 \in Nat /\ ~(y.at + 1 <= born)
          /\ (y.at + 1) - 1 = y.at
      BY <1>1, <3>1, <3>2
    <3>4. Up(y) = [pkt |-> y.pkt, at |-> y.at + 1]
      BY <3>3
    <3>5. Down(Up(y)) = y
      BY <2>0, <3>3, <3>4
    <3> HIDE DEF Up, Down
    <3>6. Up(y) \in Entries /\ Up(y).pkt = low[i] /\ Up(y).at = born + 1 + i
      BY <2>0, <3>1, <3>3, <3>4 DEF Entries
    <3>7. PICK v \in Entries : v = Up(y)
      BY <3>6
    <3>8. Waiting(v)' /\ v.pkt.kind # "send"
      BY <1>1, <2>0, <3>1, <3>6, <3>7 DEF Waiting
    <3> QED BY <1>0, <3>5, <3>6, <3>7, <3>8 DEF AheadRight
  <2> QED BY <1>0, <2>1, <2>2 DEF AheadRight
<1>6. \A x, y \in Ahead' : x.at < y.at <=> Down(x).at < Down(y).at
  <2> TAKE x, y \in Ahead'
  <2>1. /\ x.at \in Nat /\ (x.at <= born \/ x.at >= born + 2)
        /\ y.at \in Nat /\ (y.at <= born \/ y.at >= born + 2)
    BY <1>0, <1>4 DEF AheadRight, Entries
  <2>2. Down(x).at = IF x.at <= born THEN x.at ELSE x.at - 1
    OBVIOUS
  <2>3. Down(y).at = IF y.at <= born THEN y.at ELSE y.at - 1
    OBVIOUS
  <2> HIDE DEF Down
  <2> QED BY <1>1, <2>1, <2>2, <2>3
<1> DEFINE g == [x \in Ahead' |-> Down(x)]
<1> HIDE DEF Down, Up
<1>7. /\ g \in [Ahead' -> Ahead] /\ \A x \in Ahead' : g[x].pkt = x.pkt
      /\ \A x, y \in Ahead' : x.at < y.at <=> g[x].at < g[y].at
      /\ \A y \in Ahead : \E x \in Ahead' : g[x] = y
  BY <1>4, <1>5, <1>6
<1> HIDE DEF g
<1>8. /\ InOrder(Ahead') /\ FromStart(Ahead', W)
      /\ AtEnd(Ahead', W, Going) /\ Whole(Ahead', assembled, Finished)
  <2>1. Ahead \in SUBSET Entries /\ Ahead' \in SUBSET Entries
    BY <1>0 DEF AheadRight
  <2>2. /\ InOrder(Ahead) /\ FromStart(Ahead, W)
        /\ AtEnd(Ahead, W, Going) /\ Whole(Ahead, assembled, Finished)
    BY DEF Fragmented
  <2> QED BY <1>7, <2>1, <2>2, SameOrder
<1>9. Counted'
  BY <1>1, <1>4 DEF Counted
<1> QED BY <1>1, <1>8, <1>9, SentSame, StreamOnIs DEF Fragmented

LEMMA StreamCrash ==
  ASSUME Typed, Typed', NEW W \in SUBSET Messages, Counted, Fragmented(W), Crash
  PROVE  StreamOn'
<1>0. AheadRight /\ AheadRight'
  BY AheadIs, AheadIsNext
<1>1. /\ UNCHANGED <<sent, air, latest, born, frpkt, assembled>> /\ low' = <<>>
      /\ born \in Nat /\ cut' = cut \union {m \in Messages : Underway(m)}
  BY TypedIs DEF Crash, receiver, AirOK
<1>2. \A x \in Entries : (Flying(x)' <=> Flying(x)) /\ ~Waiting(x)'
  BY <1>1 DEF Flying, Waiting
<1>3. Ahead' \in SUBSET Ahead /\ \A x \in Ahead' : x.at <= born
  BY <1>0, <1>2 DEF AheadRight
<1>4. \A x \in Ahead : x.at <= born => x \in Ahead'
  <2> SUFFICES ASSUME NEW x \in Ahead, x.at <= born PROVE x \in Ahead'
    OBVIOUS
  <2>1. x \in Entries /\ x.at \in Nat /\ x.pkt.kind # "send"
    BY <1>0 DEF AheadRight, Entries
  <2>2. ~Waiting(x)
    BY <1>0, <1>1, <2>1 DEF AheadRight
  <2> QED BY <1>0, <1>2, <2>1, <2>2 DEF AheadRight
<1>5. Ahead \in SUBSET Entries
  BY <1>0 DEF AheadRight
<1>6. InOrder(Ahead') /\ Whole(Ahead', assembled, Finished)
  BY <1>3, FewerInOrder DEF Fragmented
<1>7. FromStart(Ahead', W)
  BY <1>1, <1>3, <1>4, <1>5, CutOff DEF Fragmented
<1>8. Going' = {}
  BY <1>1 DEF Going, Underway, Begun
<1>9. AtEnd(Ahead', W, Going')
  BY <1>8 DEF AtEnd
<1>10. Started' = Started /\ Finished' = Finished
  BY <1>1 DEF Started, Finished, Begun
<1> QED BY <1>1, <1>3, <1>6, <1>7, <1>9, <1>10, CountedFewer, StreamOnIs DEF Fragmented

LEMMA StreamLose ==
  ASSUME Typed, Typed', Copies, ~startLost', NEW W \in SUBSET Messages, Counted, Fragmented(W), Lose
  PROVE  StreamOn'
<1>0. AheadRight /\ AheadRight' /\ AirOK
  BY AheadIs, AheadIsNext, TypedIs
<1>1. PICK p \in air : air' = air \ {p} /\ Missing({p})
  BY DEF Lose
<1>2. UNCHANGED <<sent, cut, low, latest, born, frpkt, assembled>>
  BY DEF Lose, sender, receiver
<1>3. \A x \in Entries : (Flying(x)' => Flying(x)) /\ (Waiting(x)' <=> Waiting(x))
  BY <1>1, <1>2 DEF Flying, Waiting
<1>4. Ahead' \in SUBSET Ahead
  BY <1>0, <1>3 DEF AheadRight
<1>5. ~(p.pkt.kind = "start" /\ ~p.again)
  BY <1>1 DEF Missing
<1>6. \A x \in Ahead : x.pkt.kind = "start" => x \in Ahead'
  <2> SUFFICES ASSUME NEW x \in Ahead, x.pkt.kind = "start" PROVE x \in Ahead'
    OBVIOUS
  <2>1. x \in Entries /\ x.pkt.kind # "send" /\ (Flying(x) \/ Waiting(x))
    BY <1>0 DEF AheadRight
  <2>2. CASE Flying(x)
    <3>1. PICK q \in air : q.at > latest /\ q.pkt = x.pkt /\ q.at = x.at
      BY <2>2 DEF Flying
    <3>2. ~q.again
      BY <1>0, <3>1 DEF Copies, AirOK
    <3>3. q # p
      BY <1>5, <3>1, <3>2
    <3>4. Flying(x)'
      BY <1>1, <1>2, <3>1, <3>3 DEF Flying
    <3> QED BY <1>0, <2>1, <3>4 DEF AheadRight
  <2>3. CASE Waiting(x)
    BY <1>0, <1>3, <2>1, <2>3 DEF AheadRight
  <2> QED BY <2>1, <2>2, <2>3
<1>7. InOrder(Ahead') /\ Whole(Ahead', assembled, Finished)
  BY <1>4, FewerInOrder DEF Fragmented
<1>8. FromStart(Ahead', W) /\ AtEnd(Ahead', W, Going)
  BY <1>4, <1>6, StartsKept DEF Fragmented
<1> QED BY <1>2, <1>4, <1>7, <1>8, SentSame, CountedFewer, StreamOnIs DEF Fragmented

LEMMA StreamSend ==
  ASSUME Typed, Typed', ~overlap', NEW W \in SUBSET Messages, Counted, Fragmented(W),
         NEW m \in Messages, SendMsg(m)
  PROVE  StreamOn'
<1> DEFINE p == Submitted(m)
           e == [pkt |-> p, at |-> born + Len(low) + 1]
<1>0. AheadRight /\ AheadRight' /\ SenderOK /\ AirOK
  BY AheadIs, AheadIsNext, TypedIs
<1>1. /\ p \in AllPackets /\ p.msg = m /\ Place(p) = sent[m] + 1
      /\ (p.kind = "send" <=> Short(m))
      /\ sent[m] \in Nat /\ sent'[m] = sent[m] + 1
      /\ \A n \in Messages \ {m} : sent'[n] = sent[n]
      /\ sent[m] < Len(Packets[m])
  BY SubmittedIs DEF SendMsg
<1>2. /\ UNCHANGED <<cut, air, latest, born, frpkt, assembled>>
      /\ m \notin cut /\ born \in Nat /\ Len(low) \in Nat
  BY <1>0 DEF SendMsg, receiver, AirOK, SenderOK
<1>3. \/ p.kind = "send" /\ low' = low
      \/ p.kind # "send" /\ low' = Append(low, p)
  BY DEF SendMsg, Submitted
<1>4. \A n \in Messages \ {m} : (n \in Started' <=> n \in Started)
                                /\ (n \in Going' <=> n \in Going)
                                /\ (n \in Finished' <=> n \in Finished)
  BY <1>1, <1>2 DEF Started, Going, Finished, Begun, Underway
<1>5. m \in Started' /\ m \notin Finished
  BY <1>1 DEF Started, Begun, Finished
<1>6. Begins(W, Started', frpkt')
  <2>1. Started \subseteq Started'
    BY <1>4, <1>5 DEF Started
  <2> QED BY <1>2, <2>1 DEF Fragmented, Begins
<1>7. \A x \in Ahead : Place(x.pkt) <= sent'[x.pkt.msg]
  <2> TAKE x \in Ahead
  <2>1. x.pkt.msg \in Messages /\ Place(x.pkt) \in Nat /\ Place(x.pkt) <= sent[x.pkt.msg]
    BY <1>0, EntryIs DEF AheadRight, Counted
  <2> QED BY <1>1, <2>1
<1> HIDE DEF p
<1>8. CASE p.kind = "send"
  <2>1. Ahead' = Ahead
    BY <1>2, <1>3, <1>8 DEF Ahead
  <2>2. m \notin Going /\ m \notin Going'
    BY <1>1, <1>8 DEF Going
  <2>3. Going' = Going
    BY <1>4, <2>2 DEF Going
  <2>4. AtEnd(Ahead', W, Going')
    BY <2>1, <2>3 DEF Fragmented
  <2>5. Whole(Ahead', assembled', Finished')
    <3>1. \A n \in Finished : n \in Finished'
      BY <1>4, <1>5 DEF Finished
    <3> QED BY <1>2, <2>1, <3>1 DEF Fragmented, Whole
  <2>6. Counted'
    BY <1>7, <2>1 DEF Counted
  <2> QED BY <1>6, <2>1, <2>4, <2>5, <2>6, StreamOnIs DEF Fragmented
<1>9. CASE p.kind # "send"
  <2>0. e \in Entries /\ e.pkt = p /\ e.at = born + Len(low) + 1
    BY <1>1, <1>2 DEF Entries
  <2>1. /\ DOMAIN low' = 1..(Len(low) + 1) /\ DOMAIN low = 1..Len(low)
        /\ \A i \in 1..Len(low) : low'[i] = low[i]
        /\ low'[Len(low) + 1] = p
    BY <1>0, <1>1, <1>3, <1>9, AppendKeeps DEF SenderOK
  <2>2. \A x \in Entries : Flying(x)' <=> Flying(x)
    BY <1>2 DEF Flying
  <2>3. \A x \in Entries : Waiting(x)' <=> Waiting(x) \/ x = e
    <3> TAKE x \in Entries
    <3>0. x = [pkt |-> x.pkt, at |-> x.at]
      BY DEF Entries
    <3>1. ASSUME Waiting(x)' PROVE Waiting(x) \/ x = e
      <4>1. PICK i \in 1..(Len(low) + 1) : x.pkt = low'[i] /\ x.at = born + i
        BY <1>2, <2>1, <3>1 DEF Waiting
      <4>2. CASE i = Len(low) + 1
        <5>1. x.pkt = p
          BY <2>1, <4>1, <4>2
        <5>2. born + i = born + Len(low) + 1
          BY <1>2, <4>2
        <5>3. x.at = born + Len(low) + 1
          BY <4>1, <5>2
        <5> QED BY <3>0, <5>1, <5>3
      <4>3. CASE i \in 1..Len(low)
        BY <2>1, <4>1, <4>3 DEF Waiting
      <4> QED BY <1>2, <4>2, <4>3
    <3>2. ASSUME Waiting(x) PROVE Waiting(x)'
      <4>1. PICK i \in 1..Len(low) : x.pkt = low[i] /\ x.at = born + i
        BY <2>1, <3>2 DEF Waiting
      <4>2. i \in 1..(Len(low) + 1)
        BY <1>2
      <4> QED BY <1>2, <2>1, <4>1, <4>2 DEF Waiting
    <3>3. ASSUME x = e PROVE Waiting(x)'
      <4>1. Len(low) + 1 \in 1..(Len(low) + 1) /\ born + (Len(low) + 1) = born + Len(low) + 1
        BY <1>2
      <4>2. x.pkt = p /\ x.at = born + Len(low) + 1
        BY <2>0, <3>3
      <4>3. x.pkt = low'[Len(low) + 1]
        BY <2>1, <4>2
      <4>4. born' = born
        BY <1>2
      <4>5. x.at = born' + (Len(low) + 1)
        BY <4>1, <4>2, <4>4
      <4> QED BY <2>1, <4>1, <4>3, <4>5 DEF Waiting
    <3> QED BY <3>1, <3>2, <3>3
  <2> HIDE DEF e
  <2>4. Ahead' = Ahead \union {e}
    <3>1. Ahead' \subseteq Ahead \union {e}
      BY <1>0, <2>2, <2>3 DEF AheadRight
    <3>2. Ahead \union {e} \subseteq Ahead'
      BY <1>0, <1>9, <2>0, <2>2, <2>3 DEF AheadRight
    <3> QED BY <3>1, <3>2
  <2>5. \A x \in Ahead : x.at < e.at
    <3> TAKE x \in Ahead
    <3>1. x.at \in Nat /\ (Flying(x) => x.at <= born)
      BY <1>0 DEF AheadRight, Entries
    <3>2. CASE Flying(x)
      BY <1>2, <2>0, <3>1, <3>2
    <3>3. CASE Waiting(x)
      <4>1. PICK i \in 1..Len(low) : x.at = born + i
        BY <2>1, <3>3 DEF Waiting
      <4> QED BY <1>2, <2>0, <4>1
    <3> QED BY <1>0, <3>2, <3>3 DEF AheadRight
  <2>6. \A x \in Ahead : x.pkt.msg = e.pkt.msg => Place(x.pkt) < Place(e.pkt)
    <3> SUFFICES ASSUME NEW x \in Ahead, x.pkt.msg = m PROVE Place(x.pkt) < Place(e.pkt)
      BY <1>1, <2>0
    <3>1. Place(x.pkt) \in Nat /\ Place(x.pkt) <= sent[m] /\ Place(e.pkt) = sent[m] + 1
      BY <1>0, <1>1, <2>0, EntryIs DEF AheadRight, Counted
    <3> QED BY <1>1, <3>1
  <2>7. e.pkt.kind = "start" => e.pkt.msg \notin Started /\ \A x \in Ahead : x.pkt.msg # e.pkt.msg
    <3> SUFFICES ASSUME p.kind = "start" PROVE m \notin Started /\ \A x \in Ahead : x.pkt.msg # m
      BY <1>1, <2>0
    <3>1. Place(p) = 1
      BY <1>1, PacketIs
    <3>2. sent[m] = 0
      BY <1>1, <3>1
    <3>3. \A x \in Ahead : x.pkt.msg # m
      <4> SUFFICES ASSUME NEW x \in Ahead, x.pkt.msg = m PROVE FALSE
        OBVIOUS
      <4>1. Place(x.pkt) \in Nat /\ Place(x.pkt) >= 1 /\ Place(x.pkt) <= 0
        BY <1>0, <3>2, EntryIs DEF AheadRight, Counted
      <4> QED BY <4>1
    <3> QED BY <3>2, <3>3 DEF Started, Begun
  <2>8. e.pkt.kind # "start" => e.pkt.msg \in Going
    <3> SUFFICES ASSUME p.kind # "start" PROVE m \in Going
      BY <1>1, <2>0
    <3>1. ~Short(m)
      BY <1>1, <1>9
    <3>2. sent[m] # 0
      <4> SUFFICES ASSUME sent[m] = 0 PROVE FALSE
        OBVIOUS
      <4>1. sent[m] + 1 = 1
        OBVIOUS
      <4>2. p = Packets[m][1]
        BY <4>1 DEF p, Submitted
      <4>3. Packets[m][1] = Packet("start", m, 0)
        BY <3>1, PacketsOf
      <4>4. p.kind = "start"
        BY <4>2, <4>3 DEF Packet
      <4> QED BY <4>4
    <3> QED BY <1>1, <1>2, <3>1, <3>2 DEF Going, Underway, Begun
  <2>9. Going \subseteq {e.pkt.msg} /\ Going' \in SUBSET {e.pkt.msg}
    <3>1. \A n \in Messages \ {m} : ~Underway(n)
      <4>1. ~Short(m)
        BY <1>1, <1>9
      <4> QED BY <4>1 DEF SendMsg
    <3>2. Going \subseteq {m}
      BY <3>1 DEF Going
    <3>3. Going' \subseteq {m}
      BY <1>4, <3>2 DEF Going
    <3> QED BY <1>1, <2>0, <3>2, <3>3
  <2>10. /\ InOrder(Ahead') /\ FromStart(Ahead', W) /\ AtEnd(Ahead', W, Going')
    <3>1. Ahead \in SUBSET Entries
      BY <1>0 DEF AheadRight
    <3>2. /\ InOrder(Ahead) /\ FromStart(Ahead, W) /\ AtEnd(Ahead, W, Going)
          /\ Begins(W, Started, frpkt)
      BY DEF Fragmented
    <3> QED BY <2>0, <2>4, <2>5, <2>6, <2>7, <2>8, <2>9, <3>1, <3>2, OneMore
  <2>11. Whole(Ahead', assembled', Finished')
    <3>1. \A n \in Finished : n \in Finished' /\ n # m
      BY <1>4, <1>5 DEF Finished
    <3>2. Whole(Ahead, assembled, Finished) /\ e.pkt.msg = m
      BY <1>1, <2>0 DEF Fragmented
    <3>3. \A i \in DOMAIN assembled :
            \E n \in Finished' : assembled[i] = Text[n] /\ \A x \in Ahead' : x.pkt.msg # n
      BY <2>4, <3>1, <3>2 DEF Whole
    <3> QED BY <1>2, <3>2, <3>3 DEF Whole
  <2>12. Counted'
    <3>1. Place(e.pkt) <= sent'[e.pkt.msg]
      BY <1>1, <2>0
    <3> QED BY <1>7, <2>4, <3>1 DEF Counted
  <2> QED BY <1>6, <2>10, <2>11, <2>12, StreamOnIs
<1> QED BY <1>8, <1>9

\* What the receiver takes was ahead, and what was ahead of it is not any more.
LEMMA AheadTaken ==
  ASSUME Typed, Typed', NEW p \in air, Lands(p), latest' = p.at, p.at > latest,
         UNCHANGED <<born, low>>
  PROVE  Ahead' = {x \in Ahead : x.at > p.at}
<1>0. AheadRight /\ AheadRight' /\ AirOK
  BY AheadIs, AheadIsNext, TypedIs
<1>1. /\ p.at \in Nat /\ p.at <= born /\ born \in Nat /\ latest \in Nat
      /\ \A q \in air : q.at \in Nat
  BY <1>0 DEF AirOK, InAir
<1>2. /\ \A q \in air' : (q \in air /\ q # p) \/ q.at = p.at
      /\ \A q \in air : q # p => q \in air'
  BY LandsIs
<1>3. \A x \in Entries : Flying(x)' <=> Flying(x) /\ x.at > p.at
  <2> TAKE x \in Entries
  <2>1. ASSUME Flying(x)' PROVE Flying(x) /\ x.at > p.at
    <3>1. PICK q \in air' : q.at > p.at /\ q.pkt = x.pkt /\ q.at = x.at
      BY <2>1 DEF Flying
    <3>2. q \in air
      BY <1>1, <1>2, <3>1
    <3>3. q.at > latest
      BY <1>1, <3>1, <3>2
    <3> QED BY <3>1, <3>2, <3>3 DEF Flying
  <2>2. ASSUME Flying(x), x.at > p.at PROVE Flying(x)'
    <3>1. PICK q \in air : q.at > latest /\ q.pkt = x.pkt /\ q.at = x.at
      BY <2>2 DEF Flying
    <3>2. q # p
      BY <1>1, <2>2, <3>1
    <3>3. q \in air' /\ q.at > p.at
      BY <1>2, <2>2, <3>1, <3>2
    <3> QED BY <3>1, <3>3 DEF Flying
  <2> QED BY <2>1, <2>2
<1>4. \A x \in Entries : Waiting(x)' <=> Waiting(x)
  BY DEF Waiting
<1>5. \A x \in Ahead : Waiting(x) => x.at > p.at
  <2> SUFFICES ASSUME NEW x \in Ahead, Waiting(x) PROVE x.at > p.at
    OBVIOUS
  <2>1. x.at \in Nat /\ x.at > born
    BY <1>0 DEF AheadRight, Entries
  <2> QED BY <1>1, <2>1
<1>6. \A x \in Ahead' : x \in Ahead /\ x.at > p.at
  <2> TAKE x \in Ahead'
  <2>1. x \in Entries /\ x.pkt.kind # "send" /\ x.at > p.at /\ (Flying(x)' \/ Waiting(x)')
    BY <1>0 DEF AheadRight
  <2> QED BY <1>0, <1>3, <1>4, <2>1 DEF AheadRight
<1>7. \A x \in Ahead : x.at > p.at => x \in Ahead'
  <2> SUFFICES ASSUME NEW x \in Ahead, x.at > p.at PROVE x \in Ahead'
    OBVIOUS
  <2>1. x \in Entries /\ x.pkt.kind # "send" /\ (Flying(x) \/ Waiting(x))
    BY <1>0 DEF AheadRight
  <2>2. Flying(x)' \/ Waiting(x)'
    BY <1>3, <1>4, <2>1
  <2> QED BY <1>0, <2>1, <2>2 DEF AheadRight
<1> QED BY <1>6, <1>7

\* No FRAGMENT_START is among what is lost so.
LEMMA NoStartBefore ==
  ASSUME Typed, Rising, Copies, NEW p \in air, p.at > latest, ~startLost',
         Missing({q \in air : q.number < p.number})
  PROVE  \A x \in Ahead : x.pkt.kind = "start" =>
           x.at > p.at \/ (x.at = p.at /\ x.pkt = p.pkt)
<1>0. AheadRight /\ AirOK
  BY AheadIs, TypedIs
<1>1. p.at \in Nat /\ p.at <= born /\ born \in Nat
  BY <1>0 DEF AirOK
<1> SUFFICES ASSUME NEW x \in Ahead, x.pkt.kind = "start"
             PROVE  x.at > p.at \/ (x.at = p.at /\ x.pkt = p.pkt)
  OBVIOUS
<1>2. x.at \in Nat
  BY <1>0 DEF AheadRight, Entries
<1>3. CASE Waiting(x)
  <2>1. x.at > born
    BY <1>0, <1>3 DEF AheadRight
  <2> QED BY <1>1, <1>2, <2>1
<1>4. CASE Flying(x)
  <2>1. PICK q \in air : q.at > latest /\ q.pkt = x.pkt /\ q.at = x.at
    BY <1>4 DEF Flying
  <2>2. ~q.again
    <3>1. q.again => q.at <= latest
      BY DEF Copies
    <3>2. latest \in Nat
      BY <1>0 DEF AirOK
    <3> QED BY <1>2, <2>1, <3>1, <3>2 DEF Copies
  <2>3. ~(q.number < p.number)
    BY <2>1, <2>2 DEF Missing
  <2>4. ~(q.at < p.at)
    BY <2>3 DEF Rising
  <2>5. q.at = p.at => q.pkt = p.pkt
    BY <1>0 DEF AirOK
  <2> QED BY <1>1, <1>2, <2>1, <2>4, <2>5
<1> QED BY <1>0, <1>3, <1>4 DEF AheadRight

\* What data_handler leaves, for each kind of packet.
LEMMA HandlerIs ==
  ASSUME Typed, NEW k \in AllPackets, DataHandler(k)
  PROVE  /\ k.kind = "send" => UNCHANGED <<frpkt, assembled>>
         /\ k.kind = "start" => frpkt' = NewFragmentedPkt(Size[k.msg]) /\ assembled' = assembled
         /\ k.kind = "data" =>
              /\ assembled' = assembled
              /\ \/ frpkt' = frpkt
                 \/ /\ frpkt # None /\ k.seq \in Nat /\ k.seq + 1 \in DOMAIN frpkt.packets
                    /\ frpkt' = Added(frpkt, k.seq + 1, <<k.msg, k.seq>>)
         /\ k.kind = "end" =>
              /\ frpkt' = frpkt
              /\ \/ assembled' = assembled
                 \/ /\ frpkt # None /\ None \notin Range(frpkt.packets)
                    /\ assembled' = Append(assembled, frpkt.packets)
<1>1. k.len = Size[k.msg] /\ k.msg \in Messages
  BY PacketIs
<1>2. CASE StartFragments(k)
  BY <1>1, <1>2 DEF StartFragments
<1>3. CASE AddData(k)
  <2>1. k.kind = "data" /\ assembled' = assembled
    BY <1>3 DEF AddData
  <2>2. k.seq \in Nat
    <3>1. k.seq \in 0..(Slots(k.msg) - 1)
      BY <2>1, PacketIs
    <3> QED BY <3>1
  <2>3. \/ frpkt' = frpkt
        \/ /\ frpkt # None /\ k.seq + 1 \in DOMAIN frpkt.packets
           /\ frpkt' = Added(frpkt, k.seq + 1, <<k.msg, k.seq>>)
    BY <1>3 DEF AddData, Added
  <2> QED BY <2>1, <2>2, <2>3
<1>4. CASE EndFragments(k)
  BY <1>4 DEF EndFragments, IsComplete
<1>5. CASE ReceiveShort(k)
  BY <1>5 DEF ReceiveShort
<1> QED BY <1>2, <1>3, <1>4, <1>5 DEF DataHandler

\* The fragments that the receiver takes.
LEMMA StreamStart ==
  ASSUME Typed, Typed', NEW W \in SUBSET Messages, Counted, Fragmented(W),
         NEW e \in Ahead, e.pkt.kind = "start", Ahead' = After(Ahead, e),
         \A x \in Ahead : x.pkt.kind = "start" => x.at >= e.at,
         UNCHANGED <<sent, cut>>, DataHandler(e.pkt)
  PROVE  StreamOn'
<1> DEFINE m == e.pkt.msg
<1>1. Ahead \in SUBSET Entries /\ e \in Entries
  BY AheadIs DEF AheadRight
<1>2. e.pkt \in AllPackets /\ m \in Messages /\ ~Short(m)
  BY <1>1, EntryIs, PacketIs
<1>3. frpkt' = NewFragmentedPkt(Size[m]) /\ assembled' = assembled
  BY <1>2, HandlerIs
<1>4. FromStart(Ahead', {m}) /\ AtEnd(Ahead', {m}, Going)
  BY <1>1, StartTaken DEF Fragmented
<1>5. Ahead' \in SUBSET Ahead
  BY DEF After
<1>6. InOrder(Ahead') /\ Whole(Ahead', assembled, Finished)
  BY <1>5, FewerInOrder DEF Fragmented
<1>7. m \in Started
  <2>1. Place(e.pkt) <= sent[m] /\ Place(e.pkt) \in Nat /\ Place(e.pkt) >= 1
    BY <1>1, EntryIs DEF Counted
  <2>2. sent[m] \in Nat
    BY <1>2, TypedIs DEF SenderOK
  <2> QED BY <1>2, <2>1, <2>2 DEF Started, Begun
<1>8. Started \in SUBSET Messages
  BY DEF Started
<1>9. Begins({m}, Started, frpkt')
  BY <1>2, <1>3, <1>7, <1>8, BeginsAfresh
<1>10. {m} \in SUBSET Messages
  BY <1>2
<1> HIDE DEF m
<1> QED BY <1>3, <1>4, <1>5, <1>6, <1>9, <1>10, SentSame, CountedFewer, StreamOnIs

LEMMA StreamOther ==
  ASSUME Typed, Typed', NEW W \in SUBSET Messages, Counted, Fragmented(W),
         NEW e \in Ahead, e.pkt.kind # "start", Ahead' = After(Ahead, e),
         \A x \in Ahead : x.pkt.kind = "start" => x.at >= e.at,
         UNCHANGED <<sent, cut>>, DataHandler(e.pkt)
  PROVE  StreamOn'
<1> DEFINE m == e.pkt.msg
<1>1. Ahead \in SUBSET Entries /\ e \in Entries /\ e.pkt.kind # "send"
  BY AheadIs DEF AheadRight
<1>2. e.pkt \in AllPackets /\ m \in Messages /\ e.pkt.kind \in {"data", "end"}
  BY <1>1, EntryIs, PacketIs
<1>3. FromStart(Ahead', W) /\ AtEnd(Ahead', W, Going) /\ m \in W
  BY <1>1, OtherTaken DEF Fragmented
<1>4. Ahead' \in SUBSET Ahead
  BY DEF After
<1>5. InOrder(Ahead') /\ Whole(Ahead', assembled, Finished)
  BY <1>4, FewerInOrder DEF Fragmented
<1>6. Begins(W, Started, frpkt) /\ Slotted(frpkt) /\ assembled \in Seq(Seq(Content))
  BY TypedIs DEF Fragmented, ReceiverOK
<1>7. CASE e.pkt.kind = "data"
  <2>1. /\ assembled' = assembled
        /\ \/ frpkt' = frpkt
           \/ /\ frpkt # None /\ e.pkt.seq \in Nat /\ e.pkt.seq + 1 \in DOMAIN frpkt.packets
              /\ frpkt' = Added(frpkt, e.pkt.seq + 1, <<m, e.pkt.seq>>)
    BY <1>2, <1>7, HandlerIs
  <2> HIDE DEF m
  <2>2. Begins(W, Started, frpkt')
    BY <1>3, <1>6, <2>1, BeginsAdded
  <2> QED BY <1>3, <1>4, <1>5, <2>1, <2>2, SentSame, CountedFewer, StreamOnIs
<1>8. CASE e.pkt.kind = "end"
  <2>1. /\ frpkt' = frpkt
        /\ \/ assembled' = assembled
           \/ /\ frpkt # None /\ None \notin Range(frpkt.packets)
              /\ assembled' = Append(assembled, frpkt.packets)
    BY <1>2, <1>8, HandlerIs
  <2>2. Whole(Ahead', assembled', Finished)
    <3>1. CASE assembled' = assembled
      BY <1>5, <3>1
    <3>2. CASE /\ frpkt # None /\ None \notin Range(frpkt.packets)
               /\ assembled' = Append(assembled, frpkt.packets)
      <4>1. PICK n \in W : frpkt.packets = Text[n]
        BY <1>6, <3>2, CompleteIs
      <4>2. n = m
        BY <1>3, <1>6 DEF Begins
      <4>3. Place(e.pkt) = Len(Packets[m])
        BY <1>2, <1>8, PacketIs
      <4>4. m \in Finished
        <5>1. Place(e.pkt) <= sent[m] /\ Place(e.pkt) \in Nat
          BY <1>1, EntryIs DEF Counted
        <5>2. sent[m] \in 0..Len(Packets[m])
          BY <1>2, TypedIs DEF SenderOK
        <5> QED BY <1>2, <4>3, <5>1, <5>2 DEF Finished
      <4>5. Finished \in SUBSET Messages
        BY DEF Finished
      <4>6. InOrder(Ahead) /\ Whole(Ahead, assembled, Finished)
        BY DEF Fragmented
      <4> QED BY <1>1, <1>6, <3>2, <4>1, <4>2, <4>3, <4>4, <4>5, <4>6, WholeAgain
    <3> QED BY <2>1, <3>1, <3>2
  <2> HIDE DEF m
  <2> QED BY <1>3, <1>4, <1>5, <1>6, <2>1, <2>2, SentSame, CountedFewer, StreamOnIs
<1> QED BY <1>2, <1>7, <1>8

LEMMA StreamReceive ==
  ASSUME Typed, Typed', Rising, Taken, Copies, ~startLost',
         NEW W \in SUBSET Messages, Counted, Fragmented(W), Receive
  PROVE  StreamOn'
<1>0. AheadRight /\ AheadRight' /\ AirOK
  BY AheadIs, AheadIsNext, TypedIs
<1>1. UNCHANGED <<sent, cut, low, born>>
  BY ReceiveIs DEF sender
<1>2. PICK p \in air : Lands(p) /\ (Accepts(p) \/ Refuses(p))
  BY ReceiveIs
<1>3. p.pkt \in AllPackets /\ p.at \in Nat /\ latest \in Nat
  BY <1>0 DEF AirOK, InAir
<1>4. CASE Refuses(p)
  <2>1. UNCHANGED <<latest, frpkt, assembled>> /\ ~(p.at > latest)
    BY <1>4 DEF Refuses, receiver, Taken
  <2>2. \A x \in Entries : Flying(x)' <=> Flying(x)
    <3>1. \A q \in air' : q \in air \/ (q.at = p.at)
      BY <1>2, LandsIs
    <3>2. \A q \in air : q # p => q \in air'
      BY <1>2, LandsIs
    <3>3. \A q \in air' : q.at > latest => q \in air
      BY <2>1, <3>1
    <3>4. \A q \in air : q.at > latest => q \in air'
      BY <2>1, <3>2
    <3> QED BY <2>1, <3>3, <3>4 DEF Flying
  <2>3. \A x \in Entries : Waiting(x)' <=> Waiting(x)
    BY <1>1 DEF Waiting
  <2>4. Ahead' = Ahead
    BY <1>0, <2>2, <2>3, AheadSame
  <2> QED BY <1>1, <2>1, <2>4, StreamSame
<1>5. CASE Accepts(p)
  <2>1. p.at > latest /\ latest' = p.at /\ DataHandler(p.pkt)
        /\ Missing({q \in air : q.number < p.number})
    BY <1>5 DEF Accepts, Taken
  <2>2. Ahead' = {x \in Ahead : x.at > p.at}
    BY <1>1, <1>2, <2>1, AheadTaken
  <2>3. \A x \in Ahead : x.pkt.kind = "start" => x.at > p.at \/ (x.at = p.at /\ x.pkt = p.pkt)
    BY <2>1, NoStartBefore
  <2>4. CASE p.pkt.kind = "send"
    <3>1. UNCHANGED <<frpkt, assembled>>
      BY <1>3, <2>1, <2>4, HandlerIs
    <3>2. Ahead' \in SUBSET Ahead
      BY <2>2
    <3>3. \A x \in Ahead : x.pkt.kind = "start" => x \in Ahead'
      BY <2>2, <2>3, <2>4
    <3>4. FromStart(Ahead', W) /\ AtEnd(Ahead', W, Going)
      BY <3>2, <3>3, StartsKept DEF Fragmented
    <3>5. InOrder(Ahead') /\ Whole(Ahead', assembled, Finished)
      BY <3>2, FewerInOrder DEF Fragmented
    <3> QED BY <1>1, <3>1, <3>2, <3>4, <3>5, SentSame, CountedFewer, StreamOnIs DEF Fragmented
  <2>5. CASE p.pkt.kind # "send"
    <3>1. PICK e : e = [pkt |-> p.pkt, at |-> p.at]
      OBVIOUS
    <3>2. e \in Entries /\ e.pkt = p.pkt /\ e.at = p.at
      BY <1>3, <3>1 DEF Entries
    <3>3. Flying(e)
      BY <2>1, <3>2 DEF Flying
    <3>4. e \in Ahead
      BY <1>0, <2>5, <3>2, <3>3 DEF AheadRight
    <3>5. Ahead' = After(Ahead, e)
      BY <2>2, <3>2 DEF After
    <3>6. \A x \in Ahead : x.pkt.kind = "start" => x.at >= e.at
      <4> SUFFICES ASSUME NEW x \in Ahead, x.pkt.kind = "start" PROVE x.at >= e.at
        OBVIOUS
      <4>1. x.at > p.at \/ x.at = p.at
        BY <2>3
      <4>2. x.at \in Nat
        BY <1>0 DEF AheadRight, Entries
      <4> QED BY <1>3, <3>2, <4>1, <4>2
    <3>7. DataHandler(e.pkt)
      BY <2>1, <3>2
    <3> QED BY <1>1, <3>4, <3>5, <3>6, <3>7, StreamStart, StreamOther
  <2> QED BY <2>4, <2>5
<1> QED BY <1>2, <1>4, <1>5

LEMMA StreamNext == Typed /\ Typed' /\ Numbers /\ Stream /\ [Next]_vars => Stream'
<1> SUFFICES ASSUME Typed, Typed', Numbers, Stream, [Next]_vars,
                    ~startLost', ~overlap', ~stale'
             PROVE  StreamOn'
  BY DEF Stream, StreamOn
<1>1. ~startLost /\ ~overlap /\ ~stale
  BY FlagsStay
<1>2. Counted /\ Rising /\ Taken /\ Copies
  BY <1>1 DEF Stream, Numbers
<1>3. PICK W \in SUBSET Messages : Fragmented(W)
  BY <1>1 DEF Stream
<1>4. CASE Gateway \/ UNCHANGED vars
  BY <1>2, <1>3, <1>4, StreamOthers
<1>5. CASE \E m \in Messages : SendMsg(m)
  BY <1>2, <1>3, <1>5, StreamSend
<1>6. CASE Crash
  BY <1>2, <1>3, <1>6, StreamCrash
<1>7. CASE Transmit
  BY <1>2, <1>3, <1>7, StreamTransmitLow, StreamTransmitHigh
<1>8. CASE Lose
  BY <1>2, <1>3, <1>8, StreamLose
<1>9. CASE Receive
  BY <1>2, <1>3, <1>9, StreamReceive
<1> QED BY <1>4, <1>5, <1>6, <1>7, <1>8, <1>9 DEF Next
-----------------------------------------------------------------------------
(* A message of one packet is handed over once. *)

LEMMA SinglesInit == Init => Singles
<1> SUFFICES ASSUME Init PROVE Once
  BY DEF Singles
<1>1. high = <<>> /\ received = <<>> /\ Coming = {}
  BY DEF Init, Coming
<1>2. IsInjective(<<>>)
  BY DEF IsInjective
<1> QED BY <1>1, <1>2 DEF Once

\* The steps that bring none nearer.
LEMMA OnceFewer ==
  ASSUME Once, received' = received, Coming' \subseteq Coming,
         \A i \in DOMAIN high' : i \in DOMAIN high /\ high'[i] = high[i],
         \A m \in Messages : sent[m] > 0 => sent'[m] > 0,
         \A p \in Coming : p.pkt.msg \in Messages,
         \A i \in DOMAIN high : high[i].msg \in Messages
  PROVE  Once'
<1>1. \A i \in DOMAIN high' : sent'[high'[i].msg] > 0
  BY DEF Once
<1>2. \A i, j \in DOMAIN high' : high'[i].msg = high'[j].msg => i = j
  BY DEF Once
<1>3. \A p \in Coming' : sent'[p.pkt.msg] > 0
  BY DEF Once
<1>4. \A p \in Coming' : \A i \in DOMAIN high' : high'[i].msg # p.pkt.msg
  BY DEF Once
<1>5. \A p, q \in Coming' : p.pkt.msg = q.pkt.msg => p = q
  BY DEF Once
<1>6. \A i \in DOMAIN received' :
        \E m \in Messages : /\ received'[i] = Text[m] /\ sent'[m] > 0
                            /\ \A j \in DOMAIN high' : high'[j].msg # m
                            /\ \A p \in Coming' : p.pkt.msg # m
  <2> TAKE i \in DOMAIN received'
  <2>1. PICK m \in Messages : /\ received[i] = Text[m] /\ sent[m] > 0
                              /\ \A j \in DOMAIN high : high[j].msg # m
                              /\ \A p \in Coming : p.pkt.msg # m
    BY DEF Once
  <2> QED BY <2>1
<1>7. IsInjective(received')
  BY DEF Once
<1> QED BY <1>1, <1>2, <1>3, <1>4, <1>5, <1>6, <1>7 DEF Once

\* Where the messages of one packet are.
LEMMA ComingIs ==
  ASSUME Typed
  PROVE  /\ \A p \in Coming : /\ p \in air /\ p \in InAir
                               /\ p.pkt.msg \in Messages /\ p.pkt.kind = "send"
         /\ \A i \in DOMAIN high : /\ high[i] \in AllPackets /\ high[i].msg \in Messages
                                   /\ high[i].kind = "send" /\ Short(high[i].msg)
<1>1. \A p \in Coming : p \in air /\ p \in InAir /\ p.pkt \in AllPackets /\ p.pkt.kind = "send"
  BY TypedIs DEF Coming, AirOK, InAir
<1>2. \A i \in DOMAIN high : high[i] \in AllPackets /\ high[i].kind = "send"
  <2>1. high \in Seq(AllPackets) /\ \A i \in DOMAIN high : high[i].kind = "send"
    BY TypedIs DEF SenderOK
  <2> QED BY <2>1
<1> QED BY <1>1, <1>2, PacketIs

LEMMA OnceSame ==
  ASSUME Typed, Once, UNCHANGED <<sent, high, air, latest, received>>
  PROVE  Once'
<1>1. Coming' = Coming
  BY DEF Coming
<1> QED BY <1>1, OnceFewer, ComingIs

LEMMA OnceSend ==
  ASSUME Typed, Once, NEW m \in Messages, SendMsg(m)
  PROVE  Once'
<1> DEFINE p == Submitted(m)
<1>1. /\ p \in AllPackets /\ p.msg = m /\ (p.kind = "send" <=> Short(m))
      /\ sent[m] \in Nat /\ sent'[m] = sent[m] + 1
      /\ \A n \in Messages \ {m} : sent'[n] = sent[n]
  BY SubmittedIs
<1>2. UNCHANGED <<air, latest, received>>
  BY DEF SendMsg, receiver
<1>3. Coming' = Coming
  BY <1>2 DEF Coming
<1>4. \A n \in Messages : sent[n] > 0 => sent'[n] > 0
  BY <1>1
<1>5. \/ p.kind = "send" /\ high' = Append(high, p)
      \/ p.kind # "send" /\ high' = high
  BY DEF SendMsg, Submitted
<1> HIDE DEF p
<1>6. CASE p.kind # "send"
  BY <1>2, <1>3, <1>4, <1>5, <1>6, OnceFewer, ComingIs
<1>7. CASE p.kind = "send"
  <2>1. sent[m] = 0
    <3>1. Len(Packets[m]) = 1 /\ sent[m] < Len(Packets[m])
      BY <1>1, <1>7, PacketsOf DEF SendMsg
    <3> QED BY <1>1, <3>1
  <2>2. /\ DOMAIN high' = 1..(Len(high) + 1) /\ DOMAIN high = 1..Len(high) /\ Len(high) \in Nat
        /\ \A i \in 1..Len(high) : high'[i] = high[i]
        /\ high'[Len(high) + 1] = p
    <3>1. high \in Seq(AllPackets)
      BY TypedIs DEF SenderOK
    <3> QED BY <1>1, <1>5, <1>7, <3>1, AppendKeeps
  <2>3. \A i \in DOMAIN high' : i \in DOMAIN high \/ i = Len(high) + 1
    BY <2>2
  <2>4. \A i \in DOMAIN high : high[i].msg # m /\ high'[i] = high[i]
    BY <2>1, <2>2 DEF Once
  <2>5. \A q \in Coming : q.pkt.msg # m
    BY <2>1 DEF Once
  <2>6. sent'[m] > 0
    BY <1>1
  <2>7. \A i \in DOMAIN high' : sent'[high'[i].msg] > 0
    <3> TAKE i \in DOMAIN high'
    <3>1. CASE i \in DOMAIN high
      BY <1>4, <2>4, <3>1, ComingIs DEF Once
    <3>2. CASE i = Len(high) + 1
      BY <1>1, <2>2, <2>6, <3>2
    <3> QED BY <2>3, <3>1, <3>2
  <2>8. \A i, j \in DOMAIN high' : high'[i].msg = high'[j].msg => i = j
    <3> TAKE i, j \in DOMAIN high'
    <3>1. CASE i \in DOMAIN high /\ j \in DOMAIN high
      BY <2>4, <3>1 DEF Once
    <3>2. CASE i = Len(high) + 1
      BY <1>1, <2>2, <2>3, <2>4, <3>2
    <3>3. CASE j = Len(high) + 1
      BY <1>1, <2>2, <2>3, <2>4, <3>3
    <3> QED BY <2>3, <3>1, <3>2, <3>3
  <2>9. \A q \in Coming' : sent'[q.pkt.msg] > 0
    BY <1>3, <1>4, ComingIs DEF Once
  <2>10. \A q \in Coming' : \A i \in DOMAIN high' : high'[i].msg # q.pkt.msg
    <3> TAKE q \in Coming'
    <3> TAKE i \in DOMAIN high'
    <3>1. CASE i \in DOMAIN high
      BY <1>3, <2>4, <3>1 DEF Once
    <3>2. CASE i = Len(high) + 1
      BY <1>1, <1>3, <2>2, <2>5, <3>2
    <3> QED BY <2>3, <3>1, <3>2
  <2>11. \A q, r \in Coming' : q.pkt.msg = r.pkt.msg => q = r
    BY <1>3 DEF Once
  <2>12. \A i \in DOMAIN received' :
           \E n \in Messages : /\ received'[i] = Text[n] /\ sent'[n] > 0
                               /\ \A j \in DOMAIN high' : high'[j].msg # n
                               /\ \A q \in Coming' : q.pkt.msg # n
    <3> TAKE i \in DOMAIN received'
    <3>1. PICK n \in Messages : /\ received[i] = Text[n] /\ sent[n] > 0
                                /\ \A j \in DOMAIN high : high[j].msg # n
                                /\ \A q \in Coming : q.pkt.msg # n
      BY <1>2 DEF Once
    <3>2. n # m
      BY <2>1, <3>1
    <3>3. \A j \in DOMAIN high' : high'[j].msg # n
      <4> TAKE j \in DOMAIN high'
      <4> QED BY <1>1, <2>2, <2>3, <2>4, <3>1, <3>2
    <3> QED BY <1>2, <1>3, <1>4, <3>1, <3>3
  <2>13. IsInjective(received')
    BY <1>2 DEF Once
  <2> QED BY <2>7, <2>8, <2>9, <2>10, <2>11, <2>12, <2>13 DEF Once
<1> QED BY <1>6, <1>7

LEMMA OnceTransmit ==
  ASSUME Typed, Once, Transmit
  PROVE  Once'
<1>1. /\ air' = air \union {Sent} /\ born \in Nat /\ latest' = latest
      /\ UNCHANGED <<sent, received>>
      /\ \/ high # <<>> /\ Foremost = Head(high) /\ high' = Tail(high)
         \/ high = <<>> /\ low # <<>> /\ Foremost = Head(low) /\ high' = high
  BY TransmitIs DEF receiver
<1>2. SenderOK /\ AirOK
  BY TypedIs
<1>3. Sent.pkt = Foremost /\ Sent.at = born + 1 /\ Sent.at > latest
  <2>1. latest \in 0..born
    BY <1>2 DEF AirOK
  <2> QED BY <1>1, <2>1 DEF Sent
<1>4. Coming' = IF Foremost.kind = "send" THEN Coming \union {Sent} ELSE Coming
  BY <1>1, <1>3 DEF Coming
<1>5. CASE high = <<>>
  <2>1. low \in Seq(AllPackets) /\ low # <<>> /\ \A i \in DOMAIN low : low[i].kind # "send"
    BY <1>1, <1>2, <1>5 DEF SenderOK
  <2>2. Head(low) = low[1] /\ 1 \in DOMAIN low
    BY <2>1, TailKeeps
  <2>3. Foremost.kind # "send" /\ high' = high
    BY <1>1, <1>5, <2>1, <2>2
  <2>4. Coming' = Coming
    BY <1>4, <2>3
  <2> QED BY <1>1, <2>3, <2>4, OnceFewer, ComingIs
<1>6. CASE high # <<>>
  <2>0. high \in Seq(AllPackets)
    BY <1>2 DEF SenderOK
  <2>1. /\ Foremost = high[1] /\ high' = Tail(high) /\ 1 \in DOMAIN high
        /\ DOMAIN high' = 1..(Len(high) - 1) /\ DOMAIN high = 1..Len(high)
        /\ Len(high) \in Nat
        /\ \A i \in 1..(Len(high) - 1) : high'[i] = high[i + 1]
    BY <1>1, <1>6, <2>0, TailKeeps
  <2>2. \A i \in DOMAIN high' : /\ i + 1 \in DOMAIN high /\ i + 1 # 1
                                /\ high'[i] = high[i + 1]
    BY <2>1
  <2>3. PICK m \in Messages : m = high[1].msg
    BY <2>1, ComingIs
  <2>4. Coming' = Coming \union {Sent} /\ Sent.pkt.msg = m
    BY <1>3, <1>4, <2>1, <2>3, ComingIs
  <2>5. \A i \in DOMAIN high' : high'[i].msg # m
    BY <2>1, <2>2, <2>3 DEF Once
  <2>6. sent[m] > 0 /\ \A q \in Coming : q.pkt.msg # m
    BY <2>1, <2>3 DEF Once
  <2> HIDE DEF Sent
  <2>7. \A i \in DOMAIN high' : sent'[high'[i].msg] > 0
    BY <1>1, <2>2 DEF Once
  <2>8. \A i, j \in DOMAIN high' : high'[i].msg = high'[j].msg => i = j
    <3> SUFFICES ASSUME NEW i \in DOMAIN high', NEW j \in DOMAIN high', high'[i].msg = high'[j].msg
                 PROVE  i = j
      OBVIOUS
    <3>1. high[i + 1].msg = high[j + 1].msg
      BY <2>2
    <3>2. i + 1 = j + 1
      BY <2>2, <3>1 DEF Once
    <3>3. i \in Nat /\ j \in Nat
      BY <2>1
    <3> QED BY <3>2, <3>3
  <2>9. \A q \in Coming' : sent'[q.pkt.msg] > 0
    BY <1>1, <2>4, <2>6 DEF Once
  <2>10. \A q \in Coming' : \A i \in DOMAIN high' : high'[i].msg # q.pkt.msg
    <3> TAKE q \in Coming'
    <3> TAKE i \in DOMAIN high'
    <3>1. CASE q = Sent
      BY <2>4, <2>5, <3>1
    <3>2. CASE q \in Coming
      BY <2>2, <3>2 DEF Once
    <3> QED BY <2>4, <3>1, <3>2
  <2>11. \A q, r \in Coming' : q.pkt.msg = r.pkt.msg => q = r
    BY <2>4, <2>6 DEF Once
  <2>12. \A i \in DOMAIN received' :
           \E n \in Messages : /\ received'[i] = Text[n] /\ sent'[n] > 0
                               /\ \A j \in DOMAIN high' : high'[j].msg # n
                               /\ \A q \in Coming' : q.pkt.msg # n
    <3> TAKE i \in DOMAIN received'
    <3>1. PICK n \in Messages : /\ received[i] = Text[n] /\ sent[n] > 0
                                /\ \A j \in DOMAIN high : high[j].msg # n
                                /\ \A q \in Coming : q.pkt.msg # n
      BY <1>1 DEF Once
    <3>2. n # m
      BY <2>1, <2>3, <3>1
    <3> QED BY <1>1, <2>2, <2>4, <3>1, <3>2
  <2>13. IsInjective(received')
    BY <1>1 DEF Once
  <2> QED BY <2>7, <2>8, <2>9, <2>10, <2>11, <2>12, <2>13 DEF Once
<1> QED BY <1>5, <1>6

\* Of what data_handler takes, only a message of one packet becomes an event.
LEMMA HandedOver ==
  ASSUME NEW k, DataHandler(k)
  PROVE  \/ received' = received
         \/ k.kind = "send" /\ received' = Append(received, Text[k.msg])
<1>1. ~(RecvReads \subseteq MeshData)
  <2>1. "sequence_number" \in RecvReads /\ "sequence_number" \notin MeshData
    BY DEF RecvReads, MeshData
  <2> QED BY <2>1
<1> QED BY <1>1 DEF DataHandler, StartFragments, AddData, EndFragments, ReceiveShort

LEMMA OnceReceive ==
  ASSUME Typed, Once, Taken, Receive
  PROVE  Once'
<1>0. AirOK /\ SenderOK
  BY TypedIs
<1>1. UNCHANGED <<sent, high>>
  BY ReceiveIs DEF sender
<1>2. PICK p \in air : Lands(p) /\ (Accepts(p) \/ Refuses(p))
  BY ReceiveIs
<1>3. p.at \in Nat /\ latest \in Nat /\ \A q \in air : q.at \in Nat
  BY <1>0 DEF AirOK, InAir
<1>4. \A q \in air' : (q \in air /\ q # p) \/ q.at = p.at
  BY <1>2, LandsIs
<1>5. CASE Refuses(p)
  <2>1. latest' = latest /\ received' = received /\ ~(p.at > latest)
    BY <1>5 DEF Refuses, receiver, Taken
  <2>2. Coming' \subseteq Coming
    BY <1>4, <2>1 DEF Coming
  <2> QED BY <1>1, <2>1, <2>2, OnceFewer, ComingIs
<1>6. CASE Accepts(p)
  <2>1. p.at > latest /\ latest' = p.at /\ DataHandler(p.pkt)
    BY <1>6 DEF Accepts, Taken
  <2>2. \A q \in Coming' : q \in Coming /\ q # p
    <3> TAKE q \in Coming'
    <3>1. q \in air' /\ q.at > p.at /\ q.pkt.kind = "send"
      BY <2>1 DEF Coming
    <3>2. q \in air /\ q # p
      BY <1>3, <1>4, <3>1
    <3>3. q.at > latest
      BY <1>3, <2>1, <3>1, <3>2
    <3> QED BY <3>1, <3>2, <3>3 DEF Coming
  <2>3. CASE received' = received
    BY <1>1, <2>2, <2>3, OnceFewer, ComingIs
  <2>4. CASE p.pkt.kind = "send" /\ received' = Append(received, Text[p.pkt.msg])
    <3>1. p \in Coming
      BY <2>1, <2>4 DEF Coming
    <3>2. PICK m \in Messages : m = p.pkt.msg
      BY <3>1, ComingIs
    <3>3. received \in Seq(Seq(Content)) /\ Text[m] \in Seq(Content)
      BY TypedIs, TextOf DEF ReceiverOK
    <3>4. /\ DOMAIN received' = 1..(Len(received) + 1) /\ DOMAIN received = 1..Len(received)
          /\ Len(received) \in Nat
          /\ \A i \in 1..Len(received) : received'[i] = received[i]
          /\ received'[Len(received) + 1] = Text[m]
      BY <2>4, <3>2, <3>3, AppendKeeps
    <3>5. /\ sent[m] > 0 /\ \A j \in DOMAIN high : high[j].msg # m
          /\ \A q \in Coming' : q.pkt.msg # m
      BY <2>2, <3>1, <3>2 DEF Once
    <3>6. \A i \in 1..Len(received) : received[i] # Text[m]
      <4> TAKE i \in 1..Len(received)
      <4>1. PICK n \in Messages : received[i] = Text[n] /\ \A q \in Coming : q.pkt.msg # n
        BY <3>4 DEF Once
      <4>2. n # m
        BY <3>1, <3>2, <4>1
      <4> QED BY <4>1, <4>2, TextOf
    <3>7. /\ \A i \in DOMAIN high' : sent'[high'[i].msg] > 0
          /\ \A i, j \in DOMAIN high' : high'[i].msg = high'[j].msg => i = j
      BY <1>1 DEF Once
    <3>8. /\ \A q \in Coming' : sent'[q.pkt.msg] > 0
          /\ \A q \in Coming' : \A i \in DOMAIN high' : high'[i].msg # q.pkt.msg
          /\ \A q, r \in Coming' : q.pkt.msg = r.pkt.msg => q = r
      BY <1>1, <2>2 DEF Once
    <3>9. \A i \in DOMAIN received' :
            \E n \in Messages : /\ received'[i] = Text[n] /\ sent'[n] > 0
                                /\ \A j \in DOMAIN high' : high'[j].msg # n
                                /\ \A q \in Coming' : q.pkt.msg # n
      <4> TAKE i \in DOMAIN received'
      <4>1. CASE i = Len(received) + 1
        BY <1>1, <3>4, <3>5, <4>1
      <4>2. CASE i \in 1..Len(received)
        <5>1. PICK n \in Messages : /\ received[i] = Text[n] /\ sent[n] > 0
                                    /\ \A j \in DOMAIN high : high[j].msg # n
                                    /\ \A q \in Coming : q.pkt.msg # n
          BY <3>4, <4>2 DEF Once
        <5> QED BY <1>1, <2>2, <3>4, <4>2, <5>1
      <4> QED BY <3>4, <4>1, <4>2
    <3>10. IsInjective(received')
      <4> SUFFICES ASSUME NEW i \in DOMAIN received', NEW j \in DOMAIN received',
                          received'[i] = received'[j]
                   PROVE  i = j
        BY DEF IsInjective
      <4>1. CASE i \in 1..Len(received) /\ j \in 1..Len(received)
        BY <3>4, <4>1 DEF Once, IsInjective
      <4>2. CASE i = Len(received) + 1 \/ j = Len(received) + 1
        BY <3>4, <3>6, <4>2
      <4> QED BY <3>4, <4>1, <4>2
    <3> QED BY <3>7, <3>8, <3>9, <3>10 DEF Once
  <2> QED BY <2>1, <2>3, <2>4, HandedOver
<1> QED BY <1>2, <1>5, <1>6

LEMMA SinglesNext == Typed /\ Numbers /\ Singles /\ [Next]_vars => Singles'
<1> SUFFICES ASSUME Typed, Numbers, Singles, [Next]_vars, ~stale' PROVE Once'
  BY DEF Singles
<1>1. ~stale /\ Once /\ Taken
  BY StaleStays DEF Singles, Numbers
<1>2. CASE Gateway \/ UNCHANGED vars
  <2>1. UNCHANGED <<sent, high, air, latest, received>>
    BY <1>2 DEF Gateway, ReadNumber, WriteNumber, OpenFile, WriteUpdate, sender, receiver,
                history, vars
  <2> QED BY <1>1, <2>1, OnceSame
<1>3. CASE \E m \in Messages : SendMsg(m)
  BY <1>1, <1>3, OnceSend
<1>4. CASE Crash
  <2>1. UNCHANGED <<sent, air, latest, received>> /\ high' = <<>>
    BY <1>4 DEF Crash, receiver
  <2>2. Coming' = Coming
    BY <2>1 DEF Coming
  <2> QED BY <1>1, <2>1, <2>2, OnceFewer, ComingIs
<1>5. CASE Transmit
  BY <1>1, <1>5, OnceTransmit
<1>6. CASE Lose
  <2>1. UNCHANGED <<sent, high, latest, received>> /\ air' \subseteq air
    BY <1>6 DEF Lose, sender, receiver
  <2>2. Coming' \subseteq Coming
    BY <2>1 DEF Coming
  <2> QED BY <1>1, <2>1, <2>2, OnceFewer, ComingIs
<1>7. CASE Receive
  BY <1>1, <1>7, OnceReceive
<1> QED BY <1>2, <1>3, <1>4, <1>5, <1>6, <1>7 DEF Next

-----------------------------------------------------------------------------
\* The inductive invariant.
LEMMA InvInit == Init => IInv
BY TypedInit, NumbersInit, StreamInit, SinglesInit DEF IInv

LEMMA InvNext == IInv /\ [Next]_vars => IInv'
<1>1. IInv /\ [Next]_vars => Typed'
  BY TypedNext DEF IInv
<1>2. IInv /\ [Next]_vars => Numbers'
  BY <1>1, NumbersNext DEF IInv
<1>3. IInv /\ [Next]_vars => Stream'
  BY <1>1, StreamNext DEF IInv
<1>4. IInv /\ [Next]_vars => Singles'
  BY SinglesNext DEF IInv
<1> QED BY <1>1, <1>2, <1>3, <1>4 DEF IInv

LEMMA InvIntact == IInv => Intact
<1> SUFFICES ASSUME IInv, ~startLost, ~overlap, ~stale
             PROVE  /\ \A i \in DOMAIN assembled : \E m \in Messages : assembled[i] = Text[m]
                    /\ IsInjective(assembled)
                    /\ IsInjective(received)
  BY DEF Intact
<1>1. PICK W \in SUBSET Messages : Fragmented(W)
  BY DEF IInv, Stream
<1>2. /\ \A i \in DOMAIN assembled : \E m \in Finished : assembled[i] = Text[m]
      /\ IsInjective(assembled)
  BY <1>1 DEF Fragmented, Whole
<1>3. Finished \subseteq Messages
  BY DEF Finished
<1>4. IsInjective(received)
  BY DEF IInv, Singles, Once
<1> QED BY <1>2, <1>3, <1>4

\* What data_handler puts together is a message somebody sent, whole, and each one
\* once, and so are the messages of one packet: whatever the mesh loses, repeats or
\* reorders, as long as every FRAGMENT_START arrives, no two threads are inside
\* send_msg at a time, and no power loss made the sequence numbers start over.
THEOREM NeverMixed == Spec => []Intact
BY InvInit, InvNext, InvIntact, PTL DEF Spec
-----------------------------------------------------------------------------
(* What arrives is put together. *)

\* Packets that have not reached the receiver, and one of them that will be refused.
Fresh == {p \in air : ~p.again}
Doomed == \E p \in Fresh : ~CheckSeqNumber(p.number)
Of(m) == {p \in Fresh : p.pkt.msg = m}
Waits(m) == {i \in DOMAIN low : low[i].msg = m}
\* Packets of m are still to be given their numbers.
Unnumbered(m) == Underway(m) \/ Waits(m) # {}
\* The next of them will be refused.
Hopeless(m) == Unnumbered(m) /\ ~CheckSeqNumber(number)
\* Each number between lo and hi is under way with a packet of m, or one that is a message.
Filled(m, lo, hi) ==
  \A n \in Nat :
    lo < n /\ n < hi => \E q \in Fresh : q.number = n /\ (q.pkt.msg = m \/ q.pkt.kind = "send")

\* Of m, which is cut into fragments, the receiver has taken the first a packets; the
\* others are in the mesh or behind that in the queue, in order.
Split(m, a) ==
  /\ \A p \in Of(m) : a < Place(p.pkt)
  /\ \A i \in Waits(m) : a < Place(low[i])
  /\ \A k \in (a + 1)..sent[m] :
       (\E p \in Of(m) : Place(p.pkt) = k) \/ \E i \in Waits(m) : Place(low[i]) = k
  /\ \A p \in Of(m) : \A i \in Waits(m) : Place(p.pkt) < Place(low[i])
  /\ \A p, q \in Of(m) : /\ p.number < q.number => Place(p.pkt) < Place(q.pkt)
                         /\ p.number = q.number \/ Place(p.pkt) = Place(q.pkt) => p = q
  /\ Unnumbered(m) => \A p \in Of(m) : p.number < number
\* Nothing will come between the packets of m.
Dense(m, lo) ==
  /\ \A p \in Of(m) : Filled(m, lo, p.number)
  /\ Unnumbered(m) => Filled(m, lo, number)
\* The packet being received is m, and its first b fragments are there.
Holds(m, b) ==
  /\ frpkt # None /\ frpkt.len = Size[m]
  /\ \A k \in 1..Slots(m) :
       /\ frpkt.packets[k] \in {None, <<m, k - 1>>}
       /\ k <= b => frpkt.packets[k] = <<m, k - 1>>
Progress(m, a) ==
  /\ Split(m, a)
  /\ a = 0 => \A s \in Of(m) : s.pkt.kind = "start" => Dense(m, s.number)
  /\ 0 < a /\ a < Len(Packets[m]) => cache # None /\ Dense(m, cache) /\ Holds(m, a - 1)

\* The queue: the packets of a message are in order, and follow its FRAGMENT_START
\* when there are others before them.
Queued ==
  /\ \A i, j \in DOMAIN low :
       low[i].msg = low[j].msg /\ i < j => Place(low[i]) < Place(low[j])
  /\ \A i, j \in DOMAIN low :
       i < j /\ low[i].msg # low[j].msg =>
         \E k \in DOMAIN low : i < k /\ low[k].msg = low[j].msg /\ low[k].kind = "start"
  /\ \A m \in Messages : \A i \in DOMAIN low :
       Underway(m) /\ low[i].msg # m =>
         \E k \in DOMAIN low : i < k /\ low[k].msg = m /\ low[k].kind = "start"

\* What is under way has been submitted.
Known ==
  /\ \A p \in air : Place(p.pkt) <= sent[p.pkt.msg]
  /\ \A i \in DOMAIN low : Place(low[i]) <= sent[low[i].msg]
  /\ \A i \in DOMAIN high : Place(high[i]) <= sent[high[i].msg]
  /\ \A p \in air : p.again => ~CheckSeqNumber(p.number)
  /\ boot # "run" => \A m \in Messages : ~Underway(m)
  /\ \A m \in cut : sent[m] < Len(Packets[m])

\* What a message of which something was submitted has come to.
Moving(m) == Hopeless(m) \/ \E a \in 0..sent[m] : Progress(m, a)
Delivered ==
  \A m \in Messages : Through(m) => Text[m] \in Range(assembled) \union Range(received)
Pieces == {m \in Messages \ cut : Begun(m) /\ ~Short(m)}
ArrivingOn == Delivered /\ Queued /\ (Doomed \/ \A m \in Pieces : Moving(m))
Arriving == calm /\ ~overlap => ArrivingOn

\* What is in the mesh and in the queue of fragments.
LEMMA FreshIs ==
  ASSUME Typed, NEW p \in Fresh
  PROVE  /\ p \in air /\ ~p.again /\ p.number \in Nat /\ p.pkt \in AllPackets
         /\ p.pkt.msg \in Messages /\ Place(p.pkt) \in Nat \ {0}
         /\ p.pkt.kind = "send" <=> Short(p.pkt.msg)
<1>1. p \in InAir /\ p \in air
  BY TypedIs DEF AirOK, Fresh
<1>2. p.pkt \in AllPackets /\ p.number \in Nat
  BY <1>1 DEF InAir
<1>3. p.pkt.msg \in Messages /\ Place(p.pkt) \in 1..Len(Packets[p.pkt.msg])
      /\ (p.pkt.kind = "send" <=> Short(p.pkt.msg))
  BY <1>2, PacketIs
<1> QED BY <1>1, <1>2, <1>3, PacketsOf DEF Fresh

LEMMA LowIs ==
  ASSUME Typed
  PROVE  /\ low \in Seq(AllPackets) /\ DOMAIN low = 1..Len(low) /\ Len(low) \in Nat
         /\ \A i \in DOMAIN low :
              /\ low[i] \in AllPackets /\ low[i].msg \in Messages /\ ~Short(low[i].msg)
              /\ Place(low[i]) \in Nat \ {0} /\ Place(low[i]) <= Len(Packets[low[i].msg])
              /\ low[i].kind = "start" => Place(low[i]) = 1
<1>1. low \in Seq(AllPackets) /\ \A i \in DOMAIN low : low[i].kind # "send"
  BY TypedIs DEF SenderOK
<1>2. DOMAIN low = 1..Len(low) /\ Len(low) \in Nat /\ \A i \in DOMAIN low : low[i] \in AllPackets
  BY <1>1
<1>3. \A i \in DOMAIN low :
         /\ low[i].msg \in Messages /\ ~Short(low[i].msg)
         /\ Place(low[i]) \in 1..Len(Packets[low[i].msg])
         /\ low[i].kind = "start" => Place(low[i]) = 1
  BY <1>1, <1>2, PacketIs
<1> QED BY <1>1, <1>2, <1>3, PacketsOf

LEMMA SentIs ==
  ASSUME Typed, NEW m \in Messages
  PROVE  /\ sent[m] \in Nat /\ Len(Packets[m]) \in Nat \ {0} /\ sent[m] <= Len(Packets[m])
         /\ Slots(m) \in Nat \ {0}
         /\ ~Short(m) => Len(Packets[m]) = Slots(m) + 2
  BY TypedIs, PacketsOf DEF SenderOK

LEMMA ArrivingInit == Init => Known /\ Arriving
<1> SUFFICES ASSUME Init PROVE Known /\ Arriving
  OBVIOUS
<1>1. \A m \in Messages : ~Begun(m) /\ sent[m] = 0 /\ Len(Packets[m]) # 0
  BY PacketsOf DEF Init, Begun
<1>2. Pieces = {} /\ \A m \in Messages : ~Through(m) /\ ~Underway(m)
  BY <1>1 DEF Pieces, Through, Underway
<1>3. Queued
  BY DEF Init, Queued
<1>4. Known
  BY <1>2 DEF Init, Known
<1> QED BY <1>2, <1>3, <1>4 DEF Arriving, ArrivingOn, Delivered

\* Where nothing fresh comes or goes, and who still has packets to be numbered keeps the
\* next number.
LEMMA ArrivingSame ==
  ASSUME Typed, ArrivingOn, Fresh' = Fresh,
         UNCHANGED <<sent, high, low, cache, frpkt, assembled, received>>,
         cut \subseteq cut',
         \A m \in Messages : Underway(m)' => Underway(m),
         \A m \in Messages \ cut' : /\ Unnumbered(m)' = Unnumbered(m)
                                    /\ number' = number \/ ~Unnumbered(m)
  PROVE  ArrivingOn'
<1>1. \A m \in Messages : Of(m)' = Of(m) /\ Waits(m)' = Waits(m)
  BY DEF Of, Waits
<1>2. Doomed' = Doomed
  BY DEF Doomed, CheckSeqNumber
<1>3. Delivered'
  <2>1. \A m \in Messages : Through(m)' => Through(m)
    BY <1>1 DEF Through, Of, Fresh
  <2> QED BY <2>1 DEF ArrivingOn, Delivered, Range
<1>4. Queued'
  BY DEF ArrivingOn, Queued
<1>5. Pieces' \subseteq Pieces
  BY DEF Pieces, Begun
<1>6. ASSUME NEW m \in Pieces', Moving(m) PROVE Moving(m)'
  <2>0. m \in Messages \ cut' /\ Unnumbered(m)' = Unnumbered(m) /\ (number' = number \/ ~Unnumbered(m))
        /\ Of(m)' = Of(m) /\ Waits(m)' = Waits(m) /\ sent' = sent /\ low' = low
        /\ cache' = cache /\ frpkt' = frpkt /\ Fresh' = Fresh
    BY <1>1 DEF Pieces
  <2>1. Hopeless(m) => Hopeless(m)'
    BY <2>0 DEF Hopeless, CheckSeqNumber
  <2>2. ASSUME NEW a \in 0..sent[m], Progress(m, a) PROVE Progress(m, a)'
    <3>1. Split(m, a)'
      BY <2>0, <2>2 DEF Progress, Split
    <3>2. \A lo : Dense(m, lo) => Dense(m, lo)'
      BY <2>0 DEF Dense, Filled
    <3>3. Holds(m, a - 1)' = Holds(m, a - 1)
      BY <2>0 DEF Holds
    <3> QED BY <2>0, <2>2, <3>1, <3>2, <3>3 DEF Progress
  <2> QED BY <1>6, <2>0, <2>1, <2>2 DEF Moving
<1> QED BY <1>2, <1>3, <1>4, <1>5, <1>6 DEF ArrivingOn

\* A packet that is lost, or refused, with every packet transmitted arriving, is a copy.
LEMMA KnownSame ==
  ASSUME Typed, Known, air' \subseteq air, UNCHANGED <<sent, low, high, cache, cut>>,
         boot' # "run" => \A m \in Messages : ~Underway(m)
  PROVE  Known'
<1>1. Known' <=> /\ \A p \in air' : Place(p.pkt) <= sent[p.pkt.msg]
                 /\ \A i \in DOMAIN low : Place(low[i]) <= sent[low[i].msg]
                 /\ \A i \in DOMAIN high : Place(high[i]) <= sent[high[i].msg]
                 /\ \A p \in air' : p.again => ~CheckSeqNumber(p.number)
                 /\ boot' # "run" => \A m \in Messages : ~Underway(m)
                 /\ \A m \in cut : sent[m] < Len(Packets[m])
  BY DEF Known, Place, CheckSeqNumber, Underway, Begun
<1> QED BY <1>1 DEF Known

LEMMA KnownSend ==
  ASSUME Typed, Typed', Known, NEW m \in Messages, SendMsg(m)
  PROVE  Known'
<1> DEFINE e == Submitted(m)
<1>0. /\ e \in AllPackets /\ e.msg = m /\ Place(e) = sent[m] + 1
      /\ sent[m] \in Nat /\ sent'[m] = sent[m] + 1
      /\ \A n \in Messages \ {m} : sent'[n] = sent[n]
  BY SubmittedIs
<1>1. \A n \in Messages : sent[n] \in Nat /\ sent[n] <= sent'[n]
  BY <1>0, SentIs
<1> HIDE DEF e
<1>2. \/ high' = Append(high, e) /\ low' = low
      \/ low' = Append(low, e) /\ high' = high
  BY DEF SendMsg, e, Submitted
<1>3. /\ air' = air /\ cache' = cache /\ cut' = cut /\ boot = "run" /\ boot' = boot
      /\ m \notin cut
  BY DEF SendMsg, receiver, numbers
<1>4. high \in Seq(AllPackets) /\ low \in Seq(AllPackets)
      /\ \A k \in AllPackets : k.msg \in Messages /\ Place(k) \in Nat
  BY TypedIs, PacketIs DEF SenderOK
<1>5. \A k \in AllPackets : Place(k)' = Place(k)
  BY DEF Place
<1>6. ASSUME NEW q \in Seq(AllPackets), \A i \in DOMAIN q : Place(q[i]) <= sent[q[i].msg]
      PROVE  /\ \A i \in DOMAIN q : Place(q[i]) <= sent'[q[i].msg]
             /\ \A i \in DOMAIN Append(q, e) : Place(Append(q, e)[i]) <= sent'[Append(q, e)[i].msg]
  <2>1. /\ DOMAIN Append(q, e) = 1..(Len(q) + 1)
        /\ DOMAIN q = 1..Len(q) /\ Len(q) \in Nat
        /\ \A i \in 1..Len(q) : Append(q, e)[i] = q[i] /\ q[i] \in AllPackets
        /\ Append(q, e)[Len(q) + 1] = e
    BY <1>0, AppendKeeps
  <2>2. \A i \in DOMAIN q : Place(q[i]) <= sent'[q[i].msg]
    <3> TAKE i \in DOMAIN q
    <3>1. Place(q[i]) <= sent[q[i].msg] /\ q[i].msg \in Messages /\ Place(q[i]) \in Nat
          /\ sent[q[i].msg] \in Nat /\ sent[q[i].msg] <= sent'[q[i].msg]
      BY <1>1, <1>4, <1>6, <2>1
    <3>2. sent'[q[i].msg] \in Nat
      BY <1>0, <1>1, <3>1
    <3> QED BY <3>1, <3>2
  <2>3. Place(e) <= sent'[e.msg]
    BY <1>0
  <2> QED BY <2>1, <2>2, <2>3
<1>7. /\ \A i \in DOMAIN high : Place(high[i]) <= sent[high[i].msg]
      /\ \A i \in DOMAIN low : Place(low[i]) <= sent[low[i].msg]
  BY DEF Known
<1>8. /\ \A i \in DOMAIN high' : Place(high'[i]) <= sent'[high'[i].msg]
      /\ \A i \in DOMAIN low' : Place(low'[i]) <= sent'[low'[i].msg]
  <2>1. CASE high' = Append(high, e) /\ low' = low
    BY <1>4, <1>6, <1>7, <2>1
  <2>2. CASE low' = Append(low, e) /\ high' = high
    BY <1>4, <1>6, <1>7, <2>2
  <2> QED BY <1>2, <2>1, <2>2
<1>9. \A p \in air : Place(p.pkt) <= sent'[p.pkt.msg]
  <2> TAKE p \in air
  <2>1. p.pkt \in AllPackets
    BY TypedIs DEF AirOK, InAir
  <2>2. Place(p.pkt) <= sent[p.pkt.msg] /\ p.pkt.msg \in Messages /\ Place(p.pkt) \in Nat
    BY <1>4, <2>1 DEF Known
  <2>3. sent[p.pkt.msg] \in Nat /\ sent[p.pkt.msg] <= sent'[p.pkt.msg] /\ sent'[p.pkt.msg] \in Nat
    BY <1>0, <1>1, <2>2
  <2> QED BY <2>2, <2>3
<1>10. \A n \in cut : sent'[n] < Len(Packets[n])
  <2>1. cut \subseteq Messages
    BY TypedIs, TransportAssumption DEF SenderOK
  <2> QED BY <1>0, <1>3, <2>1 DEF Known
<1>11. \A p \in air : p.again => ~CheckSeqNumber(p.number)'
  BY <1>3 DEF Known, CheckSeqNumber
<1> QED BY <1>3, <1>8, <1>9, <1>10, <1>11 DEF Known, Place

LEMMA KnownTransmit ==
  ASSUME Typed, Known, Transmit
  PROVE  Known'
<1>0. /\ air' = air \union {Sent} /\ Sent.pkt = Foremost /\ ~Sent.again
      /\ \/ high # <<>> /\ Foremost = Head(high) /\ high' = Tail(high) /\ low' = low
         \/ high = <<>> /\ low # <<>> /\ Foremost = Head(low) /\ low' = Tail(low) /\ high' = high
      /\ UNCHANGED <<sent, cut, cache>> /\ boot = "run" /\ boot' = boot
  BY TransmitIs DEF Sent, receiver
<1>1. high \in Seq(AllPackets) /\ low \in Seq(AllPackets)
  BY TypedIs DEF SenderOK
<1>2. ASSUME NEW q \in Seq(AllPackets), q # <<>>, \A i \in DOMAIN q : Place(q[i]) <= sent[q[i].msg]
      PROVE  /\ Place(Head(q)) <= sent[Head(q).msg]
             /\ \A i \in DOMAIN Tail(q) : Place(Tail(q)[i]) <= sent[Tail(q)[i].msg]
  BY <1>2, TailKeeps
<1>3. /\ \A i \in DOMAIN high : Place(high[i]) <= sent[high[i].msg]
      /\ \A i \in DOMAIN low : Place(low[i]) <= sent[low[i].msg]
  BY DEF Known
<1>4. /\ Place(Foremost) <= sent[Foremost.msg]
      /\ \A i \in DOMAIN high' : Place(high'[i]) <= sent[high'[i].msg]
      /\ \A i \in DOMAIN low' : Place(low'[i]) <= sent[low'[i].msg]
  <2>1. CASE high # <<>> /\ Foremost = Head(high) /\ high' = Tail(high) /\ low' = low
    BY <1>1, <1>2, <1>3, <2>1
  <2>2. CASE high = <<>> /\ low # <<>> /\ Foremost = Head(low) /\ low' = Tail(low) /\ high' = high
    BY <1>1, <1>2, <1>3, <2>2
  <2> QED BY <1>0, <2>1, <2>2
<1>5. \A p \in air' : Place(p.pkt) <= sent[p.pkt.msg]
  BY <1>0, <1>4 DEF Known
<1>6. \A p \in air' : p.again => ~CheckSeqNumber(p.number)'
  BY <1>0 DEF Known, CheckSeqNumber
<1> QED BY <1>0, <1>4, <1>5, <1>6 DEF Known, Place

\* The receiver only goes up.
LEMMA KnownReceive ==
  ASSUME Typed, Known, NEW p \in air, Lands(p), Accepts(p) \/ Refuses(p),
         UNCHANGED <<sender, numbers>>
  PROVE  Known'
<1>1. \A q \in air' : q \in air \ {p} \/ q = Back(p)
  BY LandsIs
<1>2. /\ Back(p).pkt = p.pkt /\ Back(p).number = p.number
      /\ \A q \in air : q.number \in Nat
  BY LandsIs, TypedIs DEF AirOK, InAir
<1>3. UNCHANGED <<sent, cut, high, low, boot>>
  BY DEF sender, numbers
<1>4. \A q \in air' : Place(q.pkt) <= sent[q.pkt.msg]
  BY <1>1, <1>2 DEF Known
<1>5. ~CheckSeqNumber(p.number)' /\ \A n \in Nat : ~CheckSeqNumber(n) => ~CheckSeqNumber(n)'
  <2>1. cache \in Nat \union {None} /\ p.number \in Nat /\ None \notin Nat
    BY <1>2, TypedIs, TransportAssumption DEF ReceiverOK
  <2>2. CASE Accepts(p)
    BY <2>1, <2>2 DEF Accepts, CheckSeqNumber
  <2>3. CASE Refuses(p)
    BY <2>1, <2>3 DEF Refuses, receiver, CheckSeqNumber
  <2> QED BY <2>2, <2>3
<1>6. \A q \in air' : q.again => ~CheckSeqNumber(q.number)'
  BY <1>1, <1>2, <1>5 DEF Known
<1> QED BY <1>3, <1>4, <1>6 DEF Known, Place, Underway, Begun

LEMMA KnownNext == Typed /\ Typed' /\ Known /\ [Next]_vars => Known'
<1> SUFFICES ASSUME Typed, Typed', Known, [Next]_vars PROVE Known'
  OBVIOUS
<1>1. ASSUME NEW m \in Messages, SendMsg(m) PROVE Known'
  BY <1>1, KnownSend
<1>2. CASE Gateway
  <2>1. air' = air /\ UNCHANGED <<sent, low, high, cache, cut>>
        /\ (boot' # "run" => \A m \in Messages : ~Underway(m))
    BY <1>2 DEF Known, Gateway, ReadNumber, WriteNumber, OpenFile, WriteUpdate, sender, receiver
  <2> QED BY <2>1, KnownSame
<1>3. CASE Crash
  <2>1. /\ air' = air /\ UNCHANGED <<sent, cache>> /\ high' = <<>> /\ low' = <<>>
        /\ cut' = cut \union {m \in Messages : Underway(m)}
    BY <1>3 DEF Crash, receiver
  <2>2. \A m \in Messages : ~Underway(m)'
    BY <2>1 DEF Underway, Begun
  <2>3. \A m \in cut' : sent'[m] < Len(Packets[m])
    BY <2>1 DEF Known, Underway
  <2>4. /\ \A p \in air' : Place(p.pkt) <= sent'[p.pkt.msg]
        /\ \A p \in air' : p.again => ~CheckSeqNumber(p.number)'
    BY <2>1 DEF Known, CheckSeqNumber
  <2> QED BY <2>1, <2>2, <2>3, <2>4 DEF Known, Place
<1>4. CASE Transmit
  BY <1>4, KnownTransmit
<1>5. CASE Lose
  <2>1. air' \subseteq air /\ UNCHANGED <<sent, low, high, cache, cut, boot>>
    BY <1>5 DEF Lose, sender, numbers, receiver
  <2> QED BY <2>1, KnownSame DEF Known
<1>6. CASE Receive
  BY <1>6, ReceiveIs, KnownReceive
<1>7. CASE UNCHANGED vars
  <2>1. air' = air /\ UNCHANGED <<sent, low, high, cache, cut, boot>>
    BY <1>7 DEF vars, sender, numbers, receiver
  <2> QED BY <2>1, KnownSame DEF Known
<1> QED BY <1>1, <1>2, <1>3, <1>4, <1>5, <1>6, <1>7 DEF Next

\* No packet comes, and none goes but copies.
LEMMA ArrivingQuiet ==
  ASSUME Typed, Known, ArrivingOn,
         \/ Gateway
         \/ Crash /\ calm'
         \/ Lose /\ calm'
         \/ UNCHANGED vars
  PROVE  ArrivingOn'
<1>1. Fresh' = Fresh
  <2>1. CASE Lose
    <3>1. PICK p \in air : air' = air \ {p} /\ Missing({p})
      BY <2>1 DEF Lose
    <3>2. CASE p.again
      BY <3>1, <3>2 DEF Fresh
    <3>3. CASE ~p.again
      <4>1. ~calm'
        BY <3>1, <3>3 DEF Missing
      <4>2. ~Gateway /\ ~Crash /\ ~UNCHANGED vars
        <5>1. air' # air
          BY <3>1
        <5> QED BY <5>1 DEF Gateway, ReadNumber, WriteNumber, OpenFile, WriteUpdate, Crash, vars
      <4> QED BY <4>1, <4>2
    <3> QED BY <3>2, <3>3
  <2>2. CASE ~Lose
    BY <2>2 DEF Gateway, ReadNumber, WriteNumber, OpenFile, WriteUpdate, Crash, vars, Fresh
  <2> QED BY <2>1, <2>2
<1>2. UNCHANGED <<sent, cache, frpkt, assembled, received>> /\ cut \subseteq cut'
  BY DEF Gateway, ReadNumber, WriteNumber, OpenFile, WriteUpdate, Crash, Lose, vars, sender,
         receiver
<1>3. CASE Crash /\ calm'
  <2>1. /\ high = <<>> /\ low = <<>> /\ high' = <<>> /\ low' = <<>>
        /\ cut' = cut \union {m \in Messages : Underway(m)}
    BY <1>3, TypedIs DEF Crash, HistoryOK
  <2>2. \A m \in Messages : ~Underway(m)'
    BY <1>2, <2>1 DEF Underway, Begun
  <2>3. \A m \in Messages \ cut' : ~Underway(m) /\ Waits(m) = {} /\ Waits(m)' = {}
    BY <2>1 DEF Waits
  <2>4. \A m \in Messages \ cut' : ~Unnumbered(m) /\ Unnumbered(m)' = Unnumbered(m)
    BY <2>2, <2>3 DEF Unnumbered
  <2> QED BY <1>1, <1>2, <2>1, <2>2, <2>4, ArrivingSame
<1>4. CASE ~Crash
  <2>1. UNCHANGED <<high, low, cut>>
    BY <1>4 DEF Gateway, ReadNumber, WriteNumber, OpenFile, WriteUpdate, Lose, vars, sender
  <2>2. \A m \in Messages : Underway(m)' = Underway(m) /\ Waits(m)' = Waits(m)
    BY <1>2, <2>1 DEF Underway, Begun, Waits
  <2>3. number' = number \/ boot # "run"
    BY <1>4 DEF Gateway, ReadNumber, WriteNumber, OpenFile, WriteUpdate, Lose, vars, numbers
  <2>4. boot # "run" => \A m \in Messages : ~Unnumbered(m)
    BY TypedIs DEF Empties, Known, Unnumbered, Waits
  <2>5. \A m \in Messages : Unnumbered(m)' = Unnumbered(m)
    BY <2>2 DEF Unnumbered
  <2> QED BY <1>1, <1>2, <2>1, <2>2, <2>3, <2>4, <2>5, ArrivingSame
<1>5. Crash => calm'
  <2>1. Crash => crashes' # crashes
    BY TypedIs DEF Crash, HistoryOK
  <2>2. Gateway \/ Lose \/ UNCHANGED vars => crashes' = crashes
    BY DEF Gateway, ReadNumber, WriteNumber, OpenFile, WriteUpdate, Lose, vars, history
  <2> QED BY <2>1, <2>2
<1> QED BY <1>3, <1>4, <1>5

\* A message of one packet is submitted.
LEMMA ArrivingSendShort ==
  ASSUME Typed, Known, ArrivingOn, NEW m \in Messages, SendMsg(m), Short(m)
  PROVE  ArrivingOn'
<1> DEFINE e == Submitted(m)
<1>0. /\ e \in AllPackets /\ e.msg = m /\ e.kind = "send"
      /\ sent[m] \in Nat /\ sent'[m] = sent[m] + 1
      /\ \A n \in Messages \ {m} : sent'[n] = sent[n]
  BY SubmittedIs
<1>1. high' = Append(high, e)
  BY <1>0 DEF SendMsg, Submitted
<1>2. UNCHANGED <<low, air, cut, number, cache, frpkt, assembled, received>>
  BY <1>0 DEF SendMsg, Submitted, numbers, receiver
<1> HIDE DEF e
<1>3. high \in Seq(AllPackets)
  BY TypedIs DEF SenderOK
<1>4. Range(high) \subseteq Range(high') /\ e \in Range(high')
  <2>1. /\ DOMAIN Append(high, e) = 1..(Len(high) + 1) /\ DOMAIN high = 1..Len(high)
        /\ Len(high) \in Nat
        /\ \A i \in 1..Len(high) : Append(high, e)[i] = high[i]
        /\ Append(high, e)[Len(high) + 1] = e
    BY <1>0, <1>3, AppendKeeps
  <2>2. \A i \in DOMAIN high : i \in DOMAIN high' /\ high'[i] = high[i]
    BY <1>1, <2>1
  <2>3. Len(high) + 1 \in DOMAIN high' /\ high'[Len(high) + 1] = e
    BY <1>1, <2>1
  <2> QED BY <2>2, <2>3 DEF Range
<1>5. Fresh' = Fresh /\ (\A n \in Messages : Of(n)' = Of(n) /\ Waits(n)' = Waits(n)) /\ Doomed' = Doomed
  BY <1>2 DEF Fresh, Of, Waits, Doomed, CheckSeqNumber
<1>6. ~Underway(m) /\ ~Underway(m)'
  <2>1. Len(Packets[m]) = 1
    BY PacketsOf
  <2> QED BY <1>0, <2>1 DEF Underway, Begun
<1>7. \A n \in Messages : Underway(n)' = Underway(n)
  BY <1>0, <1>2, <1>6 DEF Underway, Begun
<1>8. \A n \in Messages : Through(n)' => Through(n)
  <2>1. ~Through(m)'
    BY <1>0, <1>4 DEF Through
  <2>2. ASSUME NEW n \in Messages \ {m}, Through(n)' PROVE Through(n)
    BY <1>0, <1>2, <1>4, <2>2 DEF Through
  <2> QED BY <2>1, <2>2
<1>9. Delivered'
  BY <1>2, <1>8 DEF ArrivingOn, Delivered, Range
<1>10. Queued'
  BY <1>2, <1>7 DEF ArrivingOn, Queued, Place
<1>11. Pieces' \subseteq Pieces /\ m \notin Pieces'
  BY <1>0, <1>2 DEF Pieces, Begun, Short
<1>12. ASSUME NEW n \in Pieces', Moving(n) PROVE Moving(n)'
  <2>0. /\ n \in Messages /\ Unnumbered(n)' = Unnumbered(n) /\ number' = number
        /\ Of(n)' = Of(n) /\ Waits(n)' = Waits(n) /\ sent'[n] = sent[n] /\ low' = low
        /\ cache' = cache /\ frpkt' = frpkt /\ Fresh' = Fresh
    BY <1>0, <1>2, <1>5, <1>7, <1>11 DEF Pieces, Unnumbered
  <2>1. Hopeless(n) => Hopeless(n)'
    BY <2>0 DEF Hopeless, CheckSeqNumber
  <2>2. ASSUME NEW a \in 0..sent[n], Progress(n, a) PROVE Progress(n, a)'
    <3>1. Split(n, a)'
      BY <2>0, <2>2 DEF Progress, Split
    <3>2. \A lo : Dense(n, lo) => Dense(n, lo)'
      BY <2>0 DEF Dense, Filled
    <3>3. Holds(n, a - 1)' = Holds(n, a - 1)
      BY <2>0 DEF Holds
    <3> QED BY <2>0, <2>2, <3>1, <3>2, <3>3 DEF Progress
  <2> QED BY <1>12, <2>0, <2>1, <2>2 DEF Moving
<1> QED BY <1>5, <1>9, <1>10, <1>11, <1>12 DEF ArrivingOn

\* A fragment is submitted, and no other message is being submitted.
LEMMA QueuedSend ==
  ASSUME Typed, Known, Queued, NEW m \in Messages, SendMsg(m), ~Short(m),
         \A o \in Messages \ {m} : ~Underway(o)
  PROVE  Queued'
<1> DEFINE e == Submitted(m)
           L == Len(low)
<1>0. /\ e \in AllPackets /\ e.msg = m /\ e.kind # "send" /\ Place(e) = sent[m] + 1
      /\ sent[m] \in Nat /\ sent'[m] = sent[m] + 1
      /\ \A n \in Messages \ {m} : sent'[n] = sent[n]
  BY SubmittedIs
<1>1. low' = Append(low, e) /\ cut' = cut /\ sent[m] < Len(Packets[m]) /\ m \notin cut
  BY <1>0 DEF SendMsg, Submitted
<1> HIDE DEF e
<1>2. low \in Seq(AllPackets) /\ DOMAIN low = 1..L /\ L \in Nat
  BY LowIs
<1>3. /\ DOMAIN low' = 1..(L + 1) /\ low'[L + 1] = e
      /\ \A i \in 1..L : low'[i] = low[i]
  BY <1>0, <1>1, <1>2, AppendKeeps
<1> HIDE DEF L
<1>4. ~Underway(m) => e.kind = "start"
  <2>1. ~Underway(m) => sent[m] = 0
    BY <1>0, <1>1 DEF Underway, Begun
  <2>2. sent[m] = 0 => Submitted(m) = Packet("start", m, 0)
    BY PacketsOf DEF Submitted
  <2> QED BY <2>1, <2>2 DEF e, Packet
<1>5. \A i \in 1..L : low[i].msg = m => Place(low[i]) < Place(e)
  <2>1. \A i \in 1..L : Place(low[i]) \in Nat /\ Place(low[i]) <= sent[low[i].msg]
    BY <1>2, LowIs DEF Known
  <2> QED BY <1>0, <2>1
<1>6. \A i, j \in DOMAIN low' :
        low'[i].msg = low'[j].msg /\ i < j => Place(low'[i]) < Place(low'[j])
  <2> TAKE i, j \in DOMAIN low'
  <2>1. i \in 1..L \/ i = L + 1
    BY <1>2, <1>3
  <2>2. j \in 1..L \/ j = L + 1
    BY <1>2, <1>3
  <2>3. \A x, y \in 1..L : low[x].msg = low[y].msg /\ x < y => Place(low[x]) < Place(low[y])
    BY <1>2 DEF Queued
  <2> QED BY <1>0, <1>2, <1>3, <1>5, <2>1, <2>2, <2>3
\* The last two parts, for a message whose packets are not all before the end.
<1>7. ASSUME NEW n \in Messages, NEW i \in 1..L, low[i].msg # n,
             n = m \/ \E j \in 1..L : i < j /\ low[j].msg = n
      PROVE  \E k \in DOMAIN low' : i < k /\ low'[k].msg = n /\ low'[k].kind = "start"
  <2>1. CASE \E j \in 1..L : i < j /\ low[j].msg = n
    <3>0. PICK j \in 1..L : i < j /\ low[j].msg = n
      BY <2>1
    <3>1. PICK k \in DOMAIN low : i < k /\ low[k].msg = n /\ low[k].kind = "start"
      <4>1. i \in DOMAIN low /\ j \in DOMAIN low
        BY <1>2
      <4> QED BY <1>7, <3>0, <4>1 DEF Queued
    <3>2. k \in DOMAIN low' /\ low'[k] = low[k]
      BY <1>2, <1>3
    <3> QED BY <3>1, <3>2
  <2>2. CASE n = m /\ Underway(m)
    <3>1. PICK k \in DOMAIN low : i < k /\ low[k].msg = n /\ low[k].kind = "start"
      BY <1>2, <1>7, <2>2 DEF Queued
    <3>2. k \in DOMAIN low' /\ low'[k] = low[k]
      BY <1>2, <1>3
    <3> QED BY <3>1, <3>2
  <2>3. CASE n = m /\ ~Underway(m)
    <3>1. L + 1 \in DOMAIN low' /\ i < L + 1
      BY <1>2, <1>3
    <3> QED BY <1>0, <1>3, <1>4, <2>3, <3>1
  <2> QED BY <1>7, <2>1, <2>2, <2>3
<1>8. \A i, j \in DOMAIN low' :
        i < j /\ low'[i].msg # low'[j].msg =>
          \E k \in DOMAIN low' : i < k /\ low'[k].msg = low'[j].msg /\ low'[k].kind = "start"
  <2> SUFFICES ASSUME NEW i \in DOMAIN low', NEW j \in DOMAIN low', i < j,
                      low'[i].msg # low'[j].msg
               PROVE  \E k \in DOMAIN low' : i < k /\ low'[k].msg = low'[j].msg
                                             /\ low'[k].kind = "start"
    OBVIOUS
  <2>1. i \in 1..L /\ low'[i] = low[i]
    BY <1>2, <1>3
  <2>2. low'[j].msg \in Messages
    <3>1. \A x \in 1..L : low[x].msg \in Messages
      BY <1>2, LowIs
    <3> QED BY <1>0, <1>2, <1>3, <3>1
  <2>3. low'[j].msg = m \/ (j \in 1..L /\ low'[j] = low[j])
    BY <1>0, <1>2, <1>3
  <2> QED BY <1>7, <2>1, <2>2, <2>3
<1>9. \A n \in Messages : \A i \in DOMAIN low' :
        Underway(n)' /\ low'[i].msg # n =>
          \E k \in DOMAIN low' : i < k /\ low'[k].msg = n /\ low'[k].kind = "start"
  <2> SUFFICES ASSUME NEW n \in Messages, NEW i \in DOMAIN low', Underway(n)', low'[i].msg # n
               PROVE  \E k \in DOMAIN low' : i < k /\ low'[k].msg = n /\ low'[k].kind = "start"
    OBVIOUS
  <2>1. n = m
    BY <1>0, <1>1 DEF Underway, Begun
  <2>2. i \in 1..L /\ low'[i] = low[i]
    BY <1>0, <1>2, <1>3, <2>1
  <2> QED BY <1>7, <2>1, <2>2
<1> QED BY <1>6, <1>8, <1>9 DEF Queued, Place

LEMMA ArrivingSendLong ==
  ASSUME Typed, Known, ArrivingOn, NEW m \in Messages, SendMsg(m), ~Short(m),
         \A o \in Messages \ {m} : ~Underway(o)
  PROVE  ArrivingOn'
<1> DEFINE e == Submitted(m)
           L == Len(low)
<1>0. /\ e \in AllPackets /\ e.msg = m /\ e.kind # "send" /\ Place(e) = sent[m] + 1
      /\ sent[m] \in Nat /\ sent'[m] = sent[m] + 1
      /\ \A n \in Messages \ {m} : sent'[n] = sent[n]
  BY SubmittedIs
<1>1. /\ low' = Append(low, e) /\ sent[m] < Len(Packets[m]) /\ m \notin cut
      /\ UNCHANGED <<high, air, cut, number, cache, frpkt, assembled, received>>
  BY <1>0 DEF SendMsg, Submitted, numbers, receiver
<1>q. Queued'
  BY QueuedSend DEF ArrivingOn
<1> HIDE DEF e
<1>2. low \in Seq(AllPackets) /\ DOMAIN low = 1..L /\ L \in Nat
  BY LowIs
<1>3. /\ DOMAIN low' = 1..(L + 1) /\ low'[L + 1] = e
      /\ \A i \in 1..L : low'[i] = low[i]
  BY <1>0, <1>1, <1>2, AppendKeeps
<1> HIDE DEF L
<1>4. Fresh' = Fresh /\ (\A n \in Messages : Of(n)' = Of(n)) /\ Doomed' = Doomed
  BY <1>1 DEF Fresh, Of, Doomed, CheckSeqNumber
<1>5. /\ Waits(m)' = Waits(m) \union {L + 1}
      /\ \A n \in Messages \ {m} : Waits(n)' = Waits(n)
  <2>1. \A n : Waits(n) = {i \in 1..L : low[i].msg = n}
    BY <1>2 DEF Waits
  <2>2. \A n : Waits(n)' = {i \in 1..(L + 1) : low'[i].msg = n}
    BY <1>3 DEF Waits
  <2>3. \A i \in 1..(L + 1) : i \in 1..L \/ i = L + 1
    BY <1>2
  <2>4. 1..L \subseteq 1..(L + 1) /\ L + 1 \in 1..(L + 1)
    BY <1>2
  <2>5. Waits(m)' = Waits(m) \union {L + 1}
    BY <1>0, <1>3, <2>1, <2>2, <2>3, <2>4
  <2>6. ASSUME NEW n \in Messages \ {m} PROVE Waits(n)' = Waits(n)
    BY <1>0, <1>3, <2>1, <2>2, <2>3, <2>4
  <2> QED BY <2>5, <2>6
<1>6. \A n \in Messages : \A i \in Waits(n) : low'[i] = low[i]
  BY <1>2, <1>3 DEF Waits
<1>7. \A n \in Messages \ {m} : Underway(n)' = Underway(n) /\ Unnumbered(n)' = Unnumbered(n)
  BY <1>0, <1>1, <1>5 DEF Unnumbered, Underway, Begun
<1>8. \A n \in Messages : Through(n)' => Through(n)
  <2>1. Range(low) \subseteq Range(low') /\ e \in Range(low')
    <3>1. \A i \in DOMAIN low : i \in DOMAIN low' /\ low'[i] = low[i]
      BY <1>2, <1>3
    <3>2. L + 1 \in DOMAIN low'
      BY <1>2, <1>3
    <3> QED BY <1>3, <3>1, <3>2 DEF Range
  <2>2. ~Through(m)'
    BY <1>0, <2>1 DEF Through
  <2>3. ASSUME NEW n \in Messages \ {m}, Through(n)' PROVE Through(n)
    BY <1>0, <1>1, <2>1, <2>3 DEF Through
  <2> QED BY <2>2, <2>3
<1>9. Delivered'
  BY <1>1, <1>8 DEF ArrivingOn, Delivered, Range
<1>10. ASSUME NEW n \in Pieces \ {m}, Moving(n) PROVE Moving(n)'
  <2>0. /\ n \in Messages \ {m}
    BY DEF Pieces
  <2>1. /\ Unnumbered(n)' = Unnumbered(n) /\ number' = number
        /\ Of(n)' = Of(n) /\ Waits(n)' = Waits(n) /\ sent'[n] = sent[n]
        /\ cache' = cache /\ frpkt' = frpkt /\ Fresh' = Fresh
        /\ \A i \in Waits(n) : low'[i] = low[i]
    BY <1>0, <1>1, <1>4, <1>5, <1>6, <1>7, <2>0
  <2>2. Hopeless(n) => Hopeless(n)'
    BY <2>1 DEF Hopeless, CheckSeqNumber
  <2>3. ASSUME NEW a \in 0..sent[n], Progress(n, a) PROVE Progress(n, a)'
    <3>1. Split(n, a)'
      BY <2>1, <2>3 DEF Progress, Split, Place
    <3>2. \A lo : Dense(n, lo) => Dense(n, lo)'
      BY <2>1 DEF Dense, Filled
    <3>3. Holds(n, a - 1)' = Holds(n, a - 1)
      BY <2>1 DEF Holds
    <3> QED BY <2>1, <2>3, <3>1, <3>2, <3>3 DEF Progress
  <2> QED BY <1>10, <2>1, <2>2, <2>3 DEF Moving
<1>11. Unnumbered(m)'
  BY <1>5 DEF Unnumbered
<1>12. \A p \in Of(m) : Place(p.pkt) \in Nat /\ Place(p.pkt) <= sent[m]
  <2>1. \A p \in Of(m) : p \in Fresh /\ p.pkt.msg = m
    BY DEF Of
  <2> QED BY <2>1, FreshIs DEF Known
<1>13. \A i \in Waits(m) : Place(low[i]) \in Nat /\ Place(low[i]) <= sent[m]
  BY LowIs DEF Known, Waits
<1>14. CASE sent[m] = 0
  <2>1. Of(m) = {} /\ Waits(m) = {}
    <3>1. \A p \in Of(m) : Place(p.pkt) \in Nat \ {0}
      BY FreshIs DEF Of
    <3>2. \A i \in Waits(m) : Place(low[i]) \in Nat \ {0}
      BY LowIs DEF Waits
    <3> QED BY <1>12, <1>13, <1>14, <3>1, <3>2
  <2>2. Of(m)' = {} /\ Waits(m)' = {L + 1} /\ Place(low'[L + 1]) = 1 /\ sent'[m] = 1
    BY <1>0, <1>3, <1>4, <1>5, <1>14, <2>1
  <2>3. Split(m, 0)'
    <3>1. \A k \in (0 + 1)..sent'[m] : k = 1
      BY <2>2
    <3>2. \A i \in Waits(m)' : Place(low'[i]) = 1
      BY <2>2
    <3>3. L + 1 \in Waits(m)'
      BY <2>2
    <3> QED BY <2>2, <3>1, <3>2, <3>3 DEF Split
  <2>4. Progress(m, 0)' /\ 0 \in 0..sent'[m]
    BY <2>2, <2>3 DEF Progress
  <2> QED BY <1>4, <1>9, <1>10, <1>q, <2>4, <1>1, <1>0 DEF ArrivingOn, Moving, Pieces, Begun
<1>15. CASE sent[m] # 0
  <2>0. Underway(m) /\ Unnumbered(m) /\ (~Doomed => Moving(m))
    BY <1>0, <1>1, <1>15 DEF Underway, Unnumbered, Begun, Pieces, ArrivingOn
  <2>1. Hopeless(m) => Hopeless(m)'
    BY <1>1, <1>11 DEF Hopeless, CheckSeqNumber
  <2>2. ASSUME NEW a \in 0..sent[m], Progress(m, a) PROVE Progress(m, a)' /\ a \in 0..sent'[m]
    <3>0. a \in Nat /\ a <= sent[m] /\ sent[m] \in Nat /\ sent'[m] = sent[m] + 1
      BY <1>0
    <3>a. Split(m, a)
      BY <2>2 DEF Progress
    <3>1. Split(m, a)'
      <4>1. \A p \in Of(m) : a < Place(p.pkt)
        BY <3>a DEF Split
      <4>2. \A i \in Waits(m)' : a < Place(low'[i])
        BY <1>0, <1>3, <1>5, <1>6, <3>0, <3>a DEF Split
      <4>3. \A k \in (a + 1)..sent'[m] :
              (\E p \in Of(m) : Place(p.pkt) = k) \/ \E i \in Waits(m)' : Place(low'[i]) = k
        <5> TAKE k \in (a + 1)..sent'[m]
        <5>1. k \in (a + 1)..sent[m] \/ k = sent[m] + 1
          BY <3>0
        <5>2. CASE k \in (a + 1)..sent[m]
          BY <1>5, <1>6, <3>a, <5>2 DEF Split
        <5>3. CASE k = sent[m] + 1
          BY <1>0, <1>3, <1>5, <5>3
        <5> QED BY <5>1, <5>2, <5>3
      <4>4. \A p \in Of(m) : \A i \in Waits(m)' : Place(p.pkt) < Place(low'[i])
        <5>1. \A p \in Of(m) : \A i \in Waits(m) : Place(p.pkt) < Place(low[i])
          BY <3>a DEF Split
        <5>2. \A p \in Of(m) : Place(p.pkt) < Place(low'[L + 1])
          BY <1>0, <1>3, <1>12
        <5> QED BY <1>5, <1>6, <5>1, <5>2
      <4>5. Unnumbered(m) => \A p \in Of(m) : p.number < number
        BY <3>a DEF Split
      <4>6. \A p, q \in Of(m) :
              /\ p.number < q.number => Place(p.pkt) < Place(q.pkt)
              /\ p.number = q.number \/ Place(p.pkt) = Place(q.pkt) => p = q
        BY <3>a DEF Split
      <4> QED BY <1>1, <1>4, <2>0, <4>1, <4>2, <4>3, <4>4, <4>5, <4>6 DEF Split, Place
    <3>2. \A lo : Dense(m, lo) => Dense(m, lo)'
      BY <1>1, <1>4, <2>0 DEF Dense, Filled
    <3>3. Holds(m, a - 1)' = Holds(m, a - 1)
      BY <1>1 DEF Holds
    <3>4. a \in 0..sent'[m]
      BY <3>0
    <3> QED BY <1>1, <1>4, <2>2, <3>1, <3>2, <3>3, <3>4 DEF Progress
  <2>3. ~Doomed => Moving(m)'
    BY <2>0, <2>1, <2>2 DEF Moving
  <2>4. Pieces' \subseteq Pieces \union {m}
    BY <1>0, <1>1 DEF Pieces, Begun, Short
  <2> QED BY <1>4, <1>9, <1>10, <1>q, <2>3, <2>4 DEF ArrivingOn
<1> QED BY <1>14, <1>15

\* The device takes the packet at the head of the queue.
LEMMA QueuedTail ==
  ASSUME Typed, Queued, low # <<>>, low' = Tail(low), UNCHANGED <<sent, cut>>
  PROVE  Queued'
<1> DEFINE L == Len(low)
<1>1. /\ low \in Seq(AllPackets) /\ DOMAIN low = 1..L /\ L \in Nat \ {0}
      /\ DOMAIN low' = 1..(L - 1) /\ \A i \in 1..(L - 1) : low'[i] = low[i + 1]
  BY LowIs, TailKeeps
<1> HIDE DEF L
<1>2. \A i \in 1..(L - 1) : i + 1 \in 1..L /\ i \in Nat
  BY <1>1
<1>3. \A k \in 1..L : k > 1 => k - 1 \in 1..(L - 1) /\ low'[k - 1] = low[k]
  BY <1>1
<1>4. ASSUME NEW i \in 1..(L - 1), NEW n,
             \E k \in DOMAIN low : i + 1 < k /\ low[k].msg = n /\ low[k].kind = "start"
      PROVE  \E k \in DOMAIN low' : i < k /\ low'[k].msg = n /\ low'[k].kind = "start"
  <2>1. PICK k \in 1..L : i + 1 < k /\ low[k].msg = n /\ low[k].kind = "start"
    BY <1>1, <1>4
  <2>2. k \in Nat /\ i \in Nat /\ k > 1 /\ i < k - 1
    BY <1>1, <1>2, <2>1
  <2>3. k - 1 \in 1..(L - 1) /\ low'[k - 1] = low[k]
    BY <1>3, <2>2
  <2> QED BY <1>1, <2>1, <2>2, <2>3
<1>5. \A m \in Messages : Underway(m)' = Underway(m)
  BY DEF Underway, Begun
<1>6. \A i, j \in DOMAIN low' :
        low'[i].msg = low'[j].msg /\ i < j => Place(low'[i]) < Place(low'[j])
  <2> TAKE i, j \in DOMAIN low'
  <2>1. i + 1 \in DOMAIN low /\ j + 1 \in DOMAIN low /\ (i < j => i + 1 < j + 1)
        /\ low'[i] = low[i + 1] /\ low'[j] = low[j + 1]
    BY <1>1, <1>2
  <2> QED BY <2>1 DEF Queued
<1>7. \A i, j \in DOMAIN low' :
        i < j /\ low'[i].msg # low'[j].msg =>
          \E k \in DOMAIN low' : i < k /\ low'[k].msg = low'[j].msg /\ low'[k].kind = "start"
  <2> SUFFICES ASSUME NEW i \in DOMAIN low', NEW j \in DOMAIN low', i < j,
                      low'[i].msg # low'[j].msg
               PROVE  \E k \in DOMAIN low' : i < k /\ low'[k].msg = low'[j].msg
                                             /\ low'[k].kind = "start"
    OBVIOUS
  <2>1. i + 1 \in DOMAIN low /\ j + 1 \in DOMAIN low /\ i + 1 < j + 1
        /\ low'[i] = low[i + 1] /\ low'[j] = low[j + 1] /\ i \in 1..(L - 1)
    BY <1>1, <1>2
  <2>2. \E k \in DOMAIN low : i + 1 < k /\ low[k].msg = low'[j].msg /\ low[k].kind = "start"
    BY <2>1 DEF Queued
  <2> QED BY <1>4, <2>1, <2>2
<1>8. \A m \in Messages : \A i \in DOMAIN low' :
        Underway(m)' /\ low'[i].msg # m =>
          \E k \in DOMAIN low' : i < k /\ low'[k].msg = m /\ low'[k].kind = "start"
  <2> SUFFICES ASSUME NEW m \in Messages, NEW i \in DOMAIN low', Underway(m)', low'[i].msg # m
               PROVE  \E k \in DOMAIN low' : i < k /\ low'[k].msg = m /\ low'[k].kind = "start"
    OBVIOUS
  <2>1. i + 1 \in DOMAIN low /\ low'[i] = low[i + 1] /\ i \in 1..(L - 1) /\ Underway(m)
    BY <1>1, <1>2, <1>5
  <2>2. \E k \in DOMAIN low : i + 1 < k /\ low[k].msg = m /\ low[k].kind = "start"
    BY <2>1 DEF Queued
  <2> QED BY <1>4, <2>1, <2>2
<1> QED BY <1>6, <1>7, <1>8 DEF Queued, Place

\* The new packet takes the next number.
LEMMA FilledGrows ==
  ASSUME Typed, NEW t, Fresh' = Fresh \union {t}, t.number = number, number' = number + 1,
         NEW n
  PROVE  /\ \A lo, hi : Filled(n, lo, hi) => Filled(n, lo, hi)'
         /\ \A lo \in Nat : Filled(n, lo, number) /\ (t.pkt.msg = n \/ t.pkt.kind = "send") =>
              Filled(n, lo, number)'
<1>1. \A lo, hi : Filled(n, lo, hi) => Filled(n, lo, hi)'
  BY DEF Filled
<1>2. ASSUME NEW lo \in Nat, Filled(n, lo, number), t.pkt.msg = n \/ t.pkt.kind = "send"
      PROVE  Filled(n, lo, number)'
  <2>0. number \in Nat
    BY TypedIs DEF NumberOK
  <2>1. \A x \in Nat : lo < x /\ x < number + 1 =>
          \E q \in Fresh' : q.number = x /\ (q.pkt.msg = n \/ q.pkt.kind = "send")
    <3> SUFFICES ASSUME NEW x \in Nat, lo < x, x < number + 1
                 PROVE  \E q \in Fresh' : q.number = x /\ (q.pkt.msg = n \/ q.pkt.kind = "send")
      OBVIOUS
    <3>1. CASE x = number
      BY <1>2, <3>1
    <3>2. CASE x < number
      BY <1>2, <3>2 DEF Filled
    <3> QED BY <2>0, <3>1, <3>2
  <2> QED BY <2>1 DEF Filled
<1> QED BY <1>1, <1>2

\* A message of one packet passes the fragments by.
LEMMA ProgressPassed ==
  ASSUME Typed, NEW t, Fresh' = Fresh \union {t}, t.number = number, number' = number + 1,
         NEW n \in Messages, NEW a, Progress(n, a), t.pkt.msg # n,
         t.pkt.kind = "send" \/ ~Unnumbered(n),
         UNCHANGED <<sent, low, cut, cache, frpkt>>
  PROVE  Progress(n, a)'
<1>0. number \in Nat /\ cache \in Nat \union {None}
  BY TypedIs DEF NumberOK, ReceiverOK
<1>1. Of(n)' = Of(n) /\ Waits(n)' = Waits(n)
  BY DEF Of, Waits
<1>2. Unnumbered(n)' = Unnumbered(n)
  BY <1>1 DEF Unnumbered, Underway, Begun
<1>3. \A p \in Of(n) : p.number \in Nat
  BY FreshIs DEF Of
<1>4. Split(n, a)'
  <2>1. Split(n, a)
    BY DEF Progress
  <2>2. Unnumbered(n) => \A p \in Of(n) : p.number < number'
    BY <1>0, <1>3, <2>1 DEF Split
  <2> QED BY <1>1, <1>2, <2>1, <2>2 DEF Split
<1>5. ASSUME NEW lo \in Nat, Dense(n, lo) PROVE Dense(n, lo)'
  <2>1. \A p \in Of(n) : Filled(n, lo, p.number)'
    BY <1>5, FilledGrows DEF Dense
  <2>2. Unnumbered(n) => Filled(n, lo, number)'
    BY <1>5, FilledGrows DEF Dense
  <2> QED BY <1>1, <1>2, <2>1, <2>2 DEF Dense, Filled
<1>6. a = 0 => \A s \in Of(n)' : s.pkt.kind = "start" => Dense(n, s.number)'
  BY <1>1, <1>3, <1>5 DEF Progress
<1>7. 0 < a /\ a < Len(Packets[n]) => cache' # None /\ Dense(n, cache)' /\ Holds(n, a - 1)'
  <2> SUFFICES ASSUME 0 < a, a < Len(Packets[n])
               PROVE  cache' # None /\ Dense(n, cache)' /\ Holds(n, a - 1)'
    OBVIOUS
  <2>1. cache # None /\ Dense(n, cache) /\ Holds(n, a - 1)
    BY DEF Progress
  <2>2. PICK c \in Nat : c = cache /\ c = cache'
    BY <1>0, <2>1
  <2>3. Dense(n, c)'
    BY <1>5, <2>1, <2>2
  <2>4. Dense(n, cache)'
    BY <2>2, <2>3 DEF Dense, Filled
  <2> QED BY <2>1, <2>4 DEF Holds
<1> QED BY <1>4, <1>6, <1>7 DEF Progress

LEMMA WaitsTail ==
  ASSUME Typed, low # <<>>, low' = Tail(low), NEW n
  PROVE  /\ \A i \in Waits(n)' : i + 1 \in Waits(n) /\ i + 1 # 1 /\ low'[i] = low[i + 1]
         /\ \A i \in Waits(n) : i # 1 => i - 1 \in Waits(n)' /\ low'[i - 1] = low[i]
         /\ 1 \in Waits(n) <=> Head(low).msg = n
         /\ \A i \in Waits(n) : i \in Nat \ {0}
<1> DEFINE L == Len(low)
<1>1. /\ low \in Seq(AllPackets) /\ DOMAIN low = 1..L /\ L \in Nat \ {0} /\ Head(low) = low[1]
      /\ DOMAIN low' = 1..(L - 1) /\ \A i \in 1..(L - 1) : low'[i] = low[i + 1]
  BY LowIs, TailKeeps
<1> HIDE DEF L
<1>2. Waits(n) = {i \in 1..L : low[i].msg = n} /\ Waits(n)' = {i \in 1..(L - 1) : low'[i].msg = n}
  BY <1>1 DEF Waits
<1>3. \A i \in 1..(L - 1) : i + 1 \in 1..L /\ i + 1 # 1
  BY <1>1
<1>4. \A i \in 1..L : i # 1 => i - 1 \in 1..(L - 1) /\ low'[i - 1] = low[i]
  BY <1>1
<1>5. 1 \in 1..L
  BY <1>1
<1> QED BY <1>1, <1>2, <1>3, <1>4, <1>5

\* The packets of other messages behind it.
LEMMA ProgressBehind ==
  ASSUME Typed, Queued, NEW t, Fresh' = Fresh \union {t}, t.number = number,
         number' = number + 1, low # <<>>, low' = Tail(low), t.pkt = Head(low),
         NEW n \in Messages, NEW a \in Nat, Progress(n, a), t.pkt.msg # n,
         UNCHANGED <<sent, high, cut, cache, frpkt>>
  PROVE  Progress(n, a)'
<1>0. number \in Nat /\ cache \in Nat \union {None}
  BY TypedIs DEF NumberOK, ReceiverOK
<1>1. Of(n)' = Of(n)
  BY DEF Of
<1>2. /\ \A i \in Waits(n)' : i + 1 \in Waits(n) /\ low'[i] = low[i + 1]
      /\ \A i \in Waits(n) : i - 1 \in Waits(n)' /\ low'[i - 1] = low[i]
      /\ \A i \in Waits(n) : i \in Nat \ {0} /\ i # 1
  BY WaitsTail
<1>3. Unnumbered(n)' = Unnumbered(n)
  BY <1>2 DEF Unnumbered, Underway, Begun
<1>4. Split(n, a)
  BY DEF Progress
<1>5. \A p \in Of(n) : p.number \in Nat /\ Place(p.pkt) \in Nat \ {0}
  BY FreshIs DEF Of
<1>6. Split(n, a)'
  <2>1. \A i \in Waits(n)' : a < Place(low'[i])
    BY <1>2, <1>4 DEF Split
  <2>2. \A k \in (a + 1)..sent[n] :
          (\E p \in Of(n) : Place(p.pkt) = k) \/ \E i \in Waits(n)' : Place(low'[i]) = k
    <3> TAKE k \in (a + 1)..sent[n]
    <3>1. (\E p \in Of(n) : Place(p.pkt) = k) \/ \E i \in Waits(n) : Place(low[i]) = k
      BY <1>4 DEF Split
    <3> QED BY <1>2, <3>1
  <2>3. \A p \in Of(n) : \A i \in Waits(n)' : Place(p.pkt) < Place(low'[i])
    BY <1>2, <1>4 DEF Split
  <2>4. Unnumbered(n) => \A p \in Of(n) : p.number < number'
    BY <1>0, <1>4, <1>5 DEF Split
  <2> QED BY <1>1, <1>3, <1>4, <2>1, <2>2, <2>3, <2>4 DEF Split
<1>7. CASE Unnumbered(n)
  <2>1. PICK k \in DOMAIN low : low[k].msg = n /\ low[k].kind = "start"
    <3>1. 1 \in DOMAIN low /\ low[1].msg # n
      BY TailKeeps, LowIs
    <3>2. CASE Underway(n)
      BY <3>1, <3>2 DEF Queued
    <3>3. CASE Waits(n) # {}
      <4>1. PICK j \in Waits(n) : TRUE
        BY <3>3
      <4>2. j \in DOMAIN low /\ 1 < j /\ low[j].msg = n
        BY <1>2, <4>1 DEF Waits
      <4> QED BY <3>1, <4>2 DEF Queued
    <3> QED BY <1>7, <3>2, <3>3 DEF Unnumbered
  <2>2. k \in Waits(n) /\ Place(low[k]) = 1
    BY <2>1, LowIs DEF Waits
  <2>3. a = 0 /\ Of(n) = {}
    <3>1. a < 1
      BY <1>4, <2>2 DEF Split
    <3>2. \A p \in Of(n) : Place(p.pkt) < 1
      BY <1>4, <2>2 DEF Split
    <3> QED BY <1>5, <3>1, <3>2
  <2> QED BY <1>1, <1>6, <2>3 DEF Progress
<1>8. CASE ~Unnumbered(n)
  <2>1. \A lo : Dense(n, lo) => Dense(n, lo)'
    BY <1>1, <1>3, <1>8, FilledGrows DEF Dense
  <2>2. a = 0 => \A s \in Of(n)' : s.pkt.kind = "start" => Dense(n, s.number)'
    BY <1>1, <2>1 DEF Progress
  <2>3. 0 < a /\ a < Len(Packets[n]) => cache' # None /\ Dense(n, cache)' /\ Holds(n, a - 1)'
    <3> SUFFICES ASSUME 0 < a, a < Len(Packets[n])
                 PROVE  cache' # None /\ Dense(n, cache)' /\ Holds(n, a - 1)'
      OBVIOUS
    <3>1. cache # None /\ Dense(n, cache) /\ Holds(n, a - 1)
      BY DEF Progress
    <3>2. PICK c \in Nat : c = cache /\ c = cache'
      BY <1>0, <3>1
    <3>3. Dense(n, c)'
      BY <2>1, <3>1, <3>2
    <3>4. Dense(n, cache)'
      BY <3>2, <3>3 DEF Dense, Filled
    <3> QED BY <3>1, <3>4 DEF Holds
  <2> QED BY <1>6, <2>2, <2>3 DEF Progress
<1> QED BY <1>7, <1>8

\* Its own message.
LEMMA ProgressTaken ==
  ASSUME Typed, Known, Queued, NEW t, Fresh' = Fresh \union {t}, t.number = number,
         number' = number + 1, low # <<>>, low' = Tail(low), t.pkt = Head(low),
         NEW n \in Messages, NEW a \in Nat, Progress(n, a), t.pkt.msg = n,
         UNCHANGED <<sent, high, cut, cache, frpkt>>
  PROVE  Progress(n, a)'
<1>0. number \in Nat /\ cache \in Nat \union {None}
  BY TypedIs DEF NumberOK, ReceiverOK
<1>1. Of(n)' = Of(n) \union {t}
  BY DEF Of
<1>2. /\ \A i \in Waits(n)' : i + 1 \in Waits(n) /\ i + 1 # 1 /\ low'[i] = low[i + 1]
      /\ \A i \in Waits(n) : i # 1 => i - 1 \in Waits(n)' /\ low'[i - 1] = low[i]
      /\ \A i \in Waits(n) : i \in Nat \ {0}
      /\ 1 \in Waits(n)
  BY WaitsTail
<1>a. Head(low) = low[1]
  BY TailKeeps, LowIs
<1>3. Unnumbered(n) /\ (Unnumbered(n)' => Unnumbered(n))
  BY <1>2 DEF Unnumbered
<1>4. Split(n, a)
  BY DEF Progress
<1>5. \A p \in Of(n) : p.number \in Nat /\ p.number < number /\ Place(p.pkt) \in Nat \ {0}
  BY <1>3, <1>4, FreshIs DEF Of, Split
<1>6. /\ Place(t.pkt) = Place(low[1]) /\ a < Place(t.pkt) /\ Place(t.pkt) \in Nat
      /\ \A p \in Of(n) : Place(p.pkt) < Place(t.pkt)
      /\ \A i \in Waits(n)' : Place(t.pkt) < Place(low'[i])
  <2>1. \A i \in Waits(n) : i # 1 => Place(low[1]) < Place(low[i])
    BY <1>2 DEF Queued, Waits
  <2>2. /\ a < Place(low[1]) /\ \A p \in Of(n) : Place(p.pkt) < Place(low[1])
    BY <1>2, <1>4 DEF Split
  <2>3. Place(low[1]) \in Nat
    BY <1>2, LowIs DEF Waits
  <2> QED BY <1>2, <1>a, <2>1, <2>2, <2>3
<1>7. Split(n, a)'
  <2>1. \A p \in Of(n)' : a < Place(p.pkt)
    BY <1>1, <1>4, <1>6 DEF Split
  <2>2. \A i \in Waits(n)' : a < Place(low'[i])
    BY <1>2, <1>4 DEF Split
  <2>3. \A k \in (a + 1)..sent[n] :
          (\E p \in Of(n)' : Place(p.pkt) = k) \/ \E i \in Waits(n)' : Place(low'[i]) = k
    <3> TAKE k \in (a + 1)..sent[n]
    <3>1. (\E p \in Of(n) : Place(p.pkt) = k) \/ \E i \in Waits(n) : Place(low[i]) = k
      BY <1>4 DEF Split
    <3> QED BY <1>1, <1>2, <1>6, <3>1
  <2>4. \A p \in Of(n)' : \A i \in Waits(n)' : Place(p.pkt) < Place(low'[i])
    BY <1>1, <1>2, <1>4, <1>6 DEF Split
  <2>5. \A p, q \in Of(n)' : /\ p.number < q.number => Place(p.pkt) < Place(q.pkt)
                             /\ p.number = q.number \/ Place(p.pkt) = Place(q.pkt) => p = q
    <3>1. \A p, q \in Of(n) : /\ p.number < q.number => Place(p.pkt) < Place(q.pkt)
                              /\ p.number = q.number \/ Place(p.pkt) = Place(q.pkt) => p = q
      BY <1>4 DEF Split
    <3>2. \A p \in Of(n) : /\ ~(number < p.number) /\ p.number # number
                           /\ Place(p.pkt) # Place(t.pkt) /\ Place(p.pkt) < Place(t.pkt)
      BY <1>0, <1>5, <1>6
    <3>3. ~(number < number)
      BY <1>0
    <3> QED BY <1>1, <3>1, <3>2, <3>3
  <2>6. \A p \in Of(n)' : p.number < number'
    BY <1>0, <1>1, <1>5
  <2> QED BY <2>1, <2>2, <2>3, <2>4, <2>5, <2>6 DEF Split
<1>8. ASSUME NEW lo \in Nat, Dense(n, lo) PROVE Dense(n, lo)'
  <2>1. /\ \A p \in Of(n) : Filled(n, lo, p.number)'
        /\ Filled(n, lo, number)'
    BY <1>3, <1>8, FilledGrows DEF Dense
  <2>2. \A p \in Of(n)' : Filled(n, lo, p.number)'
    <3>1. Filled(n, lo, t.number)'
      <4>1. \A x \in Nat : x < number => x < number + 1
        BY <1>0
      <4> QED BY <2>1, <4>1 DEF Filled
    <3> QED BY <1>1, <2>1, <3>1
  <2> QED BY <2>1, <2>2 DEF Dense
<1>9. a = 0 => \A s \in Of(n)' : s.pkt.kind = "start" => Dense(n, s.number)'
  <2>1. ASSUME a = 0, NEW s \in Of(n), s.pkt.kind = "start" PROVE Dense(n, s.number)'
    BY <1>5, <1>8, <2>1 DEF Progress
  <2>2. Dense(n, t.number)'
    <3>1. \A x \in Nat : ~(number < x /\ x < number + 1) /\
                         \A p \in Of(n)' : ~(number < x /\ x < p.number)
      BY <1>0, <1>1, <1>5
    <3> QED BY <3>1 DEF Dense, Filled
  <2> QED BY <1>1, <2>1, <2>2
<1>10. 0 < a /\ a < Len(Packets[n]) => cache' # None /\ Dense(n, cache)' /\ Holds(n, a - 1)'
  <2> SUFFICES ASSUME 0 < a, a < Len(Packets[n])
               PROVE  cache' # None /\ Dense(n, cache)' /\ Holds(n, a - 1)'
    OBVIOUS
  <2>1. cache # None /\ Dense(n, cache) /\ Holds(n, a - 1)
    BY DEF Progress
  <2>2. PICK c \in Nat : c = cache /\ c = cache'
    BY <1>0, <2>1
  <2>3. Dense(n, c)'
    BY <1>8, <2>1, <2>2
  <2>4. Dense(n, cache)'
    BY <2>2, <2>3 DEF Dense, Filled
  <2> QED BY <2>1, <2>4 DEF Holds
<1> QED BY <1>7, <1>9, <1>10 DEF Progress

LEMMA ArrivingTransmit ==
  ASSUME Typed, Known, ArrivingOn, Transmit
  PROVE  ArrivingOn'
<1> DEFINE t == Sent
           h == Foremost
<1>0. /\ air' = air \union {t} /\ t.pkt = h /\ ~t.again /\ t.number = number
      /\ number' = number + 1 /\ h \in AllPackets
      /\ \/ high # <<>> /\ h = Head(high) /\ high' = Tail(high) /\ low' = low
         \/ high = <<>> /\ low # <<>> /\ h = Head(low) /\ low' = Tail(low) /\ high' = high
      /\ UNCHANGED <<sent, cut, cache, frpkt, assembled, received>>
  BY TransmitIs DEF Sent, receiver
<1> HIDE DEF t, h
<1>1. Fresh' = Fresh \union {t}
  BY <1>0 DEF Fresh
<1>2. high \in Seq(AllPackets) /\ low \in Seq(AllPackets)
  BY TypedIs DEF SenderOK
<1>3. /\ \A i \in DOMAIN high : high[i].kind = "send"
      /\ \A k \in AllPackets : k.kind = "send" => Short(k.msg)
  BY TypedIs, PacketIs DEF SenderOK
<1>4. Range(high) \subseteq Range(high') \union {h} /\ Range(low) \subseteq Range(low') \union {h}
  <2>1. ASSUME NEW q \in Seq(AllPackets), q # <<>>
        PROVE  Range(q) \subseteq Range(Tail(q)) \union {Head(q)}
    <3>1. /\ Head(q) = q[1] /\ Len(q) \in Nat \ {0} /\ DOMAIN q = 1..Len(q)
          /\ DOMAIN Tail(q) = 1..(Len(q) - 1)
          /\ \A i \in 1..(Len(q) - 1) : Tail(q)[i] = q[i + 1]
      BY <2>1, TailKeeps
    <3>2. \A i \in 1..Len(q) : i = 1 \/ (i - 1 \in 1..(Len(q) - 1) /\ (i - 1) + 1 = i)
      BY <3>1
    <3>3. \A i \in DOMAIN q : q[i] = Head(q) \/ \E j \in DOMAIN Tail(q) : Tail(q)[j] = q[i]
      BY <3>1, <3>2
    <3> QED BY <3>3 DEF Range
  <2> QED BY <1>0, <1>2, <2>1
<1>5. \A n \in Messages : Through(n)' => Through(n)
  <2> SUFFICES ASSUME NEW n \in Messages, Through(n)' PROVE Through(n)
    OBVIOUS
  <2>1. h.msg # n
    <3>1. t \in air'
      BY <1>0
    <3> QED BY <1>0, <3>1 DEF Through
  <2> QED BY <1>0, <1>4, <2>1 DEF Through
<1>6. Delivered'
  BY <1>0, <1>5 DEF ArrivingOn, Delivered, Range
<1>7. Queued'
  <2>1. CASE low' = low
    BY <1>0, <2>1 DEF ArrivingOn, Queued, Underway, Begun, Place
  <2>2. CASE low # <<>> /\ low' = Tail(low)
    BY <1>0, <2>2, QueuedTail DEF ArrivingOn
  <2> QED BY <1>0, <2>1, <2>2
<1>8. Doomed \/ ~CheckSeqNumber(number) => Doomed'
  BY <1>0, <1>1 DEF Doomed, CheckSeqNumber
<1>9. ASSUME ~Doomed, CheckSeqNumber(number), NEW n \in Pieces PROVE Moving(n)'
  <2>1. n \in Messages /\ ~Short(n)
    BY DEF Pieces
  <2>2. PICK a \in 0..sent[n] : Progress(n, a)
    BY <1>9 DEF ArrivingOn, Moving, Hopeless
  <2>3. a \in Nat
    BY <2>1, SentIs
  <2>4. Progress(n, a)'
    <3>1. CASE high # <<>> /\ h = Head(high) /\ low' = low
      <4>1. h.kind = "send" /\ h.msg # n
        <5>1. Head(high) = high[1] /\ 1 \in DOMAIN high
          BY <1>2, <3>1, TailKeeps
        <5> QED BY <1>0, <1>3, <2>1, <3>1, <5>1
      <4> QED BY <1>0, <1>1, <2>1, <2>2, <3>1, <4>1, ProgressPassed
    <3>2. CASE low # <<>> /\ h = Head(low) /\ low' = Tail(low) /\ high' = high
      <4>1. Queued
        BY DEF ArrivingOn
      <4>2. CASE h.msg = n
        BY <1>0, <1>1, <2>1, <2>2, <2>3, <3>2, <4>1, <4>2, ProgressTaken
      <4>3. CASE h.msg # n
        BY <1>0, <1>1, <2>1, <2>2, <2>3, <3>2, <4>1, <4>3, ProgressBehind
      <4> QED BY <4>2, <4>3
    <3> QED BY <1>0, <3>1, <3>2
  <2> QED BY <1>0, <2>2, <2>4 DEF Moving
<1>10. Pieces' = Pieces
  BY <1>0 DEF Pieces, Begun, Short
<1> QED BY <1>6, <1>7, <1>8, <1>9, <1>10 DEF ArrivingOn

\* No more fragments than bytes: add_data refuses none for its number.
LEMMA FragmentsFit ==
  ASSUME NEW n \in Nat \ {0}
  PROVE  Fragments(n) <= n
<1> DEFINE k == n + FragSize - 1
           q == k \div FragSize
<1>0. FragSize \in Nat \ {0} /\ k \in Nat
  BY TransportAssumption
<1>1. q \in Nat /\ k % FragSize \in Nat /\ k = FragSize * q + (k % FragSize)
  <2> HIDE DEF k
  <2>1. k % FragSize \in 0..(FragSize - 1) /\ k \div FragSize \in Nat
        /\ k = FragSize * (k \div FragSize) + (k % FragSize)
    BY <1>0, Division
  <2>2. k % FragSize \in Nat
    BY <1>0, <2>1
  <2> QED BY <2>1, <2>2
<1>2. FragSize * q <= n + FragSize - 1
  BY <1>0, <1>1
<1> HIDE DEF k, q
<1>3. ASSUME q > n PROVE FALSE
  <2>1. FragSize * q >= FragSize * (n + 1)
    <3>1. \A f, x, y \in Nat : x >= y => f * x >= f * y
      OBVIOUS
    <3> QED BY <1>0, <1>1, <1>3, <3>1
  <2>2. FragSize * (n + 1) >= n + FragSize
    <3>1. \A f \in Nat \ {0} : \A x \in Nat : f * (x + 1) >= x + f
      <4> TAKE f \in Nat \ {0}
      <4> TAKE x \in Nat
      <4>1. f * (x + 1) = f * x + f
        OBVIOUS
      <4>2. f * x >= x
        OBVIOUS
      <4> QED BY <4>1, <4>2
    <3> QED BY <1>0, <3>1
  <2> QED BY <1>0, <1>1, <1>2, <2>1, <2>2
<1> QED BY <1>1, <1>3 DEF Fragments, q, k

\* What data_handler does with the next packet of the message it has begun.
LEMMA HandlerGoesOn ==
  ASSUME Typed, NEW k \in AllPackets, DataHandler(k), ~Short(k.msg)
  PROVE  /\ k.kind = "start" => Holds(k.msg, 0)'
         /\ k.kind = "data" /\ Holds(k.msg, k.seq) => Holds(k.msg, k.seq + 1)'
         /\ k.kind = "end" /\ Holds(k.msg, Slots(k.msg)) => Text[k.msg] \in Range(assembled')
<1> DEFINE n == k.msg
           N == Slots(n)
<1>0. n \in Messages /\ N \in Nat \ {0} /\ Size[n] \in Nat \ {0} /\ k.len = Size[n]
      /\ N = Fragments(Size[n]) /\ N = Slots(n)
  BY PacketIs, PacketsOf DEF Slots
<1> HIDE DEF n, N
<1>1. CASE k.kind = "start"
  <2>1. frpkt' = NewFragmentedPkt(Size[n])
    BY <1>1, HandlerIs DEF n
  <2>2. NewFragmentedPkt(Size[n]) = [len |-> Size[n], packets |-> [i \in 1..N |-> None]]
    BY <1>0 DEF NewFragmentedPkt
  <2>3. frpkt' # None
    <3>1. [i \in 1..N |-> None] \in Seq((Messages \X Nat) \union {None})
      BY <1>0
    <3> QED BY <1>0, <2>1, <2>2, <3>1, TransportAssumption
  <2>4. \A i \in 1..N : frpkt'.packets[i] = None
    BY <2>1, <2>2
  <2>5. \A i \in 1..N : ~(i <= 0)
    OBVIOUS
  <2> QED BY <1>0, <1>1, <2>1, <2>2, <2>3, <2>4, <2>5 DEF Holds, n
<1>2. CASE k.kind = "data" /\ Holds(n, k.seq)
  <2>1. k.seq \in 0..(N - 1)
    BY <1>0, <1>2, PacketIs DEF n
  <2>2. k.seq < Size[n]
    <3>1. N <= Size[n]
      BY <1>0, FragmentsFit
    <3> QED BY <1>0, <2>1, <3>1
  <2>3. /\ frpkt # None /\ frpkt.len = Size[n] /\ Slotted(frpkt)
        /\ \A i \in 1..N : /\ frpkt.packets[i] \in {None, <<n, i - 1>>}
                           /\ i <= k.seq => frpkt.packets[i] = <<n, i - 1>>
    BY <1>0, <1>2, TypedIs DEF Holds, ReceiverOK
  <2>4. DOMAIN frpkt.packets = 1..N
    BY <1>0, <2>3 DEF Slotted
  <2>5. k.seq + 1 \in 1..N /\ (k.seq + 1) - 1 = k.seq
    BY <1>0, <2>1
  <2>6. CASE frpkt.packets[k.seq + 1] = None
    <3>1. frpkt' = Added(frpkt, k.seq + 1, <<n, k.seq>>)
      BY <1>2, <2>2, <2>3, <2>4, <2>5, <2>6
         DEF DataHandler, StartFragments, AddData, EndFragments, ReceiveShort, Added, n
    <3>2. <<n, k.seq>> \in Content
      BY <1>0, <2>1 DEF Content
    <3>3. /\ frpkt'.len = Size[n] /\ frpkt'.packets[k.seq + 1] = <<n, k.seq>>
          /\ \A i \in 1..N \ {k.seq + 1} : frpkt'.packets[i] = frpkt.packets[i]
          /\ Slotted(frpkt')
      <4> DEFINE i == k.seq + 1
                 d == <<n, k.seq>>
      <4>1. i \in DOMAIN frpkt.packets /\ d \in Content
        BY <2>4, <2>5, <3>2
      <4>2. frpkt' = Added(frpkt, i, d)
        BY <3>1
      <4> HIDE DEF i, d
      <4>3. /\ Slotted(Added(frpkt, i, d)) /\ Added(frpkt, i, d).len = frpkt.len
            /\ Added(frpkt, i, d).packets[i] = d
            /\ \A j \in DOMAIN frpkt.packets \ {i} : Added(frpkt, i, d).packets[j] = frpkt.packets[j]
        BY <2>3, <4>1, SlottedAdd
      <4>4. /\ Slotted(frpkt') /\ frpkt'.len = Size[n] /\ frpkt'.packets[i] = d
            /\ \A j \in 1..N \ {i} : frpkt'.packets[j] = frpkt.packets[j]
        BY <2>3, <2>4, <4>2, <4>3
      <4> QED BY <4>4 DEF i, d
    <3>4. frpkt' # None
      <4>1. Added(frpkt, k.seq + 1, <<n, k.seq>>)
              \in [len : Nat \ {0}, packets : Seq(Content \union {None})]
        BY <2>3, <2>4, <2>5, <3>2, SlottedAdd
      <4> QED BY <3>1, <4>1, TransportAssumption DEF Content
    <3>5. \A i \in 1..N : /\ frpkt'.packets[i] \in {None, <<n, i - 1>>}
                          /\ i <= k.seq + 1 => frpkt'.packets[i] = <<n, i - 1>>
      <4> TAKE i \in 1..N
      <4>1. CASE i = k.seq + 1
        BY <2>5, <3>3, <4>1
      <4>2. CASE i # k.seq + 1
        <5>1. i <= k.seq + 1 => i <= k.seq
          BY <1>0, <2>1, <4>2
        <5> QED BY <2>3, <3>3, <4>2, <5>1
      <4> QED BY <4>1, <4>2
    <3> QED BY <1>0, <1>2, <3>3, <3>4, <3>5 DEF Holds, n
  <2>7. CASE frpkt.packets[k.seq + 1] # None
    <3>1. frpkt' = frpkt
      BY <1>2, <2>7 DEF DataHandler, StartFragments, AddData, EndFragments, ReceiveShort
    <3>2. \A i \in 1..N : i <= k.seq + 1 => frpkt.packets[i] = <<n, i - 1>>
      <4> TAKE i \in 1..N
      <4>1. CASE i = k.seq + 1
        BY <2>3, <2>5, <2>7, <4>1
      <4>2. CASE i # k.seq + 1
        <5>1. i <= k.seq + 1 => i <= k.seq
          BY <1>0, <2>1, <4>2
        <5> QED BY <2>3, <4>2, <5>1
      <4> QED BY <4>1, <4>2
    <3> QED BY <1>0, <1>2, <2>3, <3>1, <3>2 DEF Holds, n
  <2> QED BY <1>2, <2>6, <2>7
<1>3. CASE k.kind = "end" /\ Holds(n, N)
  <2>1. /\ frpkt # None /\ frpkt.len = Size[n] /\ Slotted(frpkt)
        /\ \A i \in 1..N : frpkt.packets[i] = <<n, i - 1>>
    BY <1>0, <1>3, TypedIs DEF Holds, ReceiverOK
  <2>2. frpkt.packets \in [1..N -> Content \union {None}]
    BY <1>0, <2>1 DEF Slotted
  <2>3. Text[n] = [i \in 1..N |-> <<n, i - 1>>]
    BY <1>0 DEF Text
  <2>4. frpkt.packets = Text[n]
    BY <2>1, <2>2, <2>3
  <2>5. IsComplete
    <3>1. \A i \in 1..N : frpkt.packets[i] # None
      <4> TAKE i \in 1..N
      <4>1. <<n, i - 1>> \in Messages \X Nat
        BY <1>0
      <4> QED BY <2>1, <4>1, TransportAssumption
    <3> QED BY <2>2, <3>1 DEF IsComplete, Range
  <2>6. assembled' = Append(assembled, Text[n])
    BY <1>3, <2>1, <2>4, <2>5
       DEF DataHandler, StartFragments, AddData, EndFragments, ReceiveShort
  <2>7. assembled \in Seq(Seq(Content)) /\ Text[n] \in Seq(Content)
    BY <1>0, TypedIs, TextOf DEF ReceiverOK
  <2>8. Len(assembled) + 1 \in DOMAIN assembled' /\ assembled'[Len(assembled) + 1] = Text[n]
    BY <2>6, <2>7, AppendProperties
  <2> QED BY <1>3, <2>8 DEF Range, n
<1> QED BY <1>1, <1>2, <1>3 DEF n, N

\* A packet that is taken while every packet arrives is the first of those under way.
LEMMA AcceptedIs ==
  ASSUME Typed, Known, NEW p \in air, Lands(p), Accepts(p), calm'
  PROVE  /\ calm /\ p \in Fresh /\ p \in Of(p.pkt.msg) /\ Fresh' = Fresh \ {p} /\ p.number \in Nat
         /\ \A q \in Fresh : q.number >= p.number /\ q.number \in Nat
         /\ ~Doomed /\ cache' = p.number /\ (cache # None => cache \in Nat /\ p.number > cache)
         /\ \A n \in Nat : CheckSeqNumber(n)' <=> n > p.number
<1>1. /\ CheckSeqNumber(p.number) /\ cache' = p.number
      /\ calm' = (calm /\ \A q \in {r \in air : r.number < p.number} : q.again)
  BY DEF Accepts, Missing
<1>2. /\ \A q \in air : q.number \in Nat
      /\ cache \in Nat \union {None} /\ None \notin Nat /\ calm \in BOOLEAN
  BY TypedIs, TransportAssumption DEF AirOK, InAir, ReceiverOK, HistoryOK
<1>3. ~p.again
  BY <1>1 DEF Known
<1>4. p \in Fresh /\ p \in Of(p.pkt.msg)
  BY <1>3 DEF Fresh, Of
<1>5. Fresh' = Fresh \ {p}
  <2>1. /\ \A q \in air' : q \in air \ {p} \/ q = Back(p)
        /\ \A q \in air : q # p => q \in air'
        /\ Back(p).again
    BY LandsIs
  <2>2. p \notin Fresh'
    BY <1>3, <2>1 DEF Fresh
  <2> QED BY <2>1, <2>2 DEF Fresh
<1>6. \A q \in Fresh : q.number >= p.number /\ q.number \in Nat
  <2>1. \A q \in air : q.number < p.number => q.again
    BY <1>1
  <2> QED BY <1>2, <2>1 DEF Fresh
<1>7. cache # None => cache \in Nat /\ p.number > cache
  BY <1>1, <1>2 DEF CheckSeqNumber
<1>8. ~Doomed
  <2>1. \A q \in Fresh : cache = None \/ q.number > cache
    BY <1>2, <1>6, <1>7
  <2> QED BY <2>1 DEF Doomed, CheckSeqNumber
<1>9. \A n \in Nat : CheckSeqNumber(n)' <=> n > p.number
  BY <1>1, <1>2 DEF CheckSeqNumber
<1> QED BY <1>1, <1>2, <1>4, <1>5, <1>6, <1>7, <1>8, <1>9

\* What is filled stays so above the packet taken.
LEMMA DenseTaken ==
  ASSUME NEW p, Fresh' = Fresh \ {p}, p.number \in Nat, NEW n \in Messages,
         NEW lo \in Nat, Dense(n, lo), NEW up \in Nat, lo <= up, p.number <= up,
         UNCHANGED <<sent, low, cut, number>>
  PROVE  Dense(n, up)'
<1>1. ASSUME NEW hi, Filled(n, lo, hi)
      PROVE  \A x \in Nat : up < x /\ x < hi =>
               \E q \in Fresh' : q.number = x /\ (q.pkt.msg = n \/ q.pkt.kind = "send")
  <2> SUFFICES ASSUME NEW x \in Nat, up < x, x < hi
               PROVE  \E q \in Fresh' : q.number = x /\ (q.pkt.msg = n \/ q.pkt.kind = "send")
    OBVIOUS
  <2>1. lo < x /\ x # p.number
    OBVIOUS
  <2> QED BY <1>1, <2>1 DEF Filled
<1>2. Of(n)' \subseteq Of(n) /\ Unnumbered(n)' = Unnumbered(n)
  BY DEF Of, Unnumbered, Underway, Begun, Waits
<1>3. \A q \in Of(n)' : \A x \in Nat : up < x /\ x < q.number =>
               \E r \in Fresh' : r.number = x /\ (r.pkt.msg = n \/ r.pkt.kind = "send")
  BY <1>1, <1>2 DEF Dense
<1>4. Unnumbered(n)' => \A x \in Nat : up < x /\ x < number =>
               \E r \in Fresh' : r.number = x /\ (r.pkt.msg = n \/ r.pkt.kind = "send")
  BY <1>1, <1>2 DEF Dense
<1> QED BY <1>3, <1>4 DEF Dense, Filled

\* The other messages.
LEMMA OthersGoOn ==
  ASSUME Typed, Known, NEW p \in air, Lands(p), Accepts(p), calm', UNCHANGED <<sender, numbers>>,
         NEW n \in Pieces, n # p.pkt.msg, Moving(n), ~Doomed'
  PROVE  Moving(n)'
<1>0. /\ p \in Fresh /\ Fresh' = Fresh \ {p} /\ p.number \in Nat
      /\ \A q \in Fresh : q.number >= p.number /\ q.number \in Nat
      /\ cache' = p.number /\ (cache # None => cache \in Nat /\ p.number > cache)
      /\ \A x \in Nat : CheckSeqNumber(x)' <=> x > p.number
  BY AcceptedIs
<1>1. UNCHANGED <<sent, cut, high, low, number>> /\ number \in Nat
  BY TypedIs DEF sender, numbers, NumberOK
<1>2. n \in Messages /\ ~Short(n) /\ Begun(n) /\ n \notin cut
  BY DEF Pieces
<1>3. Of(n)' = Of(n) /\ Waits(n)' = Waits(n) /\ Unnumbered(n)' = Unnumbered(n)
  BY <1>0, <1>1 DEF Of, Waits, Unnumbered, Underway, Begun
<1>4. \A q \in Fresh : q # p => q.number > p.number
  <2>1. ASSUME NEW q \in Fresh, q # p, q.number = p.number PROVE FALSE
    <3>1. q \in Fresh' /\ ~CheckSeqNumber(q.number)'
      BY <1>0, <2>1
    <3> QED BY <3>1 DEF Doomed
  <2> QED BY <1>0, <2>1
<1>5. Hopeless(n) => Hopeless(n)'
  <2>1. ~CheckSeqNumber(number) => ~CheckSeqNumber(number)'
    BY <1>0, <1>1 DEF CheckSeqNumber
  <2> QED BY <1>3, <2>1 DEF Hopeless
<1>6. ASSUME NEW a \in 0..sent[n], Progress(n, a) PROVE Hopeless(n)' \/ Progress(n, a)'
  <2>0. a \in Nat /\ sent[n] \in Nat /\ Len(Packets[n]) \in Nat /\ sent[n] <= Len(Packets[n])
        /\ a <= sent[n]
    BY <1>2, SentIs
  <2>1. Split(n, a)'
    BY <1>1, <1>3, <1>6 DEF Progress, Split
  <2>2. a = 0 => \A s \in Of(n)' : s.pkt.kind = "start" => Dense(n, s.number)'
    <3>1. ASSUME a = 0, NEW s \in Of(n), s.pkt.kind = "start" PROVE Dense(n, s.number)'
      <4>1. Dense(n, s.number) /\ s.number \in Nat /\ p.number <= s.number
        BY <1>0, <1>6, <3>1 DEF Progress, Of
      <4>2. PICK c \in Nat : c = s.number
        BY <4>1
      <4>3. Dense(n, c)'
        BY <1>0, <1>1, <1>2, <4>1, <4>2, DenseTaken
      <4> QED BY <4>2, <4>3
    <3> QED BY <1>3, <3>1
  <2>3. CASE ~(0 < a /\ a < Len(Packets[n]))
    BY <2>1, <2>2, <2>3 DEF Progress
  <2>4. CASE 0 < a /\ a < Len(Packets[n])
    <3>1. cache # None /\ cache \in Nat /\ Dense(n, cache) /\ Holds(n, a - 1) /\ p.number > cache
      BY <1>0, <1>6, <2>4 DEF Progress
    <3>2. Dense(n, cache)'
      <4>1. Dense(n, p.number)'
        BY <1>0, <1>1, <1>2, <3>1, DenseTaken
      <4> QED BY <1>0, <4>1 DEF Dense, Filled
    <3>3. CASE p.pkt.kind = "send"
      <4>1. frpkt' = frpkt
        <5>1. p.pkt \in AllPackets
          BY <1>0, FreshIs
        <5> QED BY <3>3, <5>1, HandlerIs DEF Accepts
      <4>2. Holds(n, a - 1)'
        BY <3>1, <4>1 DEF Holds
      <4>3. cache' # None
        BY <1>0, TransportAssumption
      <4> QED BY <2>1, <2>2, <2>4, <3>2, <4>2, <4>3 DEF Progress
    <3>4. CASE p.pkt.kind # "send"
      <4>0. ASSUME NEW hi, Filled(n, cache, hi), p.number < hi PROVE FALSE
        <5>1. PICK q \in Fresh : q.number = p.number /\ (q.pkt.msg = n \/ q.pkt.kind = "send")
          BY <1>0, <3>1, <4>0 DEF Filled
        <5>2. q = p
          BY <1>0, <1>4, <5>1
        <5> QED BY <3>4, <5>1, <5>2
      <4>1. Of(n) = {}
        <5> SUFFICES ASSUME NEW r \in Of(n) PROVE FALSE
          OBVIOUS
        <5>1. r \in Fresh /\ r # p
          BY DEF Of
        <5>2. p.number < r.number
          BY <1>0, <1>4, <5>1
        <5> QED BY <3>1, <4>0, <5>2 DEF Dense
      <4>2. Unnumbered(n)
        <5>1. CASE a = sent[n]
          BY <1>2, <2>4, <5>1 DEF Unnumbered, Underway
        <5>2. CASE a # sent[n]
          <6>1. a + 1 \in (a + 1)..sent[n]
            BY <2>0, <5>2
          <6>2. Waits(n) # {}
            BY <1>6, <4>1, <6>1 DEF Progress, Split
          <6> QED BY <6>2 DEF Unnumbered
        <5> QED BY <5>1, <5>2
      <4>3. ~(p.number < number)
        BY <3>1, <4>0, <4>2 DEF Dense
      <4>4. ~CheckSeqNumber(number)'
        BY <1>0, <1>1, <4>3
      <4> QED BY <1>1, <1>3, <4>2, <4>4 DEF Hopeless, CheckSeqNumber
    <3> QED BY <3>3, <3>4
  <2> QED BY <2>3, <2>4
<1> QED BY <1>1, <1>5, <1>6 DEF Moving

LEMMA ThroughWaits ==
  ASSUME NEW m
  PROVE  Through(m)' => Of(m)' = {} /\ Waits(m)' = {}
<1>1. Through(m)' => Of(m)' = {}
  BY DEF Through, Of, Fresh
<1>2. Through(m)' => Waits(m)' = {}
  BY DEF Through, Waits, Range
<1> QED BY <1>1, <1>2

\* Its own message: it is the next packet of it.
LEMMA OwnGoesOn ==
  ASSUME Typed, Known, NEW p \in air, Lands(p), Accepts(p), calm', UNCHANGED <<sender, numbers>>,
         NEW n \in Pieces, n = p.pkt.msg, NEW a \in 0..sent[n], Progress(n, a)
  PROVE  /\ a + 1 \in 0..sent[n] /\ Progress(n, a + 1)'
         /\ Through(n)' => Text[n] \in Range(assembled')
<1> DEFINE N == Len(Packets[n])
<1>0. /\ p \in Fresh /\ p \in Of(n) /\ Fresh' = Fresh \ {p} /\ p.number \in Nat
      /\ \A q \in Fresh : q.number >= p.number /\ q.number \in Nat
      /\ cache' = p.number /\ (cache # None => cache \in Nat /\ p.number > cache)
  BY AcceptedIs
<1>1. UNCHANGED <<sent, cut, high, low, number>>
  BY DEF sender, numbers
<1>2. /\ n \in Messages /\ ~Short(n) /\ N = Slots(n) + 2 /\ Slots(n) \in Nat \ {0}
      /\ a \in Nat /\ sent[n] \in Nat /\ a <= sent[n] /\ sent[n] <= N /\ N \in Nat
  BY SentIs DEF Pieces
<1> HIDE DEF N
<1>3. /\ p.pkt \in AllPackets /\ Place(p.pkt) \in Nat /\ Place(p.pkt) <= sent[n]
      /\ \A q \in Of(n) : q \in Fresh /\ Place(q.pkt) \in Nat
      /\ \A i \in Waits(n) : Place(low[i]) \in Nat
  BY <1>0, FreshIs, LowIs DEF Known, Of, Waits
<1>4. Of(n)' = Of(n) \ {p} /\ Waits(n)' = Waits(n)
  BY <1>0, <1>1 DEF Of, Waits
<1>5. Unnumbered(n)' = Unnumbered(n)
  BY <1>1, <1>4 DEF Unnumbered, Underway, Begun
<1>6. Split(n, a)
  BY DEF Progress
<1>7. \A q \in Of(n) : q # p => Place(p.pkt) < Place(q.pkt)
  <2> SUFFICES ASSUME NEW q \in Of(n), q # p PROVE Place(p.pkt) < Place(q.pkt)
    OBVIOUS
  <2>1. p.number # q.number
    BY <1>0, <1>6 DEF Split
  <2>2. p.number < q.number
    BY <1>0, <1>3, <2>1
  <2> QED BY <1>0, <1>6, <2>2 DEF Split
<1>8. Place(p.pkt) = a + 1
  <2>1. a < Place(p.pkt)
    BY <1>0, <1>6 DEF Split
  <2>2. a + 1 \in (a + 1)..sent[n]
    BY <1>2, <1>3, <2>1
  <2>3. CASE \E q \in Of(n) : Place(q.pkt) = a + 1
    <3>1. PICK q \in Of(n) : Place(q.pkt) = a + 1
      BY <2>3
    <3>2. q # p => Place(p.pkt) < a + 1
      BY <1>7, <3>1
    <3> QED BY <1>2, <1>3, <2>1, <3>1, <3>2
  <2>4. CASE \E i \in Waits(n) : Place(low[i]) = a + 1
    <3>1. Place(p.pkt) < a + 1
      BY <1>0, <1>6, <2>4 DEF Split
    <3> QED BY <1>2, <1>3, <2>1, <3>1
  <2> QED BY <1>6, <2>2, <2>3, <2>4 DEF Split
<1>9. a + 1 \in 0..sent[n] /\ a + 1 <= N
  BY <1>2, <1>3, <1>8
<1>10. Split(n, a + 1)'
  <2>1. \A q \in Of(n)' : a + 1 < Place(q.pkt)
    BY <1>4, <1>7, <1>8
  <2>2. \A i \in Waits(n) : a + 1 < Place(low[i])
    BY <1>0, <1>6, <1>8 DEF Split
  <2>3. \A k \in ((a + 1) + 1)..sent[n] :
          (\E q \in Of(n)' : Place(q.pkt) = k) \/ \E i \in Waits(n) : Place(low[i]) = k
    <3> TAKE k \in ((a + 1) + 1)..sent[n]
    <3>1. k \in (a + 1)..sent[n] /\ k # a + 1
      BY <1>2
    <3>2. (\E q \in Of(n) : Place(q.pkt) = k) \/ \E i \in Waits(n) : Place(low[i]) = k
      BY <1>6, <3>1 DEF Split
    <3> QED BY <1>4, <1>8, <3>1, <3>2
  <2>4. \A q \in Of(n)' : \A i \in Waits(n) : Place(q.pkt) < Place(low[i])
    BY <1>4, <1>6 DEF Split
  <2>5. \A x, y \in Of(n)' : /\ x.number < y.number => Place(x.pkt) < Place(y.pkt)
                             /\ x.number = y.number \/ Place(x.pkt) = Place(y.pkt) => x = y
    BY <1>4, <1>6 DEF Split
  <2>6. Unnumbered(n)' => \A q \in Of(n)' : q.number < number
    BY <1>4, <1>5, <1>6 DEF Split
  <2> QED BY <1>1, <1>4, <2>1, <2>2, <2>3, <2>4, <2>5, <2>6 DEF Split
<1>11. DataHandler(p.pkt) /\ p.pkt.kind # "send"
  BY <1>2, <1>3, PacketIs DEF Accepts
<1>12. CASE a = 0
  <2>1. p.pkt.kind = "start"
    <3>1. p.pkt.kind = "data" => Place(p.pkt) = p.pkt.seq + 2 /\ p.pkt.seq \in 0..(Slots(n) - 1)
      BY <1>3, PacketIs DEF Place
    <3>2. p.pkt.kind = "data" => Place(p.pkt) >= 2
      BY <1>2, <3>1
    <3>3. p.pkt.kind = "end" => Place(p.pkt) = N
      BY <1>3, PacketIs DEF N
    <3>4. p.pkt.kind \in {"send", "start", "data", "end"}
      BY <1>3, PacketIs
    <3> QED BY <1>2, <1>3, <1>8, <1>11, <1>12, <3>2, <3>3, <3>4
  <2>2. Holds(n, 0)'
    BY <1>2, <1>3, <1>11, <2>1, HandlerGoesOn
  <2>3. Dense(n, p.number)
    BY <1>0, <1>12, <2>1 DEF Progress
  <2>4. Dense(n, p.number)' /\ Dense(n, cache)'
    <3>1. PICK c \in Nat : c = p.number
      BY <1>0
    <3>2. Dense(n, c)'
      BY <1>0, <1>1, <1>2, <2>3, <3>1, DenseTaken
    <3> QED BY <1>0, <3>1, <3>2 DEF Dense, Filled
  <2>5. a + 1 = 1 /\ 1 - 1 = 0
    BY <1>12
  <2>6. cache' # None
    BY <1>0, TransportAssumption
  <2>7. Progress(n, 1)'
    BY <1>10, <2>2, <2>4, <2>5, <2>6 DEF Progress
  <2>8. ~Through(n)'
    <3>1. CASE sent[n] = N
      <4>1. 2 \in ((a + 1) + 1)..sent[n]
        BY <1>2, <1>12, <3>1
      <4>2. Of(n)' # {} \/ Waits(n)' # {}
        BY <1>1, <1>10, <4>1 DEF Split
      <4> QED BY <1>1, <4>2, ThroughWaits
    <3>2. CASE sent[n] # N
      BY <1>1, <3>2 DEF Through, N
    <3> QED BY <3>1, <3>2
  <2> QED BY <1>9, <2>5, <2>7, <2>8
<1>13. CASE a # 0 /\ a + 1 < N
  <2>0. 0 < a /\ a < N /\ a - 1 \in Nat
    BY <1>2, <1>13
  <2>1. cache # None /\ cache \in Nat /\ Dense(n, cache) /\ Holds(n, a - 1)
    BY <1>0, <2>0 DEF Progress, N
  <2>2. p.pkt.kind = "data" /\ p.pkt.seq = a - 1
    <3>1. p.pkt.kind = "data" => Place(p.pkt) = p.pkt.seq + 2 /\ p.pkt.seq \in 0..(Slots(n) - 1)
      BY <1>3, PacketIs DEF Place
    <3>2. p.pkt.kind = "start" => Place(p.pkt) = 1
      BY <1>3, PacketIs
    <3>3. p.pkt.kind = "end" => Place(p.pkt) = N
      BY <1>3, PacketIs DEF N
    <3>4. p.pkt.kind \in {"send", "start", "data", "end"}
      BY <1>3, PacketIs
    <3>5. p.pkt.kind = "data"
      BY <1>2, <1>3, <1>8, <1>11, <1>13, <3>2, <3>3, <3>4
    <3> QED BY <1>2, <1>8, <3>1, <3>5
  <2>3. Holds(n, (a - 1) + 1)'
    BY <1>2, <1>3, <1>11, <2>1, <2>2, HandlerGoesOn
  <2>4. Dense(n, cache)'
    <3>1. Dense(n, p.number)'
      BY <1>0, <1>1, <1>2, <2>1, DenseTaken
    <3> QED BY <1>0, <3>1 DEF Dense, Filled
  <2>5. (a - 1) + 1 = (a + 1) - 1 /\ a + 1 # 0
    BY <1>2
  <2>6. cache' # None
    BY <1>0, TransportAssumption
  <2>7. Progress(n, a + 1)'
    BY <1>10, <2>3, <2>4, <2>5, <2>6 DEF Progress
  <2>8. ~Through(n)'
    <3>1. CASE sent[n] = N
      <4>1. a + 2 \in ((a + 1) + 1)..sent[n]
        BY <1>2, <1>13, <3>1
      <4>2. Of(n)' # {} \/ Waits(n)' # {}
        BY <1>1, <1>10, <4>1 DEF Split
      <4> QED BY <1>1, <4>2, ThroughWaits
    <3>2. CASE sent[n] # N
      BY <1>1, <3>2 DEF Through, N
    <3> QED BY <3>1, <3>2
  <2> QED BY <1>9, <2>7, <2>8
<1>14. CASE a # 0 /\ a + 1 = N
  <2>0. 0 < a /\ a < N /\ a - 1 = Slots(n)
    BY <1>2, <1>14
  <2>1. Holds(n, Slots(n))
    BY <2>0 DEF Progress, N
  <2>2. p.pkt.kind = "end"
    <3>1. p.pkt.kind = "data" => Place(p.pkt) = p.pkt.seq + 2 /\ p.pkt.seq \in 0..(Slots(n) - 1)
      BY <1>3, PacketIs DEF Place
    <3>2. p.pkt.kind = "start" => Place(p.pkt) = 1
      BY <1>3, PacketIs
    <3>4. p.pkt.kind \in {"send", "start", "data", "end"}
      BY <1>3, PacketIs
    <3>5. p.pkt.kind = "data" => Place(p.pkt) < N
      BY <1>2, <3>1
    <3> QED BY <1>2, <1>3, <1>8, <1>11, <1>14, <3>2, <3>4, <3>5
  <2>3. Text[n] \in Range(assembled')
    BY <1>2, <1>3, <1>11, <2>1, <2>2, HandlerGoesOn
  <2>4. Progress(n, a + 1)'
    <3>1. a + 1 # 0 /\ ~(a + 1 < N)
      BY <1>2, <1>14
    <3> QED BY <1>10, <3>1 DEF Progress, N
  <2> QED BY <1>9, <2>3, <2>4
<1>15. a = 0 \/ a + 1 < N \/ a + 1 = N
  BY <1>2, <1>9
<1> QED BY <1>12, <1>13, <1>14, <1>15

LEMMA ArrivingAccepts ==
  ASSUME Typed, Known, ArrivingOn, NEW p \in air, Lands(p), Accepts(p), calm',
         UNCHANGED <<sender, numbers>>
  PROVE  ArrivingOn'
<1> DEFINE m == p.pkt.msg
<1>0. p \in Fresh /\ Fresh' = Fresh \ {p} /\ ~Doomed
  BY AcceptedIs
<1>1. UNCHANGED <<sent, cut, high, low, number>>
  BY DEF sender, numbers
<1>2. p.pkt \in AllPackets /\ m \in Messages /\ (p.pkt.kind = "send" <=> Short(m))
      /\ Place(p.pkt) \in Nat \ {0} /\ Place(p.pkt) <= sent[m] /\ sent[m] \in Nat
  BY <1>0, FreshIs, SentIs DEF Known
<1>3. DataHandler(p.pkt)
  BY DEF Accepts
<1>4. assembled \in Seq(Seq(Content)) /\ received \in Seq(Seq(Content))
  BY TypedIs DEF ReceiverOK
<1>5. Range(assembled) \subseteq Range(assembled') /\ Range(received) \subseteq Range(received')
  <2>1. ASSUME NEW s \in Seq(Seq(Content)), NEW x PROVE Range(s) \subseteq Range(Append(s, x))
    <3>1. \A i \in DOMAIN s : i \in DOMAIN Append(s, x) /\ Append(s, x)[i] = s[i]
      OBVIOUS
    <3> QED BY <3>1 DEF Range
  <2>2. assembled' = assembled \/ \E x : assembled' = Append(assembled, x)
    BY <1>2, <1>3, HandlerIs, PacketIs
  <2>3. received' = received \/ \E x : received' = Append(received, x)
    BY <1>3, HandedOver
  <2> QED BY <1>4, <2>1, <2>2, <2>3
<1>6. Pieces' = Pieces
  BY <1>1 DEF Pieces, Begun, Short
<1>7. Queued'
  BY <1>1 DEF ArrivingOn, Queued, Underway, Begun, Place
<1>8. \A n \in Messages \ {m} : Through(n)' => Through(n)
  <2> SUFFICES ASSUME NEW n \in Messages \ {m}, Through(n)' PROVE Through(n)
    OBVIOUS
  <2>1. Of(n)' = Of(n)
    BY <1>0 DEF Of
  <2> QED BY <1>1, <2>1 DEF Through, Of, Fresh
<1>9. CASE Short(m)
  <2>1. Text[m] \in Range(received')
    <3>1. received' = Append(received, Text[m])
      BY <1>2, <1>3, <1>9 DEF DataHandler, StartFragments, AddData, EndFragments, ReceiveShort
    <3>2. Len(received) + 1 \in DOMAIN received' /\ received'[Len(received) + 1] = Text[m]
      BY <1>4, <3>1
    <3> QED BY <3>2 DEF Range
  <2>2. Delivered'
    BY <1>5, <1>8, <2>1 DEF ArrivingOn, Delivered
  <2>3. m \notin Pieces
    BY <1>9 DEF Pieces
  <2>4. Doomed' \/ \A n \in Pieces' : Moving(n)'
    BY <1>0, <1>6, <2>3, OthersGoOn DEF ArrivingOn
  <2> QED BY <1>7, <2>2, <2>4 DEF ArrivingOn
<1>10. CASE ~Short(m) /\ m \in cut
  <2>1. ~Through(m)'
    <3>1. sent[m] < Len(Packets[m]) /\ Len(Packets[m]) \in Nat
      BY <1>2, <1>10, SentIs DEF Known
    <3> QED BY <1>1, <1>2, <3>1 DEF Through
  <2>2. Delivered'
    BY <1>5, <1>8, <2>1 DEF ArrivingOn, Delivered
  <2>3. m \notin Pieces
    BY <1>10 DEF Pieces
  <2>4. Doomed' \/ \A n \in Pieces' : Moving(n)'
    BY <1>0, <1>6, <2>3, OthersGoOn DEF ArrivingOn
  <2> QED BY <1>7, <2>2, <2>4 DEF ArrivingOn
<1>11. CASE ~Short(m) /\ m \notin cut
  <2>1. m \in Pieces
    BY <1>2, <1>11 DEF Pieces, Begun
  <2>2. Moving(m)' /\ (Through(m)' => Text[m] \in Range(assembled'))
    <3>1. CASE Hopeless(m)
      <4>1. Unnumbered(m)' = Unnumbered(m) /\ Unnumbered(m)
        BY <1>1, <3>1 DEF Hopeless, Unnumbered, Underway, Begun, Waits
      <4>2. ~CheckSeqNumber(number)'
        <5>1. /\ cache' = p.number /\ (cache # None => cache \in Nat /\ p.number > cache)
              /\ p.number \in Nat /\ \A x \in Nat : CheckSeqNumber(x)' <=> x > p.number
          BY AcceptedIs
        <5>2. number \in Nat
          BY TypedIs DEF NumberOK
        <5>3. ~(number > p.number)
          BY <3>1, <5>1, <5>2 DEF Hopeless, CheckSeqNumber
        <5> QED BY <1>1, <5>1, <5>2, <5>3, TransportAssumption DEF CheckSeqNumber
      <4>3. ~Through(m)'
        <5>1. Unnumbered(m)' => Underway(m)' \/ Waits(m)' # {}
          BY DEF Unnumbered
        <5>2. Underway(m)' => sent'[m] # Len(Packets[m])
          BY <1>1, <1>2, SentIs DEF Underway
        <5> QED BY <1>1, <4>1, <5>1, <5>2, ThroughWaits DEF Through
      <4> QED BY <4>1, <4>2, <4>3 DEF Moving, Hopeless
    <3>2. CASE \E a \in 0..sent[m] : Progress(m, a)
      <4>1. PICK a \in 0..sent[m] : Progress(m, a)
        BY <3>2
      <4>2. /\ a + 1 \in 0..sent[m] /\ Progress(m, a + 1)'
            /\ Through(m)' => Text[m] \in Range(assembled')
        BY <2>1, <4>1, OwnGoesOn
      <4> QED BY <1>1, <4>2 DEF Moving
    <3> QED BY <1>0, <2>1, <3>1, <3>2 DEF ArrivingOn, Moving
  <2>3. Delivered'
    BY <1>5, <1>8, <2>2 DEF ArrivingOn, Delivered
  <2>4. Doomed' \/ \A n \in Pieces' : Moving(n)'
    BY <1>0, <1>6, <2>2, OthersGoOn DEF ArrivingOn
  <2> QED BY <1>7, <2>3, <2>4 DEF ArrivingOn
<1> QED BY <1>9, <1>10, <1>11

\* What is refused while every packet arrives is a copy.
LEMMA ArrivingRefuses ==
  ASSUME Typed, ArrivingOn, NEW p \in air, Lands(p), Refuses(p), calm',
         UNCHANGED <<sender, numbers>>
  PROVE  ArrivingOn'
<1>1. p.again
  BY DEF Refuses, Missing
<1>2. Fresh' = Fresh
  <2>1. Back(p).again /\ \A q \in air' : q \in air \ {p} \/ q = Back(p)
    BY LandsIs
  <2>2. \A q \in air : q # p => q \in air'
    BY LandsIs
  <2> QED BY <1>1, <2>1, <2>2 DEF Fresh
<1>3. UNCHANGED <<sent, cut, high, low, number, cache, frpkt, assembled, received>>
  BY DEF Refuses, sender, numbers, receiver
<1>4. \A m \in Messages : Underway(m)' = Underway(m) /\ Waits(m)' = Waits(m)
  BY <1>3 DEF Underway, Begun, Waits
<1>5. \A m \in Messages : Unnumbered(m)' = Unnumbered(m)
  BY <1>4 DEF Unnumbered
<1> QED BY <1>2, <1>3, <1>4, <1>5, ArrivingSame

LEMMA CalmStays ==
  ASSUME Typed, [Next]_vars
  PROVE  calm' => calm
<1>1. calm \in BOOLEAN
  BY TypedIs DEF HistoryOK
<1> QED
  BY <1>1 DEF Next, Gateway, SendMsg, ReadNumber, WriteNumber, OpenFile, WriteUpdate, Crash,
     Transmit, Lose, Receive, Missing, vars, history

LEMMA ArrivingNext == Typed /\ Known /\ Arriving /\ [Next]_vars => Arriving'
<1> SUFFICES ASSUME Typed, Known, Arriving, [Next]_vars, calm', ~overlap'
             PROVE  ArrivingOn'
  BY DEF Arriving
<1>1. calm /\ ~overlap
  BY CalmStays, FlagsStay
<1>2. ArrivingOn
  BY <1>1 DEF Arriving
<1>3. ASSUME NEW m \in Messages, SendMsg(m) PROVE ArrivingOn'
  <2>1. Short(m) \/ \A o \in Messages \ {m} : ~Underway(o)
    BY <1>3 DEF SendMsg
  <2> QED BY <1>2, <1>3, <2>1, ArrivingSendShort, ArrivingSendLong
<1>4. CASE Gateway \/ Crash \/ Lose \/ UNCHANGED vars
  BY <1>2, <1>4, ArrivingQuiet
<1>5. CASE Transmit
  BY <1>2, <1>5, ArrivingTransmit
<1>6. CASE Receive
  BY <1>2, <1>6, ReceiveIs, ArrivingAccepts, ArrivingRefuses
<1> QED BY <1>3, <1>4, <1>5, <1>6 DEF Next

LEMMA ArrivingPutTogether == Arriving => PutTogether
BY DEF Arriving, ArrivingOn, Delivered, PutTogether

\* A message whose packets have all arrived, in order and not mixed with others, has been
\* put together by data_handler, or handed over in one piece: neither copies, nor an earlier
\* message left half-way by a power loss, nor sequence numbers that have started over get in
\* its way.
THEOREM ArrivedIsPutTogether == Spec => []PutTogether
<1> DEFINE Inv == Typed /\ Known /\ Arriving
<1>1. Init => Inv
  BY TypedInit, ArrivingInit
<1>2. Inv /\ [Next]_vars => Inv'
  BY TypedNext, KnownNext, ArrivingNext
<1>3. Inv => PutTogether
  BY ArrivingPutTogether
<1> QED BY <1>1, <1>2, <1>3, PTL DEF Spec
====
