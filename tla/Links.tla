--------------------------------- MODULE Links ---------------------------------
(***************************************************************************)
(* The link to the device: the serial port with its reading and writing     *)
(* threads (uart.py) or, for a gateway whose device is behind a passthrough *)
(* gateway, a socket with the same interface (uart_socket.py).  The device  *)
(* at the other end is external: it answers one command after the other and *)
(* forgets its configuration when it resets.                                *)
(*                                                                         *)
(* A message stands for its bytes; the one exception is "part", the         *)
(* beginning of a packet whose rest was lost with the link.                 *)
(***************************************************************************)
EXTENDS Integers, Sequences

VARIABLES
  remote,      \* Gateway.remote: the link is a UartSocket
  running,     \* read_running and write_running, set and cleared together
  connected,   \* what is_connected() answers
  reader,      \* read_thd is alive
  writer,      \* write_thd is alive, and the serial port open
  readQ,       \* the line, the socket and read_queue
  writeQ,      \* write_queue
  \* external
  devIn,       \* commands the device has not carried out
  applied,     \* commands of config_device carried out since its last reset
  broken       \* the line is cut

linkVars == <<remote, running, connected, reader, writer, readQ, writeQ, devIn,
              applied, broken>>

\* Commands and answers; n tells the commands of config_device apart.  "send" stands
\* for the commands that TxManager sends for a message.
Msg(type) == [type |-> type, n |-> 0]
ConfigCommand(k) == [type |-> "config", n |-> k]
Reset == Msg("reset")
Echo == Msg("echo")
Answer(c) == IF c.type \in {"config", "remove"} THEN [c EXCEPT !.type = "rsp"] ELSE c

\* A remote device was reset when its passthrough gateway connected.
LinkInit ==
  /\ remote \in BOOLEAN
  /\ running = FALSE /\ connected = FALSE /\ reader = FALSE /\ writer = FALSE
  /\ broken = FALSE
  /\ readQ = <<>> /\ writeQ = <<>>
  /\ devIn = IF remote THEN <<Reset>> ELSE <<>>
  /\ applied = {}

-----------------------------------------------------------------------------
(* start and stop, by the caller of Gateway. *)

\* A serial port whose line is cut can not be opened.
CanOpen == remote \/ ~broken

\* A running Uart only warns; a UartSocket keeps its queues and has no such test.
LinkStart ==
  IF running /\ ~remote
    THEN UNCHANGED <<running, connected, reader, writer, readQ, writeQ>>
    ELSE /\ running' = TRUE /\ connected' = TRUE /\ reader' = TRUE /\ writer' = TRUE
         /\ IF remote THEN UNCHANGED <<readQ, writeQ>>
                      ELSE readQ' = <<>> /\ writeQ' = <<>>

\* stop() up to the first join.
LinkStop ==
  /\ running' = FALSE
  /\ connected' = (connected /\ ~running)

LinkStopped == ~reader /\ ~writer

SendMsg(c) == writeQ' = Append(writeQ, c)

-----------------------------------------------------------------------------
(* The threads. *)

\* Mutant: the end of a socket is not noticed.
ReaderEndsSilent ==
  /\ reader /\ (~running \/ broken)
  /\ reader' = FALSE
  /\ UNCHANGED <<remote, running, connected, writer, readQ, writeQ, devIn, applied,
                 broken>>

\* read(): the end of a socket is noticed, that of a serial port kills the thread.
ReaderEnds ==
  /\ reader /\ (~running \/ broken)
  /\ reader' = FALSE
  /\ connected' = (connected /\ ~(remote /\ broken))
  /\ UNCHANGED <<remote, running, writer, readQ, writeQ, devIn, applied, broken>>

\* write(), while running and when what is left is sent: an error ends the thread.
Write ==
  /\ writer /\ writeQ # <<>>
  /\ writeQ' = Tail(writeQ)
  /\ writer' = ~broken
  /\ devIn' = IF broken THEN devIn ELSE Append(devIn, Head(writeQ))
  /\ UNCHANGED <<remote, running, connected, reader, readQ, applied, broken>>

\* Mutant: what is left is not written.
DrainedNot == TRUE

\* The thread waits for the reader and drains the queue before it closes the port.
Drained == writeQ = <<>>

WriterEnds ==
  /\ writer /\ ~running /\ ~reader /\ Drained
  /\ writer' = FALSE
  /\ UNCHANGED <<remote, running, connected, reader, readQ, writeQ, devIn,
                 applied, broken>>

LinkThreads == ReaderEnds \/ Write \/ WriterEnds

-----------------------------------------------------------------------------
(* External. *)

\* What the device sends while no one reads the serial port is lost.
Arrives(m) ==
  readQ' = IF ~broken /\ (reader \/ remote) THEN Append(readQ, m) ELSE readQ

\* A reset may take what came behind it along.
Device ==
  /\ devIn # <<>>
  /\ LET c == Head(devIn) IN
       /\ applied' = CASE c.type = "reset" -> {}
                       [] c.type = "config" -> applied \union {c.n}
                       [] OTHER -> applied
       /\ \/ devIn' = Tail(devIn)
          \/ c.type = "reset" /\ devIn' = <<>>
       /\ Arrives(Answer(c))
  /\ UNCHANGED <<remote, running, connected, reader, writer, writeQ, broken>>

\* The line is cut, between two packets or within one.
Break ==
  /\ ~broken /\ running
  /\ broken' = TRUE
  /\ readQ' \in {readQ, Append(readQ, Msg("part"))}
  /\ UNCHANGED <<remote, running, connected, reader, writer, writeQ, devIn, applied>>
================================================================================
