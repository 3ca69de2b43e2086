------------------------------ MODULE Passthrough ------------------------------
(***************************************************************************)
(* Passthrough mode (passthrough.py): a thread that keeps a connection to   *)
(* the remote server, and for each connection a thread in each direction    *)
(* that relays between the serial port and the server.  The server and the  *)
(* programmer that resets the device are external.                          *)
(***************************************************************************)
EXTENDS Links

VARIABLES
  conn,          \* where socket_thd is: "none" without a Passthrough, "done" when
                 \*   it has ended or was not started
  ptRunning,     \* Passthrough.running
  ptConnected,   \* Passthrough.connected
  startEvent,    \* Passthrough.start_event
  relayRx,       \* rx_thd and tx_thd: "new" until they are started,
  relayTx,       \*   "run" while they are alive
  socket,        \* Passthrough.socket
  \* history
  announced,     \* the server has seen the start message in this connection
  acts           \* commands of the server and connections that were lost

ptVars == <<conn, ptRunning, ptConnected, startEvent, relayRx, relayTx, socket,
            announced, acts>>

PtInit ==
  /\ conn = "none" /\ ptRunning = FALSE /\ ptConnected = FALSE /\ startEvent = FALSE
  /\ relayRx = "new" /\ relayTx = "new" /\ socket = "closed"
  /\ announced = FALSE /\ acts = 0

Relaying == ptRunning /\ ptConnected

\* is_running
PtAlive == conn \notin {"none", "done"} \/ relayRx = "run" \/ relayTx = "run"

-----------------------------------------------------------------------------
(* start and stop, by the caller of Gateway. *)

PtStart ==
  /\ conn' = "top" /\ ptRunning' = TRUE /\ ptConnected' = FALSE
  /\ startEvent' = FALSE /\ relayRx' = "new" /\ relayTx' = "new"
  /\ socket' = "closed" /\ announced' = FALSE
  /\ UNCHANGED <<acts>>

\* set_ca_cert or set_client_auth raises: there is a Passthrough, without threads.
PtUnstarted ==
  /\ conn' = "done" /\ ptRunning' = FALSE /\ ptConnected' = FALSE
  /\ startEvent' = FALSE /\ relayRx' = "new" /\ relayTx' = "new"
  /\ socket' = "closed" /\ announced' = FALSE
  /\ UNCHANGED acts

\* stop() up to the first join.
PtStop ==
  /\ ptRunning' = FALSE /\ socket' = "closed"
  /\ UNCHANGED <<conn, ptConnected, startEvent, relayRx, relayTx, announced,
                 acts>>

\* Mutant: the relays are not joined.
RelaysJoinedNot == TRUE

\* The joins of rx_thd and tx_thd, which may not have been started.
RelaysJoined == relayRx # "run" /\ relayTx # "run"

-----------------------------------------------------------------------------
(* keep_connected. *)

ConnTop ==
  /\ conn = "top"
  /\ IF ptRunning
       THEN conn' = "dial" /\ relayRx' = "new" /\ relayTx' = "new" /\ socket' = "dialing"
       ELSE conn' = "done" /\ UNCHANGED <<relayRx, relayTx, socket>>
  /\ UNCHANGED <<ptRunning, ptConnected, startEvent, announced, acts, linkVars>>

\* Mutant: only a success lets start() go on.
DialFailsUntold ==
  /\ conn = "dial"
  /\ socket' = "closed" /\ conn' = "top"
  /\ UNCHANGED <<ptRunning, ptConnected, startEvent, relayRx, relayTx, announced,
                 acts, linkVars>>

\* start() waits for the first attempt, not for its success.
DialFails ==
  /\ conn = "dial"
  /\ startEvent' = TRUE /\ socket' = "closed" /\ conn' = "top"
  /\ UNCHANGED <<ptRunning, ptConnected, relayRx, relayTx, announced, acts, linkVars>>

\* Connected, and the handshake answered.
DialSucceeds ==
  /\ conn = "dial" /\ socket = "dialing"
  /\ socket' = "open" /\ ptConnected' = TRUE /\ startEvent' = TRUE
  /\ announced' = FALSE /\ conn' = "clean"
  /\ UNCHANGED <<ptRunning, relayRx, relayTx, acts, linkVars>>

Clean ==
  /\ conn = "clean"
  /\ readQ' = <<>> /\ conn' = "relay"
  /\ UNCHANGED <<ptRunning, ptConnected, startEvent, relayRx, relayTx, socket,
                 announced, acts, remote, running, connected, reader,
                 writer, writeQ, devIn, applied, broken>>

StartRelays ==
  /\ conn = "relay"
  /\ relayRx' = "run" /\ relayTx' = "run" /\ conn' = "reset"
  /\ UNCHANGED <<ptRunning, ptConnected, startEvent, socket, announced, acts, linkVars>>

\* Mutant: the device is not reset.
HardResetNot ==
  /\ conn = "reset"
  /\ conn' = "watch"
  /\ UNCHANGED <<ptRunning, ptConnected, startEvent, relayRx, relayTx, socket,
                 announced, acts, linkVars>>

\* By the programmer, which every gateway with a serial port has.  Its tool may not
\* reset the device and say nothing, or raise: socket_thd then ends, the relays go on.
HardReset ==
  /\ conn = "reset"
  /\ \/ devIn' = <<Reset>> /\ conn' = "watch"
     \/ devIn' = devIn /\ conn' \in {"unreset", "done"}
  /\ UNCHANGED <<ptRunning, ptConnected, startEvent, relayRx, relayTx, socket,
                 announced, acts, remote, running, connected, reader,
                 writer, readQ, writeQ, applied, broken>>

ConnectionEnds ==
  /\ conn \in {"watch", "unreset"} /\ ~Relaying /\ RelaysJoined
  /\ socket' = "closed" /\ conn' = "top"
  /\ UNCHANGED <<ptRunning, ptConnected, startEvent, relayRx, relayTx, announced,
                 acts, linkVars>>

KeepConnected ==
  ConnTop \/ DialFails \/ DialSucceeds \/ Clean \/ StartRelays \/ HardReset
    \/ ConnectionEnds

-----------------------------------------------------------------------------
(* relay_rx and relay_tx.  Only a failed send or receive clears connected. *)

RelayRx ==
  /\ relayRx = "run"
  /\ \/ /\ ~Relaying /\ relayRx' = "off"
        /\ UNCHANGED <<readQ, ptConnected, announced>>
     \/ /\ readQ # <<>> /\ readQ' = Tail(readQ)
        /\ IF socket = "open"
             THEN /\ announced' = (announced \/ Head(readQ) = Reset)
                  /\ UNCHANGED <<relayRx, ptConnected>>
             ELSE relayRx' = "off" /\ ptConnected' = FALSE /\ UNCHANGED announced
  /\ UNCHANGED <<conn, ptRunning, startEvent, relayTx, socket, acts,
                 remote, running, connected, reader, writer, writeQ, devIn,
                 applied, broken>>

RelayTxEnds ==
  /\ relayTx = "run" /\ (~Relaying \/ socket # "open")
  /\ relayTx' = "off"
  /\ ptConnected' = (ptConnected /\ ~Relaying)
  /\ UNCHANGED <<conn, ptRunning, startEvent, relayRx, socket, announced, acts, linkVars>>

\* The server sends a command to the device.
RelayTx(c) ==
  /\ relayTx = "run" /\ socket = "open"
  /\ SendMsg(c) /\ acts' = acts + 1
  /\ UNCHANGED <<conn, ptRunning, ptConnected, startEvent, relayRx, relayTx,
                 socket, announced, remote, running, connected, reader,
                 writer, readQ, devIn, applied, broken>>

\* External: the connection is lost.
ServerDrops ==
  /\ socket = "open"
  /\ socket' = "lost" /\ acts' = acts + 1
  /\ UNCHANGED <<conn, ptRunning, ptConnected, startEvent, relayRx, relayTx,
                 announced, linkVars>>
================================================================================
