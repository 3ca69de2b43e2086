------------------------------- MODULE Lifecycle -------------------------------
(***************************************************************************)
(* A gateway that is checked, started, stopped and started again            *)
(* (gateway.py, hw_self_test.py), with the threads that these operations    *)
(* start and join: those of the link (Links), the receive thread            *)
(* (events/event_parser.py), the event thread (events/event_handler.py),    *)
(* the thread that configures the device after a reset (dev_manager.py),    *)
(* the thread that transmits (tx_manager.py; its work is in Transmission)   *)
(* and those of passthrough mode (Passthrough).                             *)
(*                                                                         *)
(* start_lock is held throughout hw_check, start, start_passthrough and     *)
(* stop, so that one of them runs at a time; its steps are those between    *)
(* which another thread can act.  A call that raises before it has changed  *)
(* anything is not a step.                                                  *)
(***************************************************************************)
EXTENDS Passthrough, FiniteSets, SequencesExt

CONSTANTS Steps,      \* commands that config_device sends, each awaiting its answer
          MaxCalls    \* bound: calls of the application and acts of the server

ASSUME LifecycleAssumption == Steps \in Nat \ {0} /\ MaxCalls \in Nat

VARIABLES
  call, at,        \* the operation that holds start_lock, and where it is
  started,         \* Gateway.started
  devManager,      \* there is a DeviceManager
  devStarted,      \* DeviceManager.dev_started
  config,          \* its evt_thd: the place, the step, and cmd_complete; "dead"
                   \*   when an exception has ended it
  tx,              \* TxManager.tx_thd: in its loop, or waiting for an answer
  handlers,        \* EventHandler.handler_list
  events,          \* EventHandler.event_queue, which outlives a stop
  evRunning, ev,   \* EventHandler.running, and where its thread is
  rxRunning,       \* EventParser.running
  parsers,         \* the receive threads: that of the last start and one before
  resetFlag, echoFlag,   \* HwSelfTest
  \* history
  failed,          \* a self test or start_passthrough has failed half-way
  shared,          \* the link had two users: a self test was begun while it was in
                   \*   use, or stop left the relays of passthrough mode running
  stale,           \* when the call began a reset was still on its way, or in
                   \*   hw_check the event of an echo
  again,           \* Gateway.reset was called since the start
  relayed,         \* the server has reset or configured the device since the last
                   \*   start in standard mode
  told,            \* the handlers were told that the link is lost
  echoed,          \* the device has answered an echo since the last test began
  calls

caller == <<call, at, started, devManager, calls>>
manager == <<devStarted, config, tx>>
parsing == <<rxRunning, parsers>>
handling == <<handlers, events, evRunning, ev>>
test == <<resetFlag, echoFlag>>
history == <<failed, shared, stale, again, relayed, told, echoed>>
gateway == <<caller, manager, parsing, handling, test, history>>
vars == <<linkVars, ptVars, gateway>>

NoThread == [at |-> "none", step |-> 1, complete |-> FALSE]

Handlers == {"dev_event_handler", "reset_handler", "echo_handler"}

Init ==
  /\ LinkInit /\ PtInit
  /\ call = "none" /\ at = "none" /\ started = FALSE /\ devManager = FALSE
  /\ devStarted = FALSE /\ config = NoThread /\ tx = "off"
  /\ handlers = <<>> /\ events = <<>> /\ evRunning = FALSE /\ ev = "off"
  /\ rxRunning = FALSE /\ parsers = [last |-> "off", former |-> "off"]
  /\ resetFlag = FALSE /\ echoFlag = FALSE
  /\ failed = FALSE /\ shared = FALSE /\ stale = FALSE /\ told = FALSE
  /\ again = FALSE /\ relayed = FALSE
  /\ echoed = FALSE /\ calls = 0

-----------------------------------------------------------------------------
(* Starting and stopping the threads. *)

EventHandlerStart == evRunning' = TRUE /\ ev' = IF evRunning THEN ev ELSE "run"

\* EventParser.start has no test: a thread that still runs is forgotten.
EventParserStart ==
  /\ parsers.last = "off" \/ parsers.former = "off"
  /\ rxRunning' = TRUE
  /\ parsers' = [last |-> "sync",
                 former |-> IF parsers.last = "off" THEN parsers.former
                                                     ELSE parsers.last]

\* Mutant: the receive thread is not joined.
ParserJoinedNot == TRUE

ParserJoined == parsers.last = "off"

\* Mutant: without the test.
AddHandlerTwice(hs, h) == Append(hs, h)

AddHandler(hs, h) == IF Contains(hs, h) THEN hs ELSE Append(hs, h)

RemoveHandler(hs, h) == RemoveFirst(hs, h)

ConfigAlive == config.at \in {"send", "wait", "end"}

\* The threads that take from the queue of received bytes.
Takers ==
  {p \in DOMAIN parsers : parsers[p] # "off"} \union
    (IF relayRx = "run" THEN {"relay"} ELSE {})

-----------------------------------------------------------------------------
(* hw_check. *)

\* A reset, or its event, from before the call.
ResetUnderway == Reset \in ToSet(devIn) \/ Reset \in ToSet(events)

\* Application and server have an act left (a bound).
Budget == calls + acts < MaxCalls

Begin(operation, place) ==
  /\ call = "none" /\ Budget
  /\ calls' = calls + 1 /\ call' = operation /\ at' = place

HwCheck ==
  /\ ~remote
  /\ running \/ CanOpen
  /\ Begin("hw_check", "run")
  /\ LinkStart /\ EventHandlerStart /\ EventParserStart
  /\ shared' = (shared \/ running)
  /\ stale' = (ResetUnderway \/ Echo \in ToSet(events))
  /\ UNCHANGED <<remote, devIn, applied, broken, ptVars, started, devManager,
                 manager, handlers, events, test, failed, again, relayed, told, echoed>>

AddTestHandlers ==
  handlers' = AddHandler(AddHandler(handlers, "reset_handler"), "echo_handler")

\* Mutant: the flags of an earlier test stay.
RunTestUncleared ==
  /\ at = "run" /\ ev # "echo"
  /\ echoed' = FALSE
  /\ AddTestHandlers /\ SendMsg(Reset)
  /\ at' = "testing"
  /\ UNCHANGED <<remote, running, connected, reader, writer, readQ, devIn, applied,
                 broken, ptVars, call, started, devManager, calls, manager, parsing,
                 events, evRunning, ev, test, failed, shared, stale, again, relayed,
                 told>>

\* HwSelfTest.run up to its loop; the list of handlers is locked in a dispatch.
RunTest ==
  /\ at = "run" /\ ev # "echo"
  /\ resetFlag' = FALSE /\ echoFlag' = FALSE /\ echoed' = FALSE
  /\ AddTestHandlers /\ SendMsg(Reset)
  /\ at' = "testing"
  /\ UNCHANGED <<remote, running, connected, reader, writer, readQ, devIn, applied,
                 broken, ptVars, call, started, devManager, calls, manager, parsing,
                 events, evRunning, ev, failed, shared, stale, again, relayed, told>>

TestPasses ==
  /\ at = "testing" /\ resetFlag /\ echoFlag
  /\ rxRunning' = FALSE /\ at' = "parser"
  /\ UNCHANGED <<linkVars, ptVars, call, started, devManager, calls, manager,
                 parsers, handling, test, history>>

\* Everything that hw_check has started stays.
TestTimesOut ==
  /\ at = "testing" /\ ~(resetFlag /\ echoFlag)
  /\ failed' = TRUE /\ call' = "none" /\ at' = "none"
  /\ UNCHANGED <<linkVars, ptVars, started, devManager, calls, manager, parsing,
                 handling, test, shared, stale, again, relayed, told, echoed>>

-----------------------------------------------------------------------------
(* start. *)

\* Where check_stop does not raise.
CheckStop == ~started /\ conn = "none" /\ ~devManager /\ ~connected

StartGateway ==
  /\ CheckStop /\ CanOpen
  /\ Begin("start", "manager")
  /\ LinkStart /\ EventHandlerStart /\ EventParserStart
  /\ stale' = ResetUnderway
  /\ again' = (again /\ remote)  \* whose link keeps what was under way
  /\ relayed' = FALSE
  /\ UNCHANGED <<remote, devIn, applied, broken, ptVars, started, devManager,
                 manager, handlers, events, test, failed, shared, told, echoed>>

\* DeviceManager, TxManager with its thread, and dev_manager.start; that of a remote
\* device ends here.
CreateDevManager ==
  /\ at = "manager" /\ ev # "echo"
  /\ devManager' = TRUE /\ devStarted' = FALSE /\ config' = NoThread /\ tx' = "run"
  /\ handlers' = AddHandler(handlers, "dev_event_handler")
  /\ IF remote THEN at' = "none" /\ call' = "none" /\ started' = TRUE
               ELSE at' = "reset" /\ UNCHANGED <<call, started>>
  /\ UNCHANGED <<linkVars, ptVars, calls, parsing, events, evRunning, ev, test,
                 history>>

StartDevice ==
  /\ at = "reset"
  /\ SendMsg(Reset) /\ at' = "device"
  /\ UNCHANGED <<remote, running, connected, reader, writer, readQ, devIn, applied,
                 broken, ptVars, call, started, devManager, calls, manager, parsing,
                 handling, test, history>>

\* reset, by any thread of the application: no lock, and dev_started is set already.
ResetGateway ==
  /\ devManager /\ Budget
  /\ SendMsg(Reset) /\ calls' = calls + 1 /\ again' = TRUE
  /\ UNCHANGED <<remote, running, connected, reader, writer, readQ, devIn, applied,
                 broken, ptVars, call, at, started, devManager, manager, parsing,
                 handling, test, failed, shared, stale, relayed, told, echoed>>

\* `while not self.dev_started: pass'
StartReturns ==
  /\ at = "device" /\ devStarted
  /\ started' = TRUE /\ call' = "none" /\ at' = "none"
  /\ UNCHANGED <<linkVars, ptVars, devManager, calls, manager, parsing, handling,
                 test, history>>

-----------------------------------------------------------------------------
(* start_passthrough. *)

StartPassthrough ==
  /\ ~remote /\ CheckStop /\ CanOpen
  /\ Begin("start_passthrough", "dial")
  /\ LinkStart /\ EventHandlerStart /\ PtStart
  /\ UNCHANGED <<remote, devIn, applied, broken, started, devManager, manager,
                 parsing, handlers, events, test, history>>

\* The files with the certificates can not be read: what has been started stays.
StartPassthroughFails ==
  /\ ~remote /\ CheckStop /\ CanOpen
  /\ call = "none" /\ Budget /\ calls' = calls + 1
  /\ LinkStart /\ EventHandlerStart /\ PtUnstarted
  /\ failed' = TRUE
  /\ UNCHANGED <<remote, devIn, applied, broken, call, at, started, devManager,
                 manager, parsing, handlers, events, test, shared, stale, again,
                 relayed, told, echoed>>

PassthroughStarted ==
  /\ at = "dial" /\ startEvent
  /\ started' = TRUE /\ call' = "none" /\ at' = "none"
  /\ UNCHANGED <<linkVars, ptVars, devManager, calls, manager, parsing, handling,
                 test, history>>

-----------------------------------------------------------------------------
(* stop. *)

\* dev_manager.stop raises while the device is configured, after its commands.
StopGateway ==
  /\ started /\ devManager /\ ev # "echo"
  /\ call = "none" /\ Budget /\ calls' = calls + 1
  /\ writeQ' = IF remote THEN writeQ ELSE writeQ \o <<Msg("remove"), Reset>>
  /\ devStarted' = FALSE
  /\ IF ConfigAlive
       THEN UNCHANGED <<call, at, devManager, handlers, rxRunning>>
       ELSE /\ handlers' = RemoveHandler(handlers, "dev_event_handler")
            /\ devManager' = FALSE /\ rxRunning' = FALSE
            /\ call' = "stop" /\ at' = "parser"
  /\ UNCHANGED <<remote, running, connected, reader, writer, readQ, devIn, applied,
                 broken, ptVars, started, config, tx, parsers, events, evRunning, ev,
                 test, history>>

StopPassthrough ==
  /\ started /\ conn # "none" /\ ~devManager
  /\ Begin("stop", "relays")
  /\ PtStop
  /\ UNCHANGED <<linkVars, started, devManager, manager, parsing, handling, test,
                 history>>

RelaysEnded ==
  /\ at = "relays" /\ RelaysJoined /\ at' = "connection"
  /\ UNCHANGED <<linkVars, ptVars, call, started, devManager, calls, manager,
                 parsing, handling, test, history>>

\* socket_thd has ended; the serial port is stopped before the event thread.
PassthroughEnded ==
  /\ at = "connection" /\ conn = "done"
  /\ LinkStop /\ at' = "port"
  /\ UNCHANGED <<remote, reader, writer, readQ, writeQ, devIn, applied, broken,
                 ptVars, call, started, devManager, calls, manager, parsing,
                 handling, test, history>>

PortClosed ==
  /\ at = "port" /\ LinkStopped
  /\ conn' = "none" /\ evRunning' = FALSE /\ at' = "events"
  /\ UNCHANGED <<linkVars, ptRunning, ptConnected, startEvent, relayRx, relayTx,
                 socket, announced, acts, call, started, devManager, calls,
                 manager, parsing, handlers, events, ev, test, history>>

\* The same three steps end hw_check and stop.
ParserEnded ==
  /\ at = "parser" /\ ParserJoined
  /\ evRunning' = FALSE /\ at' = "events"
  /\ UNCHANGED <<linkVars, ptVars, call, started, devManager, calls, manager,
                 parsing, handlers, events, ev, test, history>>

EventsEnded ==
  /\ at = "events" /\ ev = "off"
  /\ handlers' = <<>>
  /\ LinkStop /\ at' = "link"
  /\ UNCHANGED <<remote, reader, writer, readQ, writeQ, devIn, applied, broken,
                 ptVars, call, started, devManager, calls, manager, parsing, events,
                 evRunning, ev, test, history>>

\* hw_check ends; stop clears TxManager.running, if there is a TxManager.
OperationEnds ==
  /\ at = "link" /\ LinkStopped
  /\ IF call = "stop" THEN at' = "tx" /\ UNCHANGED call
                      ELSE at' = "none" /\ call' = "none"
  /\ UNCHANGED <<linkVars, ptVars, started, devManager, calls, manager, parsing,
                 handling, test, history>>

\* The join of tx_thd times out when the thread waits for an answer: nobody is left
\* to hand it over.
StopEnds ==
  /\ at = "tx" /\ tx # "run"
  /\ started' = FALSE /\ call' = "none" /\ at' = "none"
  /\ UNCHANGED <<linkVars, ptVars, devManager, calls, manager, parsing, handling,
                 test, history>>

Caller ==
  RunTest \/ TestPasses \/ TestTimesOut \/ CreateDevManager \/ StartDevice
    \/ StartReturns \/ PassthroughStarted \/ RelaysEnded \/ PassthroughEnded
    \/ PortClosed \/ ParserEnded \/ EventsEnded \/ OperationEnds \/ StopEnds

Application ==
  HwCheck \/ StartGateway \/ StartPassthrough \/ StartPassthroughFails
    \/ StopGateway \/ StopPassthrough \/ ResetGateway

-----------------------------------------------------------------------------
(* The receive threads. *)

ParserEnds(p) ==
  /\ parsers[p] # "off" /\ ~rxRunning
  /\ parsers' = [parsers EXCEPT ![p] = "off"]
  /\ UNCHANGED <<linkVars, ptVars, caller, manager, rxRunning, handling, test, history>>

\* Nothing counts before the start message, and the rest of a packet is awaited for
\* ever.  Two threads that take bytes in turn tear packets apart.
ParserTakes(p) ==
  /\ parsers[p] \in {"sync", "packets"} /\ readQ # <<>>
  /\ readQ' = Tail(readQ)
  /\ LET m == Head(readQ)
         starts == parsers[p] = "packets" \/ m = Reset
     IN \/ /\ starts /\ m.type # "part"
           /\ events' = Append(events, m)
           /\ parsers' = [parsers EXCEPT ![p] = "packets"]
        \/ /\ parsers[p] = "packets" /\ m.type = "part"
           /\ parsers' = [parsers EXCEPT ![p] = "part"] /\ UNCHANGED events
        \/ /\ ~starts \/ Cardinality(Takers) > 1
           /\ UNCHANGED <<parsers, events>>
  /\ UNCHANGED <<remote, running, connected, reader, writer, writeQ, devIn, applied,
                 broken, ptVars, caller, manager, rxRunning, handlers, evRunning, ev,
                 test, history>>

\* UartDisconnection; only seen between packets.
ParserSeesLoss(p) ==
  /\ parsers[p] = "packets" /\ ~connected /\ rxRunning
  /\ events' = Append(events, Msg("disconnected"))
  /\ parsers' = [parsers EXCEPT ![p] = "off"]
  /\ UNCHANGED <<linkVars, ptVars, caller, manager, rxRunning, handlers, evRunning,
                 ev, test, history>>

Parser(p) == ParserEnds(p) \/ ParserTakes(p) \/ ParserSeesLoss(p)

-----------------------------------------------------------------------------
(* The event thread. *)

\* Which handlers remove themselves, one for each type of message, and which raise.
Leaves(h, m) ==
  \/ h = "reset_handler" /\ m.type = "reset"
  \/ h = "echo_handler" /\ m.type = "echo"
Raises(h, m) ==
  h = "dev_event_handler" /\ m.type = "reset" /\ config.at # "none"

\* The loop over the list skips the one behind a handler that leaves it, and an
\* exception ends it.
Reached(h, m) ==
  \E i \in DOMAIN handlers :
    /\ handlers[i] = h
    /\ i > 1 => ~Leaves(handlers[i - 1], m)
    /\ \A j \in 1..(i - 1) : ~Raises(handlers[j], m)

\* dev_event_handler: a thread for the first reset, the answer awaited.
Managed(m) ==
  config' =
    IF ~Reached("dev_event_handler", m) THEN config
    ELSE CASE m.type = "reset" /\ config.at = "none" -> [config EXCEPT !.at = "send"]
           [] m.type = "rsp" /\ config.at = "wait" /\ m.n = config.step ->
                [config EXCEPT !.complete = TRUE]
           [] OTHER -> config

\* The same for the transmission thread; a refusal may end it (see Transmission).
Transmits(m) ==
  IF tx = "wait" /\ m.type = "send" /\ Reached("dev_event_handler", m)
    THEN tx' \in {"run", "off"} ELSE tx' = tx

Dispatch ==
  /\ ev = "run" /\ events # <<>>
  /\ events' = Tail(events)
  /\ LET m == Head(events)
         left == {h \in Handlers : Leaves(h, m) /\ Reached(h, m)}
     IN /\ Managed(m) /\ Transmits(m)
        /\ \/ left = {} /\ UNCHANGED handlers
           \/ \E h \in left : handlers' = RemoveHandler(handlers, h)
        /\ resetFlag' = (resetFlag \/ "reset_handler" \in left)
        /\ echoFlag' = (echoFlag \/ "echo_handler" \in left)
        /\ ev' = IF "reset_handler" \in left THEN "echo" ELSE "run"
        /\ told' = (told \/ m.type = "disconnected")
  /\ UNCHANGED <<linkVars, ptVars, caller, devStarted, parsing, evRunning, failed,
                 shared, stale, again, relayed, echoed>>

\* send_echo, the rest of reset_handler.
SendEcho ==
  /\ ev = "echo"
  /\ echoFlag' = FALSE /\ SendMsg(Echo) /\ ev' = "run"
  /\ UNCHANGED <<remote, running, connected, reader, writer, readQ, devIn, applied,
                 broken, ptVars, caller, manager, parsing, handlers, events, evRunning,
                 resetFlag, history>>

EventsEnd ==
  /\ ev = "run" /\ ~evRunning /\ ev' = "off"
  /\ UNCHANGED <<linkVars, ptVars, caller, manager, parsing, handlers, events,
                 evRunning, test, history>>

EventThread == Dispatch \/ SendEcho \/ EventsEnd

-----------------------------------------------------------------------------
(* config_device: each command is sent and its answer awaited without a timeout. *)

ConfigSend ==
  /\ config.at = "send"
  /\ SendMsg(ConfigCommand(config.step))
  /\ config' = [config EXCEPT !.at = "wait", !.complete = FALSE]
  /\ UNCHANGED <<remote, running, connected, reader, writer, readQ, devIn, applied,
                 broken, ptVars, caller, devStarted, tx, parsing, handling, test,
                 history>>

\* Mutant: the next command is not kept back.
AnsweredNot == TRUE

Answered == config.complete

ConfigNext ==
  /\ config.at = "wait" /\ Answered
  /\ IF config.step < Steps
       THEN /\ config' = [config EXCEPT !.at = "send", !.step = @ + 1]
            /\ UNCHANGED devStarted
       ELSE /\ config' = [config EXCEPT !.at = "end"]
            /\ devStarted' = TRUE
  /\ UNCHANGED <<linkVars, ptVars, caller, tx, parsing, handling, test, history>>

\* A refusal without the handle, or a file that can not be opened.
ConfigFails ==
  /\ config.at = "wait" /\ Answered
  /\ config' = [config EXCEPT !.at = "dead"]
  /\ UNCHANGED <<linkVars, ptVars, caller, devStarted, tx, parsing, handling, test,
                 history>>

ConfigEnds ==
  /\ config.at = "end" /\ config' = [config EXCEPT !.at = "done"]
  /\ UNCHANGED <<linkVars, ptVars, caller, devStarted, tx, parsing, handling, test,
                 history>>

ConfigThread == ConfigSend \/ ConfigNext \/ ConfigFails \/ ConfigEnds

-----------------------------------------------------------------------------
(* The thread of TxManager.  The application submits messages to a device that has  *)
(* been configured (a bound: Transmission has the others).                          *)

TxSend ==
  /\ tx = "run" /\ config.at = "done" /\ Budget
  /\ SendMsg(Msg("send")) /\ tx' = "wait" /\ calls' = calls + 1
  /\ UNCHANGED <<remote, running, connected, reader, writer, readQ, devIn, applied,
                 broken, ptVars, call, at, started, devManager, devStarted, config,
                 parsing, handling, test, history>>

\* The loop sees running cleared, or a message finds no gw.dev_manager.
TxEnds ==
  /\ tx = "run" /\ (at = "tx" \/ ~devManager)
  /\ tx' = "off"
  /\ UNCHANGED <<linkVars, ptVars, caller, devStarted, config, parsing, handling, test,
                 history>>

-----------------------------------------------------------------------------
(* The whole. *)

DeviceAnswers ==
  /\ Device
  /\ echoed' = (echoed \/ Head(devIn) = Echo)
  /\ UNCHANGED <<ptVars, caller, manager, parsing, handling, test, failed, shared,
                 stale, again, relayed, told>>

LinkRuns == LinkThreads /\ UNCHANGED <<ptVars, gateway>>

\* When the programmer raises after stop has looked for the relays, stop leaves them.
PassthroughRuns ==
  /\ KeepConnected \/ RelayRx \/ RelayTxEnds
  /\ shared' = (shared \/ (at = "connection" /\ conn = "reset" /\ conn' = "done"))
  /\ UNCHANGED <<caller, manager, parsing, handling, test, failed, stale, again,
                 relayed, told, echoed>>

\* What the gateway of the server sends its device: any command.
RemoteCommands ==
  {Echo, Reset, Msg("remove"), Msg("send")} \union {ConfigCommand(k) : k \in 1..Steps}

ServerActs ==
  \/ Budget /\ ServerDrops /\ UNCHANGED gateway
  \/ /\ Budget
     /\ \E c \in RemoteCommands :
          RelayTx(c) /\ relayed' = (relayed \/ c.type \in {"reset", "config"})
     /\ UNCHANGED <<caller, manager, parsing, handling, test, failed, shared, stale,
                    again, told, echoed>>

\* The line of a gateway in passthrough mode is not cut (a bound).
LinkBreaks == conn = "none" /\ Break /\ UNCHANGED <<ptVars, gateway>>

Threads ==
  \/ \E p \in DOMAIN parsers : Parser(p)
  \/ EventThread \/ ConfigThread \/ TxEnds \/ LinkRuns \/ DeviceAnswers

Next ==
  Application \/ Caller \/ Threads \/ TxSend \/ PassthroughRuns \/ LinkBreaks
    \/ ServerActs

\* The caller, the threads of passthrough mode, and the other threads with the device
\* run.  Only the attempts to connect can go on for ever, so that no thread is starved
\* by another of its group.  Nobody has to call, to cut the line, or to send anything
\* through the server.
Fairness == WF_vars(Caller) /\ WF_vars(PassthroughRuns) /\ WF_vars(Threads)

Spec == Init /\ [][Next]_vars /\ Fairness

-----------------------------------------------------------------------------
(* Properties. *)

\* What each variable holds; the commands on their way are not bounded here.
TypeOK ==
  /\ {remote, running, connected, reader, writer, broken, ptRunning, ptConnected,
      startEvent, announced, started, devManager, devStarted, evRunning, rxRunning,
      resetFlag, echoFlag, failed, shared, stale, again, relayed, told, echoed}
        \subseteq BOOLEAN
  /\ applied \subseteq 1..Steps
  /\ config \in [at : {"none", "send", "wait", "end", "done", "dead"},
                 step : 1..Steps, complete : BOOLEAN]
  /\ tx \in {"off", "run", "wait"}
  /\ ToSet(handlers) \subseteq Handlers /\ IsInjective(handlers)
  /\ ev \in {"off", "run", "echo"}
  /\ parsers \in [{"last", "former"} -> {"off", "sync", "packets", "part"}]

\* A gateway that is not started, with no call under way, has none of its threads
\* left and can be started: gateway.py stop, hw_check.  Excepted are a self test or a
\* start_passthrough that failed half-way (check_stop refuses from then on), a
\* transmission thread that waits for an answer, and relays that ran when the
\* programmer raised under stop.
AllStopped ==
  call = "none" /\ ~started /\ ~failed =>
    /\ LinkStopped /\ ev = "off" /\ Takers \subseteq {"relay"} /\ ~ConfigAlive
    /\ tx \in {"off", "wait"} /\ (PtAlive => shared)
    /\ CheckStop /\ handlers = <<>>

\* The received bytes have one reader, unless a self test was begun while the link
\* was in use or stop left the relays: the receive thread of event_parser.py or the
\* relay of passthrough.py.
OneReader == Cardinality(Takers) > 1 => shared

\* While a gateway is up its device has all of its configuration, unless a reset from
\* before the start came late, a self test reset the device, or Gateway.reset did,
\* after which nothing configures it again: dev_manager.py.
Configured ==
  started /\ devStarted => applied = 1..Steps \/ stale \/ shared \/ again

\* A gateway that was stopped leaves a device without configuration, or about to be
\* reset: stop_device's commands are written before uart.py closes the port.  Excepted
\* is what the server did in passthrough mode, whose stop resets nothing.
LeftReset ==
  call = "none" /\ ~started /\ ~failed /\ ~remote /\ ~broken /\ ~relayed =>
    applied = {} \/ Reset \in ToSet(devIn)

\* The self test passes only when the device has answered an echo since the test
\* began, unless an earlier one failed, the link was in use, or a reset or an echo
\* came late (run may look at the flags before send_echo has cleared the late one):
\* hw_self_test.py run.
Verdict ==
  at = "testing" /\ resetFlag /\ echoFlag => echoed \/ failed \/ shared \/ stale

\* Every call returns, unless it is start and the line is cut, a reset from before
\* came late, Gateway.reset was called meanwhile, an exception has ended the thread
\* that configures the device, or the link had two users: the waits of start,
\* start_passthrough, hw_check and stop.
CallsReturn ==
  (call # "none") ~>
    (call = "none" \/ (call = "start" /\ (broken \/ stale \/ again \/ shared
                                            \/ config.at = "dead")))

\* A remote gateway whose receive thread was between packets when the socket broke
\* tells its handlers so or is stopped: uart_socket.py read, event_parser.py rx_process.
LossTold ==
  (remote /\ broken /\ parsers.last = "packets" /\ call = "none")
    ~> (told \/ call = "stop" \/ parsers.last = "part")

\* The server sees the start message in every connection that lasts, unless the
\* programmer has not reset the device ("unreset", or "done" when it raised):
\* keep_connected resets the device when the relays run.
Announced ==
  (conn = "watch") ~> (announced \/ conn # "watch" \/ broken \/ shared)
================================================================================
