----------------------------- MODULE DesktopApp -----------------------------
(***************************************************************************)
(* The desktop application (desktop_app/src/app.cpp).  One thread runs     *)
(* everything: the frame function runAppLoop, which re-posts itself, and   *)
(* the completion handlers of the accept, read and write operations, all   *)
(* on one io_context.  A handler is therefore atomic, and the              *)
(* interleaving that matters is the order in which they are run.  The      *)
(* model lets any handler that is ready run next, which includes every     *)
(* order the io_context's queue can produce.  One order is used: an        *)
(* operation that completes puts its handler at the end of the queue, so   *)
(* that the handler of a command's write is ahead of that of its reply.    *)
(*                                                                         *)
(* This module has the application's state and one action per handler; the *)
(* peer is added by the modules that extend it.                            *)
(***************************************************************************)
EXTENDS Link

CONSTANTS
    ConnTypes,    \* the transports that the command line may ask for
    MaxClicks     \* bound on the button clicks of a behaviour

ConnectionType == {"WEB_SOCKET", "CUSTOM_TCP"}

ASSUME ConnTypesAssumption == ConnTypes \subseteq ConnectionType
ASSUME MaxClicksAssumption == MaxClicks \in Nat

VARIABLES
    connType,               \* the transport, fixed by the constructor
    phase,                  \* where the single io thread is, see Phases
    acceptor,               \* the listening socket
    stopFlag,               \* the atomic set by another thread
    windowShouldClose,      \* the window's close request
    connected,              \* ws or tcpSock is not null
    uiEvents,               \* length of uiEventsToProcess
    ioResults,              \* how many of each kind are in ioResults
    reads,                  \* async_read operations in flight
    writes,                 \* async_write operations in flight
    written,                \* those that are complete, their handlers queued
    isSendingBlinkCommand,
    commands,               \* commands issued; stands for timeSendBlinkCommand
    latencies,              \* how often blinkLatency was assigned
    readEnded               \* history: why a read handler gave no result

ioVars     == <<acceptor, reads, writes, written, readEnded>>
uiVars     == <<connected, uiEvents, isSendingBlinkCommand, commands, latencies>>
callerVars == <<connType, stopFlag, windowShouldClose>>
appVars    == <<phase, ioVars, uiVars, callerVars, ioResults>>

Phases == {
    "running",    \* the io thread is between two handlers
    "handshake",  \* the io thread is blocked in ws->accept()
    "exited",     \* runApp has returned 0
    "aborted" }   \* std::abort

(* The transports' CONNECTED and MSG_RECEIVED results are treated alike by *)
(* processIOResults, and one run of the program has only one transport.    *)
IOResultType == {"CONNECTED", "MSG_RECEIVED", "CANCELLED"}

NoResults == [t \in IOResultType |-> 0]

Push(t) == ioResults' = [ioResults EXCEPT ![t] = @ + 1]

AppTypeOK ==
    /\ connType \in ConnTypes
    /\ phase \in Phases
    /\ acceptor \in {"listening", "closed"}
    /\ stopFlag \in BOOLEAN
    /\ windowShouldClose \in BOOLEAN
    /\ connected \in BOOLEAN
    /\ uiEvents \in 0..1
    /\ ioResults \in [IOResultType -> Nat]
    /\ reads \in Nat
    /\ writes \in Nat
    /\ written \in Nat
    /\ isSendingBlinkCommand \in BOOLEAN
    /\ commands \in 0..MaxClicks
    /\ latencies \in Nat
    /\ readEnded \in {"no", "failed", "empty"}

(* AppState's constructor: the accept is started, nothing else has run.    *)
AppInit ==
    /\ connType \in ConnTypes
    /\ phase = "running"
    /\ acceptor = "listening"
    /\ stopFlag = FALSE
    /\ windowShouldClose = FALSE
    /\ connected = FALSE
    /\ uiEvents = 0
    /\ ioResults = NoResults
    /\ reads = 0
    /\ writes = 0
    /\ written = 0
    /\ isSendingBlinkCommand = FALSE
    /\ commands = 0
    /\ latencies = 0
    /\ readEnded = "no"

-----------------------------------------------------------------------------
(* The accept handlers.                                                    *)

(* The accept completes with an error.  The acceptor was moved into the    *)
(* handler and is destroyed with it: nothing listens any more.             *)
AcceptFails ==
    /\ phase = "running"
    /\ acceptor = "listening"
    /\ acceptor' = "closed"
    /\ link' = IF link = "pending" THEN "closed" ELSE link
    /\ UNCHANGED <<phase, reads, writes, written, readEnded, uiVars,
                   callerVars, ioResults, toEsp, toDesk>>

(* The accept completes without an error but its socket is not open.       *)
AcceptCancelled ==
    /\ phase = "running"
    /\ acceptor = "listening"
    /\ link = "pending"
    /\ acceptor' = "closed"
    /\ link' = "closed"
    /\ Push("CANCELLED")
    /\ UNCHANGED <<phase, reads, writes, written, readEnded, uiVars,
                   callerVars, toEsp, toDesk>>

(* A broken variant: the acceptor is left open and accepts again.          *)
AcceptWithoutClose ==
    /\ phase = "running"
    /\ acceptor = "listening"
    /\ link # "none"
    /\ link' = IF link = "pending" THEN "open" ELSE link
    /\ IF connType = "WEB_SOCKET"
         THEN phase' = "handshake" /\ UNCHANGED ioResults
         ELSE Push("CONNECTED") /\ UNCHANGED phase
    /\ UNCHANGED <<ioVars, uiVars, callerVars, toEsp, toDesk>>

(* A connection from the backlog is taken.  The peer may be gone already,  *)
(* in which case the socket is still handed over.  The TCP handler has its *)
(* result at once; the WebSocket handler goes on to block in ws->accept(). *)
Accept ==
    /\ phase = "running"
    /\ acceptor = "listening"
    /\ link # "none"
    /\ acceptor' = "closed"
    /\ link' = IF link = "pending" THEN "open" ELSE link
    /\ IF connType = "WEB_SOCKET"
         THEN phase' = "handshake" /\ UNCHANGED ioResults
         ELSE Push("CONNECTED") /\ UNCHANGED phase
    /\ UNCHANGED <<reads, writes, written, readEnded, uiVars, callerVars,
                   toEsp, toDesk>>

(* ws->accept() returns: the peer's upgrade request has been answered.     *)
HandshakeDone ==
    /\ phase = "handshake"
    /\ link = "open"
    /\ phase' = "running"
    /\ Push("CONNECTED")
    /\ UNCHANGED <<ioVars, uiVars, callerVars, linkVars>>

(* ws->accept() throws and the handler calls std::abort.                   *)
HandshakeFails ==
    /\ phase = "handshake"
    /\ phase' = "aborted"
    /\ link' = "closed"
    /\ UNCHANGED <<ioVars, uiVars, callerVars, ioResults, toEsp, toDesk>>

(* It must: the connection has ended.                                      *)
HandshakeBroken == link = "closed" /\ HandshakeFails

-----------------------------------------------------------------------------
(* The completion handlers of reads and writes.                            *)

(* Broken variants: a message is consumed without a result; the result of  *)
(* a message overtakes the handler of the write that it answers, as it may *)
(* when two threads run the io_context.                                    *)
ReadForgets ==
    /\ phase = "running"
    /\ reads > 0
    /\ toDesk >= ReplyLen
    /\ written = 0
    /\ reads' = reads - 1
    /\ toDesk' = toDesk - ReplyLen
    /\ UNCHANGED <<phase, acceptor, writes, written, readEnded, uiVars,
                   callerVars, ioResults, link, toEsp>>

ReadOvertakes ==
    /\ phase = "running"
    /\ reads > 0
    /\ toDesk >= ReplyLen
    /\ reads' = reads - 1
    /\ toDesk' = toDesk - ReplyLen
    /\ Push("MSG_RECEIVED")
    /\ UNCHANGED <<phase, acceptor, writes, written, readEnded, uiVars,
                   callerVars, link, toEsp>>

(* async_read has a whole reply: tcpReadBuf is full, or a message is there.*)
(* A reply comes after its command, whose write handler is in the queue by *)
(* then.  (So is one that a message which is no reply may overtake: the    *)
(* write handler only logs, and nothing is lost by running it first.)      *)
ReadCompletes ==
    /\ phase = "running"
    /\ reads > 0
    /\ toDesk >= ReplyLen
    /\ written = 0
    /\ reads' = reads - 1
    /\ toDesk' = toDesk - ReplyLen
    /\ Push("MSG_RECEIVED")
    /\ UNCHANGED <<phase, acceptor, writes, written, readEnded, uiVars,
                   callerVars, link, toEsp>>

(* The handler returns without a result, and no read is started again.     *)
ReadEnds(why) ==
    /\ phase = "running"
    /\ reads > 0
    /\ reads' = reads - 1
    /\ readEnded' = why
    /\ UNCHANGED <<phase, acceptor, writes, written, uiVars, callerVars,
                   ioResults, linkVars>>

(* The stream has come to its end, or failed, and holds no whole reply.    *)
EndOfStream == link = "closed" /\ toDesk < ReplyLen

ReadFails == EndOfStream /\ ReadEnds("failed")

(* A WebSocket message without payload: numBytes is 0.                     *)
ReadEmptyMessage ==
    connType = "WEB_SOCKET" /\ link = "open" /\ ReadEnds("empty")

(* The write is complete: all of the command is in the kernel's hands, and *)
(* reaches the peer if the link is up.  Its handler is queued.             *)
WriteCompletes ==
    /\ phase = "running"
    /\ writes > 0
    /\ writes' = writes - 1
    /\ written' = written + 1
    /\ toEsp' = IF link = "open" THEN toEsp + CommandLen ELSE toEsp
    /\ UNCHANGED <<phase, acceptor, reads, readEnded, uiVars, callerVars,
                   ioResults, link, toDesk>>

(* With an error or without, the write's handler only logs.                *)
WriteHandled ==
    /\ phase = "running"
    /\ written > 0
    /\ written' = written - 1
    /\ UNCHANGED <<phase, acceptor, reads, writes, readEnded, uiVars,
                   callerVars, ioResults, linkVars>>

-----------------------------------------------------------------------------
(* The frame.                                                              *)

(* handleSendButtonClick for every event; the list is then cleared.        *)
processUiEvents ==
    /\ commands' = commands + uiEvents
    /\ writes' = writes + uiEvents

(* Broken variants of processIOResults: the list is not cleared; a message *)
(* does not start the next read; the command is not marked as answered.    *)
processIOResultsNoClear ==
    /\ connected' = IF ioResults["CONNECTED"] > 0 THEN TRUE ELSE connected
    /\ isSendingBlinkCommand' =
          IF ioResults["MSG_RECEIVED"] > 0 THEN FALSE
          ELSE IF uiEvents > 0 THEN TRUE ELSE isSendingBlinkCommand
    /\ latencies' = latencies + ioResults["MSG_RECEIVED"]
    /\ reads' = reads + ioResults["CONNECTED"] + ioResults["MSG_RECEIVED"]
    /\ ioResults' = ioResults

processIOResultsNoRead ==
    /\ connected' = IF ioResults["CONNECTED"] > 0 THEN TRUE ELSE connected
    /\ isSendingBlinkCommand' =
          IF ioResults["MSG_RECEIVED"] > 0 THEN FALSE
          ELSE IF uiEvents > 0 THEN TRUE ELSE isSendingBlinkCommand
    /\ latencies' = latencies + ioResults["MSG_RECEIVED"]
    /\ reads' = reads + ioResults["CONNECTED"]
    /\ ioResults' = NoResults

processIOResultsKeepsSending ==
    /\ connected' = IF ioResults["CONNECTED"] > 0 THEN TRUE ELSE connected
    /\ isSendingBlinkCommand' =
          IF uiEvents > 0 THEN TRUE ELSE isSendingBlinkCommand
    /\ latencies' = latencies + ioResults["MSG_RECEIVED"]
    /\ reads' = reads + ioResults["CONNECTED"] + ioResults["MSG_RECEIVED"]
    /\ ioResults' = NoResults

(* Every result of the list, which is then cleared.  The effects of two    *)
(* results commute, so only how many of each kind there are matters.       *)
(* isSendingBlinkCommand was raised by processUiEvents, earlier in the     *)
(* same frame.                                                             *)
processIOResults ==
    LET conns == ioResults["CONNECTED"]
        msgs  == ioResults["MSG_RECEIVED"]
        sending == IF uiEvents > 0 THEN TRUE ELSE isSendingBlinkCommand
    IN  /\ connected' = IF conns > 0 THEN TRUE ELSE connected
        /\ isSendingBlinkCommand' = IF msgs > 0 THEN FALSE ELSE sending
        /\ latencies' = latencies + msgs
        /\ reads' = reads + conns + msgs
        /\ ioResults' = NoResults

(* Broken variants of render: the button is drawn without a connection, it *)
(* is not disabled while a command is outstanding, or the events survive.  *)
renderUnconnected ==
    \/ uiEvents' = 0
    \/ ~isSendingBlinkCommand' /\ commands' < MaxClicks /\ uiEvents' = 1

renderNeverDisabled ==
    \/ uiEvents' = 0
    \/ connected' /\ commands' < MaxClicks /\ uiEvents' = 1

renderKeepsEvents ==
    \/ uiEvents' = uiEvents
    \/ /\ connected'
       /\ ~isSendingBlinkCommand'
       /\ commands' < MaxClicks
       /\ uiEvents' = uiEvents + 1

(* The button is there once connected and enabled when nothing is being    *)
(* sent; the user may click it in this frame or not.                       *)
render ==
    \/ uiEvents' = 0
    \/ /\ connected'
       /\ ~isSendingBlinkCommand'
       /\ commands' < MaxClicks
       /\ uiEvents' = 1

(* A broken variant: the window's close request is not looked at.          *)
StopRequestedByFlag == stopFlag

StopRequested == windowShouldClose \/ stopFlag

(* runAppLoop on an ordinary frame; it posts itself again.                 *)
Frame ==
    /\ phase = "running"
    /\ ~StopRequested
    /\ processUiEvents
    /\ processIOResults
    /\ render
    /\ UNCHANGED <<phase, acceptor, written, readEnded, callerVars, linkVars>>

(* runAppLoop when asked to stop: ioc.stop(), run() returns, and AppState  *)
(* is destroyed with its sockets, its acceptor and its pending handlers.   *)
Stop ==
    /\ phase = "running"
    /\ StopRequested
    /\ phase' = "exited"
    /\ acceptor' = "closed"
    /\ link' = IF link = "none" THEN "none" ELSE "closed"
    /\ reads' = 0
    /\ writes' = 0
    /\ written' = 0
    /\ uiEvents' = 0
    /\ ioResults' = NoResults
    /\ toDesk' = 0
    /\ UNCHANGED <<connected, isSendingBlinkCommand, commands, latencies,
                   callerVars, readEnded, toEsp>>

runAppLoop == Frame \/ Stop

(* Another thread sets the flag, or the user closes the window, at any     *)
(* time, the io thread's blocking included.                                *)
RequestStop ==
    /\ phase \in {"running", "handshake"}
    /\ \/ stopFlag' = TRUE /\ UNCHANGED windowShouldClose
       \/ windowShouldClose' = TRUE /\ UNCHANGED stopFlag
    /\ UNCHANGED <<connType, phase, ioVars, uiVars, ioResults, linkVars>>

-----------------------------------------------------------------------------
(* What the io_context runs.  It serves its handlers in order, and a frame *)
(* lasts one display refresh, so a handler that is ready is run.           *)
AppFairness == /\ WF_<<appVars, linkVars>>(runAppLoop)
               /\ WF_<<appVars, linkVars>>(Accept)
               /\ WF_<<appVars, linkVars>>(HandshakeBroken)
               /\ WF_<<appVars, linkVars>>(ReadCompletes)
               /\ WF_<<appVars, linkVars>>(ReadFails)
               /\ WF_<<appVars, linkVars>>(WriteCompletes)
               /\ WF_<<appVars, linkVars>>(WriteHandled)

=============================================================================
