------------------------------ MODULE TeleopWs ------------------------------
(***************************************************************************)
(* The WebSocket benchmark: the desktop application and the ESP32's        *)
(* WebSocket variant on one connection, with the keep-alive pings that the *)
(* ESP32's client sends and the desktop's Beast stream answers by itself.  *)
(***************************************************************************)
EXTENDS DesktopApp, EspWsApp

ASSUME WsAssumption ==
    ConnTypes = {"WEB_SOCKET"} /\ CommandLen = 1 /\ ReplyLen = 1

vars == <<appVars, espVars, linkVars>>

Listening == acceptor = "listening"

App(A) == A /\ UNCHANGED espVars
Esp(A) == A /\ UNCHANGED appVars

(* The stream answers pings inside async_read only.                        *)
StreamAnswersPing ==
    /\ phase = "running"
    /\ reads > 0
    /\ link = "open"
    /\ pings = 1
    /\ pings' = 0
    /\ pongs' = 1
    /\ UNCHANGED <<appVars, taskVars, timeoutVars, closeFrame, histVars, linkVars>>

(* In async_read, behind all that was sent before it, the stream finds the *)
(* close frame, answers it, and closes its end of the connection; the read *)
(* then completes with an error.                                           *)
StreamAnswersClose ==
    /\ phase = "running"
    /\ reads > 0
    /\ toDesk < ReplyLen
    /\ pings = 0
    /\ link = "open"
    /\ closeFrame = "sent"
    /\ closeFrame' = "answered"
    /\ link' = "closed"
    /\ UNCHANGED <<appVars, taskVars, timeoutVars, pings, pongs, histVars,
                   toEsp, toDesk>>

(* What is on its way when the network breaks is lost, frames included;    *)
(* the answer to a close frame may be lost after the desktop has left.     *)
NetworkBreaks ==
    /\ \/ \E to \in {"closed", "lost"} : LinkBreaks(to)
       \/ closeFrame = "answered" /\ UNCHANGED linkVars
    /\ pings' = 0
    /\ pongs' = 0
    /\ closeFrame' = "none"
    /\ UNCHANGED <<appVars, taskVars, timeoutVars, histVars>>

(* The client sends its upgrade request as soon as it is connected; the    *)
(* desktop's ws->accept() throws if the connection ends first.             *)
Handshake == HandshakeDone \/ HandshakeBroken

Init == AppInit /\ EspInit /\ LinkInit

Next ==
    \/ App(AcceptFails)
    \/ App(AcceptCancelled)
    \/ App(Accept)
    \/ App(Handshake)
    \/ App(ReadCompletes)
    \/ App(ReadFails)
    \/ App(WriteCompletes)
    \/ App(WriteHandled)
    \/ App(Frame)
    \/ App(Stop)
    \/ App(RequestStop)
    \/ Esp(websocketAppStart)
    \/ Esp(takeSemaphore)
    \/ Esp(closeClient)
    \/ Esp(destroyClient)
    \/ Esp(clientConnects(Listening))
    \/ Esp(clientDisconnects)
    \/ Esp(clientPings)
    \/ Esp(onCommand)
    \/ Esp(onPong)
    \/ Esp(onClose)
    \/ Esp(clientStops)
    \/ Esp(resetTimer)
    \/ Esp(tick)
    \/ Esp(EspPowerCycles)
    \/ StreamAnswersPing
    \/ StreamAnswersClose
    \/ NetworkBreaks

MainTask == websocketAppStart \/ takeSemaphore \/ closeClient \/ destroyClient

ClientTask ==
    \/ clientConnects(Listening)
    \/ clientDisconnects
    \/ onCommand
    \/ onPong
    \/ onClose
    \/ resetTimer
    \/ clientStops

(* Each task of the ESP32 runs when it can, time passes, and the desktop's *)
(* handlers are run.  Nothing makes the user click or the network fail.    *)
Spec == /\ Init
        /\ [][Next]_vars
        /\ AppFairness
        /\ WF_vars(App(Handshake))
        /\ WF_vars(Esp(MainTask))
        /\ WF_vars(Esp(ClientTask))
        /\ WF_vars(Esp(tick))
        /\ WF_vars(StreamAnswersPing)
        /\ WF_vars(StreamAnswersClose)

-----------------------------------------------------------------------------
TypeOK == AppTypeOK /\ EspTypeOK /\ LinkTypeOK

(* Every reply was caused by one command or by one pong and is processed   *)
(* once; while the link is up none is lost, but for those that were sent   *)
(* behind the close frame (websocketEventHandler, the desktop's read loop).*)
RepliesConserved ==
    link \in {"none", "pending", "open"} =>
        commands + pongReplies
          = latencies + writes + toEsp + toDesk + ioResults["MSG_RECEIVED"]
            + lateReplies

(* What the latency on the screen means: it is the latency of the command  *)
(* that was outstanding, so there are never more latencies than commands.  *)
LatencyOfACommand == latencies <= commands

(* When the variant returns it leaves nothing behind: the desktop has read *)
(* every reply that was sent before the close frame, and knows that the    *)
(* connection is over (esp_websocket_client_close before _destroy).        *)
ReturnsCleanly == mainPc = "returned" => link = "closed" /\ toDesk = 0

(* Once there has been data, silence shuts the client down: the timeout    *)
(* reaches the main task through the timer service and the semaphore.      *)
SilenceAfterDataShutsDown ==
    heard /\ silence = NoDataTimeout /\ mainPc = "xSemaphoreTake"
        ~> mainPc # "xSemaphoreTake"

(* The connection has failed, noticed by the client or by nobody.          *)
ConnectionFailed == client = "connecting" \/ link = "lost"

(* A given semaphore ends the variant, events in progress notwithstanding, *)
(* unless the connection fails before the close frame has been answered:   *)
(* websocketAppStart waits without a timeout for a client that then tries  *)
(* to connect again and again.                                             *)
ShutdownCompletes ==
    shutdownSema = 1 /\ mainPc = "xSemaphoreTake"
        ~> mainPc \in {"returned", "start"} \/ ConnectionFailed

(* The desktop's read fails when the ESP32 shuts the connection down,      *)
(* after whatever was sent before the close frame was read.                *)
DesktopNoticesClose ==
    connected /\ client = "closing"
        ~> readEnded = "failed" \/ phase # "running" \/ link = "lost"

(* What the message of shutdownSignaler says of the shutdown: there has    *)
(* been no data for NO_DATA_TIMEOUT_SEC seconds.                           *)
SignalMeansSilence ==
    [][shutdownSema = 0 /\ shutdownSema' = 1 => silence' = NoDataTimeout]_vars

(* It is wrong only about data whose event is being handled: between two   *)
(* events, the timer that expires has run since the last of them           *)
(* (websocketEventHandler resets it last).                                 *)
SilenceBetweenEvents ==
    [][shutdownSema = 0 /\ shutdownSema' = 1 /\ handlerPc = "idle"
        => silence' = NoDataTimeout]_vars
=============================================================================
