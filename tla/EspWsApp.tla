------------------------------ MODULE EspWsApp ------------------------------
(***************************************************************************)
(* The ESP32's WebSocket variant (esp32_cam/main/main.cpp): three tasks.   *)
(* The main task starts the WebSocket client and waits on a semaphore; the *)
(* client's task runs websocketEventHandler for every event; the timer     *)
(* service gives the semaphore when the one-shot shutdown timer expires.   *)
(* Time is counted in ticks of which NoDataTimeout make up the timeout.    *)
(*                                                                         *)
(* The client's library closes a connection by a handshake: a close frame, *)
(* which the other end reads after all that was sent before it and answers *)
(* with its own, upon which the client's task ends.  The main task waits   *)
(* for that without a timeout.  A connection that fails first is made      *)
(* again, or tried to, and then nothing ends the task.                     *)
(***************************************************************************)
EXTENDS Link

CONSTANTS
    NoDataTimeout,\* NO_DATA_TIMEOUT_SEC, in ticks of the model
    MaxPongs      \* bound on the pings of a behaviour

ASSUME TimeoutAssumption == NoDataTimeout \in Nat \ {0}
ASSUME MaxPongsAssumption == MaxPongs \in Nat

VARIABLES
    mainPc,       \* where the main task is
    client,       \* the WebSocket client's task
    handlerPc,    \* where websocketEventHandler is
    shutdownSema, \* 0 or 1
    shutdownTimer,\* ticks until it expires; 0: dormant
    pings,        \* keep-alive pings of the client not yet answered
    pongs,        \* answers to them that have not arrived yet
    closeFrame,   \* the client's close frame: "none", "sent" to the desktop,
                  \* or "answered", with the answer on its way back
    pongReplies,  \* history: replies sent because of a pong
    lateReplies,  \* history: replies sent behind the close frame
    heard,        \* history: there has been a data event
    silence       \* history: ticks since the last one, or since the start

taskVars    == <<mainPc, client, handlerPc>>
timeoutVars == <<shutdownSema, shutdownTimer>>
controlVars == <<pings, pongs, closeFrame>>
histVars    == <<pongReplies, lateReplies, heard, silence>>
espVars     == <<taskVars, timeoutVars, controlVars, histVars>>

EspTypeOK ==
    /\ mainPc \in {"start", "xSemaphoreTake", "close", "join", "returned"}
    /\ client \in {
         "none",        \* not started, or ended
         "connecting",  \* tries to connect, again and again
         "linked",      \* its transport is the connection of module Link
         "closing",     \* waits for the answer to its close frame
         "stopping" }   \* has it, and is about to end
    /\ handlerPc \in {"idle", "xTimerReset"}
    /\ shutdownSema \in 0..1
    /\ shutdownTimer \in 0..NoDataTimeout
    /\ pings \in 0..1
    /\ pongs \in 0..1
    /\ closeFrame \in {"none", "sent", "answered"}
    /\ pongReplies \in Nat
    /\ lateReplies \in Nat
    /\ heard \in BOOLEAN
    /\ silence \in 0..NoDataTimeout

EspInit ==
    /\ mainPc = "start"
    /\ client = "none"
    /\ handlerPc = "idle"
    /\ shutdownSema = 0
    /\ shutdownTimer = 0
    /\ pings = 0
    /\ pongs = 0
    /\ closeFrame = "none"
    /\ pongReplies = 0
    /\ lateReplies = 0
    /\ heard = FALSE
    /\ silence = 0

-----------------------------------------------------------------------------
(* The main task: websocketAppStart.                                       *)

(* The timer is created, dormant; the semaphore is created, empty; the     *)
(* client's task is started.                                               *)
websocketAppStart ==
    /\ mainPc = "start"
    /\ mainPc' = "xSemaphoreTake"
    /\ client' = "connecting"
    /\ UNCHANGED <<handlerPc, timeoutVars, controlVars, histVars, linkVars>>

(* xSemaphoreTake returns.                                                 *)
takeSemaphore ==
    /\ mainPc = "xSemaphoreTake"
    /\ shutdownSema = 1
    /\ shutdownSema' = 0
    /\ mainPc' = "close"
    /\ UNCHANGED <<client, handlerPc, shutdownTimer, controlVars, histVars,
                   linkVars>>

(* A broken variant: the client waits, but the desktop is not told.        *)
closeClientSilently ==
    /\ mainPc = "close"
    /\ handlerPc = "idle"
    /\ mainPc' = "join"
    /\ client' = IF client = "linked" THEN "closing" ELSE client
    /\ UNCHANGED <<handlerPc, timeoutVars, controlVars, histVars, linkVars>>

(* esp_websocket_client_close sends the close frame, between two events    *)
(* and if there is a connection to send it on, and begins to wait.         *)
closeClient ==
    /\ mainPc = "close"
    /\ handlerPc = "idle"
    /\ mainPc' = "join"
    /\ client' = IF client = "linked" THEN "closing" ELSE client
    /\ closeFrame' = IF client = "linked" /\ link = "open" THEN "sent" ELSE closeFrame
    /\ UNCHANGED <<handlerPc, timeoutVars, pings, pongs, histVars, linkVars>>

(* A broken variant: the client is destroyed under its own task.           *)
destroyWithoutJoin ==
    /\ mainPc = "join"
    /\ mainPc' = "returned"
    /\ client' = "none"
    /\ UNCHANGED <<handlerPc, timeoutVars, controlVars, histVars, linkVars>>

(* The wait is over when the client's task has ended; then comes           *)
(* esp_websocket_client_destroy, and the return.                           *)
destroyClient ==
    /\ mainPc = "join"
    /\ client = "none"
    /\ mainPc' = "returned"
    /\ UNCHANGED <<client, handlerPc, timeoutVars, controlVars, histVars, linkVars>>

-----------------------------------------------------------------------------
(* The client's task.                                                      *)

(* It connects as soon as the desktop listens, and after a disconnection   *)
(* it tries again, which the closed port refuses.                          *)
clientConnects(listening) ==
    /\ client = "connecting"
    /\ listening
    /\ link = "none"
    /\ link' = "pending"
    /\ client' = "linked"
    /\ UNCHANGED <<mainPc, handlerPc, timeoutVars, controlVars, histVars,
                   toEsp, toDesk>>

(* The connection has failed; a client that waits for the answer to its    *)
(* close frame, which can no longer come, is not excepted from trying      *)
(* again.  WEBSOCKET_EVENT_ERROR and WEBSOCKET_EVENT_DISCONNECTED are only *)
(* logged.                                                                 *)
clientDisconnects ==
    /\ client \in {"linked", "closing"}
    /\ link = "closed"
    /\ closeFrame # "answered"
    /\ handlerPc = "idle"
    /\ client' = "connecting"
    /\ closeFrame' = "none"
    /\ UNCHANGED <<mainPc, handlerPc, timeoutVars, pings, pongs, histVars,
                   linkVars>>

clientPings ==
    /\ client = "linked"
    /\ link = "open"
    /\ pings + pongs = 0
    /\ pongReplies < MaxPongs
    /\ pings' = 1
    /\ UNCHANGED <<taskVars, timeoutVars, pongs, closeFrame, histVars, linkVars>>

(* websocketEventHandler enters WEBSOCKET_EVENT_DATA ...                   *)
dataEvent ==
    /\ handlerPc = "idle"
    /\ handlerPc' = "xTimerReset"
    /\ heard' = TRUE
    /\ silence' = 0
    /\ UNCHANGED <<mainPc, timeoutVars>>

(* The reply is sent: to be read by the desktop, or not, behind a close    *)
(* frame; on a broken connection it goes nowhere.                          *)
replySent ==
    /\ IF link = "open" /\ closeFrame = "none"
         THEN toDesk' = toDesk + ReplyLen ELSE toDesk' = toDesk
    /\ IF link = "open" /\ closeFrame = "sent"
         THEN lateReplies' = lateReplies + 1 ELSE lateReplies' = lateReplies
    /\ UNCHANGED <<link, closeFrame>>

(* A broken variant: a send that times out leaves the connection alone.    *)
sendReplyOrDropIt ==
    replySent \/ UNCHANGED <<link, toDesk, closeFrame, lateReplies>>

(* ... and answers whatever is neither binary nor a close code.  If the    *)
(* send does not get through in its 50 ticks the client drops the          *)
(* connection, with whatever the desktop has answered to the close frame;  *)
(* the handler does not look.                                              *)
sendReply ==
    \/ replySent
    \/ /\ link' = IF link = "open" THEN "closed" ELSE link
       /\ closeFrame' = "none"
       /\ UNCHANGED <<toDesk, lateReplies>>

(* A command, a text frame.                                                *)
onCommand ==
    /\ client \in {"linked", "closing"}
    /\ toEsp >= CommandLen
    /\ dataEvent
    /\ toEsp' = toEsp - CommandLen
    /\ sendReply
    /\ UNCHANGED <<client, pings, pongs, pongReplies>>

(* The desktop's answer to a ping, which is an event with data as well.    *)
onPong ==
    /\ client \in {"linked", "closing"}
    /\ pongs > 0
    /\ dataEvent
    /\ pongs' = 0
    /\ sendReply
    /\ pongReplies' = pongReplies + 1
    /\ UNCHANGED <<client, pings, toEsp>>

(* The desktop's answer to the close frame, with its two bytes of code,    *)
(* comes after all that the desktop has sent before.                       *)
onClose ==
    /\ client = "closing"
    /\ closeFrame = "answered"
    /\ toEsp = 0
    /\ pongs = 0
    /\ client' = "stopping"
    /\ closeFrame' = "none"
    /\ dataEvent
    /\ UNCHANGED <<pings, pongs, pongReplies, lateReplies, linkVars>>

(* Both ends have closed the connection, and the client's task ends.       *)
clientStops ==
    /\ client = "stopping"
    /\ handlerPc = "idle"
    /\ link = "closed"
    /\ client' = "none"
    /\ UNCHANGED <<mainPc, handlerPc, timeoutVars, controlVars, histVars,
                   linkVars>>

(* Broken variants: a timer that runs already is left alone, or a dormant  *)
(* timer stays dormant.                                                    *)
resetDormantTimer ==
    /\ handlerPc = "xTimerReset"
    /\ handlerPc' = "idle"
    /\ shutdownTimer' = IF shutdownTimer > 0 THEN shutdownTimer ELSE NoDataTimeout
    /\ UNCHANGED <<mainPc, client, shutdownSema, controlVars, histVars, linkVars>>

resetRunningTimer ==
    /\ handlerPc = "xTimerReset"
    /\ handlerPc' = "idle"
    /\ shutdownTimer' = IF shutdownTimer > 0 THEN NoDataTimeout ELSE 0
    /\ UNCHANGED <<mainPc, client, shutdownSema, controlVars, histVars, linkVars>>

(* The handler's last call starts the timer, or starts it anew.            *)
resetTimer ==
    /\ handlerPc = "xTimerReset"
    /\ handlerPc' = "idle"
    /\ shutdownTimer' = NoDataTimeout
    /\ UNCHANGED <<mainPc, client, shutdownSema, controlVars, histVars, linkVars>>

-----------------------------------------------------------------------------
(* The timer service, once a tick.  When the timer expires it runs         *)
(* shutdownSignaler, which gives the binary semaphore.                     *)
tick ==
    /\ mainPc # "start"
    /\ shutdownTimer' = IF shutdownTimer > 0 THEN shutdownTimer - 1 ELSE 0
    /\ shutdownSema' = IF shutdownTimer = 1 THEN 1 ELSE shutdownSema
    /\ silence' = IF silence < NoDataTimeout THEN silence + 1 ELSE silence
    /\ UNCHANGED <<taskVars, controlVars, pongReplies, lateReplies, heard, linkVars>>

(* Power loss, at any time: the desktop is not told.                       *)
EspPowerCycles ==
    /\ mainPc' = "start"
    /\ client' = "none"
    /\ handlerPc' = "idle"
    /\ shutdownSema' = 0
    /\ shutdownTimer' = 0
    /\ pings' = 0
    /\ pongs' = 0
    /\ closeFrame' = "none"
    /\ heard' = FALSE
    /\ silence' = 0
    /\ link' = IF link \in {"pending", "open"} THEN "lost" ELSE link
    /\ toEsp' = 0
    /\ UNCHANGED <<pongReplies, lateReplies, toDesk>>
=============================================================================
