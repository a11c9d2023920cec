--------------------------- MODULE TeleopWsProofs ---------------------------
(***************************************************************************)
(* Proofs about the WebSocket benchmark, for every timeout, any number of  *)
(* clicks and pings, and every failure of the network and of the power.    *)
(*                                                                         *)
(* The argument: a command and a pong are each one token, which is in turn *)
(* the write, the message to the ESP32, the message back, and the result   *)
(* that the next frame processes; several may be under way.  Before the    *)
(* connection is accepted there is none, so that none is written to a      *)
(* stream that loses it.                                                   *)
(*                                                                         *)
(* Then the timeout, and the end of a connection that the timeout closes.  *)
(***************************************************************************)
EXTENDS TeleopWs, TLAPS

Early == link \in {"none", "pending"}

(* Before the connection is accepted nothing has been sent, on either side.*)
NothingEarly ==
    Early =>
        /\ ~connected
        /\ ioResults["CONNECTED"] = 0
        /\ ioResults["MSG_RECEIVED"] = 0
        /\ uiEvents = 0
        /\ writes = 0
        /\ toEsp = 0 /\ toDesk = 0
        /\ pings = 0 /\ pongs = 0
        /\ closeFrame = "none" /\ ~heard

(* The desktop's answer to a close frame is the end of its stream.         *)
AnsweredIsClosed == closeFrame = "answered" => link = "closed" /\ toDesk = 0

IInv == /\ TypeOK
        /\ commands + uiEvents <= MaxClicks
        /\ NothingEarly
        /\ AnsweredIsClosed
        /\ RepliesConserved

(* The programs start without a connection.                                *)
LEMMA InitIInv == Init => IInv
<1> SUFFICES ASSUME Init PROVE IInv
    OBVIOUS
<1> USE MaxClicksAssumption, TimeoutAssumption DEF Init, AppInit, EspInit, LinkInit
<1>1. ioResults \in [IOResultType -> Nat]
      /\ ioResults["CONNECTED"] = 0 /\ ioResults["MSG_RECEIVED"] = 0
      BY DEF NoResults, IOResultType
<1>2. /\ stopFlag \in BOOLEAN /\ windowShouldClose \in BOOLEAN
      /\ connected \in BOOLEAN
      /\ isSendingBlinkCommand \in BOOLEAN /\ heard \in BOOLEAN /\ ~heard
      BY Zenon
<1>3. AppTypeOK
      BY <1>1, <1>2 DEF AppTypeOK, Phases
<1>4. EspTypeOK /\ LinkTypeOK
      BY <1>2 DEF EspTypeOK, LinkTypeOK, LinkStates
<1>5. NothingEarly /\ AnsweredIsClosed /\ RepliesConserved
      BY <1>1, <1>2 DEF NothingEarly, Early, AnsweredIsClosed, RepliesConserved
<1> QED
    BY <1>3, <1>4, <1>5 DEF IInv, TypeOK

(* A frame turns clicks into writes and results into latencies.            *)
LEMMA FrameIInv == IInv /\ App(Frame) => IInv'
<1> SUFFICES ASSUME IInv, App(Frame) PROVE IInv'
    OBVIOUS
<1> USE MaxClicksAssumption
<1> USE DEF IInv, TypeOK, AppTypeOK, EspTypeOK, LinkTypeOK, IOResultType
<1>1. /\ phase = "running" /\ UNCHANGED <<phase, acceptor, written, readEnded>>
      /\ UNCHANGED <<connType, stopFlag, windowShouldClose, link, toEsp, toDesk>>
      /\ UNCHANGED espVars
      BY DEF App, Frame, callerVars, linkVars
<1>2. /\ ioResults' \in [IOResultType -> Nat]
      /\ ioResults'["CONNECTED"] = 0
      /\ ioResults'["MSG_RECEIVED"] = 0
      BY DEF App, Frame, processIOResults, NoResults
<1>3. /\ commands' = commands + uiEvents /\ writes' = writes + uiEvents
      /\ latencies' = latencies + ioResults["MSG_RECEIVED"]
      /\ reads' = reads + ioResults["CONNECTED"] + ioResults["MSG_RECEIVED"]
      /\ connected' = IF ioResults["CONNECTED"] > 0 THEN TRUE ELSE connected
      /\ isSendingBlinkCommand' \in BOOLEAN
      BY DEF App, Frame, processUiEvents, processIOResults
<1>4. \/ uiEvents' = 0
      \/ connected' /\ commands' < MaxClicks /\ uiEvents' = 1
      BY DEF App, Frame, render
<1>5. TypeOK'
  <2>1. connected' \in BOOLEAN
        BY <1>3
  <2>2. commands' \in 0..MaxClicks /\ uiEvents' \in 0..1
        BY <1>3, <1>4
  <2>3. reads' \in Nat /\ writes' \in Nat /\ latencies' \in Nat
        BY <1>3
  <2>4. AppTypeOK'
    <3>1. /\ UNCHANGED <<connType, phase, acceptor, stopFlag, windowShouldClose>>
          /\ UNCHANGED <<written, readEnded>>
          BY <1>1
    <3> QED
        BY <1>2, <1>3, <2>1, <2>2, <2>3, <3>1
  <2>5. EspTypeOK' /\ LinkTypeOK'
        BY <1>1 DEF espVars, taskVars, timeoutVars, controlVars, histVars
  <2> QED
      BY <2>4, <2>5
<1>6. commands' + uiEvents' <= MaxClicks
  <2>1. commands' \in Nat /\ commands' <= MaxClicks
        BY <1>5
  <2> QED
      BY <1>4, <2>1
<1>7. NothingEarly'
      BY <1>1, <1>2, <1>3, <1>4 DEF NothingEarly, Early, espVars, controlVars, histVars
<1>8. RepliesConserved'
      BY <1>1, <1>2, <1>3 DEF RepliesConserved, espVars, histVars
<1>9. AnsweredIsClosed'
      BY <1>1 DEF AnsweredIsClosed, espVars, controlVars
<1> QED
    BY <1>5, <1>6, <1>7, <1>8, <1>9

(* The desktop's other handlers pass messages on.                          *)
LEMMA HandlersIInv ==
    ASSUME IInv,
           \/ App(AcceptFails) \/ App(AcceptCancelled) \/ App(Accept)
           \/ App(Handshake) \/ App(ReadCompletes) \/ App(ReadFails)
           \/ App(WriteCompletes) \/ App(WriteHandled) \/ App(Stop) \/ App(RequestStop)
    PROVE  IInv'
<1> USE WsAssumption, MaxClicksAssumption
<1> USE DEF IInv, TypeOK, AppTypeOK, EspTypeOK, LinkTypeOK, IOResultType,
            NothingEarly, Early, AnsweredIsClosed, RepliesConserved, App, Push,
            NoResults, Phases, LinkStates, linkVars, espVars, taskVars,
            timeoutVars, controlVars, histVars, ioVars, uiVars, callerVars
<1>1. CASE App(AcceptFails)
      BY <1>1 DEF AcceptFails
<1>2. CASE App(AcceptCancelled)
      BY <1>2 DEF AcceptCancelled
<1>3. CASE App(Accept)
      BY <1>3 DEF Accept
<1>4. CASE App(Handshake)
      BY <1>4 DEF Handshake, HandshakeDone, HandshakeBroken, HandshakeFails
<1>5. CASE App(ReadCompletes)
      BY <1>5 DEF ReadCompletes
<1>6. CASE App(ReadFails)
      BY <1>6 DEF ReadFails, ReadEnds
<1>7. CASE App(WriteCompletes)
      BY <1>7 DEF WriteCompletes
<1>7a. CASE App(WriteHandled)
      BY <1>7a DEF WriteHandled
<1>8. CASE App(Stop)
      BY <1>8 DEF Stop
<1>9. CASE App(RequestStop)
  <2>1. /\ UNCHANGED <<connType, phase, ioVars, uiVars, ioResults, linkVars>>
        /\ UNCHANGED espVars
        BY <1>9 DEF RequestStop
  <2>2. stopFlag' \in BOOLEAN /\ windowShouldClose' \in BOOLEAN
        BY <1>9, Zenon DEF RequestStop
  <2> QED
      BY <2>1, <2>2
<1> QED
    BY <1>1, <1>2, <1>3, <1>4, <1>5, <1>6, <1>7, <1>7a, <1>8, <1>9

(* An event takes a command or counts a pong, and makes one reply of it.   *)
LEMMA OneReply ==
    ASSUME NEW c \in Nat, NEW l \in Nat, NEW w \in Nat, NEW m \in Nat,
           NEW p \in Nat, NEW e \in Nat, NEW d \in Nat, NEW t \in Nat,
           NEW p1 \in Nat, NEW e1 \in Nat, NEW d1 \in Nat, NEW t1 \in Nat,
           c + p = l + w + e + d + m + t,
           p1 + e = p + e1 + 1,
           d1 + t1 = d + t + 1
    PROVE  c + p1 = l + w + e1 + d1 + m + t1
OBVIOUS

(* So does the client's event handler; nothing is sent on a connection     *)
(* that is not open.                                                       *)
LEMMA EventsIInv ==
    ASSUME IInv, Esp(onCommand) \/ Esp(onPong) \/ Esp(onClose)
    PROVE  IInv'
<1> USE WsAssumption, TimeoutAssumption
<1> USE DEF IInv, TypeOK, AppTypeOK, EspTypeOK, LinkTypeOK, IOResultType,
            NothingEarly, Early, AnsweredIsClosed, RepliesConserved, Esp, LinkStates,
            linkVars, appVars, ioVars, uiVars, callerVars, timeoutVars,
            controlVars, dataEvent, sendReply, replySent
<1>1. CASE Esp(onCommand) \/ Esp(onPong)
  <2>1. /\ UNCHANGED appVars /\ ~Early
        /\ client' = client /\ mainPc' = mainPc /\ handlerPc' = "xTimerReset"
        /\ pings' = pings /\ pongs' \in 0..1 /\ silence' = 0
        /\ UNCHANGED <<shutdownSema, shutdownTimer>>
        BY <1>1 DEF onCommand, onPong
  <2>2. heard' \in BOOLEAN
        BY <1>1, Zenon DEF onCommand, onPong
  <2>3. toEsp' \in Nat /\ pongReplies' \in Nat /\ pongReplies' + toEsp = pongReplies + toEsp' + 1
        BY <1>1 DEF onCommand, onPong
  <2>4. CASE replySent
    <3>1. /\ link' = link /\ closeFrame' = closeFrame
          /\ toDesk' \in Nat /\ lateReplies' \in Nat
          /\ link = "open" /\ closeFrame # "answered" =>
                toDesk' + lateReplies' = toDesk + lateReplies + 1
          BY <2>4 DEF replySent
    <3>2. TypeOK'
          BY <2>1, <2>2, <2>3, <3>1
    <3>3. RepliesConserved'
      <4>1. SUFFICES ASSUME link = "open"
                     PROVE  commands + pongReplies'
                              = latencies + writes + toEsp' + toDesk'
                                + ioResults["MSG_RECEIVED"] + lateReplies'
            BY <2>1, <3>1
      <4>2. commands + pongReplies
              = latencies + writes + toEsp + toDesk
                + ioResults["MSG_RECEIVED"] + lateReplies
            BY <4>1
      <4>3. toDesk' + lateReplies' = toDesk + lateReplies + 1
            BY <3>1, <4>1
      <4>4. /\ commands \in Nat /\ latencies \in Nat /\ writes \in Nat
            /\ ioResults["MSG_RECEIVED"] \in Nat /\ pongReplies \in Nat
            /\ toEsp \in Nat /\ toDesk \in Nat /\ lateReplies \in Nat
            BY MaxClicksAssumption
      <4> HIDE DEF IInv, TypeOK, AppTypeOK, EspTypeOK, LinkTypeOK, IOResultType
      <4>5. PICK p1 \in Nat, e1 \in Nat, d1 \in Nat, t1 \in Nat :
                /\ p1 = pongReplies' /\ e1 = toEsp' /\ d1 = toDesk' /\ t1 = lateReplies'
            BY <2>3, <3>1
      <4>6. p1 + toEsp = pongReplies + e1 + 1 /\ d1 + t1 = toDesk + lateReplies + 1
            BY <2>3, <4>3, <4>5
      <4>7. commands + p1
              = latencies + writes + e1 + d1 + ioResults["MSG_RECEIVED"] + t1
            BY <4>2, <4>4, <4>6, OneReply
      <4> QED
          BY <4>5, <4>7
    <3> QED
        BY <2>1, <2>4, <3>1, <3>2, <3>3 DEF replySent
  <2>5. CASE /\ link' = IF link = "open" THEN "closed" ELSE link
             /\ closeFrame' = "none"
             /\ UNCHANGED <<toDesk, lateReplies>>
        BY <2>1, <2>2, <2>3, <2>5
  <2> QED
      BY <1>1, <2>4, <2>5 DEF onCommand, onPong
<1>2. CASE Esp(onClose)
      BY <1>2 DEF onClose
<1> QED
    BY <1>1, <1>2

(* The rest moves no reply while the link is up.                           *)
LEMMA OthersIInv ==
    ASSUME IInv,
           \/ Esp(websocketAppStart) \/ Esp(takeSemaphore) \/ Esp(closeClient)
           \/ Esp(destroyClient) \/ Esp(clientConnects(Listening))
           \/ Esp(clientDisconnects) \/ Esp(clientPings) \/ Esp(clientStops)
           \/ Esp(resetTimer) \/ Esp(tick) \/ Esp(EspPowerCycles)
           \/ StreamAnswersPing \/ StreamAnswersClose \/ NetworkBreaks
    PROVE  IInv'
<1> USE WsAssumption, TimeoutAssumption
<1> USE DEF IInv, TypeOK, AppTypeOK, EspTypeOK, LinkTypeOK, IOResultType,
            NothingEarly, Early, AnsweredIsClosed, RepliesConserved, Esp,
            LinkStates, linkVars, appVars, ioVars, uiVars, callerVars,
            taskVars, timeoutVars, controlVars, histVars
<1>1. CASE Esp(websocketAppStart) \/ Esp(takeSemaphore)
      BY <1>1 DEF websocketAppStart, takeSemaphore
<1>2. CASE Esp(closeClient)
      BY <1>2 DEF closeClient
<1>3. CASE Esp(destroyClient) \/ Esp(clientStops)
      BY <1>3 DEF destroyClient, clientStops
<1>4. CASE Esp(clientConnects(Listening))
      BY <1>4 DEF clientConnects
<1>5. CASE Esp(clientDisconnects) \/ Esp(clientPings)
      BY <1>5 DEF clientDisconnects, clientPings
<1>6. CASE Esp(resetTimer)
      BY <1>6 DEF resetTimer
<1>7. CASE Esp(tick)
      BY <1>7 DEF tick
<1>8. CASE Esp(EspPowerCycles)
  <2>1. /\ UNCHANGED appVars
        /\ mainPc' = "start" /\ client' = "none" /\ handlerPc' = "idle"
        /\ shutdownSema' = 0 /\ shutdownTimer' = 0 /\ silence' = 0
        /\ pings' = 0 /\ pongs' = 0 /\ closeFrame' = "none"
        /\ link' = (IF link \in {"pending", "open"} THEN "lost" ELSE link)
        /\ toEsp' = 0 /\ toDesk' = toDesk
        /\ pongReplies' = pongReplies /\ lateReplies' = lateReplies
        BY <1>8 DEF EspPowerCycles
  <2>2. heard' \in BOOLEAN /\ ~heard'
        BY <1>8, Zenon DEF EspPowerCycles
  <2>3. TypeOK'
        BY <2>1, <2>2
  <2>4. link' \in {"none", "pending", "open"} => link = "none" /\ link' = "none"
        BY <2>1
  <2>5. NothingEarly' /\ RepliesConserved'
        BY <2>1, <2>2, <2>4
  <2> QED
      BY <2>1, <2>3, <2>5
<1>9. CASE StreamAnswersPing \/ StreamAnswersClose
      BY <1>9 DEF StreamAnswersPing, StreamAnswersClose
<1>10. CASE NetworkBreaks
      BY <1>10 DEF NetworkBreaks, LinkBreaks
<1> QED
    BY <1>1, <1>2, <1>3, <1>4, <1>5, <1>6, <1>7, <1>8, <1>9, <1>10

(* The inductive invariant holds in every reachable state.                 *)
THEOREM Inductive == Spec => []IInv
<1>1. Init => IInv
      BY InitIInv
<1>2. IInv /\ [Next]_vars => IInv'
  <2>1. ASSUME IInv, UNCHANGED vars PROVE IInv'
        BY <2>1 DEF IInv, TypeOK, AppTypeOK, EspTypeOK, LinkTypeOK, NothingEarly,
                    Early, AnsweredIsClosed, RepliesConserved, vars, appVars,
                    ioVars, uiVars, callerVars, espVars, taskVars, timeoutVars,
                    controlVars, histVars, linkVars
  <2> QED
      BY <2>1, FrameIInv, HandlersIInv, EventsIInv, OthersIInv DEF Next
<1> QED
    BY <1>1, <1>2, PTL DEF Spec

-----------------------------------------------------------------------------
(* The timeout.                                                            *)

(* Once there has been data, the main task is not left waiting without     *)
(* anything on its way that will wake it.                                  *)
TimeoutKept ==
    heard /\ mainPc = "xSemaphoreTake" =>
        shutdownTimer > 0 \/ shutdownSema = 1 \/ handlerPc = "xTimerReset"

(* Between two events, the timer has run for no longer than the silence.   *)
TimerFollows ==
    handlerPc = "idle" /\ shutdownTimer > 0 =>
        shutdownTimer + silence >= NoDataTimeout

(* Before the start there are no events.                                   *)
QuietBeforeStart == mainPc = "start" => ~heard /\ client = "none"

TimeoutInv == TimeoutKept /\ TimerFollows /\ QuietBeforeStart

(* The desktop and the network do not touch the timeout.                   *)
LEMMA DesktopTimeout ==
    ASSUME TimeoutInv, UNCHANGED <<taskVars, timeoutVars, heard, silence>>
    PROVE  TimeoutInv'
    BY DEF TimeoutInv, TimeoutKept, TimerFollows, QuietBeforeStart, taskVars,
           timeoutVars

(* An event ends with the timer at the full timeout, a tick takes as much  *)
(* from the timer as it adds to the silence.                               *)
LEMMA EspTimeout ==
    ASSUME EspTypeOK, TimeoutInv,
           \/ websocketAppStart \/ takeSemaphore \/ closeClient \/ destroyClient
           \/ clientConnects(Listening) \/ clientDisconnects \/ clientPings
           \/ onCommand \/ onPong \/ onClose \/ clientStops \/ resetTimer
           \/ tick \/ EspPowerCycles
    PROVE  TimeoutInv'
<1> USE TimeoutAssumption
<1> USE DEF TimeoutInv, TimeoutKept, TimerFollows, QuietBeforeStart, EspTypeOK,
            taskVars, timeoutVars, histVars
<1>1. CASE websocketAppStart \/ takeSemaphore
      BY <1>1 DEF websocketAppStart, takeSemaphore
<1>2. CASE closeClient \/ destroyClient \/ clientStops
      BY <1>2 DEF closeClient, destroyClient, clientStops
<1>3. CASE clientConnects(Listening) \/ clientDisconnects \/ clientPings
      BY <1>3 DEF clientConnects, clientDisconnects, clientPings
<1>4. CASE onCommand
      BY <1>4 DEF onCommand, dataEvent
<1>5. CASE onPong \/ onClose
      BY <1>5 DEF onPong, onClose, dataEvent
<1>6. CASE resetTimer
      BY <1>6 DEF resetTimer
<1>7. CASE tick
      BY <1>7 DEF tick
<1>8. CASE EspPowerCycles
  <2>1. /\ mainPc' = "start" /\ client' = "none" /\ shutdownTimer' = 0
        /\ heard' = FALSE
        BY <1>8, Zenon DEF EspPowerCycles
  <2> QED
      BY <2>1
<1> QED
    BY <1>1, <1>2, <1>3, <1>4, <1>5, <1>6, <1>7, <1>8

(* Only the ESP32 moves the timeout.                                       *)
LEMMA NextTimeout == IInv /\ TimeoutInv /\ [Next]_vars => TimeoutInv'
<1> SUFFICES ASSUME IInv, TimeoutInv, [Next]_vars PROVE TimeoutInv'
    OBVIOUS
<1>1. EspTypeOK
      BY DEF IInv, TypeOK
<1>2. CASE UNCHANGED <<taskVars, timeoutVars, heard, silence>>
      BY <1>2, DesktopTimeout
<1>3. CASE \/ websocketAppStart \/ takeSemaphore \/ closeClient \/ destroyClient
           \/ clientConnects(Listening) \/ clientDisconnects \/ clientPings
           \/ onCommand \/ onPong \/ onClose \/ clientStops \/ resetTimer
           \/ tick \/ EspPowerCycles
      BY <1>1, <1>3, EspTimeout
<1>4. CASE StreamAnswersPing \/ StreamAnswersClose \/ NetworkBreaks
  <2>1. UNCHANGED <<taskVars, timeoutVars, heard, silence>>
        BY <1>4 DEF StreamAnswersPing, StreamAnswersClose, NetworkBreaks, histVars
  <2> QED
      BY <1>2, <2>1
<1>5. CASE UNCHANGED espVars
      BY <1>2, <1>5 DEF espVars, histVars
<1>6. UNCHANGED vars => UNCHANGED espVars
      BY DEF vars
<1> QED
    BY <1>3, <1>4, <1>5, <1>6 DEF Next, App, Esp

(* The three hold in every reachable state.                                *)
THEOREM TimeoutInductive == Spec => []TimeoutInv
<1>1. Init => TimeoutInv
  <2> SUFFICES ASSUME Init PROVE TimeoutInv
      OBVIOUS
  <2>1. heard = FALSE /\ client = "none" /\ shutdownTimer = 0
        BY Zenon DEF Init, EspInit
  <2> QED
      BY <2>1 DEF TimeoutInv, TimeoutKept, TimerFollows, QuietBeforeStart
<1> QED
    BY <1>1, NextTimeout, Inductive, PTL DEF Spec

(* A timeout is never lost: once there has been data, either the timer     *)
(* runs, or the event that starts it is being handled, or the main task is *)
(* about to be woken (websocketEventHandler, shutdownSignaler).            *)
THEOREM TimeoutNeverLost == Spec => []TimeoutKept
<1>1. TimeoutInv => TimeoutKept
      BY DEF TimeoutInv
<1> QED
    BY <1>1, TimeoutInductive, PTL

(* Between two events the main task is signalled only after a whole        *)
(* timeout of silence (shutdownSignaler).                                  *)
THEOREM SignalledAfterSilence == Spec => SilenceBetweenEvents
<1>1. ASSUME IInv, TimeoutInv, [Next]_vars
      PROVE  [shutdownSema = 0 /\ shutdownSema' = 1 /\ handlerPc = "idle"
                => silence' = NoDataTimeout]_vars
  <2> SUFFICES ASSUME shutdownSema = 0, shutdownSema' = 1, handlerPc = "idle", Next
               PROVE  silence' = NoDataTimeout
      BY <1>1 DEF vars, espVars, timeoutVars
  <2>1. tick
    <3> USE DEF timeoutVars, espVars
    <3>1. shutdownSema' # shutdownSema
          OBVIOUS
    <3>2. ASSUME \/ websocketAppStart \/ takeSemaphore \/ closeClient \/ destroyClient
                 \/ clientConnects(Listening) \/ clientDisconnects \/ clientPings
                 \/ onCommand \/ onPong \/ onClose \/ clientStops \/ resetTimer
          PROVE  FALSE
          BY <3>2 DEF websocketAppStart, takeSemaphore, closeClient, destroyClient,
             clientConnects, clientDisconnects, clientPings, onCommand, onPong, onClose,
             clientStops, dataEvent, resetTimer
    <3>3. ~EspPowerCycles /\ ~StreamAnswersPing /\ ~StreamAnswersClose /\ ~NetworkBreaks
          BY DEF EspPowerCycles, StreamAnswersPing, StreamAnswersClose, NetworkBreaks
    <3>4. ~UNCHANGED espVars
          BY <3>1
    <3> QED
        BY <3>2, <3>3, <3>4 DEF Next, App, Esp
  <2>2. shutdownTimer = 1
        BY <2>1 DEF tick
  <2>3. 1 + silence >= NoDataTimeout /\ silence \in 0..NoDataTimeout
        BY <1>1, <2>2 DEF TimeoutInv, TimerFollows, IInv, TypeOK, EspTypeOK
  <2> QED
      BY <2>1, <2>3, TimeoutAssumption DEF tick
<1> QED
    BY <1>1, Inductive, TimeoutInductive, PTL DEF Spec, SilenceBetweenEvents

-----------------------------------------------------------------------------
(* Type correctness of both programs and their connection.                 *)
THEOREM TypeCorrect == Spec => []TypeOK
<1>1. IInv => TypeOK
      BY DEF IInv
<1> QED
    BY <1>1, Inductive, PTL

(* No reply is lost or duplicated while the link is up                     *)
(* (websocketEventHandler, processIOResults).                              *)
THEOREM NoReplyLost == Spec => []RepliesConserved
<1>1. IInv => RepliesConserved
      BY DEF IInv
<1> QED
    BY <1>1, Inductive, PTL
-----------------------------------------------------------------------------
(* The ESP32 is a peer that DesktopOpen reckons with, so that what is      *)
(* proved there holds here: it answers commands and pongs.                 *)
Desktop == INSTANCE DesktopProofs WITH MaxReplies <- MaxClicks + MaxPongs

ImplementsDesktop == Desktop!Spec

(* There are as many pongs as pings, of which there are at most MaxPongs.  *)
PongsBounded == pongReplies + pings + pongs <= MaxPongs

(* A ping becomes a pong, and a pong a reply.                              *)
LEMMA NextPongs == IInv /\ PongsBounded /\ [Next]_vars => PongsBounded'
<1> SUFFICES ASSUME IInv, PongsBounded, [Next]_vars PROVE PongsBounded'
    OBVIOUS
<1> USE MaxPongsAssumption DEF PongsBounded
<1>1. pings \in 0..1 /\ pongs \in 0..1 /\ pongReplies \in Nat
      BY DEF IInv, TypeOK, EspTypeOK
<1>2. CASE UNCHANGED <<pings, pongs, pongReplies>>
      BY <1>2
<1>3. CASE clientPings
      BY <1>1, <1>3 DEF clientPings, histVars
<1>4. CASE onPong
      BY <1>1, <1>4 DEF onPong
<1>5. CASE StreamAnswersPing \/ StreamAnswersClose \/ NetworkBreaks \/ EspPowerCycles
      BY <1>1, <1>5 DEF StreamAnswersPing, StreamAnswersClose, NetworkBreaks,
                        EspPowerCycles, histVars
<1>6. CASE \/ websocketAppStart \/ takeSemaphore \/ closeClient \/ destroyClient
           \/ clientConnects(Listening) \/ clientDisconnects \/ clientStops
           \/ resetTimer \/ tick
      BY <1>2, <1>6 DEF websocketAppStart, takeSemaphore, closeClient, destroyClient,
         clientConnects, clientDisconnects, clientStops, resetTimer, tick, controlVars, histVars
<1>7. CASE onCommand \/ onClose
      BY <1>2, <1>7 DEF onCommand, onClose, controlVars
<1>8. CASE UNCHANGED espVars
      BY <1>2, <1>8 DEF espVars, controlVars, histVars
<1>9. UNCHANGED vars => UNCHANGED espVars
      BY DEF vars
<1> QED
    BY <1>3, <1>4, <1>5, <1>6, <1>7, <1>8, <1>9 DEF Next, App, Esp

(* Every handler is the same handler there.                                *)
LEMMA HandlersOfDesktop ==
    ASSUME \/ App(AcceptFails) \/ App(AcceptCancelled) \/ App(Accept)
           \/ App(Handshake) \/ App(ReadCompletes) \/ App(ReadFails)
           \/ App(WriteCompletes) \/ App(WriteHandled) \/ App(Frame) \/ App(Stop)
           \/ App(RequestStop)
    PROVE  Desktop!Next
<1> USE DEF ioVars, uiVars, callerVars, linkVars, Push, NoResults, IOResultType,
            Desktop!ioVars, Desktop!uiVars, Desktop!callerVars, Desktop!linkVars,
            Desktop!Push, Desktop!NoResults, Desktop!IOResultType
<1>1. App(AcceptFails) => Desktop!AcceptFails
      BY DEF App, AcceptFails, Desktop!AcceptFails
<1>2. App(AcceptCancelled) => Desktop!AcceptCancelled
      BY DEF App, AcceptCancelled, Desktop!AcceptCancelled
<1>3. App(Accept) => Desktop!Accept
      BY DEF App, Accept, Desktop!Accept
<1>4. App(Handshake) => Desktop!HandshakeDone \/ Desktop!HandshakeFails
      BY DEF App, Handshake, HandshakeDone, HandshakeBroken, HandshakeFails,
             Desktop!HandshakeDone, Desktop!HandshakeFails
<1>5. App(ReadCompletes) => Desktop!ReadCompletes
      BY DEF App, ReadCompletes, Desktop!ReadCompletes
<1>6. App(ReadFails) => Desktop!ReadFails
      BY DEF App, ReadFails, ReadEnds, EndOfStream,
             Desktop!ReadFails, Desktop!ReadEnds, Desktop!EndOfStream
<1>7. App(WriteCompletes) => Desktop!WriteCompletes
      BY DEF App, WriteCompletes, Desktop!WriteCompletes
<1>7a. App(WriteHandled) => Desktop!WriteHandled
      BY DEF App, WriteHandled, Desktop!WriteHandled
<1>8. App(Frame) => Desktop!Frame
      BY DEF App, Frame, processUiEvents, processIOResults, render, StopRequested,
             Desktop!Frame, Desktop!processUiEvents, Desktop!processIOResults,
             Desktop!render, Desktop!StopRequested
<1>9. App(Stop) => Desktop!Stop
      BY DEF App, Stop, StopRequested, Desktop!Stop, Desktop!StopRequested
<1>10. App(RequestStop) => Desktop!RequestStop
      BY DEF App, RequestStop, Desktop!RequestStop
<1> QED
    BY <1>1, <1>2, <1>3, <1>4, <1>5, <1>6, <1>7, <1>7a, <1>8, <1>9, <1>10
    DEF Desktop!Next

(* One of three numbers that have a bound together.                        *)
LEMMA AtMost ==
    ASSUME NEW n \in Nat, NEW a \in 0..1, NEW b \in 0..1, n + a + b <= MaxPongs
    PROVE  n <= MaxPongs
BY MaxPongsAssumption

(* A data event reads at most one command and sends at most one reply, for *)
(* which there is a command or a pong; or it ends the connection.          *)
LEMMA AnswersOfPeer ==
    ASSUME IInv, IInv', PongsBounded', Esp(onCommand) \/ Esp(onPong)
    PROVE  [Desktop!Next]_(Desktop!vars)
<1> USE WsAssumption, MaxClicksAssumption, MaxPongsAssumption
<1> USE DEF Desktop!vars, Desktop!appVars, Desktop!ioVars, Desktop!uiVars,
            Desktop!callerVars, Desktop!linkVars, appVars, ioVars, uiVars, callerVars
<1>1. toEsp \in Nat /\ toDesk \in Nat
      BY DEF IInv, TypeOK, LinkTypeOK
<1>2. /\ UNCHANGED appVars /\ sendReply
      /\ toEsp' = toEsp \/ (toEsp > 0 /\ toEsp' = toEsp - 1)
      BY <1>1 DEF Esp, onCommand, onPong
<1>3. toEsp' \in 0..toEsp /\ (toEsp' # toEsp => toEsp > 0 /\ toEsp' \in 0..(toEsp - 1))
      BY <1>1, <1>2
<1>4. CASE link = "open" /\ toDesk' = toDesk + ReplyLen /\ link' = link
  <2>1. /\ latencies \in Nat /\ ioResults["MSG_RECEIVED"] \in Nat
        /\ commands \in Nat /\ writes \in Nat /\ pongReplies' \in Nat /\ lateReplies' \in Nat
        /\ pings' \in 0..1 /\ pongs' \in 0..1 /\ commands <= MaxClicks /\ toEsp' \in Nat
        BY DEF IInv, TypeOK, AppTypeOK, EspTypeOK, LinkTypeOK, IOResultType
  <2>2. commands + pongReplies'
          = latencies + writes + toEsp' + toDesk' + ioResults["MSG_RECEIVED"] + lateReplies'
        BY <1>2, <1>4 DEF IInv, RepliesConserved
  <2>3. pongReplies' <= MaxPongs
    <3>1. pongReplies' + pings' + pongs' <= MaxPongs
          BY DEF PongsBounded
    <3> QED
        BY <2>1, <3>1, AtMost
  <2>4. toDesk' + (latencies + ioResults["MSG_RECEIVED"]) * ReplyLen
          <= (MaxClicks + MaxPongs) * ReplyLen
        BY <1>1, <1>4, <2>1, <2>2, <2>3
  <2>5. toDesk' \in (toDesk + 1)..(toDesk + ReplyLen)
        BY <1>1, <1>4
  <2>6. Desktop!PeerSends
        BY <1>2, <1>3, <1>4, <2>4, <2>5 DEF Desktop!PeerSends
  <2> QED
      BY <2>6 DEF Desktop!Next
<1>5. CASE link = "open" /\ toDesk' = toDesk /\ link' = "closed"
  <2>1. Desktop!PeerLeaves
        BY <1>1, <1>2, <1>3, <1>5 DEF Desktop!PeerLeaves
  <2> QED
      BY <2>1 DEF Desktop!Next
<1>6. CASE toDesk' = toDesk /\ link' = link
  <2>1. Desktop!PeerReads \/ UNCHANGED Desktop!vars
        BY <1>2, <1>3, <1>6 DEF Desktop!PeerReads
  <2> QED
      BY <2>1 DEF Desktop!Next
<1> QED
    BY <1>2, <1>4, <1>5, <1>6 DEF sendReply, replySent

(* Whatever else the ESP32 and the network do, an arbitrary peer may do.   *)
LEMMA StepsOfPeer ==
    ASSUME IInv,
           \/ Esp(websocketAppStart) \/ Esp(takeSemaphore) \/ Esp(closeClient)
           \/ Esp(destroyClient) \/ Esp(clientConnects(Listening))
           \/ Esp(clientDisconnects) \/ Esp(clientPings) \/ Esp(onClose)
           \/ Esp(clientStops) \/ Esp(resetTimer) \/ Esp(tick) \/ Esp(EspPowerCycles)
           \/ StreamAnswersPing \/ StreamAnswersClose \/ NetworkBreaks
    PROVE  [Desktop!Next]_(Desktop!vars)
<1> USE DEF Desktop!vars, Desktop!appVars, Desktop!ioVars, Desktop!uiVars,
            Desktop!callerVars, Desktop!linkVars,
            appVars, ioVars, uiVars, callerVars, linkVars
<1>1. toEsp \in Nat /\ toDesk \in Nat
      BY DEF IInv, TypeOK, LinkTypeOK
<1>2. CASE \/ Esp(websocketAppStart) \/ Esp(takeSemaphore) \/ Esp(closeClient)
           \/ Esp(destroyClient) \/ Esp(clientDisconnects) \/ Esp(clientPings)
           \/ Esp(onClose) \/ Esp(clientStops) \/ Esp(resetTimer) \/ Esp(tick)
           \/ StreamAnswersPing
      BY <1>2 DEF Esp, websocketAppStart, takeSemaphore, closeClient, destroyClient,
         clientDisconnects, clientPings, onClose, clientStops, resetTimer, tick,
         StreamAnswersPing
<1>3. CASE StreamAnswersClose
  <2>1. Desktop!PeerLeaves
        BY <1>1, <1>3 DEF StreamAnswersClose, Desktop!PeerLeaves
  <2> QED
      BY <2>1 DEF Desktop!Next
<1>4. CASE Esp(clientConnects(Listening))
  <2>1. Desktop!PeerConnects
        BY <1>4 DEF Esp, clientConnects, Listening, Desktop!PeerConnects
  <2> QED
      BY <2>1 DEF Desktop!Next
<1>5. CASE Esp(EspPowerCycles)
  <2>1. /\ link' = IF link \in {"pending", "open"} THEN "lost" ELSE link
        /\ toEsp' = 0 /\ UNCHANGED <<appVars, toDesk>>
        BY <1>5 DEF Esp, EspPowerCycles
  <2>2. CASE link \in {"pending", "open"}
        BY <1>1, <2>1, <2>2 DEF Desktop!Next, Desktop!PeerLeaves
  <2>3. CASE link \notin {"pending", "open"} /\ toEsp > 0
        BY <1>1, <2>1, <2>3 DEF Desktop!Next, Desktop!PeerReads
  <2>4. CASE link \notin {"pending", "open"} /\ toEsp = 0
        BY <2>1, <2>4
  <2> QED
      BY <1>1, <2>2, <2>3, <2>4
<1>6. CASE NetworkBreaks
  <2>1. UNCHANGED appVars /\ (UNCHANGED linkVars \/ \E to \in {"closed", "lost"} : LinkBreaks(to))
        BY <1>6 DEF NetworkBreaks
  <2>2. Desktop!PeerLeaves \/ UNCHANGED Desktop!vars
        BY <1>1, <2>1 DEF LinkBreaks, Desktop!PeerLeaves
  <2> QED
      BY <2>2 DEF Desktop!Next
<1> QED
    BY <1>2, <1>3, <1>4, <1>5, <1>6

(* The io_context is as fair to one as to the other.                       *)
LEMMA SameFairness == AppFairness => Desktop!AppFairness
BY PTL
DEF AppFairness, Desktop!AppFairness,
    appVars, ioVars, uiVars, callerVars, linkVars, IOResultType, NoResults, Push,
    Desktop!appVars, Desktop!ioVars, Desktop!uiVars, Desktop!callerVars, Desktop!linkVars,
    Desktop!IOResultType, Desktop!NoResults, Desktop!Push,
    runAppLoop, Frame, Stop, StopRequested, processUiEvents, processIOResults, render,
    Desktop!runAppLoop, Desktop!Frame, Desktop!Stop, Desktop!StopRequested,
    Desktop!processUiEvents, Desktop!processIOResults, Desktop!render,
    Accept, HandshakeBroken, HandshakeFails, ReadCompletes, ReadFails, ReadEnds,
    EndOfStream, WriteCompletes, WriteHandled,
    Desktop!Accept, Desktop!HandshakeBroken, Desktop!HandshakeFails,
    Desktop!ReadCompletes, Desktop!ReadFails, Desktop!ReadEnds, Desktop!EndOfStream,
    Desktop!WriteCompletes, Desktop!WriteHandled

(* The desktop of the WebSocket benchmark is the desktop with an arbitrary *)
(* peer, fairness included: everything shown of DesktopOpen holds here.    *)
THEOREM IsDesktop == Spec => ImplementsDesktop
<1>1. Init => Desktop!Init /\ PongsBounded
      BY MaxPongsAssumption
      DEF Init, AppInit, EspInit, LinkInit, NoResults, IOResultType, Desktop!Init,
          Desktop!AppInit, Desktop!LinkInit, Desktop!NoResults, Desktop!IOResultType,
          PongsBounded
<1>2. IInv /\ IInv' /\ PongsBounded' /\ [Next]_vars => [Desktop!Next]_(Desktop!vars)
  <2>1. UNCHANGED vars => UNCHANGED Desktop!vars
        BY DEF vars, appVars, ioVars, uiVars, callerVars, linkVars, Desktop!vars,
               Desktop!appVars, Desktop!ioVars, Desktop!uiVars, Desktop!callerVars,
               Desktop!linkVars
  <2> QED
      BY <2>1, HandlersOfDesktop, AnswersOfPeer, StepsOfPeer DEF Next
<1> QED
    BY <1>1, <1>2, NextPongs, Inductive, SameFairness, PTL
    DEF Spec, ImplementsDesktop, Desktop!Spec

(* What DesktopProofs asks of the constants.                               *)
LEMMA DesktopAssumptions ==
    /\ Desktop!LengthsAssumption
    /\ Desktop!ConnTypesAssumption
    /\ Desktop!MaxClicksAssumption
    /\ Desktop!MaxRepliesAssumption
BY LengthsAssumption, ConnTypesAssumption, MaxClicksAssumption, MaxPongsAssumption
DEF Desktop!LengthsAssumption, Desktop!ConnTypesAssumption, Desktop!MaxClicksAssumption,
    Desktop!MaxRepliesAssumption, ConnectionType, Desktop!ConnectionType

NoEmptyMessage == readEnded # "empty"

(* The ESP32's client sends no message without text.                       *)
LEMMA RepliesHaveText == Spec => []NoEmptyMessage
<1>1. Init => NoEmptyMessage
      BY DEF Init, AppInit, NoEmptyMessage
<1>2. NoEmptyMessage /\ [Next]_vars => NoEmptyMessage'
      BY DEF Next, vars, App, Esp, appVars, ioVars, AcceptFails, AcceptCancelled,
             Accept, Handshake, HandshakeDone, HandshakeBroken, HandshakeFails,
             ReadCompletes, ReadFails, ReadEnds, WriteCompletes, WriteHandled, Frame,
             Stop, RequestStop, StreamAnswersPing, StreamAnswersClose, NetworkBreaks,
             NoEmptyMessage
<1> QED
    BY <1>1, <1>2, PTL DEF Spec

(* The WebSocket stream is read to its end: no handler forgets the next    *)
(* read.                                                                   *)
ReadsToTheEnd ==
    connected /\ phase = "running" /\ ~EndOfStream => Desktop!ReadingOrRead = 1

(* With this peer as with any other there is one read, a click finds its   *)
(* stream, and commands do not overlap; and as the ESP32 sends no empty    *)
(* message, there is no gap in the chain of reads before the stream's end  *)
(* (runAppLoop, processIOResults, the read handlers).                      *)
THEOREM DesktopStaysSafe ==
    Spec => /\ [](Desktop!OneReadInFlight /\ ReadsToTheEnd)
            /\ [](Desktop!ClickIsSendable /\ Desktop!LifeCycle)
            /\ Desktop!CommandsDoNotOverlap
<1>1. Desktop!ReadChainUnbroken /\ NoEmptyMessage => ReadsToTheEnd
      BY DEF Desktop!ReadChainUnbroken, Desktop!EndOfStream, EndOfStream,
             NoEmptyMessage, ReadsToTheEnd
<1> QED
    BY <1>1, RepliesHaveText, IsDesktop, DesktopAssumptions, Desktop!NeverTwoReads,
       Desktop!KeepsReading, Desktop!NeverSendsOnNull, Desktop!LivesInOrder,
       Desktop!OneCommandAtATime, PTL
    DEF ImplementsDesktop

-----------------------------------------------------------------------------
(* The end of a connection that the timeout closes.                        *)

(* The client runs from its start until the main task closes it.           *)
ClientRuns == mainPc \in {"xSemaphoreTake", "close"} => client \in {"connecting", "linked"}

(* A client that ends, or has ended, leaves no reply behind.               *)
EndsClean ==
    \/ client = "stopping"
    \/ client = "none" /\ mainPc = "join"
    \/ mainPc = "returned"
    => link = "closed" /\ toDesk = 0

CleanInv == ClientRuns /\ EndsClean

(* Nothing is put on a closed connection, which stays closed.              *)
LEMMA ClosedStays ==
    ASSUME IInv, link = "closed", [Next]_vars
    PROVE  link' = "closed" /\ toDesk' \in 0..toDesk
<1> USE WsAssumption
<1>1. toDesk \in Nat
      BY DEF IInv, TypeOK, LinkTypeOK
<1>2. CASE \/ App(AcceptFails) \/ App(AcceptCancelled) \/ App(Accept)
           \/ App(Handshake) \/ App(ReadCompletes) \/ App(ReadFails)
           \/ App(WriteCompletes) \/ App(WriteHandled) \/ App(Frame) \/ App(Stop)
           \/ App(RequestStop)
      BY <1>1, <1>2 DEF App, AcceptFails, AcceptCancelled, Accept, Handshake,
         HandshakeDone, HandshakeBroken, HandshakeFails, ReadCompletes, ReadFails,
         ReadEnds, WriteCompletes, WriteHandled, Frame, Stop, RequestStop, linkVars
<1>3. CASE Esp(onCommand) \/ Esp(onPong)
      BY <1>1, <1>3 DEF Esp, onCommand, onPong, sendReply, replySent
<1>4. CASE \/ Esp(websocketAppStart) \/ Esp(takeSemaphore) \/ Esp(closeClient)
           \/ Esp(destroyClient) \/ Esp(clientConnects(Listening))
           \/ Esp(clientDisconnects) \/ Esp(clientPings) \/ Esp(onClose)
           \/ Esp(clientStops) \/ Esp(resetTimer) \/ Esp(tick) \/ Esp(EspPowerCycles)
      BY <1>1, <1>4 DEF Esp, websocketAppStart, takeSemaphore, closeClient,
         destroyClient, clientConnects, clientDisconnects, clientPings, onClose,
         clientStops, resetTimer, tick, EspPowerCycles, linkVars
<1>5. CASE StreamAnswersPing \/ StreamAnswersClose \/ NetworkBreaks \/ UNCHANGED vars
      BY <1>1, <1>5 DEF StreamAnswersPing, StreamAnswersClose, NetworkBreaks, LinkBreaks,
         vars, linkVars
<1> QED
    BY <1>2, <1>3, <1>4, <1>5 DEF Next

(* The client ends in one way only, upon the desktop's answer.             *)
LEMMA NextClean == IInv /\ CleanInv /\ [Next]_vars => CleanInv'
<1> SUFFICES ASSUME IInv, CleanInv, [Next]_vars PROVE CleanInv'
    OBVIOUS
<1> USE DEF CleanInv, ClientRuns, EndsClean
<1>1. toDesk \in Nat
      BY DEF IInv, TypeOK, LinkTypeOK
<1>2. link = "closed" /\ toDesk = 0 => link' = "closed" /\ toDesk' = 0
      BY ClosedStays
<1>3. CASE UNCHANGED <<mainPc, client>>
      BY <1>2, <1>3
<1>4. CASE websocketAppStart \/ takeSemaphore \/ closeClient \/ destroyClient
      BY <1>2, <1>4 DEF websocketAppStart, takeSemaphore, closeClient, destroyClient
<1>5. CASE clientConnects(Listening) \/ clientDisconnects \/ clientStops \/ EspPowerCycles
      BY <1>2, <1>5 DEF clientConnects, clientDisconnects, clientStops, EspPowerCycles
<1>6. CASE onClose
      BY <1>2, <1>6 DEF onClose, dataEvent, IInv, AnsweredIsClosed, linkVars
<1>7. CASE clientPings \/ onCommand \/ onPong \/ resetTimer \/ tick
      BY <1>3, <1>7 DEF clientPings, onCommand, onPong, dataEvent, resetTimer, tick, taskVars
<1>8. CASE StreamAnswersPing \/ StreamAnswersClose \/ NetworkBreaks \/ UNCHANGED espVars
      BY <1>3, <1>8 DEF StreamAnswersPing, StreamAnswersClose, NetworkBreaks, espVars, taskVars
<1>9. UNCHANGED vars => UNCHANGED espVars
      BY DEF vars
<1> QED
    BY <1>4, <1>5, <1>6, <1>7, <1>8, <1>9 DEF Next, App, Esp

(* It holds in every reachable state.                                      *)
LEMMA CleanInductive == Spec => []CleanInv
<1>1. Init => CleanInv
      BY DEF Init, EspInit, CleanInv, ClientRuns, EndsClean
<1> QED
    BY <1>1, NextClean, Inductive, PTL DEF Spec

(* When the variant returns, the desktop has read every reply that was     *)
(* sent before the close frame, and knows that the connection is over      *)
(* (websocketAppStart).                                                    *)
THEOREM ReturnsInOrder == Spec => []ReturnsCleanly
<1>1. CleanInv => ReturnsCleanly
      BY DEF CleanInv, EndsClean, ReturnsCleanly
<1> QED
    BY <1>1, CleanInductive, PTL

(* The main task closes the client because of a timer that data started.   *)
WokenByData ==
    \/ shutdownTimer > 0
    \/ shutdownSema = 1
    \/ handlerPc = "xTimerReset"
    \/ mainPc \in {"close", "join"}
    => heard

(* On an open connection data comes from a desktop that is connected.      *)
SentByConnected ==
    \/ writes > 0
    \/ link = "open" /\ (toEsp > 0 \/ pongs > 0 \/ heard)
    => connected

(* A desktop that has ended has closed the connection and its port.        *)
EndedIsClosed ==
    phase \in {"exited", "aborted"} =>
        link \notin {"pending", "open"} /\ acceptor = "closed"

(* A close frame is sent on an open connection to a desktop that is        *)
(* connected, and is gone when the connection is lost.                     *)
FrameArrives == closeFrame = "sent" => link = "closed" \/ (link = "open" /\ connected)

(* The client that is being closed has sent its close frame, or knows that *)
(* the connection has failed.                                              *)
ClosingByFrame ==
    /\ client = "closing" /\ closeFrame = "none" => link \in {"closed", "lost"}
    /\ mainPc = "join" => client # "linked"

EndInv == /\ WokenByData
          /\ SentByConnected
          /\ EndedIsClosed
          /\ FrameArrives
          /\ ClosingByFrame

(* What is known of the desktop, whatever its peer.                        *)
DesktopInv == Desktop!ClickIsSendable /\ Desktop!LifeCycle

(* The desktop's handlers end with the connection, or leave it open.       *)
LEMMA HandlersEnd ==
    ASSUME IInv, DesktopInv, EndInv,
           \/ App(AcceptFails) \/ App(AcceptCancelled) \/ App(Accept)
           \/ App(Handshake) \/ App(ReadCompletes) \/ App(ReadFails)
           \/ App(WriteCompletes) \/ App(WriteHandled) \/ App(Frame) \/ App(Stop)
           \/ App(RequestStop)
    PROVE  EndInv'
<1> USE DEF EndInv, WokenByData, SentByConnected, EndedIsClosed, FrameArrives,
            ClosingByFrame
<1>1. UNCHANGED <<mainPc, client, handlerPc, shutdownSema, shutdownTimer>>
      /\ UNCHANGED <<pongs, closeFrame, heard>>
      BY DEF App, espVars, taskVars, timeoutVars, controlVars, histVars
<1>2. CASE App(AcceptFails) \/ App(AcceptCancelled) \/ App(Accept)
      BY <1>1, <1>2 DEF App, AcceptFails, AcceptCancelled, Accept, uiVars, IInv,
         NothingEarly, Early
<1>3. CASE App(Handshake)
      BY <1>1, <1>3 DEF App, Handshake, HandshakeDone, HandshakeBroken, HandshakeFails,
         DesktopInv, Desktop!LifeCycle, ioVars, uiVars, linkVars
<1>4. CASE App(ReadCompletes) \/ App(ReadFails) \/ App(WriteHandled) \/ App(RequestStop)
      BY <1>1, <1>4 DEF App, ReadCompletes, ReadFails, ReadEnds, WriteHandled,
         RequestStop, ioVars, uiVars, linkVars, IInv, TypeOK, AppTypeOK
<1>5. CASE App(WriteCompletes)
      BY <1>1, <1>5 DEF App, WriteCompletes, uiVars
<1>6. CASE App(Frame)
  <2>1. /\ UNCHANGED <<phase, acceptor, link, toEsp>>
        /\ connected' = IF ioResults["CONNECTED"] > 0 THEN TRUE ELSE connected
        /\ writes' = writes + uiEvents
        BY <1>6 DEF App, Frame, processUiEvents, processIOResults, linkVars
  <2>2. uiEvents \in 0..1 /\ writes \in Nat /\ (uiEvents > 0 => connected)
        BY DEF DesktopInv, Desktop!ClickIsSendable, IInv, TypeOK, AppTypeOK
  <2> QED
      BY <1>1, <2>1, <2>2
<1>7. CASE App(Stop)
      BY <1>1, <1>7 DEF App, Stop
<1> QED
    BY <1>2, <1>3, <1>4, <1>5, <1>6, <1>7

(* The ESP32 closes what it has, and the network what is left.             *)
LEMMA EspEnd ==
    ASSUME IInv, EndInv,
           \/ Esp(websocketAppStart) \/ Esp(takeSemaphore) \/ Esp(closeClient)
           \/ Esp(destroyClient) \/ Esp(clientConnects(Listening))
           \/ Esp(clientDisconnects) \/ Esp(clientPings) \/ Esp(onCommand)
           \/ Esp(onPong) \/ Esp(onClose) \/ Esp(clientStops) \/ Esp(resetTimer)
           \/ Esp(tick) \/ Esp(EspPowerCycles) \/ NetworkBreaks
    PROVE  EndInv'
<1> USE WsAssumption, TimeoutAssumption
<1> USE DEF EndInv, WokenByData, SentByConnected, EndedIsClosed, FrameArrives,
            ClosingByFrame, IInv, TypeOK, EspTypeOK, LinkTypeOK, LinkStates,
            NothingEarly, Early, AnsweredIsClosed, Esp, appVars, ioVars, uiVars,
            taskVars, timeoutVars, controlVars, histVars, linkVars
<1>1. CASE Esp(websocketAppStart) \/ Esp(takeSemaphore) \/ Esp(destroyClient)
      BY <1>1 DEF websocketAppStart, takeSemaphore, destroyClient
<1>2. CASE Esp(closeClient)
      BY <1>2 DEF closeClient
<1>3. CASE Esp(clientConnects(Listening))
      BY <1>3 DEF clientConnects, Listening
<1>4. CASE Esp(clientDisconnects) \/ Esp(clientPings) \/ Esp(clientStops)
      BY <1>4 DEF clientDisconnects, clientPings, clientStops
<1>5. CASE Esp(onCommand) \/ Esp(onPong)
      BY <1>5 DEF onCommand, onPong, dataEvent, sendReply, replySent
<1>6. CASE Esp(onClose)
      BY <1>6 DEF onClose, dataEvent
<1>7. CASE Esp(resetTimer) \/ Esp(tick)
      BY <1>7 DEF resetTimer, tick
<1>8. CASE Esp(EspPowerCycles)
      BY <1>8 DEF EspPowerCycles
<1>9. CASE NetworkBreaks
      BY <1>9 DEF NetworkBreaks, LinkBreaks
<1> QED
    BY <1>1, <1>2, <1>3, <1>4, <1>5, <1>6, <1>7, <1>8, <1>9

(* It holds in every reachable state.                                      *)
LEMMA EndInductive == Spec => []EndInv
<1>1. Init => EndInv
      BY DEF Init, AppInit, EspInit, LinkInit, EndInv, WokenByData, SentByConnected,
             EndedIsClosed, FrameArrives, ClosingByFrame
<1>2. IInv /\ DesktopInv /\ EndInv /\ [Next]_vars => EndInv'
  <2> SUFFICES ASSUME IInv, DesktopInv, EndInv, [Next]_vars PROVE EndInv'
      OBVIOUS
  <2> USE DEF EndInv, WokenByData, SentByConnected, EndedIsClosed, FrameArrives,
              ClosingByFrame
  <2>1. CASE StreamAnswersPing
        BY <2>1 DEF StreamAnswersPing, appVars, ioVars, uiVars, taskVars, timeoutVars,
           histVars, linkVars, DesktopInv, Desktop!LifeCycle
  <2>2. CASE StreamAnswersClose
        BY <2>2 DEF StreamAnswersClose, appVars, ioVars, uiVars, taskVars, timeoutVars,
           histVars
  <2>3. CASE UNCHANGED vars
        BY <2>3 DEF vars, appVars, ioVars, uiVars, espVars, taskVars, timeoutVars,
           controlVars, histVars, linkVars
  <2> QED
      BY <2>1, <2>2, <2>3, HandlersEnd, EspEnd DEF Next
<1> QED
    BY <1>1, <1>2, Inductive, DesktopStaysSafe, PTL DEF Spec, DesktopInv

(* While the client waits for the answer to its close frame, the desktop   *)
(* has a read in flight or a result that starts one, or the stream has     *)
(* come to its end, which it will notice.                                  *)
NoticeReady ==
    closeFrame = "sent" =>
        \/ link = "closed"
        \/ link = "open" /\ phase = "running" /\ Desktop!ReadingOrRead = 1

(* The desktop is always ready to answer the close frame of the ESP32      *)
(* (esp_websocket_client_close, the read handlers, processIOResults).      *)
THEOREM CloseIsNoticed == Spec => []NoticeReady
<1>1. IInv /\ EndInv /\ DesktopInv /\ ReadsToTheEnd => NoticeReady
  <2> SUFFICES ASSUME IInv, EndInv, DesktopInv, ReadsToTheEnd,
                      closeFrame = "sent", link # "closed"
               PROVE  link = "open" /\ phase = "running" /\ Desktop!ReadingOrRead = 1
      BY DEF NoticeReady
  <2>1. link = "open" /\ connected
        BY DEF EndInv, FrameArrives
  <2>2. phase = "running"
        BY <2>1 DEF EndInv, EndedIsClosed, DesktopInv, Desktop!LifeCycle, IInv, TypeOK,
                    AppTypeOK, Phases
  <2> QED
      BY <2>1, <2>2 DEF ReadsToTheEnd, EndOfStream
<1> QED
    BY <1>1, Inductive, EndInductive, DesktopStaysSafe, PTL DEF DesktopInv

(* Nothing is put on the stream behind the close frame, so that the reads  *)
(* come to it: each reply before it is read, then processed, then gone.    *)
Ahead == (2 * toDesk) + ioResults["MSG_RECEIVED"]

Drains ==
    closeFrame = "sent" =>
        \/ UNCHANGED <<toDesk, ioResults["MSG_RECEIVED"]>>
        \/ Ahead' < Ahead

(* What is ahead of a close frame only becomes less (sendReply, the read   *)
(* handler, processIOResults).                                             *)
THEOREM StreamDrains == Spec => [][Drains]_vars
<1>1. IInv /\ EndInv /\ [Next]_vars => [Drains]_vars
  <2> SUFFICES ASSUME IInv, EndInv, Next, closeFrame = "sent"
               PROVE  \/ UNCHANGED <<toDesk, ioResults["MSG_RECEIVED"]>>
                      \/ Ahead' < Ahead
      BY DEF Drains
  <2> USE WsAssumption
  <2>1. /\ toDesk \in Nat /\ ioResults["MSG_RECEIVED"] \in Nat
        /\ ioResults \in [IOResultType -> Nat] /\ "MSG_RECEIVED" \in IOResultType
        /\ "CONNECTED" \in IOResultType
        BY DEF IInv, TypeOK, AppTypeOK, LinkTypeOK, IOResultType
  <2>2. CASE App(ReadCompletes)
    <3>1. /\ toDesk' = toDesk - 1
          /\ ioResults'["MSG_RECEIVED"] = ioResults["MSG_RECEIVED"] + 1
          BY <2>1, <2>2 DEF App, ReadCompletes, Push
    <3> QED
        BY <2>1, <3>1 DEF Ahead
  <2>3. CASE App(Frame)
    <3>1. toDesk' = toDesk /\ ioResults'["MSG_RECEIVED"] = 0
          BY <2>1, <2>3 DEF App, Frame, processIOResults, NoResults, linkVars
    <3> QED
        BY <2>1, <3>1 DEF Ahead
  <2>4. CASE App(Stop)
    <3>1. toDesk' = 0 /\ ioResults'["MSG_RECEIVED"] = 0
          BY <2>1, <2>4 DEF App, Stop, NoResults
    <3> QED
        BY <2>1, <3>1 DEF Ahead
  <2>5. CASE App(AcceptFails) \/ App(AcceptCancelled) \/ App(Accept) \/ App(Handshake)
    <3>1. /\ toDesk' = toDesk
          /\ ioResults'["MSG_RECEIVED"] = ioResults["MSG_RECEIVED"]
          BY <2>1, <2>5 DEF App, AcceptFails, AcceptCancelled, Accept, Handshake,
             HandshakeDone, HandshakeBroken, HandshakeFails, Push, linkVars
    <3> QED
        BY <3>1
  <2>6. CASE \/ App(ReadFails) \/ App(WriteCompletes) \/ App(WriteHandled)
             \/ App(RequestStop)
        BY <2>6 DEF App, ReadFails, ReadEnds, WriteCompletes, WriteHandled, RequestStop,
           linkVars
  <2>7. CASE Esp(onCommand) \/ Esp(onPong)
        BY <2>1, <2>7 DEF Esp, onCommand, onPong, sendReply, replySent, appVars
  <2>8. CASE \/ Esp(websocketAppStart) \/ Esp(takeSemaphore) \/ Esp(closeClient)
             \/ Esp(destroyClient) \/ Esp(clientConnects(Listening))
             \/ Esp(clientDisconnects) \/ Esp(clientPings) \/ Esp(onClose)
             \/ Esp(clientStops) \/ Esp(resetTimer) \/ Esp(tick) \/ Esp(EspPowerCycles)
        BY <2>8 DEF Esp, websocketAppStart, takeSemaphore, closeClient, destroyClient,
           clientConnects, clientDisconnects, clientPings, onClose, clientStops,
           resetTimer, tick, EspPowerCycles, appVars, linkVars
  <2>9. CASE StreamAnswersPing \/ StreamAnswersClose
        BY <2>9 DEF StreamAnswersPing, StreamAnswersClose, appVars, linkVars
  <2>10. CASE NetworkBreaks
    <3>1. toDesk' \in 0..toDesk /\ ioResults' = ioResults
          BY <2>1, <2>10 DEF NetworkBreaks, LinkBreaks, appVars, linkVars
    <3> QED
        BY <2>1, <3>1 DEF Ahead
  <2> QED
      BY <2>2, <2>3, <2>4, <2>5, <2>6, <2>7, <2>8, <2>9, <2>10 DEF Next
<1> QED
    BY <1>1, Inductive, EndInductive, PTL DEF Spec

(* What the main task waits for, as long as the connection does not fail.  *)
WaitHasAnEnd ==
    mainPc = "join" /\ ~ConnectionFailed =>
        \/ client = "none"
        \/ client = "stopping" /\ link = "closed"
        \/ client = "closing" /\ (closeFrame # "none" \/ link = "closed")

(* The wait without a timeout in esp_websocket_client_close is always for  *)
(* something that is on its way: the close frame or its answer, the news   *)
(* that the connection is over, or the end of the client's task.           *)
THEOREM WaitIsForSomething == Spec => []WaitHasAnEnd
<1>1. IInv /\ CleanInv /\ EndInv => WaitHasAnEnd
      BY DEF IInv, TypeOK, EspTypeOK, CleanInv, EndsClean, EndInv, ClosingByFrame,
             ConnectionFailed, WaitHasAnEnd
<1> QED
    BY <1>1, Inductive, CleanInductive, EndInductive, PTL
=============================================================================
