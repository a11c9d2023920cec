-------------------------- MODULE TeleopTcpProofs --------------------------
(***************************************************************************)
(* Proofs about the TCP benchmark, for every length of commands and        *)
(* replies, any number of clicks, and every sequence of resets and network *)
(* failures: first of commands that arrive whole, then of what holds       *)
(* however TCP splits them.                                                *)
(*                                                                         *)
(* The argument for whole commands: an unanswered command is one token,    *)
(* which is in turn the write, the bytes on the way to the ESP32, the      *)
(* reply in its hands, the bytes on the way back, and the result that the  *)
(* next frame processes. The button is disabled as long as there is a      *)
(* token, so there is never a second one. While the link is up the token   *)
(* is conserved; when the link breaks it may vanish, and then nothing can  *)
(* bring it back.  The handler of a write runs before the answer to that   *)
(* write is read, so that it is gone when the button is enabled again.     *)
(*                                                                         *)
(* Of split commands there can be several replies, but no more than bytes  *)
(* were sent: what is on the way back is bounded by what may still come.   *)
(***************************************************************************)
EXTENDS TeleopTcp, Integers, TLAPS

(* The places of the token that are counted in bytes or by the ESP32.      *)
AtEsp == IF toEsp = 0 THEN 0 ELSE 1
InHand == IF espPc = "sendData" THEN 1 ELSE 0
AtDesk == IF toDesk = ReplyLen THEN 1 ELSE 0

Messages == ioResults["MSG_RECEIVED"]

(* There is at most one token, in one place.                               *)
OneToken ==
    /\ commands <= latencies + 1
    /\ LinkUp => commands = latencies + writes + AtEsp + InHand + AtDesk + Messages
    /\ latencies + writes + AtDesk + Messages <= commands

(* Streams hold one whole message or none, but what is left of a broken    *)
(* one.                                                                    *)
WholeMessages ==
    /\ toEsp \in {0, CommandLen}
    /\ toDesk <= ReplyLen
    /\ LinkUp => toDesk \in {0, ReplyLen}
    /\ streamPos = 0

(* Nothing is sent before there is a connection.                           *)
ConnectedFirst ==
    /\ link \in {"none", "pending"} => ~connected /\ ioResults["CONNECTED"] = 0
    /\ ~connected => commands = 0

(* A write and its handler belong to a command whose answer has not been   *)
(* read yet.                                                               *)
WritesInOrder ==
    /\ writes + written <= 1
    /\ written > 0 => Messages = 0 /\ commands = latencies + 1

(* A click waits for a frame only when no command is outstanding.          *)
ClickWaits ==
    /\ uiEvents > 0 => connected /\ ~isSendingBlinkCommand
    /\ commands + uiEvents <= MaxClicks

IInv == /\ TypeOK
        /\ OneToken
        /\ WholeMessages
        /\ WritesInOrder
        /\ ConnectedFirst
        /\ ClickWaits
        /\ DisabledWhileAwaiting
        /\ BufferTerminated

(* Both programs start without a token.                                    *)
LEMMA InitIInv == Init => IInv
<1> SUFFICES ASSUME Init PROVE IInv
    OBVIOUS
<1> USE LengthsAssumption, MaxClicksAssumption
<1> USE DEF Init, AppInit, EspInit, LinkInit
<1>1. ioResults \in [IOResultType -> Nat]
      /\ ioResults["CONNECTED"] = 0 /\ ioResults["MSG_RECEIVED"] = 0
      BY DEF NoResults, IOResultType
<1>2. /\ stopFlag \in BOOLEAN /\ windowShouldClose \in BOOLEAN
      /\ connected \in BOOLEAN
      /\ isSendingBlinkCommand \in BOOLEAN /\ terminated \in BOOLEAN
      BY Zenon
<1>3. AppTypeOK
      BY <1>1, <1>2 DEF AppTypeOK, Phases
<1>4. EspTypeOK /\ LinkTypeOK
      BY <1>2 DEF EspTypeOK, LinkTypeOK, LinkStates
<1>5. OneToken /\ WholeMessages /\ WritesInOrder
      BY <1>1 DEF OneToken, WholeMessages, WritesInOrder, AtEsp, InHand, AtDesk, Messages
<1>6. ConnectedFirst /\ ClickWaits /\ DisabledWhileAwaiting /\ BufferTerminated
      BY <1>1 DEF ConnectedFirst, ClickWaits, DisabledWhileAwaiting, BufferTerminated
<1> QED
    BY <1>3, <1>4, <1>5, <1>6 DEF IInv, TypeOK

(* A frame issues a command or takes an answer, never both.                *)
LEMMA FrameIInv == IInv /\ App(Frame) => IInv'
<1> SUFFICES ASSUME IInv, App(Frame) PROVE IInv'
    OBVIOUS
<1> USE LengthsAssumption, MaxClicksAssumption
<1> USE DEF IInv, TypeOK, AppTypeOK, EspTypeOK, LinkTypeOK, IOResultType
<1>1. /\ phase = "running" /\ UNCHANGED <<phase, acceptor, written, readEnded>>
      /\ UNCHANGED <<connType, stopFlag, windowShouldClose, link, toEsp, toDesk>>
      /\ UNCHANGED <<espPc, espSock, streamPos, terminated>>
      BY DEF App, Frame, callerVars, linkVars, espVars
<1>2. /\ ioResults' \in [IOResultType -> Nat]
      /\ ioResults'["CONNECTED"] = 0
      /\ ioResults'["MSG_RECEIVED"] = 0
      BY DEF App, Frame, processIOResults, NoResults
<1>3. /\ commands' = commands + uiEvents /\ writes' = writes + uiEvents
      /\ latencies' = latencies + Messages
      /\ reads' = reads + ioResults["CONNECTED"] + Messages
      /\ connected' = IF ioResults["CONNECTED"] > 0 THEN TRUE ELSE connected
      /\ isSendingBlinkCommand' =
            IF Messages > 0 THEN FALSE
            ELSE IF uiEvents > 0 THEN TRUE ELSE isSendingBlinkCommand
      BY DEF App, Frame, processUiEvents, processIOResults, Messages
<1>4. \/ uiEvents' = 0
      \/ connected' /\ ~isSendingBlinkCommand' /\ commands' < MaxClicks /\ uiEvents' = 1
      BY DEF App, Frame, render
<1>5. uiEvents = 1 => Messages = 0 /\ commands = latencies /\ writes = 0
      BY DEF ClickWaits, DisabledWhileAwaiting, OneToken, AtDesk, Messages
<1>6. Messages \in {0, 1} /\ (Messages = 1 => commands = latencies + 1 /\ uiEvents = 0)
      BY DEF ClickWaits, DisabledWhileAwaiting, OneToken, AtDesk, Messages
<1>7. TypeOK'
  <2>1. connected' \in BOOLEAN /\ isSendingBlinkCommand' \in BOOLEAN
        BY <1>3
  <2>2. commands' \in 0..MaxClicks /\ uiEvents' \in 0..1
        BY <1>3, <1>4 DEF ClickWaits
  <2>3. reads' \in Nat /\ writes' \in Nat /\ latencies' \in Nat
        BY <1>3 DEF Messages
  <2> QED
      BY <1>1, <1>2, <2>1, <2>2, <2>3
<1>8. OneToken'
      BY <1>1, <1>2, <1>3, <1>5, <1>6
      DEF OneToken, LinkUp, AtEsp, InHand, AtDesk, Messages
<1>9. WholeMessages' /\ BufferTerminated'
      BY <1>1 DEF WholeMessages, LinkUp, BufferTerminated
<1>10. ConnectedFirst'
      BY <1>1, <1>2, <1>3 DEF ConnectedFirst, ClickWaits
<1>11. ClickWaits'
  <2>1. uiEvents' > 0 => connected' /\ ~isSendingBlinkCommand'
        BY <1>4
  <2>2. commands' \in Nat /\ commands' <= MaxClicks
        BY <1>7
  <2>3. commands' + uiEvents' <= MaxClicks
        BY <1>4, <2>2
  <2> QED
      BY <2>1, <2>3 DEF ClickWaits
<1>12. DisabledWhileAwaiting'
      BY <1>3, <1>5, <1>6 DEF DisabledWhileAwaiting
<1>13. WritesInOrder'
      BY <1>1, <1>2, <1>3, <1>5, <1>6 DEF WritesInOrder, Messages
<1> QED
    BY <1>7, <1>8, <1>9, <1>10, <1>11, <1>12, <1>13

(* The desktop's other handlers pass the token on, or drop it when they    *)
(* end the connection.                                                     *)
LEMMA HandlersIInv ==
    ASSUME IInv,
           \/ App(AcceptFails) \/ App(AcceptCancelled) \/ App(Accept)
           \/ App(ReadCompletes) \/ App(ReadFails) \/ App(WriteCompletes)
           \/ App(WriteHandled) \/ App(Stop) \/ App(RequestStop)
    PROVE  IInv'
<1> USE LengthsAssumption, MaxClicksAssumption, TcpAssumption
<1> USE DEF IInv, TypeOK, AppTypeOK, EspTypeOK, LinkTypeOK, IOResultType,
            OneToken, WholeMessages, WritesInOrder, ConnectedFirst, ClickWaits,
            DisabledWhileAwaiting, BufferTerminated, LinkUp, AtEsp, InHand,
            AtDesk, Messages, App, Push, NoResults, Phases, LinkStates,
            linkVars, espVars, ioVars, uiVars, callerVars
<1>1. CASE App(AcceptFails)
      BY <1>1 DEF AcceptFails
<1>2. CASE App(AcceptCancelled)
      BY <1>2 DEF AcceptCancelled
<1>3. CASE App(Accept)
      BY <1>3 DEF Accept
<1>4. CASE App(ReadCompletes)
      BY <1>4 DEF ReadCompletes
<1>5. CASE App(ReadFails)
      BY <1>5 DEF ReadFails, ReadEnds
<1>6. CASE App(WriteCompletes)
  <2>1. /\ writes \in Nat \ {0} /\ writes' = writes - 1 /\ written' = written + 1
        /\ toEsp' = IF link = "open" THEN toEsp + CommandLen ELSE toEsp
        BY <1>6 DEF WriteCompletes
  <2>2. UNCHANGED <<connType, phase, acceptor, reads, readEnded, connected,
                    uiEvents, isSendingBlinkCommand, commands, latencies,
                    stopFlag, windowShouldClose, ioResults, link, toDesk,
                    espPc, espSock, streamPos, terminated>>
        BY <1>6 DEF WriteCompletes
  <2>3. link \notin {"none", "pending"}
        BY <2>1
  <2>4. link = "open" => AtEsp = 0 /\ toEsp' = CommandLen /\ AtEsp' = 1
        BY <2>1
  <2>5. link # "open" => UNCHANGED AtEsp
        BY <2>1
  <2>6. TypeOK' /\ WholeMessages'
        BY <2>1, <2>2, <2>4
  <2>7. UNCHANGED <<InHand, AtDesk, Messages>> /\ LinkUp' = LinkUp
        BY <2>2
  <2>8. OneToken'
        BY <2>1, <2>2, <2>3, <2>4, <2>5, <2>7
  <2>9. ConnectedFirst' /\ ClickWaits' /\ DisabledWhileAwaiting' /\ BufferTerminated'
        BY <2>2
  <2>10. WritesInOrder'
    <3>1. writes = 1 /\ written = 0
          BY <2>1
    <3>2. Messages = 0 /\ commands = latencies + 1
          BY <3>1
    <3> QED
        BY <2>1, <2>2, <3>1, <3>2
  <2> QED
      BY <2>6, <2>8, <2>9, <2>10
<1>6a. CASE App(WriteHandled)
      BY <1>6a DEF WriteHandled
<1>7. CASE App(Stop)
      BY <1>7 DEF Stop
<1>8. CASE App(RequestStop)
  <2>1. /\ stopFlag' \in BOOLEAN /\ windowShouldClose' \in BOOLEAN
        /\ UNCHANGED <<connType, phase, ioVars, uiVars, ioResults, linkVars, espVars>>
        BY <1>8 DEF RequestStop
  <2> QED
      BY <2>1
<1> QED
    BY <1>1, <1>2, <1>3, <1>4, <1>5, <1>6, <1>6a, <1>7, <1>8

(* A whole command brings the stream back to the start of a command.       *)
LEMMA WholeCommand ==
    ASSUME NEW n \in Nat \ {0}, NEW p, p = 0
    PROVE  (p + n) % n = 0
OBVIOUS

(* The ESP32 turns a whole command into a whole reply.                     *)
LEMMA EspIInv ==
    ASSUME IInv, Segments = FALSE,
           \/ Esp(connectToServer(Listening)) \/ Esp(receiveBytes)
           \/ Esp(receiveEndOfStream) \/ Esp(receiveFails(Listening))
           \/ Esp(sendData) \/ Esp(takeNullSemaphore) \/ Esp(EspPowerCycles)
           \/ NetworkBreaks
    PROVE  IInv'
<1> USE LengthsAssumption
<1> USE DEF IInv, TypeOK, AppTypeOK, EspTypeOK, LinkTypeOK, IOResultType,
            OneToken, WholeMessages, WritesInOrder, ConnectedFirst, ClickWaits,
            DisabledWhileAwaiting, BufferTerminated, LinkUp, AtEsp, InHand,
            AtDesk, Messages, Esp, LinkStates,
            linkVars, espVars, appVars, ioVars, uiVars, callerVars
<1>1. CASE Esp(connectToServer(Listening))
      BY <1>1 DEF connectToServer
<1>2. CASE Esp(receiveBytes)
  <2>1. /\ espPc = "receiveData" /\ espPc' = "sendData"
        /\ toEsp = CommandLen
        /\ UNCHANGED <<appVars, espSock, link, toDesk>>
        BY <1>2 DEF receiveBytes
  <2>2. Smaller(toEsp, CommandLen) = CommandLen
        BY <2>1 DEF Smaller
  <2>3. /\ toEsp' = toEsp - CommandLen
        /\ streamPos' = (streamPos + CommandLen) % CommandLen
        /\ terminated' = (streamPos = 0)
        BY <1>2, <2>2 DEF receiveBytes
  <2>4. toEsp' = 0 /\ streamPos' = 0 /\ terminated' = TRUE
    <3>1. streamPos = 0
          OBVIOUS
    <3>2. (streamPos + CommandLen) % CommandLen = 0
          BY <3>1, WholeCommand
    <3>3. toEsp' = 0
          BY <2>1, <2>3
    <3>4. terminated' = TRUE
          BY <2>3, <3>1, Zenon
    <3>5. streamPos' = 0
          BY <2>3, <3>2
    <3> QED
        BY <3>3, <3>4, <3>5
  <2>5. AtEsp = 1 /\ AtEsp' = 0 /\ InHand = 0 /\ InHand' = 1
        BY <2>1, <2>4
  <2>6. TypeOK' /\ WholeMessages' /\ BufferTerminated'
        BY <2>1, <2>4
  <2>7. OneToken'
        BY <2>1, <2>5
  <2>8. ConnectedFirst' /\ ClickWaits' /\ DisabledWhileAwaiting' /\ WritesInOrder'
        BY <2>1
  <2> QED
      BY <2>6, <2>7, <2>8
<1>3. CASE Esp(receiveEndOfStream)
      BY <1>3 DEF receiveEndOfStream
<1>4. CASE Esp(receiveFails(Listening))
      BY <1>4 DEF receiveFails
<1>5. CASE Esp(sendData)
  <2>1. /\ espPc = "sendData" /\ espPc' \in {"receiveData", "xSemaphoreTake"}
        /\ toDesk' = IF link \in {"pending", "open"} THEN toDesk + ReplyLen ELSE toDesk
        /\ UNCHANGED <<appVars, espSock, streamPos, terminated, link, toEsp>>
        BY <1>5 DEF sendData
  <2>2. InHand = 1 /\ InHand' = 0 /\ UNCHANGED <<AtEsp, Messages>>
        BY <2>1
  <2>3. LinkUp => commands = latencies + 1 /\ link \in {"pending", "open"}
        BY <2>2
  <2>4. LinkUp => AtDesk = 0 /\ toDesk' = ReplyLen /\ AtDesk' = 1
        BY <2>1, <2>2, <2>3
  <2>5. ~LinkUp => UNCHANGED <<AtDesk, toDesk>>
        BY <2>1
  <2>6. TypeOK' /\ WholeMessages'
        BY <2>1, <2>4, <2>5
  <2>7. OneToken'
        BY <2>1, <2>2, <2>4, <2>5
  <2>8. /\ ConnectedFirst' /\ ClickWaits' /\ DisabledWhileAwaiting' /\ BufferTerminated'
        /\ WritesInOrder'
        BY <2>1
  <2> QED
      BY <2>6, <2>7, <2>8
<1>6. CASE Esp(takeNullSemaphore) \/ Esp(EspPowerCycles)
  <2>1. /\ espPc' = "connectToServer" /\ espSock' = "none" /\ streamPos' = 0
        /\ terminated' = TRUE /\ toEsp' = 0 /\ UNCHANGED <<appVars, toDesk>>
        /\ link' = IF link \in {"pending", "open"} THEN "lost" ELSE link
        BY <1>6 DEF takeNullSemaphore, EspPowerCycles, EspResets, EspBoots
  <2>2. TypeOK' /\ WholeMessages' /\ BufferTerminated'
        BY <2>1
  <2>3. LinkUp' => link = "none" /\ commands = 0 /\ InHand' = 0 /\ AtEsp' = 0
        BY <2>1
  <2>4. UNCHANGED <<commands, latencies, writes, AtDesk, Messages>>
        BY <2>1
  <2>5. OneToken'
    <3>1. commands' = 0 => writes' = 0 /\ AtDesk' = 0 /\ Messages' = 0 /\ latencies' = 0
          BY <2>4
    <3> HIDE DEF IInv, TypeOK, WholeMessages, WritesInOrder, ConnectedFirst, ClickWaits,
                 DisabledWhileAwaiting, LinkUp, AtEsp, InHand, AtDesk, Messages
    <3>2. LinkUp' => commands' = latencies' + writes' + AtEsp' + InHand' + AtDesk' + Messages'
          BY <2>3, <2>4, <3>1
    <3>3. OneToken
          BY DEF IInv
    <3> QED
        BY <2>4, <3>2, <3>3 DEF OneToken
  <2>6. ConnectedFirst' /\ ClickWaits' /\ DisabledWhileAwaiting' /\ WritesInOrder'
        BY <2>1
  <2> QED
      BY <2>2, <2>5, <2>6
<1>7. CASE NetworkBreaks
      BY <1>7 DEF NetworkBreaks, LinkBreaks
<1> QED
    BY <1>1, <1>2, <1>3, <1>4, <1>5, <1>6, <1>7

(* The inductive invariant holds in every reachable state.                 *)
THEOREM Inductive == ASSUME Segments = FALSE PROVE Spec => []IInv
<1>1. Init => IInv
      BY InitIInv
<1>2. IInv /\ [Next]_vars => IInv'
  <2>1. ASSUME IInv, UNCHANGED vars PROVE IInv'
        BY <2>1 DEF IInv, TypeOK, AppTypeOK, EspTypeOK, LinkTypeOK, OneToken,
                    WholeMessages, WritesInOrder, ConnectedFirst, ClickWaits,
                    DisabledWhileAwaiting, BufferTerminated, LinkUp, AtEsp,
                    InHand, AtDesk, Messages, vars, appVars, ioVars, uiVars,
                    callerVars, espVars, linkVars
  <2> QED
      BY <2>1, FrameIInv, HandlersIInv, EspIInv DEF Next
<1> QED
    BY <1>1, <1>2, PTL DEF Spec

(* The button is disabled exactly while a command is unanswered, whatever  *)
(* has failed (handleSendButtonClick, processIOResults).                   *)
THEOREM ButtonTells == ASSUME Segments = FALSE PROVE Spec => []DisabledWhileAwaiting
<1>1. IInv => DisabledWhileAwaiting
      BY DEF IInv
<1> QED
    BY <1>1, Inductive, PTL

(* No two async_writes on one stream (asyncWriteCustomTcp), although       *)
(* nothing makes the next command wait for the write handler of the one    *)
(* before: it waits for the reply, which is read after that handler.       *)
THEOREM NeverTwoWrites == ASSUME Segments = FALSE PROVE Spec => []OneWriteInFlight
<1>1. IInv => OneWriteInFlight
      BY DEF IInv, WritesInOrder, OneWriteInFlight
<1> QED
    BY <1>1, Inductive, PTL

(* Products of the token's one place, the others being empty.              *)
LEMMA Products ==
    ASSUME NEW c \in Nat, NEW r \in Nat
    PROVE  /\ 0 * c * r = 0 /\ 0 * r = 0 /\ 0 * c = 0
           /\ 1 * c * r = c * r /\ c * r = r * c /\ c * r \in Nat
OBVIOUS

(* While the link is up, a round trip is in exactly one place, from the    *)
(* click to the assignment of blinkLatency.                                *)
THEOREM TokenKept == ASSUME Segments = FALSE PROVE Spec => []RoundTripConserved
<1>1. IInv => RoundTripConserved
  <2> SUFFICES ASSUME IInv, LinkUp
               PROVE  OnTheWay = (commands - latencies) * CommandLen * ReplyLen
      BY DEF RoundTripConserved
  <2> DEFINE o == commands - latencies
             t == CommandLen * ReplyLen
  <2>1. /\ commands \in Nat /\ latencies \in Nat /\ writes \in Nat /\ Messages \in Nat
        /\ CommandLen \in Nat \ {0} /\ ReplyLen \in Nat \ {0}
        BY LengthsAssumption DEF IInv, TypeOK, AppTypeOK, IOResultType, Messages
  <2>2. toEsp \in {0, CommandLen} /\ toDesk \in {0, ReplyLen}
        BY DEF IInv, WholeMessages
  <2>3. commands = latencies + writes + AtEsp + InHand + AtDesk + Messages
        BY DEF IInv, OneToken
  <2>4. o \in {0, 1} /\ o = writes + AtEsp + InHand + AtDesk + Messages
        BY <2>1, <2>3 DEF IInv, OneToken, AtEsp, InHand, AtDesk
  <2>5. /\ writes * CommandLen * ReplyLen = writes * t
        /\ Messages * CommandLen * ReplyLen = Messages * t
        /\ o * CommandLen * ReplyLen = o * t
        BY <2>1, <2>4, Products
  <2>6. /\ toEsp * ReplyLen = AtEsp * t
        /\ toDesk * CommandLen = AtDesk * t
        BY <2>1, <2>2, Products DEF AtEsp, AtDesk
  <2>7. (IF espPc = "sendData" THEN t ELSE 0) = InHand * t
        BY <2>1, Products DEF InHand
  <2>8. OnTheWay = writes * t + AtEsp * t + InHand * t + AtDesk * t + Messages * t
        BY <2>5, <2>6, <2>7 DEF OnTheWay, Messages
  <2>9. t \in Nat
        BY <2>1, Products
  <2>10. AtEsp \in {0, 1} /\ InHand \in {0, 1} /\ AtDesk \in {0, 1}
        BY DEF AtEsp, InHand, AtDesk
  <2> HIDE DEF o, t
  <2>11. writes * t + AtEsp * t + InHand * t + AtDesk * t + Messages * t = o * t
        BY <2>1, <2>4, <2>9, <2>10
  <2> QED
      BY <2>5, <2>8, <2>11 DEF o
<1> QED
    BY <1>1, Inductive, PTL

(* Nothing but the frame touches the command and its answer, and no step   *)
(* repairs what has stopped working.                                       *)
LEMMA OthersStutter ==
    ASSUME IInv, Next, ~App(Frame)
    PROVE  UNCHANGED <<commands, latencies>> /\ (Working' => Working)
<1> USE TcpAssumption
<1> USE DEF IInv, TypeOK, AppTypeOK, LinkUp, Working, App, Esp,
            appVars, ioVars, uiVars, callerVars, linkVars, espVars
<1>1. CASE App(AcceptFails) \/ App(AcceptCancelled) \/ App(Accept)
      BY <1>1 DEF AcceptFails, AcceptCancelled, Accept
<1>2. CASE \/ App(ReadCompletes) \/ App(ReadFails)
           \/ App(WriteCompletes) \/ App(WriteHandled)
      BY <1>2 DEF ReadCompletes, ReadFails, ReadEnds, WriteCompletes, WriteHandled
<1>3. CASE App(Stop) \/ App(RequestStop)
      BY <1>3 DEF Stop, RequestStop
<1>4. CASE \/ Esp(connectToServer(Listening)) \/ Esp(receiveBytes)
           \/ Esp(receiveEndOfStream) \/ Esp(receiveFails(Listening)) \/ Esp(sendData)
      BY <1>4 DEF connectToServer, receiveBytes, receiveEndOfStream, receiveFails, sendData
<1>5. CASE Esp(takeNullSemaphore) \/ Esp(EspPowerCycles) \/ NetworkBreaks
      BY <1>5 DEF takeNullSemaphore, EspPowerCycles, EspResets, NetworkBreaks, LinkBreaks
<1> QED
    BY <1>1, <1>2, <1>3, <1>4, <1>5 DEF Next

(* Every step of the two programs is one of the abstract benchmark, or     *)
(* changes nothing that it shows: the safety part of ImplementsBenchmark.  *)
THEOREM StepsOfBenchmark ==
    ASSUME Segments = FALSE
    PROVE  Spec => Benchmark!Init /\ [][Benchmark!Next]_(Benchmark!vars)
<1>1. Init => Benchmark!Init
  <2> SUFFICES ASSUME Init PROVE Benchmark!Init
      OBVIOUS
  <2>1. commands = 0 /\ latencies = 0 /\ Working
        BY DEF Init, AppInit, LinkInit, Working, LinkUp
  <2>2. Working = TRUE
        BY <2>1 DEF Working
  <2> QED
      BY <2>1, <2>2 DEF Benchmark!Init
<1>2. IInv /\ [Next]_vars => [Benchmark!Next]_(Benchmark!vars)
  <2> SUFFICES ASSUME IInv, [Next]_vars PROVE [Benchmark!Next]_(Benchmark!vars)
      OBVIOUS
  <2> USE DEF Benchmark!Next, Benchmark!vars
  <2>1. CASE UNCHANGED vars
        BY <2>1 DEF vars, appVars, uiVars, callerVars, linkVars, Working, LinkUp
  <2>2. CASE Next /\ ~App(Frame)
    <3>1. UNCHANGED <<commands, latencies>> /\ (Working' => Working)
          BY <2>2, OthersStutter
    <3>2. CASE Working' = Working
          BY <3>1, <3>2
    <3>3. CASE Working /\ Working' = FALSE
          BY <3>1, <3>3 DEF Benchmark!Break
    <3> QED
        BY <3>1, <3>2, <3>3 DEF Working
  <2>3. CASE App(Frame)
    <3> USE DEF IInv, TypeOK, AppTypeOK, IOResultType, ClickWaits,
                DisabledWhileAwaiting, OneToken, AtDesk, Messages
    <3>1. Working' = Working
          BY <2>3 DEF App, Frame, callerVars, linkVars, Working, LinkUp
    <3>2. commands' = commands + uiEvents /\ latencies' = latencies + Messages
          BY <2>3 DEF App, Frame, processUiEvents, processIOResults
    <3>3. CASE uiEvents = 1
      <4>1. commands = latencies /\ Messages = 0
            BY <3>3
      <4> QED
          BY <3>1, <3>2, <3>3, <4>1 DEF Benchmark!Send
    <3>4. CASE uiEvents = 0 /\ Messages = 0
          BY <3>1, <3>2, <3>4
    <3>5. CASE uiEvents = 0 /\ Messages > 0
      <4>1. commands = latencies + 1 /\ Messages = 1
            BY <3>5
      <4> QED
          BY <3>1, <3>2, <3>5, <4>1 DEF Benchmark!Answer
    <3> QED
        BY <3>3, <3>4, <3>5
  <2> QED
      BY <2>1, <2>2, <2>3
<1> QED
    BY <1>1, <1>2, Inductive, PTL DEF Spec

-----------------------------------------------------------------------------
(* The liveness of the benchmark rests on two facts of safety: whoever has *)
(* the token can pass it on, and it is passed on in one direction only.    *)

(* An open connection is read by both ends: the desktop has a read in      *)
(* flight or a result that starts one, the ESP32 is in its loop.           *)
BothRead ==
    /\ acceptor = "listening" => link # "open" /\ ~connected /\ reads = 0
    /\ acceptor = "listening" \/ connected => ioResults["CONNECTED"] = 0
    /\ link = "open" /\ phase = "running" =>
          reads + ioResults["CONNECTED"] + Messages = 1
    /\ link \in {"pending", "open"} =>
          espSock = "linked" /\ espPc \in {"receiveData", "sendData"}

(* While the system works, a step that brings an unanswered command        *)
(* further can be taken: the write completes, its handler runs, recv or    *)
(* async_read has what it waits for, the answer is sent, or the next frame *)
(* processes it.                                                           *)
NeverStuck ==
    Working /\ commands > latencies =>
        \/ writes > 0
        \/ written > 0
        \/ toEsp = CommandLen /\ espPc = "receiveData" /\ espSock = "linked"
        \/ espPc = "sendData"
        \/ toDesk = ReplyLen /\ reads = 1 /\ written = 0
        \/ Messages = 1

(* How far the token is from the assignment of blinkLatency, and whether   *)
(* the write handler is still to come.                                     *)
Distance ==
    (6 * writes) + written + (4 * AtEsp) + (3 * InHand) + (2 * AtDesk) + Messages

(* It gets nearer with every step that touches it.                         *)
Advances ==
    Working /\ Working' /\ commands > latencies =>
        \/ UNCHANGED <<writes, written, toEsp, espPc, toDesk, Messages>>
        \/ Distance' < Distance

(* Nobody reads before there is a connection.                              *)
LEMMA InitBothRead == Init => BothRead
BY DEF Init, AppInit, EspInit, LinkInit, BothRead, NoResults, IOResultType, Messages

(* The desktop keeps its one read, in flight or due.                       *)
LEMMA AppBothRead ==
    ASSUME IInv, BothRead,
           \/ App(AcceptFails) \/ App(AcceptCancelled) \/ App(Accept)
           \/ App(ReadCompletes) \/ App(ReadFails) \/ App(WriteCompletes)
           \/ App(WriteHandled) \/ App(Frame) \/ App(Stop) \/ App(RequestStop)
    PROVE  BothRead'
<1> USE TcpAssumption
<1> USE DEF IInv, TypeOK, AppTypeOK, LinkTypeOK, IOResultType, OneToken, ConnectedFirst,
            BothRead, Messages, AtDesk, App, Push, NoResults, LinkStates,
            linkVars, espVars, ioVars, uiVars, callerVars
<1>1. CASE App(AcceptFails) \/ App(AcceptCancelled)
      BY <1>1 DEF AcceptFails, AcceptCancelled
<1>2. CASE App(Accept)
  <2>1. /\ acceptor = "listening" /\ acceptor' = "closed" /\ link # "none"
        /\ link' = IF link = "pending" THEN "open" ELSE link
        /\ ioResults' = [ioResults EXCEPT !["CONNECTED"] = @ + 1]
        /\ UNCHANGED <<phase, reads, connected, espPc, espSock>>
        BY <1>2 DEF Accept
  <2>2. ioResults["CONNECTED"] = 0 /\ reads = 0 /\ Messages = 0 /\ ~connected
        BY <2>1
  <2>3. reads' + ioResults'["CONNECTED"] + Messages' = 1
        BY <2>1, <2>2
  <2> QED
      BY <2>1, <2>2, <2>3
<1>3. CASE App(ReadCompletes)
      BY <1>3 DEF ReadCompletes
<1>4. CASE App(ReadFails)
      BY <1>4 DEF ReadFails, ReadEnds, EndOfStream
<1>5. CASE App(WriteCompletes) \/ App(WriteHandled)
  <2>1. UNCHANGED <<acceptor, link, connected, reads, ioResults, phase, espSock, espPc>>
        BY <1>5 DEF WriteCompletes, WriteHandled
  <2> QED
      BY <2>1
<1>6. CASE App(Frame)
  <2>1. /\ phase = "running" /\ UNCHANGED <<phase, acceptor, link, espPc, espSock>>
        /\ ioResults' = NoResults
        /\ reads' = reads + ioResults["CONNECTED"] + Messages
        /\ connected' = IF ioResults["CONNECTED"] > 0 THEN TRUE ELSE connected
        BY <1>6 DEF Frame, processIOResults
  <2>2. ioResults'["CONNECTED"] = 0 /\ Messages' = 0
        BY <2>1
  <2>3. acceptor = "listening" => Messages = 0
        OBVIOUS
  <2> QED
      BY <2>1, <2>2, <2>3
<1>7. CASE App(Stop)
      BY <1>7 DEF Stop
<1>8. CASE App(RequestStop)
      BY <1>8 DEF RequestStop
<1> QED
    BY <1>1, <1>2, <1>3, <1>4, <1>5, <1>6, <1>7, <1>8

(* The ESP32 leaves its loop only when its connection is over.             *)
LEMMA EspBothRead ==
    ASSUME IInv, BothRead,
           \/ Esp(connectToServer(Listening)) \/ Esp(receiveBytes)
           \/ Esp(receiveEndOfStream) \/ Esp(receiveFails(Listening))
           \/ Esp(sendData) \/ Esp(takeNullSemaphore) \/ Esp(EspPowerCycles)
           \/ NetworkBreaks
    PROVE  BothRead'
<1> USE DEF BothRead, Messages, Esp, linkVars, espVars, appVars, ioVars, uiVars
<1>1. CASE Esp(connectToServer(Listening))
      BY <1>1 DEF connectToServer
<1>2. CASE Esp(receiveBytes) \/ Esp(receiveEndOfStream) \/ Esp(receiveFails(Listening))
      BY <1>2 DEF receiveBytes, receiveEndOfStream, receiveFails
<1>3. CASE Esp(sendData)
      BY <1>3 DEF sendData
<1>4. CASE Esp(takeNullSemaphore) \/ Esp(EspPowerCycles)
      BY <1>4 DEF takeNullSemaphore, EspPowerCycles, EspResets
<1>5. CASE NetworkBreaks
      BY <1>5 DEF NetworkBreaks, LinkBreaks
<1> QED
    BY <1>1, <1>2, <1>3, <1>4, <1>5

(* An open connection is read by both ends (the read that each CONNECTED   *)
(* and each MSG_RECEIVED starts, the loop of tcpAppStart).                 *)
THEOREM BothReadOn == ASSUME Segments = FALSE PROVE Spec => []BothRead
<1>1. Init => BothRead
      BY InitBothRead
<1>2. IInv /\ BothRead /\ [Next]_vars => BothRead'
  <2>1. ASSUME BothRead, UNCHANGED vars PROVE BothRead'
        BY <2>1 DEF BothRead, Messages, vars, appVars, ioVars, uiVars, espVars, linkVars
  <2> QED
      BY <2>1, AppBothRead, EspBothRead DEF Next
<1> QED
    BY <1>1, <1>2, Inductive, PTL DEF Spec

(* An unanswered command is always in somebody's hands who can pass it on, *)
(* from handleSendButtonClick through tcpAppStart to processIOResults: the *)
(* two programs never wait for one another.                                *)
THEOREM AlwaysMoves == ASSUME Segments = FALSE PROVE Spec => []NeverStuck
<1>1. IInv /\ BothRead => NeverStuck
  <2> SUFFICES ASSUME IInv, BothRead, Working, commands > latencies
               PROVE  NeverStuck
      BY DEF NeverStuck
  <2> USE DEF IInv, TypeOK, AppTypeOK, LinkTypeOK, IOResultType
  <2>1. connected /\ link = "open" /\ phase = "running"
        BY DEF ConnectedFirst, Working, LinkUp
  <2>2. /\ reads + Messages = 1 /\ espSock = "linked"
        /\ espPc \in {"receiveData", "sendData"}
        BY <2>1 DEF BothRead
  <2>3. writes + AtEsp + InHand + AtDesk + Messages = 1
    <3>1. commands = latencies + 1
          BY DEF OneToken
    <3>2. commands = latencies + writes + AtEsp + InHand + AtDesk + Messages
          BY DEF OneToken, Working
    <3> QED
        BY <3>1, <3>2 DEF AtEsp, InHand, AtDesk, Messages
  <2>4. toEsp \in {0, CommandLen} /\ toDesk \in {0, ReplyLen}
        BY DEF WholeMessages, Working
  <2>5. /\ AtEsp > 0 => toEsp = CommandLen
        /\ InHand > 0 => espPc = "sendData"
        /\ AtDesk > 0 => toDesk = ReplyLen
        BY <2>4 DEF AtEsp, InHand, AtDesk
  <2>6. AtEsp \in {0, 1} /\ InHand \in {0, 1} /\ AtDesk \in {0, 1}
        BY DEF AtEsp, InHand, AtDesk
  <2>7. writes \in Nat /\ written \in Nat /\ reads \in Nat /\ Messages \in Nat
        BY DEF Messages
  <2>8. AtDesk > 0 => reads = 1
        BY <2>2, <2>3, <2>6, <2>7
  <2>9. writes > 0 \/ AtEsp > 0 \/ InHand > 0 \/ AtDesk > 0 \/ Messages = 1
        BY <2>3, <2>6, <2>7
  <2> QED
      BY <2>2, <2>5, <2>7, <2>8, <2>9 DEF NeverStuck
<1> QED
    BY <1>1, Inductive, BothReadOn, PTL

(* A command never goes back, and never twice through the same hands: every*)
(* step that touches it brings it nearer to its latency.                   *)
THEOREM TokenAdvances == ASSUME Segments = FALSE PROVE Spec => [][Advances]_vars
<1>1. IInv /\ IInv' /\ BothRead /\ [Next]_vars => [Advances]_vars
  <2> SUFFICES ASSUME IInv, IInv', BothRead, Next, Working, Working',
                      commands > latencies
               PROVE  Advances
      BY DEF Advances
  <2>1. /\ link = "open" /\ acceptor = "closed" /\ connected /\ uiEvents = 0
        /\ espSock = "linked" /\ espPc \in {"receiveData", "sendData"}
        /\ writes \in Nat /\ written \in Nat /\ Messages \in Nat
    <3>1. /\ commands \in Nat /\ latencies \in Nat /\ Messages \in Nat
          /\ writes \in Nat /\ written \in Nat
          /\ uiEvents \in 0..1 /\ acceptor \in {"listening", "closed"}
          BY DEF IInv, TypeOK, AppTypeOK, IOResultType, Messages
    <3>2. connected /\ link = "open"
          BY <3>1 DEF IInv, ConnectedFirst, Working, LinkUp
    <3>3. isSendingBlinkCommand
          BY <3>1 DEF IInv, DisabledWhileAwaiting, OneToken, AtDesk
    <3>4. uiEvents = 0
          BY <3>1, <3>3 DEF IInv, ClickWaits
    <3> QED
        BY <3>1, <3>2, <3>4 DEF BothRead
  <2>2. /\ phase = "running" /\ phase' = "running"
        /\ link' \in {"none", "pending", "open"}
        BY DEF Working, LinkUp
  <2>3. writes + AtEsp + InHand + AtDesk + Messages = 1
        BY <2>1 DEF IInv, TypeOK, AppTypeOK, OneToken, Working, AtEsp, InHand, AtDesk
  <2>4. toEsp \in {0, CommandLen} /\ toDesk \in {0, ReplyLen}
        BY DEF IInv, WholeMessages, Working
  <2>5. /\ AtEsp = IF toEsp = 0 THEN 0 ELSE 1
        /\ AtEsp' = IF toEsp' = 0 THEN 0 ELSE 1
        /\ InHand = IF espPc = "sendData" THEN 1 ELSE 0
        /\ InHand' = IF espPc' = "sendData" THEN 1 ELSE 0
        /\ AtDesk = IF toDesk = ReplyLen THEN 1 ELSE 0
        /\ AtDesk' = IF toDesk' = ReplyLen THEN 1 ELSE 0
        /\ Distance' = (6 * writes') + written' + (4 * AtEsp') + (3 * InHand')
                       + (2 * AtDesk') + Messages'
        BY DEF AtEsp, InHand, AtDesk, Distance
  <2> USE LengthsAssumption
  <2>6. CASE App(ReadCompletes)
    <3>1. /\ toDesk = ReplyLen /\ toDesk' = 0 /\ Messages' = Messages + 1
          /\ UNCHANGED <<writes, written, toEsp, espPc>>
          BY <2>4, <2>6 DEF App, ReadCompletes, Push, espVars, Messages, IInv, TypeOK,
                            AppTypeOK, IOResultType
    <3> QED
        BY <2>1, <2>3, <2>5, <3>1 DEF Advances, Distance
  <2>7. CASE App(WriteCompletes)
    <3>1. /\ writes > 0 /\ writes' = writes - 1 /\ written' = written + 1
          /\ toEsp' = toEsp + CommandLen
          /\ UNCHANGED <<toDesk, espPc, Messages>>
          BY <2>1, <2>7 DEF App, WriteCompletes, espVars, Messages
    <3> QED
        BY <2>1, <2>3, <2>4, <2>5, <3>1 DEF Advances, Distance
  <2>8. CASE Esp(receiveBytes)
    <3>1. /\ toEsp = CommandLen /\ espPc = "receiveData" /\ espPc' = "sendData"
          /\ UNCHANGED <<writes, written, toDesk, Messages>>
          BY <2>4, <2>8 DEF Esp, receiveBytes, appVars, ioVars, Messages
    <3>2. toEsp' < toEsp
      <4>1. PICK n \in 1..Smaller(toEsp, CommandLen) : toEsp' = toEsp - n
            BY <2>8 DEF Esp, receiveBytes
      <4> QED
          BY <3>1, <4>1 DEF Smaller
    <3>3. toEsp' \in {0, CommandLen}
          BY DEF IInv, WholeMessages
    <3> QED
        BY <2>1, <2>3, <2>5, <3>1, <3>2, <3>3 DEF Advances, Distance
  <2>9. CASE Esp(sendData)
    <3>1. /\ espPc = "sendData" /\ espPc' \in {"receiveData", "xSemaphoreTake"}
          /\ toDesk' = toDesk + ReplyLen /\ UNCHANGED <<writes, written, toEsp, Messages>>
          BY <2>1, <2>9 DEF Esp, sendData, appVars, ioVars, Messages
    <3> QED
        BY <2>1, <2>3, <2>4, <2>5, <3>1 DEF Advances, Distance
  <2>10. CASE App(Frame)
    <3>1. /\ Messages' = 0 /\ writes' = writes /\ written' = written
          /\ UNCHANGED <<toDesk, toEsp, espPc>>
          BY <2>1, <2>10 DEF App, Frame, processUiEvents, processIOResults, NoResults,
                             IOResultType, linkVars, espVars, Messages
    <3>2. UNCHANGED <<AtEsp, InHand, AtDesk>>
          BY <3>1 DEF AtEsp, InHand, AtDesk
    <3>3. Messages = 0 \/ Distance' < Distance
          BY <2>1, <2>5, <3>1, <3>2 DEF Distance
    <3> QED
        BY <3>1, <3>3 DEF Advances
  <2>11. CASE App(AcceptFails) \/ App(AcceptCancelled) \/ App(Accept)
         BY <2>1, <2>11 DEF App, AcceptFails, AcceptCancelled, Accept
  <2>12. CASE App(ReadFails) \/ App(Stop)
         BY <2>1, <2>2, <2>12 DEF App, ReadFails, EndOfStream, Stop
  <2>13. CASE App(RequestStop)
         BY <2>13 DEF App, RequestStop, ioVars, linkVars, espVars, Messages, Advances
  <2>14. CASE \/ Esp(connectToServer(Listening)) \/ Esp(receiveEndOfStream)
              \/ Esp(receiveFails(Listening)) \/ Esp(takeNullSemaphore)
         BY <2>1, <2>14 DEF Esp, connectToServer, receiveEndOfStream, receiveFails,
                            takeNullSemaphore, Listening
  <2>15. CASE Esp(EspPowerCycles) \/ NetworkBreaks
         BY <2>1, <2>2, <2>15 DEF Esp, EspPowerCycles, EspResets, NetworkBreaks, LinkBreaks
  <2>16. CASE App(WriteHandled)
    <3>1. /\ written > 0 /\ written' = written - 1
          /\ UNCHANGED <<writes, toEsp, espPc, toDesk, Messages>>
          BY <2>16 DEF App, WriteHandled, linkVars, espVars, Messages
    <3>2. UNCHANGED <<AtEsp, InHand, AtDesk>>
          BY <3>1 DEF AtEsp, InHand, AtDesk
    <3> QED
        BY <2>1, <2>5, <3>1, <3>2 DEF Advances, Distance
  <2> QED
      BY <2>6, <2>7, <2>8, <2>9, <2>10, <2>11, <2>12, <2>13, <2>14, <2>15, <2>16
      DEF Next
<1> QED
    BY <1>1, Inductive, BothReadOn, PTL DEF Spec
-----------------------------------------------------------------------------
(* What holds of the benchmark whether or not TCP splits commands.         *)

(* A reply that the ESP32 will send on a link that may still carry it.     *)
Answering == IF espPc = "sendData" /\ link \in {"pending", "open"} THEN 1 ELSE 0

(* How many replies may still come: one for each byte that was written and *)
(* has not caused one.                                                     *)
BytesSent == CommandLen * (commands - writes)
MayCome == BytesSent - (latencies + Messages + toEsp + Answering)

AnyInv == /\ TypeOK
          /\ commands + uiEvents <= MaxClicks
          /\ toDesk <= ReplyLen * MayCome

(* One factor at a time.                                                   *)
LEMMA Distributes ==
    ASSUME NEW r \in Nat, NEW a \in Int, NEW b \in Int
    PROVE  r * (a + b) = r * a + r * b
OBVIOUS

LEMMA Grows ==
    ASSUME NEW r \in Nat, NEW a \in Int, NEW b \in Int, a <= b
    PROVE  r * a <= r * b
<1>1. PICK c \in Nat : b = a + c
  <2>1. b - a \in Nat /\ b = a + (b - a)
        OBVIOUS
  <2> QED
      BY <2>1
<1>2. r * b = r * a + r * c /\ r * a \in Int /\ r * c \in Nat
      BY <1>1, Distributes
<1> QED
    BY <1>2

(* Nothing has been sent when the programs start.                          *)
LEMMA InitAny == Init => AnyInv
<1> SUFFICES ASSUME Init PROVE AnyInv
    OBVIOUS
<1>1. TypeOK /\ ClickWaits
      BY InitIInv DEF IInv
<1>2. /\ Messages = 0 /\ Answering = 0 /\ toDesk = 0 /\ toEsp = 0
      /\ commands = 0 /\ writes = 0 /\ latencies = 0
      BY DEF Init, AppInit, EspInit, LinkInit, NoResults, IOResultType, Messages, Answering
<1>3. MayCome = 0
      BY <1>2, LengthsAssumption DEF MayCome, BytesSent
<1> QED
    BY <1>1, <1>2, <1>3, LengthsAssumption DEF AnyInv, ClickWaits

(* If more may come or less is there, the bound stays.                     *)
LEMMA StaysBounded ==
    ASSUME NEW r \in Nat, NEW d \in Nat, NEW e \in Nat, NEW m \in Int, NEW n \in Int,
           d <= r * m,
           \/ e <= d /\ m <= n
           \/ e = d - r /\ n = m - 1
           \/ e = d + r /\ n = m + 1
    PROVE  e <= r * n
<1>1. r * m \in Int /\ r * n \in Int
      OBVIOUS
<1>2. CASE e <= d /\ m <= n
  <2>1. r * m <= r * n
        BY <1>2, Grows
  <2> QED
      BY <1>1, <1>2, <2>1
<1>3. CASE e = d - r /\ n = m - 1
  <2>1. r * m = r * n + r * 1
        BY <1>3, Distributes
  <2> QED
      BY <1>1, <1>3, <2>1
<1>4. CASE e = d + r /\ n = m + 1
  <2>1. r * n = r * m + r * 1
        BY <1>4, Distributes
  <2> QED
      BY <1>1, <1>4, <2>1
<1> QED
    BY <1>2, <1>3, <1>4

(* What may come, of what is sent and what has come of it.                 *)
LEMMA MayComeType ==
    ASSUME TypeOK
    PROVE  /\ Answering \in {0, 1} /\ Messages \in Nat /\ toEsp \in Nat
           /\ latencies \in Nat /\ commands \in Nat /\ writes \in Nat /\ toDesk \in Nat
           /\ BytesSent \in Int /\ MayCome \in Int
<1>1. /\ Answering \in {0, 1} /\ Messages \in Nat /\ toEsp \in Nat /\ latencies \in Nat
      /\ commands \in Nat /\ writes \in Nat /\ toDesk \in Nat
      BY MaxClicksAssumption
      DEF TypeOK, AppTypeOK, LinkTypeOK, Answering, Messages, IOResultType
<1>2. commands - writes \in Int
      BY <1>1
<1>3. BytesSent \in Int
      BY <1>2, LengthsAssumption DEF BytesSent
<1> QED
    BY <1>1, <1>3 DEF MayCome

(* If more may come, and nothing has come, the bound stays.                *)
LEMMA MoreMayCome ==
    ASSUME AnyInv, NEW k \in Nat, MayCome' = MayCome + k, toDesk' \in 0..toDesk
    PROVE  toDesk' <= ReplyLen * MayCome'
<1>1. MayCome \in Int /\ toDesk \in Nat /\ toDesk <= ReplyLen * MayCome
      BY MayComeType DEF AnyInv
<1>2. PICK e \in Nat : e = toDesk' /\ e <= toDesk
      BY <1>1
<1>3. PICK n \in Int : n = MayCome' /\ MayCome <= n
      BY <1>1
<1>4. e <= ReplyLen * n
      BY <1>1, <1>2, <1>3, LengthsAssumption, StaysBounded
<1> QED
    BY <1>2, <1>3, <1>4

(* A frame moves what is counted.                                          *)
LEMMA FrameAny == AnyInv /\ App(Frame) => AnyInv'
<1> SUFFICES ASSUME AnyInv, App(Frame) PROVE AnyInv'
    OBVIOUS
<1> USE LengthsAssumption, MaxClicksAssumption
<1>1. /\ phase = "running" /\ UNCHANGED <<phase, acceptor, written, readEnded>>
      /\ UNCHANGED <<connType, stopFlag, windowShouldClose, link, toEsp, toDesk>>
      /\ UNCHANGED <<espPc, espSock, streamPos, terminated>>
      BY DEF App, Frame, callerVars, linkVars, espVars
<1>2. /\ ioResults' \in [IOResultType -> Nat] /\ Messages' = 0
      BY DEF App, Frame, processIOResults, NoResults, IOResultType, Messages
<1>3. /\ commands' = commands + uiEvents /\ writes' = writes + uiEvents
      /\ latencies' = latencies + Messages
      /\ reads' = reads + ioResults["CONNECTED"] + Messages
      /\ connected' \in BOOLEAN /\ isSendingBlinkCommand' \in BOOLEAN
  <2>1. isSendingBlinkCommand \in BOOLEAN /\ connected \in BOOLEAN
        BY DEF AnyInv, TypeOK, AppTypeOK
  <2> QED
      BY <2>1 DEF App, Frame, processUiEvents, processIOResults, Messages
<1>4. \/ uiEvents' = 0
      \/ commands' < MaxClicks /\ uiEvents' = 1
      BY DEF App, Frame, render
<1>5. /\ uiEvents \in 0..1 /\ reads \in Nat /\ ioResults["CONNECTED"] \in Nat
      /\ commands + uiEvents <= MaxClicks
      BY DEF AnyInv, TypeOK, AppTypeOK, IOResultType
<1>6. /\ Answering \in {0, 1} /\ Messages \in Nat /\ toEsp \in Nat /\ latencies \in Nat
      /\ commands \in Nat /\ writes \in Nat /\ toDesk \in Nat
      /\ BytesSent \in Int /\ MayCome \in Int
      BY MayComeType DEF AnyInv
<1>7. commands' + uiEvents' <= MaxClicks /\ commands' \in 0..MaxClicks /\ uiEvents' \in 0..1
      BY <1>3, <1>4, <1>5, <1>6
<1>8. reads' \in Nat /\ writes' \in Nat /\ latencies' \in Nat
      BY <1>3, <1>5, <1>6
<1>9. TypeOK'
      BY <1>1, <1>2, <1>3, <1>7, <1>8 DEF AnyInv, TypeOK, AppTypeOK, EspTypeOK, LinkTypeOK
<1>10. MayCome' = MayCome
  <2>1. BytesSent' = BytesSent
    <3>1. commands' - writes' = commands - writes
          BY <1>3, <1>5, <1>6
    <3> QED
        BY <3>1 DEF BytesSent
  <2>2. Answering' = Answering
        BY <1>1 DEF Answering
  <2> QED
      BY <1>1, <1>2, <1>3, <1>6, <2>1, <2>2 DEF MayCome
<1> QED
    BY <1>1, <1>7, <1>9, <1>10 DEF AnyInv

(* The other handlers: a write brings bytes for which replies may come, a  *)
(* read brings one of them.                                                *)
LEMMA HandlersAny ==
    ASSUME AnyInv,
           \/ App(AcceptFails) \/ App(AcceptCancelled) \/ App(Accept)
           \/ App(ReadCompletes) \/ App(ReadFails) \/ App(WriteCompletes)
           \/ App(WriteHandled) \/ App(Stop) \/ App(RequestStop)
    PROVE  AnyInv'
<1> USE LengthsAssumption, MaxClicksAssumption, TcpAssumption
<1>1. TypeOK'
  <2> USE DEF TypeOK, AppTypeOK, EspTypeOK, LinkTypeOK, IOResultType, App, Push,
              NoResults, Phases, LinkStates, linkVars, espVars, ioVars, uiVars, callerVars
  <2>0. TypeOK
        BY DEF AnyInv
  <2>1. CASE App(AcceptFails) \/ App(AcceptCancelled) \/ App(Accept)
        BY <2>0, <2>1 DEF AcceptFails, AcceptCancelled, Accept
  <2>2. CASE App(ReadCompletes)
        BY <2>0, <2>2 DEF ReadCompletes
  <2>5. CASE App(ReadFails)
        BY <2>0, <2>5 DEF ReadFails, ReadEnds
  <2>3. CASE App(WriteCompletes) \/ App(WriteHandled) \/ App(Stop)
        BY <2>0, <2>3 DEF WriteCompletes, WriteHandled, Stop
  <2>4. CASE App(RequestStop)
    <3>1. /\ stopFlag' \in BOOLEAN /\ windowShouldClose' \in BOOLEAN
          /\ UNCHANGED <<connType, phase, ioVars, uiVars, ioResults, linkVars, espVars>>
          BY <2>0, <2>4 DEF RequestStop
    <3> QED
        BY <2>0, <3>1
  <2> QED
      BY <2>1, <2>2, <2>3, <2>4, <2>5
<1>2. /\ Answering \in {0, 1} /\ Messages \in Nat /\ toEsp \in Nat /\ latencies \in Nat
      /\ commands \in Nat /\ writes \in Nat /\ toDesk \in Nat
      /\ BytesSent \in Int /\ MayCome \in Int
      BY MayComeType DEF AnyInv
<1>3. commands' + uiEvents' <= MaxClicks
  <2>1. commands' = commands /\ (uiEvents' = uiEvents \/ uiEvents' = 0) /\ uiEvents \in 0..1
        BY DEF AnyInv, TypeOK, AppTypeOK, App, AcceptFails, AcceptCancelled, Accept,
               ReadCompletes, ReadFails, ReadEnds, WriteCompletes, WriteHandled,
               Stop, RequestStop, uiVars
  <2> QED
      BY <1>2, <2>1 DEF AnyInv
<1>4. CASE App(AcceptFails) \/ App(AcceptCancelled) \/ App(Accept) \/ App(RequestStop)
  <2>1. /\ UNCHANGED <<commands, writes, latencies, toEsp, toDesk, espPc>>
        /\ link' \in {"pending", "open"} => link \in {"pending", "open"}
        BY <1>4 DEF App, AcceptFails, AcceptCancelled, Accept, RequestStop, uiVars, ioVars,
           espVars, linkVars
  <2>2. Messages' = Messages
        BY <1>4 DEF App, AcceptFails, AcceptCancelled, Accept, RequestStop, Push, Messages,
           AnyInv, TypeOK, AppTypeOK, IOResultType
  <2>3. Answering' \in {Answering, 0}
        BY <2>1 DEF Answering
  <2>4. BytesSent' = BytesSent
        BY <2>1 DEF BytesSent
  <2>5. \E k \in Nat : MayCome' = MayCome + k
    <3>1. CASE Answering' = Answering
      <4>1. MayCome' = MayCome + 0
            BY <1>2, <2>1, <2>2, <2>4, <3>1 DEF MayCome
      <4> QED
          BY <4>1
    <3>2. CASE Answering' = 0
      <4>1. MayCome' = MayCome + Answering
            BY <1>2, <2>1, <2>2, <2>4, <3>2 DEF MayCome
      <4> QED
          BY <1>2, <4>1
    <3> QED
        BY <2>3, <3>1, <3>2
  <2>6. toDesk' \in 0..toDesk
        BY <1>2, <2>1
  <2> QED
      BY <1>1, <1>3, <2>5, <2>6, MoreMayCome DEF AnyInv
<1>5. CASE App(ReadCompletes)
  <2>1. /\ UNCHANGED <<commands, writes, latencies, toEsp, espPc, link>>
        /\ toDesk' = toDesk - ReplyLen
        BY <1>5 DEF App, ReadCompletes, uiVars, espVars
  <2>2. Messages' = Messages + 1
        BY <1>5 DEF App, ReadCompletes, Push, Messages, AnyInv, TypeOK, AppTypeOK, IOResultType
  <2>3. Answering' = Answering /\ BytesSent' = BytesSent
        BY <2>1 DEF Answering, BytesSent
  <2>4. MayCome' = MayCome - 1
        BY <1>2, <2>1, <2>2, <2>3 DEF MayCome
  <2>5. MayCome - 1 \in Int /\ toDesk - ReplyLen \in Nat
        BY <1>1, <1>2, <2>1 DEF TypeOK, LinkTypeOK
  <2>6. toDesk - ReplyLen <= ReplyLen * (MayCome - 1)
        BY <1>2, <2>5, StaysBounded DEF AnyInv
  <2> QED
      BY <1>1, <1>3, <2>1, <2>4, <2>6 DEF AnyInv
<1>6. CASE App(ReadFails) \/ App(WriteHandled)
  <2>1. UNCHANGED <<commands, writes, latencies, toEsp, toDesk, espPc, link, ioResults>>
        BY <1>6 DEF App, ReadFails, ReadEnds, WriteHandled, uiVars, espVars, linkVars
  <2>2. MayCome' = MayCome
        BY <2>1 DEF MayCome, BytesSent, Answering, Messages
  <2> QED
      BY <1>1, <1>3, <2>1, <2>2 DEF AnyInv
<1>7. CASE App(WriteCompletes)
  <2>1. /\ UNCHANGED <<commands, latencies, toDesk, espPc, link, ioResults>>
        /\ writes' = writes - 1
        /\ toEsp' = IF link = "open" THEN toEsp + CommandLen ELSE toEsp
        BY <1>7 DEF App, WriteCompletes, uiVars, espVars
  <2>2. BytesSent' = BytesSent + CommandLen
    <3>1. commands' - writes' = (commands - writes) + 1 /\ commands - writes \in Int
          BY <1>2, <2>1
    <3>2. CommandLen * ((commands - writes) + 1) = CommandLen * (commands - writes) + CommandLen * 1
          BY <3>1, Distributes
    <3> QED
        BY <3>1, <3>2 DEF BytesSent
  <2>3. Answering' = Answering /\ Messages' = Messages
        BY <2>1 DEF Answering, Messages
  <2>4. \E k \in Nat : MayCome' = MayCome + k
    <3>1. MayCome' = MayCome + 0 \/ MayCome' = MayCome + CommandLen
          BY <1>2, <2>1, <2>2, <2>3 DEF MayCome
    <3> QED
        BY <3>1
  <2>5. toDesk' \in 0..toDesk
        BY <1>2, <2>1
  <2> QED
      BY <1>1, <1>3, <2>4, <2>5, MoreMayCome DEF AnyInv
<1>8. CASE App(Stop)
  <2>1. /\ UNCHANGED <<commands, latencies, toEsp, espPc>>
        /\ writes' = 0 /\ toDesk' = 0 /\ Messages' = 0
        /\ link' \in {"none", "closed"}
        BY <1>8 DEF App, Stop, espVars, NoResults, Messages, IOResultType
  <2>2. Answering' = 0
        BY <2>1 DEF Answering
  <2>3. BytesSent' = BytesSent + CommandLen * writes /\ CommandLen * writes \in Nat
    <3>1. /\ commands' - writes' = (commands - writes) + writes
          /\ commands - writes \in Int
          BY <1>2, <2>1
    <3>2. CommandLen * ((commands - writes) + writes)
            = CommandLen * (commands - writes) + CommandLen * writes
          BY <1>2, <3>1, Distributes
    <3> QED
        BY <1>2, <3>1, <3>2 DEF BytesSent
  <2>4. MayCome' = MayCome + (CommandLen * writes + Messages + Answering)
    <3> DEFINE w == CommandLen * writes
    <3>1. w \in Nat /\ BytesSent' = BytesSent + w
          BY <2>3
    <3> HIDE DEF w
    <3>2. MayCome' = MayCome + (w + Messages + Answering)
          BY <1>2, <2>1, <2>2, <3>1 DEF MayCome
    <3> QED
        BY <3>2 DEF w
  <2>5. CommandLen * writes + Messages + Answering \in Nat /\ toDesk' \in 0..toDesk
        BY <1>2, <2>1, <2>3
  <2> QED
      BY <1>1, <1>3, <2>4, <2>5, MoreMayCome DEF AnyInv
<1> QED
    BY <1>4, <1>5, <1>6, <1>7, <1>8

(* The position in a command stays within the command.                     *)
LEMMA PositionType ==
    ASSUME NEW p \in Nat, NEW c \in Nat \ {0}
    PROVE  p % c \in 0..(c - 1)
OBVIOUS

(* The ESP32 turns a byte, or several, into at most one reply.             *)
LEMMA EspAny ==
    ASSUME AnyInv,
           \/ Esp(connectToServer(Listening)) \/ Esp(receiveBytes)
           \/ Esp(receiveEndOfStream) \/ Esp(receiveFails(Listening))
           \/ Esp(sendData) \/ Esp(takeNullSemaphore) \/ Esp(EspPowerCycles)
           \/ NetworkBreaks
    PROVE  AnyInv'
<1> USE LengthsAssumption
<1>1. /\ Answering \in {0, 1} /\ Messages \in Nat /\ toEsp \in Nat /\ latencies \in Nat
      /\ commands \in Nat /\ writes \in Nat /\ toDesk \in Nat
      /\ BytesSent \in Int /\ MayCome \in Int
      BY MayComeType DEF AnyInv
<1>2. UNCHANGED appVars
      BY DEF Esp, NetworkBreaks
<1>3. /\ AppTypeOK' /\ commands' + uiEvents' <= MaxClicks
      /\ BytesSent' = BytesSent /\ UNCHANGED <<Messages, latencies>>
      BY <1>2 DEF AnyInv, TypeOK, AppTypeOK, appVars, ioVars, uiVars, callerVars,
                  BytesSent, Messages
<1>4. CASE Esp(connectToServer(Listening))
  <2>1. /\ UNCHANGED <<toEsp, toDesk>> /\ Answering = 0 /\ Answering' = 0
        BY <1>4 DEF Esp, connectToServer, Answering
  <2>2. EspTypeOK' /\ LinkTypeOK'
        BY <1>4 DEF AnyInv, TypeOK, EspTypeOK, LinkTypeOK, LinkStates, Esp, connectToServer
  <2>3. MayCome' = MayCome
        BY <1>3, <2>1 DEF MayCome
  <2> QED
      BY <1>3, <2>1, <2>2, <2>3 DEF AnyInv, TypeOK
<1>5. CASE Esp(receiveBytes)
  <2>1. PICK n \in 1..Smaller(toEsp, CommandLen) :
            /\ toEsp' = toEsp - n
            /\ streamPos' = (streamPos + n) % CommandLen
            /\ terminated' = IF n = CommandLen THEN streamPos = 0 ELSE terminated
        BY <1>5 DEF Esp, receiveBytes
  <2>2. n \in Nat \ {0} /\ n <= toEsp
        BY <1>1, <2>1 DEF Smaller
  <2>3. /\ espPc = "receiveData" /\ espPc' = "sendData" /\ UNCHANGED <<espSock, link, toDesk>>
        BY <1>5 DEF Esp, receiveBytes
  <2>4. EspTypeOK' /\ LinkTypeOK'
    <3>1. streamPos + n \in Nat
          BY <2>2 DEF AnyInv, TypeOK, EspTypeOK
    <3>2. streamPos' \in 0..(CommandLen - 1)
          BY <2>1, <3>1, PositionType
    <3>3. terminated' \in BOOLEAN
          BY <2>1 DEF AnyInv, TypeOK, EspTypeOK
    <3>4. toEsp' \in Nat
          BY <1>1, <2>1, <2>2
    <3> QED
        BY <2>3, <3>2, <3>3, <3>4 DEF AnyInv, TypeOK, EspTypeOK, LinkTypeOK
  <2>5. Answering = 0 /\ Answering' \in {0, 1}
        BY <2>3 DEF Answering
  <2>6. \E k \in Nat : MayCome' = MayCome + k
    <3>1. CASE Answering' = 0
      <4>1. MayCome' = MayCome + n
            BY <1>1, <1>3, <2>1, <2>2, <2>5, <3>1 DEF MayCome
      <4> QED
          BY <2>2, <4>1
    <3>2. CASE Answering' = 1
      <4>1. MayCome' = MayCome + (n - 1) /\ n - 1 \in Nat
            BY <1>1, <1>3, <2>1, <2>2, <2>5, <3>2 DEF MayCome
      <4> QED
          BY <4>1
    <3> QED
        BY <2>5, <3>1, <3>2
  <2>7. toDesk' \in 0..toDesk
        BY <1>1, <2>3
  <2> QED
      BY <1>3, <2>4, <2>6, <2>7, MoreMayCome DEF AnyInv, TypeOK
<1>6. CASE Esp(receiveEndOfStream) \/ Esp(receiveFails(Listening))
  <2>1. /\ UNCHANGED <<toEsp, toDesk>> /\ Answering = 0 /\ Answering' = 0
        BY <1>6 DEF Esp, receiveEndOfStream, receiveFails, linkVars, Answering
  <2>2. EspTypeOK' /\ LinkTypeOK'
        BY <1>6 DEF AnyInv, TypeOK, EspTypeOK, LinkTypeOK, Esp, receiveEndOfStream,
                    receiveFails, linkVars
  <2>3. MayCome' = MayCome
        BY <1>3, <2>1 DEF MayCome
  <2> QED
      BY <1>3, <2>1, <2>2, <2>3 DEF AnyInv, TypeOK
<1>7. CASE Esp(sendData)
  <2>1. /\ espPc = "sendData" /\ espPc' \in {"receiveData", "xSemaphoreTake"}
        /\ toDesk' = IF link \in {"pending", "open"} THEN toDesk + ReplyLen ELSE toDesk
        /\ UNCHANGED <<espSock, streamPos, terminated, link, toEsp>>
        BY <1>7 DEF Esp, sendData
  <2>2. EspTypeOK' /\ LinkTypeOK'
        BY <2>1 DEF AnyInv, TypeOK, EspTypeOK, LinkTypeOK
  <2>3. Answering' = 0 /\ Answering = IF link \in {"pending", "open"} THEN 1 ELSE 0
        BY <2>1 DEF Answering
  <2>4. MayCome' = MayCome + Answering
        BY <1>1, <1>3, <2>1, <2>3 DEF MayCome
  <2>5. CASE link \in {"pending", "open"}
    <3>1. toDesk + ReplyLen <= ReplyLen * (MayCome + 1)
          BY <1>1, StaysBounded DEF AnyInv
    <3> QED
        BY <1>3, <2>1, <2>2, <2>3, <2>4, <2>5, <3>1 DEF AnyInv, TypeOK
  <2>6. CASE link \notin {"pending", "open"}
    <3>1. MayCome' = MayCome /\ toDesk' = toDesk
          BY <1>1, <2>1, <2>3, <2>4, <2>6
    <3> QED
        BY <1>3, <2>2, <3>1 DEF AnyInv, TypeOK
  <2> QED
      BY <2>5, <2>6
<1>8. CASE Esp(takeNullSemaphore) \/ Esp(EspPowerCycles) \/ NetworkBreaks
  <2>1. toEsp' = 0 /\ toDesk' \in 0..toDesk /\ Answering' = 0
        BY <1>1, <1>8 DEF Esp, takeNullSemaphore, EspPowerCycles, EspResets, EspBoots,
                          NetworkBreaks, LinkBreaks, Answering
  <2>2. EspTypeOK' /\ LinkTypeOK'
    <3>1. link \in LinkStates /\ toDesk' \in Nat
          BY <1>1, <2>1 DEF AnyInv, TypeOK, LinkTypeOK
    <3>2. CASE Esp(takeNullSemaphore) \/ Esp(EspPowerCycles)
      <4>1. /\ espPc' = "connectToServer" /\ espSock' = "none"
            /\ streamPos' = 0 /\ terminated' = TRUE
            /\ link' = IF link \in {"pending", "open"} THEN "lost" ELSE link
            BY <3>2 DEF Esp, takeNullSemaphore, EspPowerCycles, EspResets, EspBoots
      <4>2. link' \in LinkStates
            BY <3>1, <4>1 DEF LinkStates
      <4>3. EspTypeOK'
            BY <4>1 DEF EspTypeOK
      <4> QED
          BY <2>1, <3>1, <4>2, <4>3 DEF LinkTypeOK
    <3>3. CASE NetworkBreaks
          BY <2>1, <3>1, <3>3 DEF NetworkBreaks, LinkBreaks, LinkStates, espVars,
             AnyInv, TypeOK, EspTypeOK, LinkTypeOK
    <3> QED
        BY <1>8, <3>2, <3>3
  <2>3. MayCome' = MayCome + (toEsp + Answering)
        BY <1>1, <1>3, <2>1 DEF MayCome
  <2>4. toEsp + Answering \in Nat
        BY <1>1
  <2> QED
      BY <1>3, <2>1, <2>2, <2>3, <2>4, MoreMayCome DEF AnyInv, TypeOK
<1> QED
    BY <1>4, <1>5, <1>6, <1>7, <1>8

(* It holds in every reachable state, however TCP splits what is sent.     *)
THEOREM AnyInductive == Spec => []AnyInv
<1>1. AnyInv /\ [Next]_vars => AnyInv'
  <2>1. ASSUME AnyInv, UNCHANGED vars PROVE AnyInv'
        BY <2>1 DEF AnyInv, TypeOK, AppTypeOK, EspTypeOK, LinkTypeOK, MayCome,
                    BytesSent, Answering, Messages, vars, appVars, ioVars, uiVars,
                    callerVars, espVars, linkVars
  <2> QED
      BY <2>1, FrameAny, HandlersAny, EspAny DEF Next
<1> QED
    BY <1>1, InitAny, PTL DEF Spec

(* Type correctness of both programs and their connection.                 *)
THEOREM TypeCorrect == Spec => []TypeOK
<1>1. AnyInv => TypeOK
      BY DEF AnyInv
<1> QED
    BY <1>1, AnyInductive, PTL

(* There are no more latencies and unprocessed replies than bytes sent.    *)
RepliesAreAsked == latencies + Messages <= CommandLen * commands

(* What has come and may come was asked for.                               *)
LEMMA BoundOfReplies ==
    ASSUME AnyInv
    PROVE  /\ MayCome >= 0
           /\ MayCome + Answering + latencies + Messages <= CommandLen * commands
<1> USE LengthsAssumption
<1>1. /\ Answering \in {0, 1} /\ Messages \in Nat /\ toEsp \in Nat /\ latencies \in Nat
      /\ commands \in Nat /\ writes \in Nat /\ toDesk \in Nat
      /\ BytesSent \in Int /\ MayCome \in Int
      BY MayComeType DEF AnyInv
<1>2. MayCome >= 0
  <2>1. PICK m \in Int : m = MayCome /\ 0 <= ReplyLen * m
        BY <1>1 DEF AnyInv
  <2>2. m < 0 => ReplyLen * m <= ReplyLen * (0 - 1)
        BY <2>1, Grows
  <2>3. ReplyLen * (0 - 1) < 0
        OBVIOUS
  <2>4. ReplyLen * m \in Int
        BY <2>1
  <2>5. m >= 0
        BY <2>1, <2>2, <2>3, <2>4
  <2> QED
      BY <2>1, <2>5
<1>3. BytesSent <= CommandLen * commands
  <2>1. commands - writes \in Int /\ commands - writes <= commands
        BY <1>1
  <2> QED
      BY <1>1, <2>1, Grows DEF BytesSent
<1>4. CommandLen * commands \in Nat
      BY <1>1
<1>5. MayCome + Answering + latencies + Messages <= BytesSent
      BY <1>1 DEF MayCome
<1> QED
    BY <1>1, <1>2, <1>3, <1>4, <1>5

(* What has been answered was asked for: the ESP32 never makes up a reply, *)
(* in whatever pieces receiveData gets the commands, and no reset or       *)
(* failure makes one count twice (receiveData, sendData, processIOResults).*)
THEOREM NoReplyMadeUp == Spec => []RepliesAreAsked
<1>1. AnyInv => RepliesAreAsked
  <2> SUFFICES ASSUME AnyInv PROVE RepliesAreAsked
      OBVIOUS
  <2>1. /\ MayCome \in Int /\ latencies \in Nat /\ Messages \in Nat /\ commands \in Nat
        BY MayComeType DEF AnyInv
  <2>2. CommandLen * commands \in Nat
        BY <2>1, LengthsAssumption
  <2>3. Answering \in {0, 1}
        BY MayComeType DEF AnyInv
  <2> QED
      BY <2>1, <2>2, <2>3, BoundOfReplies DEF RepliesAreAsked
<1> QED
    BY <1>1, AnyInductive, PTL
-----------------------------------------------------------------------------
(* The ESP32 is a peer that DesktopOpen reckons with, so that what is      *)
(* proved there holds here: of each byte it is sent it makes at most one   *)
(* reply.                                                                  *)
Desktop == INSTANCE DesktopProofs WITH MaxReplies <- MaxClicks * CommandLen

ImplementsDesktop == Desktop!Spec

(* Every handler is the same handler there.                                *)
LEMMA HandlersOfDesktop ==
    ASSUME \/ App(AcceptFails) \/ App(AcceptCancelled) \/ App(Accept)
           \/ App(ReadCompletes) \/ App(ReadFails) \/ App(WriteCompletes)
           \/ App(WriteHandled) \/ App(Frame) \/ App(Stop) \/ App(RequestStop)
    PROVE  Desktop!Next
<1> USE DEF ioVars, uiVars, callerVars, linkVars, Push, NoResults, IOResultType,
            Desktop!ioVars, Desktop!uiVars, Desktop!callerVars, Desktop!linkVars,
            Desktop!Push, Desktop!NoResults, Desktop!IOResultType
<1>1. App(AcceptFails) => Desktop!AcceptFails
      BY DEF App, AcceptFails, Desktop!AcceptFails
<1>2. App(AcceptCancelled) => Desktop!AcceptCancelled
      BY DEF App, AcceptCancelled, Desktop!AcceptCancelled
<1>3. App(Accept) => Desktop!Accept
      BY DEF App, Accept, Desktop!Accept
<1>4. App(ReadCompletes) => Desktop!ReadCompletes
      BY DEF App, ReadCompletes, Desktop!ReadCompletes
<1>5. App(ReadFails) => Desktop!ReadFails
      BY DEF App, ReadFails, ReadEnds, EndOfStream,
             Desktop!ReadFails, Desktop!ReadEnds, Desktop!EndOfStream
<1>6. App(WriteCompletes) => Desktop!WriteCompletes
      BY DEF App, WriteCompletes, Desktop!WriteCompletes
<1>6a. App(WriteHandled) => Desktop!WriteHandled
      BY DEF App, WriteHandled, Desktop!WriteHandled
<1>7. App(Frame) => Desktop!Frame
      BY DEF App, Frame, processUiEvents, processIOResults, render, StopRequested,
             Desktop!Frame, Desktop!processUiEvents, Desktop!processIOResults,
             Desktop!render, Desktop!StopRequested
<1>8. App(Stop) => Desktop!Stop
      BY DEF App, Stop, StopRequested, Desktop!Stop, Desktop!StopRequested
<1>9. App(RequestStop) => Desktop!RequestStop
      BY DEF App, RequestStop, Desktop!RequestStop
<1> QED
    BY <1>1, <1>2, <1>3, <1>4, <1>5, <1>6, <1>7, <1>6a, <1>8, <1>9 DEF Desktop!Next

(* What has come and may come fits into the bytes of MaxClicks commands.   *)
LEMMA RepliesFit ==
    ASSUME NEW r \in Nat, NEW c \in Nat, NEW k \in Nat, NEW M \in Nat, k <= M,
           NEW m \in Int, NEW a \in Nat, NEW b \in Nat, NEW d \in Nat,
           m + a + b <= c * k, d <= r * m
    PROVE  d + (a + b) * r <= (M * c) * r
<1>1. c * k <= c * M /\ c * k \in Nat /\ c * M \in Nat /\ c * M = M * c
      BY Grows
<1>2. PICK t \in Nat : t = c * M
      BY <1>1
<1>3. m + (a + b) <= t
      BY <1>1, <1>2
<1>4. r * (m + (a + b)) = r * m + r * (a + b) /\ r * (m + (a + b)) <= r * t
      BY <1>3, Distributes, Grows
<1>5. (a + b) * r = r * (a + b) /\ t * r = r * t
      OBVIOUS
<1>6. r * m \in Int /\ r * (a + b) \in Int /\ r * t \in Int
      OBVIOUS
<1>7. d + r * (a + b) <= r * t
      BY <1>4, <1>6
<1> QED
    BY <1>1, <1>2, <1>5, <1>7

(* The bound is a number, as DesktopOpen asks of its MaxReplies.           *)
LEMMA RepliesAreFinite == MaxClicks * CommandLen \in Nat
BY MaxClicksAssumption, LengthsAssumption

(* Whatever the ESP32 and the network do, an arbitrary peer may do.        *)
LEMMA StepsOfPeer ==
    ASSUME AnyInv,
           \/ Esp(connectToServer(Listening)) \/ Esp(receiveBytes)
           \/ Esp(receiveEndOfStream) \/ Esp(receiveFails(Listening))
           \/ Esp(sendData) \/ Esp(takeNullSemaphore) \/ Esp(EspPowerCycles)
           \/ NetworkBreaks
    PROVE  [Desktop!Next]_(Desktop!vars)
<1> USE LengthsAssumption, MaxClicksAssumption
<1> USE DEF Desktop!vars, Desktop!appVars, Desktop!ioVars, Desktop!uiVars,
            Desktop!callerVars, Desktop!linkVars,
            appVars, ioVars, uiVars, callerVars, linkVars
<1>1. toEsp \in Nat /\ toDesk \in Nat
      BY DEF AnyInv, TypeOK, LinkTypeOK
<1>2. CASE Esp(connectToServer(Listening))
  <2>1. Desktop!PeerConnects \/ UNCHANGED Desktop!vars
        BY <1>2 DEF Esp, connectToServer, Listening, Desktop!PeerConnects
  <2> QED
      BY <2>1 DEF Desktop!Next
<1>3. CASE Esp(receiveBytes)
  <2>1. PICK n \in 1..Smaller(toEsp, CommandLen) : toEsp' = toEsp - n
        BY <1>3 DEF Esp, receiveBytes
  <2>2. Smaller(toEsp, CommandLen) \in 0..toEsp
        BY <1>1 DEF Smaller
  <2>3. toEsp > 0 /\ toEsp' \in 0..(toEsp - 1)
        BY <1>1, <2>1, <2>2
  <2>4. Desktop!PeerReads
        BY <1>3, <2>3 DEF Esp, receiveBytes, Desktop!PeerReads
  <2> QED
      BY <2>4 DEF Desktop!Next
<1>4. CASE Esp(receiveEndOfStream) \/ Esp(receiveFails(Listening))
      BY <1>4 DEF Esp, receiveEndOfStream, receiveFails
<1>5. CASE Esp(sendData)
  <2>1. /\ espPc = "sendData" /\ UNCHANGED <<appVars, link, toEsp>>
        /\ toDesk' = IF link \in {"pending", "open"} THEN toDesk + ReplyLen ELSE toDesk
        BY <1>5 DEF Esp, sendData
  <2>2. CASE link \in {"pending", "open"}
    <3>1. /\ latencies \in Nat /\ Messages \in Nat /\ commands \in 0..MaxClicks
          /\ UNCHANGED <<commands, latencies, Messages>>
          BY <2>1, MayComeType DEF AnyInv, TypeOK, AppTypeOK, Messages
    <3>2. toDesk + ReplyLen <= ReplyLen * (MayCome + 1)
          BY MayComeType, StaysBounded DEF AnyInv
    <3>3. MayCome \in Int /\ (MayCome + 1) + latencies + Messages <= CommandLen * commands
          BY <2>1, <2>2, MayComeType, BoundOfReplies DEF AnyInv, Answering
    <3>4. (toDesk + ReplyLen) + (latencies + Messages) * ReplyLen
            <= (MaxClicks * CommandLen) * ReplyLen
          BY <1>1, <3>1, <3>2, <3>3, RepliesFit
    <3>5. /\ toDesk' \in (toDesk + 1)..(toDesk + ReplyLen) /\ toEsp' \in 0..toEsp
          /\ toDesk' + (latencies + ioResults["MSG_RECEIVED"]) * ReplyLen
               <= (MaxClicks * CommandLen) * ReplyLen
          BY <1>1, <2>1, <2>2, <3>4 DEF Messages
    <3>6. Desktop!PeerSends
          BY <2>1, <2>2, <3>5 DEF Desktop!PeerSends
    <3> QED
        BY <3>6 DEF Desktop!Next
  <2>3. CASE link \notin {"pending", "open"}
        BY <2>1, <2>3
  <2> QED
      BY <2>2, <2>3
<1>6. CASE Esp(takeNullSemaphore) \/ Esp(EspPowerCycles)
  <2>1. /\ link' = IF link \in {"pending", "open"} THEN "lost" ELSE link
        /\ toEsp' = 0 /\ UNCHANGED <<appVars, toDesk>>
        BY <1>6 DEF Esp, takeNullSemaphore, EspPowerCycles, EspResets
  <2>2. CASE link \in {"pending", "open"}
        BY <1>1, <2>1, <2>2 DEF Desktop!Next, Desktop!PeerLeaves
  <2>3. CASE link \notin {"pending", "open"} /\ toEsp > 0
        BY <1>1, <2>1, <2>3 DEF Desktop!Next, Desktop!PeerReads
  <2>4. CASE link \notin {"pending", "open"} /\ toEsp = 0
        BY <2>1, <2>4
  <2> QED
      BY <1>1, <2>2, <2>3, <2>4
<1>7. CASE NetworkBreaks
      BY <1>1, <1>7 DEF NetworkBreaks, LinkBreaks, Desktop!Next, Desktop!PeerLeaves
<1> QED
    BY <1>2, <1>3, <1>4, <1>5, <1>6, <1>7

(* The io_context is as fair to one as to the other.                       *)
LEMMA SameFairness == AppFairness => Desktop!AppFairness
BY PTL
DEF AppFairness, Desktop!AppFairness,
    appVars, ioVars, uiVars, callerVars, linkVars, IOResultType, NoResults, Push,
    Desktop!appVars, Desktop!ioVars, Desktop!uiVars, Desktop!callerVars, Desktop!linkVars,
    Desktop!IOResultType, Desktop!NoResults, Desktop!Push,
    runAppLoop, Frame, Stop, StopRequested, processUiEvents, processIOResults, render,
    Desktop!runAppLoop, Desktop!Frame, Desktop!Stop, Desktop!StopRequested,
    Desktop!processUiEvents, Desktop!processIOResults, Desktop!render,
    Accept, HandshakeBroken, HandshakeFails, ReadCompletes, ReadFails, ReadEnds,
    EndOfStream, WriteCompletes, WriteHandled,
    Desktop!Accept, Desktop!HandshakeBroken, Desktop!HandshakeFails,
    Desktop!ReadCompletes, Desktop!ReadFails, Desktop!ReadEnds, Desktop!EndOfStream,
    Desktop!WriteCompletes, Desktop!WriteHandled

(* The desktop of the TCP benchmark is the desktop with an arbitrary peer, *)
(* fairness included: everything that is shown of DesktopOpen holds here.  *)
THEOREM IsDesktop == Spec => ImplementsDesktop
<1>1. Init => Desktop!Init
      BY DEF Init, AppInit, LinkInit, NoResults, IOResultType, Desktop!Init,
             Desktop!AppInit, Desktop!LinkInit, Desktop!NoResults, Desktop!IOResultType
<1>2. AnyInv /\ [Next]_vars => [Desktop!Next]_(Desktop!vars)
  <2>1. UNCHANGED vars => UNCHANGED Desktop!vars
        BY DEF vars, appVars, ioVars, uiVars, callerVars, linkVars, Desktop!vars,
               Desktop!appVars, Desktop!ioVars, Desktop!uiVars, Desktop!callerVars,
               Desktop!linkVars
  <2> QED
      BY <2>1, HandlersOfDesktop, StepsOfPeer DEF Next
<1> QED
    BY <1>1, <1>2, AnyInductive, SameFairness, PTL DEF Spec, ImplementsDesktop, Desktop!Spec

(* What DesktopProofs asks of the constants.                               *)
LEMMA DesktopAssumptions ==
    /\ Desktop!LengthsAssumption
    /\ Desktop!ConnTypesAssumption
    /\ Desktop!MaxClicksAssumption
    /\ Desktop!MaxRepliesAssumption
BY LengthsAssumption, ConnTypesAssumption, MaxClicksAssumption, RepliesAreFinite
DEF Desktop!LengthsAssumption, Desktop!ConnTypesAssumption, Desktop!MaxClicksAssumption,
    Desktop!MaxRepliesAssumption, ConnectionType, Desktop!ConnectionType

NoEmptyMessage == readEnded # "empty"

(* There are no empty messages on a TCP stream.                            *)
LEMMA StreamsHaveNoMessages == Spec => []NoEmptyMessage
<1>1. Init => NoEmptyMessage
      BY DEF Init, AppInit, NoEmptyMessage
<1>2. NoEmptyMessage /\ [Next]_vars => NoEmptyMessage'
      BY DEF Next, vars, App, Esp, appVars, ioVars, AcceptFails, AcceptCancelled,
             Accept, ReadCompletes, ReadFails, ReadEnds, WriteCompletes,
             WriteHandled, Frame, Stop, RequestStop, NetworkBreaks, NoEmptyMessage
<1> QED
    BY <1>1, <1>2, PTL DEF Spec

(* The TCP stream is read to its end: no handler forgets the next read.    *)
ReadsToTheEnd ==
    connected /\ phase = "running" /\ ~EndOfStream => Desktop!ReadingOrRead = 1

(* With this peer as with any other there is one read, a click finds its   *)
(* stream, and commands do not overlap; and as TCP has no empty messages,  *)
(* there is no gap in the chain of reads before the stream's end           *)
(* (runAppLoop, processIOResults, the read handlers).                      *)
THEOREM DesktopStaysSafe ==
    Spec => /\ [](Desktop!OneReadInFlight /\ ReadsToTheEnd)
            /\ []Desktop!ClickIsSendable
            /\ Desktop!CommandsDoNotOverlap
<1>1. Desktop!ReadChainUnbroken /\ NoEmptyMessage => ReadsToTheEnd
      BY DEF Desktop!ReadChainUnbroken, Desktop!EndOfStream, EndOfStream,
             NoEmptyMessage, ReadsToTheEnd
<1> QED
    BY <1>1, StreamsHaveNoMessages, IsDesktop, DesktopAssumptions, Desktop!NeverTwoReads,
       Desktop!KeepsReading, Desktop!NeverSendsOnNull, Desktop!OneCommandAtATime, PTL
    DEF ImplementsDesktop
=============================================================================
