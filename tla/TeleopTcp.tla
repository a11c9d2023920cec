----------------------------- MODULE TeleopTcp -----------------------------
(***************************************************************************)
(* The TCP benchmark: the desktop application and the ESP32's TCP variant  *)
(* on one connection, with resets of the ESP32 and failures of the network.*)
(* It is to implement BlinkBenchmark, with commands and latencies for sent *)
(* and answered.                                                           *)
(***************************************************************************)
EXTENDS DesktopApp, EspTcpApp

ASSUME TcpAssumption == ConnTypes = {"CUSTOM_TCP"}

vars == <<appVars, espVars, linkVars>>

Listening == acceptor = "listening"

App(A) == A /\ UNCHANGED espVars
Esp(A) == A /\ UNCHANGED appVars

NetworkBreaks ==
    /\ \E to \in {"closed", "lost"} : LinkBreaks(to)
    /\ UNCHANGED <<appVars, espVars>>

Init == AppInit /\ EspInit /\ LinkInit

Next ==
    \/ App(AcceptFails)
    \/ App(AcceptCancelled)
    \/ App(Accept)
    \/ App(ReadCompletes)
    \/ App(ReadFails)
    \/ App(WriteCompletes)
    \/ App(WriteHandled)
    \/ App(Frame)
    \/ App(Stop)
    \/ App(RequestStop)
    \/ Esp(connectToServer(Listening))
    \/ Esp(receiveBytes)
    \/ Esp(receiveEndOfStream)
    \/ Esp(receiveFails(Listening))
    \/ Esp(sendData)
    \/ Esp(takeNullSemaphore)
    \/ Esp(EspPowerCycles)
    \/ NetworkBreaks

(* The desktop's handlers as in DesktopApp, and the ESP32's only task,     *)
(* which runs whenever its blocking call can return.                       *)
Spec == /\ Init
        /\ [][Next]_vars
        /\ AppFairness
        /\ WF_vars(Esp(espStep(Listening)))

-----------------------------------------------------------------------------
TypeOK == AppTypeOK /\ EspTypeOK /\ LinkTypeOK

LinkUp == link \in {"none", "pending", "open"}

Working == LinkUp /\ phase = "running" /\ ~stopFlag /\ ~windowShouldClose

Benchmark == INSTANCE BlinkBenchmark
    WITH sent <- commands, answered <- latencies, working <- Working

(* Every latency is the latency of the one command that was outstanding,   *)
(* and while the system works every command gets one (all of both loops).  *)
ImplementsBenchmark == Benchmark!Spec

(* Where a round trip can be: with the write, on the way to the ESP32, in  *)
(* its hands, on the way back, or read and not yet processed.              *)
OnTheWay == writes * CommandLen * ReplyLen
          + toEsp * ReplyLen
          + (IF espPc = "sendData" THEN CommandLen * ReplyLen ELSE 0)
          + toDesk * CommandLen
          + ioResults["MSG_RECEIVED"] * CommandLen * ReplyLen

(* A round trip is never duplicated, and never lost while the link is up:  *)
(* the command is in exactly one place from handleSendButtonClick to the   *)
(* assignment of blinkLatency.                                             *)
RoundTripConserved ==
    LinkUp => OnTheWay = (commands - latencies) * CommandLen * ReplyLen

(* The button is disabled exactly while a command is unanswered, in every  *)
(* failure of the link as well (handleSendButtonClick, processIOResults).  *)
DisabledWhileAwaiting == isSendingBlinkCommand <=> commands = latencies + 1

(* The desktop never has two async_writes on one stream, which asio        *)
(* forbids: although nothing waits for the write handler, no second        *)
(* command is issued before it has run, because the reply that allows it   *)
(* is handled later (handleSendButtonClick).                               *)
OneWriteInFlight == writes + written <= 1

(* recv is given one byte more than the string has; the byte it may write  *)
(* there is always the NUL of a command, so that buffer.c_str() ends       *)
(* (receiveData's caller must size the string correctly).                  *)
BufferTerminated == terminated
=============================================================================
