---------------------------- MODULE DesktopOpen ----------------------------
(***************************************************************************)
(* The desktop application with an arbitrary peer: anything may connect to *)
(* the port, read or not, send any amount of data at any time, and go away.*)
(* What holds here holds whatever runs on the other end: that both         *)
(* programs of the ESP32 are among these peers is proved in                *)
(* TeleopTcpProofs and TeleopWsProofs.                                     *)
(***************************************************************************)
EXTENDS DesktopApp

CONSTANT MaxReplies   \* bound on what the peer sends, in whole replies

ASSUME MaxRepliesAssumption == MaxReplies \in Nat

vars == <<appVars, linkVars>>

PeerConnects ==
    /\ link = "none"
    /\ acceptor = "listening"
    /\ link' = "pending"
    /\ UNCHANGED <<appVars, toEsp, toDesk>>

(* It reads some of what was sent to it, or loses it when it restarts.     *)
PeerReads ==
    /\ toEsp > 0
    /\ toEsp' \in 0..(toEsp - 1)
    /\ UNCHANGED <<appVars, link, toDesk>>

(* It sends up to a whole reply, for all or part of what it reads in the   *)
(* same step or for nothing, and maybe before the accept.                  *)
PeerSends ==
    /\ link \in {"pending", "open"}
    /\ toEsp' \in 0..toEsp
    /\ toDesk' \in (toDesk + 1)..(toDesk + ReplyLen)
    /\ toDesk' + (latencies + ioResults["MSG_RECEIVED"]) * ReplyLen
          <= MaxReplies * ReplyLen
    /\ UNCHANGED <<appVars, link>>

(* It goes away, noticeably or silently; what is on the way may be lost.   *)
PeerLeaves ==
    /\ \/ link \in {"pending", "open"} /\ link' \in {"closed", "lost"}
       \/ link = "lost" /\ link' = "closed"
    /\ toEsp' \in 0..toEsp
    /\ toDesk' \in 0..toDesk
    /\ UNCHANGED appVars

Init == AppInit /\ LinkInit

Next ==
    \/ AcceptFails
    \/ AcceptCancelled
    \/ Accept
    \/ HandshakeDone
    \/ HandshakeFails
    \/ ReadCompletes
    \/ ReadFails
    \/ ReadEmptyMessage
    \/ WriteCompletes
    \/ WriteHandled
    \/ Frame
    \/ Stop
    \/ RequestStop
    \/ PeerConnects
    \/ PeerReads
    \/ PeerSends
    \/ PeerLeaves

Spec == Init /\ [][Next]_vars /\ AppFairness

-----------------------------------------------------------------------------
TypeOK == AppTypeOK /\ LinkTypeOK

(* Reads in flight and results that will start one.                        *)
ReadingOrRead == reads + ioResults["CONNECTED"] + ioResults["MSG_RECEIVED"]

(* The application never has two reads on one socket, nor a result that    *)
(* will start a second one: overlapping reads would tear the one buffer    *)
(* they share (processIOResults, wsAsyncRead, tcpAsyncRead).               *)
OneReadInFlight == ReadingOrRead <= 1

(* A connected application always has a read in flight or a result that    *)
(* starts the next one, so that no reply goes unnoticed (every branch of   *)
(* the read handlers and of processIOResults).  It stops reading in two    *)
(* cases only: the stream has come to its end, with no whole reply left on *)
(* it; or, over a WebSocket, an empty message was read, after which the    *)
(* handler starts no read although the connection is open.                 *)
ReadChainUnbroken ==
    connected /\ phase = "running" /\ ~EndOfStream /\ readEnded # "empty" =>
        ReadingOrRead = 1

(* A click that waits for the next frame has a stream to be sent on and no *)
(* command before it, whatever handlers run between render and             *)
(* processUiEvents: handleSendButtonClick never dereferences null.         *)
ClickIsSendable == uiEvents > 0 => connected /\ ~isSendingBlinkCommand

(* Which part of the program's life each part of its state belongs to: why *)
(* the safety invariants above are inductive.  There is no read, result or *)
(* click before there is a connection, the connection is made once, and a  *)
(* read chain that ended is not resumed (the accept handlers,              *)
(* processIOResults, render).                                              *)
LifeCycle ==
    /\ acceptor = "listening" => ReadingOrRead = 0 /\ ~connected
    /\ phase = "handshake" => /\ acceptor = "closed"
                              /\ ReadingOrRead = 0
                              /\ ~connected
    /\ ~connected => reads = 0 /\ ioResults["MSG_RECEIVED"] = 0
    /\ connected => ioResults["CONNECTED"] = 0
    /\ readEnded # "no" => ReadingOrRead = 0 /\ connected
    /\ commands + uiEvents <= MaxClicks

(* A command is never issued while the reply to the one before is awaited, *)
(* although the button is tested in one frame and the command is issued in *)
(* the next (render, processUiEvents).                                     *)
CommandsDoNotOverlap ==
    [][commands' # commands =>
          commands' = commands + 1 /\ ~isSendingBlinkCommand]_vars

(* A request to stop, by the flag or by the window, ends the application   *)
(* whatever the peer does.  It holds for CUSTOM_TCP, where no handler       *)
(* blocks the io thread, and runAppLoop, the only code that looks at the   *)
(* requests, comes round again.                                            *)
StopHonoured ==
    connType = "CUSTOM_TCP" /\ (stopFlag \/ windowShouldClose) ~> phase = "exited"

(* What the comment in the WebSocket accept handler expects: the handshake *)
(* blocks the io thread, but not for ever.                                 *)
HandshakeEnds == phase = "handshake" ~> phase # "handshake"
=============================================================================
