----------------------------- MODULE EspTcpApp -----------------------------
(***************************************************************************)
(* The ESP32's TCP variant: tcpAppStart (esp32_cam/main/main.cpp) and the  *)
(* TcpClient it uses (esp32_cam/main/tcp_client.cpp).  One task that reads *)
(* a command, answers "received", and starts over until an operation on    *)
(* the socket fails; it then takes a semaphore that this variant of the    *)
(* program never creates, and the chip resets.                             *)
(***************************************************************************)
EXTENDS Link

CONSTANT
    Segments      \* TRUE: TCP may deliver a command in several pieces

ASSUME SegmentsAssumption == Segments \in BOOLEAN

VARIABLES
    espPc,        \* the call of tcpAppStart that comes next
    espSock,      \* TcpClient's sock_
    streamPos,    \* position in a command of the next byte of the stream
    terminated    \* buffer.data()[buffer.size()] is still NUL

espVars == <<espPc, espSock, streamPos, terminated>>

EspTypeOK ==
    /\ espPc \in {"connectToServer", "receiveData", "sendData", "xSemaphoreTake"}
    /\ espSock \in {
         "none",       \* -1
         "linked",     \* the connection of module Link
         "orphan" }    \* a later one, which the desktop never accepts
    /\ streamPos \in 0..(CommandLen - 1)
    /\ terminated \in BOOLEAN

EspBoots ==
    /\ espPc' = "connectToServer"
    /\ espSock' = "none"
    /\ streamPos' = 0
    /\ terminated' = TRUE

EspInit ==
    /\ espPc = "connectToServer"
    /\ espSock = "none"
    /\ streamPos = 0
    /\ terminated = TRUE

(* connectToServer, whose result tcpAppStart ignores: whatever happened,   *)
(* receiveData is next.  listening says that the desktop's port is open.   *)
connectToServer(listening) ==
    /\ espPc = "connectToServer"
    /\ espPc' = "receiveData"
    /\ \/ espSock' = "none" /\ UNCHANGED link
       \/ listening /\ link = "none" /\ espSock' = "linked" /\ link' = "pending"
       \/ listening /\ link # "none" /\ espSock' = "orphan" /\ UNCHANGED link
    /\ UNCHANGED <<streamPos, terminated, toEsp, toDesk>>

-----------------------------------------------------------------------------
(* receiveData asks recv for size() + 1 bytes, which is one command with   *)
(* its NUL; only a negative result is an error.                            *)

Smaller(a, b) == IF a < b THEN a ELSE b

(* Broken variants: the byte after the string is overwritten with one that *)
(* is not NUL; the command is read but not answered.                       *)
receiveOverTerminator ==
    /\ espPc = "receiveData"
    /\ espSock = "linked"
    /\ toEsp > 0
    /\ \E n \in 1..Smaller(toEsp, CommandLen) :
          /\ toEsp' = toEsp - n
          /\ streamPos' = (streamPos + n) % CommandLen
          /\ terminated' = (terminated /\ n < CommandLen)
    /\ espPc' = "sendData"
    /\ UNCHANGED <<espSock, link, toDesk>>

receiveWithoutReply ==
    /\ espPc = "receiveData"
    /\ espSock = "linked"
    /\ toEsp >= CommandLen
    /\ toEsp' = toEsp - CommandLen
    /\ UNCHANGED <<espVars, link, toDesk>>

(* Some bytes are there.  Only a recv that fills the buffer reaches the    *)
(* byte after the string, which keeps its NUL if the last byte of a        *)
(* command falls on it.                                                    *)
receiveBytes ==
    /\ espPc = "receiveData"
    /\ espSock = "linked"
    /\ toEsp > 0
    /\ \E n \in 1..Smaller(toEsp, CommandLen) :
          /\ Segments \/ n = Smaller(toEsp, CommandLen)
          /\ toEsp' = toEsp - n
          /\ streamPos' = (streamPos + n) % CommandLen
          /\ terminated' = IF n = CommandLen THEN streamPos = 0 ELSE terminated
    /\ espPc' = "sendData"
    /\ UNCHANGED <<espSock, link, toDesk>>

(* recv returns 0 at the end of the stream: no error for receiveData.      *)
receiveEndOfStream ==
    /\ espPc = "receiveData"
    /\ espSock = "linked"
    /\ toEsp = 0
    /\ link = "closed"
    /\ espPc' = "sendData"
    /\ UNCHANGED <<espSock, streamPos, terminated, linkVars>>

(* There is no socket, or recv fails: the connection was reset, by the     *)
(* desktop's end or with the listening port it was queued on.              *)
receiveFails(listening) ==
    /\ espPc = "receiveData"
    /\ \/ espSock = "none"
       \/ espSock = "linked" /\ link = "closed"
       \/ espSock = "orphan" /\ ~listening
    /\ espPc' = "xSemaphoreTake"
    /\ UNCHANGED <<espSock, streamPos, terminated, linkVars>>

receiveData(listening) ==
    receiveBytes \/ receiveEndOfStream \/ receiveFails(listening)

-----------------------------------------------------------------------------
(* sendData of the reply.  What is sent on a broken link goes nowhere,     *)
(* with an error or without.                                               *)
sendData ==
    /\ espPc = "sendData"
    /\ \/ espPc' = "receiveData"
       \/ espPc' = "xSemaphoreTake" /\ link = "closed"
    /\ toDesk' = IF link \in {"pending", "open"} THEN toDesk + ReplyLen ELSE toDesk
    /\ UNCHANGED <<espSock, streamPos, terminated, link, toEsp>>

(* The chip resets: no FIN is sent, and what it had not read is gone.      *)
EspResets ==
    /\ EspBoots
    /\ link' = IF link \in {"pending", "open"} THEN "lost" ELSE link
    /\ toEsp' = 0
    /\ UNCHANGED toDesk

(* xSemaphoreTake on the null shutdownSema: the assertion in it fails.     *)
takeNullSemaphore == espPc = "xSemaphoreTake" /\ EspResets

(* Power loss, at any time.                                                *)
EspPowerCycles == EspResets

espStep(listening) ==
    \/ connectToServer(listening)
    \/ receiveData(listening)
    \/ sendData
    \/ takeNullSemaphore
=============================================================================
