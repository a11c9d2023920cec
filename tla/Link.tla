-------------------------------- MODULE Link --------------------------------
(***************************************************************************)
(* The one connection between the desktop application and the ESP32, as    *)
(* both programs see it through their socket libraries.  The desktop's     *)
(* acceptor is closed by the first accepted connection, so there is never  *)
(* a second one to model.                                                  *)
(*                                                                         *)
(* The two streams are counted, not spelled out: every command is the same *)
(* CommandLen bytes and every reply the same ReplyLen bytes.  Over a       *)
(* WebSocket, which keeps message boundaries, both lengths are 1 and the   *)
(* units are whole messages.                                               *)
(***************************************************************************)
EXTENDS Naturals

CONSTANTS
    CommandLen,   \* units of "button clicked\n": what one async_write sends
    ReplyLen      \* units of "received": what one async_read waits for

ASSUME LengthsAssumption == /\ CommandLen \in Nat \ {0}
                            /\ ReplyLen \in Nat \ {0}

VARIABLES
    link,         \* state of the connection, see LinkStates
    toEsp,        \* units the desktop has sent and the ESP32 has not read
    toDesk        \* units the ESP32 has sent and the desktop has not read

linkVars == <<link, toEsp, toDesk>>

LinkStates == {
    "none",       \* nobody has connected yet
    "pending",    \* connected by the peer's kernel, waiting in the backlog
    "open",       \* accepted by the desktop
    "closed",     \* one end is closed or reset, and the other end can tell
    "lost" }      \* the ESP32 is unreachable and the desktop has no way to tell

LinkTypeOK == /\ link \in LinkStates
              /\ toEsp \in Nat
              /\ toDesk \in Nat

LinkInit == /\ link = "none"
            /\ toEsp = 0
            /\ toDesk = 0

(* The other end goes away noticeably (FIN or RST) or silently (power or   *)
(* radio lost).  What it had sent but was still on the way may be lost.    *)
LinkBreaks(to) ==
    /\ \/ link \in {"pending", "open"} /\ to \in {"closed", "lost"}
       \/ link = "lost" /\ to = "closed"
    /\ link' = to
    /\ toEsp' = 0
    /\ toDesk' \in 0..toDesk
=============================================================================
