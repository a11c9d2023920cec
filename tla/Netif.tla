------------------------------- MODULE Netif -------------------------------
(***************************************************************************)
(* What the start-up of a network interface promises, without its tasks:   *)
(* it is asked to connect, it succeeds only when every address it waits    *)
(* for has come, it may fail or never return, and it can be shut down.     *)
(***************************************************************************)
VARIABLES
    state,       \* "down", "connecting", "up" or "failed"
    needed,      \* the addresses that connecting waits for
    addresses    \* those that have come since it was asked to connect

vars == <<state, needed, addresses>>

Init == state = "down" /\ addresses = {}

Connect == /\ state = "down"
           /\ state' \in {"connecting", "failed"}
           /\ addresses' = {}

GetAddress == /\ state # "down"
              /\ \E a \in needed : addresses' = addresses \cup {a}
              /\ UNCHANGED state

Succeed == /\ state = "connecting"
           /\ needed \subseteq addresses
           /\ state' = "up"
           /\ UNCHANGED addresses

Fail == /\ state = "connecting"
        /\ state' = "failed"
        /\ UNCHANGED addresses

Shutdown == /\ state = "up"
            /\ state' = "down"
            /\ addresses' = {}

(* The chip starts again.                                                  *)
Reset == state' = "down" /\ addresses' = {}

Next ==
    /\ Connect \/ GetAddress \/ Succeed \/ Fail \/ Shutdown \/ Reset
    /\ UNCHANGED needed

Spec == Init /\ [][Next]_vars
=============================================================================
